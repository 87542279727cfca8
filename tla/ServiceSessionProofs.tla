-------------------------- MODULE ServiceSessionProofs --------------------------
(***************************************************************************)
(* A loaded service and its transactions, for any number of transactions,  *)
(* answers and callbacks, and arguments of any depth: results come back as *)
(* they were meant, callbacks with their transaction, and what holds of    *)
(* the descriptions holds while methods run.                               *)
(***************************************************************************)
EXTENDS ServiceSession, ServiceDefinitionProofs, DataMappingProofs

-----------------------------------------------------------------------------
(* The inductive invariant.                                                *)

(* What reaches ruby::invoke: a map, or nothing.                           *)
Given == {AsMap(o) : o \in Arguments}

(* A transaction has the converted arguments of its own, or none yet.      *)
HasItsArguments(t) ==
  \/ given[t] = Pending /\ args[t] = Pending
  \/ given[t] \in Given /\ args[t] = ToRuby(given[t], t)

(* An error, or results that come back as they were meant.                 *)
IsFaithful(answer) ==
  /\ answer.kind \in {"results", "error"}
  /\ answer.kind = "results" => Echoes(answer.meant, answer.object)

IsSequence(s) == s \in Seq({s[i] : i \in DOMAIN s})

AreFaithful(answers) ==
  /\ IsSequence(answers)
  /\ \A i \in 1 .. Len(answers) : IsFaithful(answers[i])

CallsAreFaithful == \A c \in calls : Echoes(c.meant, c.object)

SessionInvariant ==
  /\ running \in Tids \union {NoTid}
  /\ crashed \in BOOLEAN
  /\ DOMAIN given = Tids /\ DOMAIN args = Tids /\ DOMAIN posted = Tids
  /\ \A t \in Tids : HasItsArguments(t)
  /\ \A t \in Tids : AreFaithful(posted[t])
  /\ CallsAreFaithful
  /\ CallbacksFindTheirTransaction

-----------------------------------------------------------------------------
(* The parts of the definition are untouched by what a session adds.       *)

LEMMA StepIsDefinition == [Next]_vars => [DefinitionNext]_definitionVars
<1> SUFFICES ASSUME [Next]_vars PROVE [DefinitionNext]_definitionVars
  OBVIOUS
<1> USE DEF Complete, TransError, Return, Raise, InvokeCallback, Invoke
<1>1. CASE UNCHANGED vars
  BY <1>1 DEF vars
<1>2. CASE LoadStep
  BY <1>2 DEF LoadStep
<1>3. CASE Next /\ ~LoadStep
  <2>1. UNCHANGED definitionVars
    BY <1>3 DEF Next
  <2> QED
    BY <2>1
<1> QED
  BY <1>1, <1>2, <1>3

(* A session is a behavior of the definition's component: BPPInvoke, the   *)
(* answers and the callbacks write nothing that the description depends on. *)
THEOREM SessionIsDefinition == Spec => DefinitionSpec
<1>1. Init => DefinitionInit
  BY DEF Init
<1> QED
  BY <1>1, StepIsDefinition, PTL DEF Spec, DefinitionSpec

(* So all that is proved of the descriptions holds while methods run.      *)
THEOREM DescriptionsInSessions ==
  Spec => [](/\ DescriptionMatchesDocs /\ ArgumentsAreListed
             /\ BadScriptsAreRefused /\ OneEntryPoint /\ DefinitionsStayValid)
BY SessionIsDefinition, HostIsToldWhatWasSaid, HostIsToldTheArguments, HostIsSpared,
   OneClassIsDocumented, DefinitionsLive, PTL

-----------------------------------------------------------------------------
(* Sequences.                                                              *)

LEMMA AppendSequence ==
  ASSUME NEW s, IsSequence(s), NEW x
  PROVE  /\ IsSequence(Append(s, x))
         /\ Len(s) \in Nat /\ Len(Append(s, x)) = Len(s) + 1
         /\ \A i \in 1 .. Len(s) : Append(s, x)[i] = s[i]
         /\ Append(s, x)[Len(s) + 1] = x
<1> DEFINE S == {s[i] : i \in DOMAIN s} \union {x}
           r == Append(s, x)
<1>1. s \in Seq(S)
  BY SeqMonotonic DEF IsSequence
<1> HIDE DEF S
<1>2. x \in S
  BY DEF S
<1>3. /\ r \in Seq(S) /\ Len(s) \in Nat /\ Len(r) = Len(s) + 1
      /\ \A i \in 1 .. Len(s) : r[i] = s[i]
      /\ r[Len(s) + 1] = x
  BY <1>1, <1>2, AppendProperties
<1>4. r \in [1 .. Len(r) -> S] /\ Len(r) \in Nat
  BY <1>3, LenProperties
<1> HIDE DEF r
<1>5. r \in [1 .. Len(r) -> {r[i] : i \in DOMAIN r}]
  BY <1>4
<1>6. IsSequence(r)
  BY <1>4, <1>5, SeqDef DEF IsSequence
<1> QED
  BY <1>3, <1>6 DEF r

LEMMA EmptySequence == IsSequence(<<>>) /\ Len(<<>>) = 0
BY EmptySeq DEF IsSequence

LEMMA AppendFaithful ==
  ASSUME NEW s, AreFaithful(s), NEW answer, IsFaithful(answer)
  PROVE  AreFaithful(Append(s, answer))
<1> DEFINE r == Append(s, answer)
<1>1. /\ IsSequence(r) /\ Len(s) \in Nat /\ Len(r) = Len(s) + 1
      /\ \A i \in 1 .. Len(s) : r[i] = s[i]
      /\ r[Len(s) + 1] = answer
  BY AppendSequence DEF AreFaithful
<1> HIDE DEF r
<1>2. \A i \in 1 .. Len(r) : i \in 1 .. Len(s) \/ i = Len(s) + 1
  BY <1>1
<1>3. \A i \in 1 .. Len(r) : IsFaithful(r[i])
  BY <1>1, <1>2 DEF AreFaithful
<1> QED
  BY <1>1, <1>3 DEF AreFaithful, r

-----------------------------------------------------------------------------
(* What a service passes on.                                               *)

LEMMA NoneAndPending == Kind(NoObject) = "none" /\ Kind(Pending) = "pending"
BY DEF Kind, NoObject, Pending, Leaf

LEMMA GivenIs ==
  ASSUME NEW o \in Given
  PROVE  IsObject(o) /\ IsTree(o) /\ HasObjectNodes(o) /\ Kind(o) \in {"map", "none"}
<1>1. IsObject(NoObject)
  <2>1. DOMAIN NoObject = {<<>>} /\ NoObject[<<>>] = <<"none">>
    BY DEF NoObject, Leaf
  <2>2. <<>> \in Seq(NameKeys \union IndexKeys) /\ <<"none">> \in ObjectNodes
    BY EmptySeq DEF ObjectNodes
  <2> HIDE DEF NoObject
  <2> QED
    BY <2>1, <2>2 DEF IsObject
<1>2. IsObject(o) /\ Kind(o) \in {"map", "none"}
  BY <1>1, SessionAssumption, NoneAndPending DEF Given, AsMap
<1> QED
  BY <1>2, ObjectsAreTrees DEF IsObject, HasObjectNodes

(* The arguments of a method are a hash or nil.                            *)
LEMMA ArgumentsBecome ==
  ASSUME NEW o \in Given, NEW t
  PROVE  Kind(ToRuby(o, t)) \in {"nil", "hash"}
<1>1. <<>> \in DOMAIN o /\ o[<<>>][1] \in {"map", "none"}
  BY GivenIs DEF IsObject, Kind
<1>2. Kind(ToRuby(o, t)) = NodeToRuby(o[<<>>], t)[1]
  BY <1>1 DEF Kind, ToRuby
<1> QED
  BY <1>1, <1>2 DEF NodeToRuby

(* What was converted is passed on as a value, and echoes.                 *)
LEMMA ValueEchoes ==
  ASSUME NEW o, IsTree(o), HasObjectNodes(o), NEW t
  PROVE  Echoes(o, Passed(ToRuby(o, t)))
<1>1. ToRuby(o, t) # NoObject
  BY IsRuby, NoneAndPending
<1>2. Passed(ToRuby(o, t)) = ToObject(ToRuby(o, t))
  BY <1>1 DEF Passed
<1> QED
  BY <1>2, NodesComeBack

LEMMA EchoableEchoes ==
  ASSUME NEW t \in Tids, HasItsArguments(t), Invoked(t), NEW a \in Echoable(t)
  PROVE  Echoes(a.host, Passed(a.value))
<1> DEFINE o == given[t]
           v == args[t]
<1>1. o \in Given /\ v = ToRuby(o, t)
  BY DEF HasItsArguments, Invoked
<1>2. IsTree(o) /\ HasObjectNodes(o)
  BY <1>1, GivenIs
<1>3. ASSUME NEW k \in KeysOf(o)
      PROVE  /\ k \in Keys /\ IsTree(Part(o, k)) /\ HasObjectNodes(Part(o, k))
             /\ Part(v, k) = ToRuby(Part(o, k), t)
  BY <1>1, <1>2, PartIsTree, PartHasObjectNodes, PartToRuby
<1>4. CASE a = [value |-> NoObject, host |-> NoObject]
  <2>1. a.value = NoObject /\ a.host = NoObject
    BY <1>4
  <2>2. NoObject = [p \in {<<>>} |-> <<"none">>]
    BY DEF NoObject, Leaf
  <2>3. DOMAIN NoObject = {<<>>} /\ NoObject[<<>>] = <<"none">>
    BY <2>2
  <2>4. NodeEchoes(<<"none">>, <<"none">>)
    BY DEF NodeEchoes
  <2>5. Echoes(NoObject, NoObject)
    BY <2>3, <2>4 DEF Echoes
  <2> QED
    BY <2>1, <2>5 DEF Passed
<1>5. CASE a = [value |-> v, host |-> o]
  <2>1. a.value = v /\ a.host = o
    BY <1>5
  <2> QED
    BY <1>1, <1>2, <2>1, ValueEchoes
<1>6. ASSUME NEW k \in KeysOf(o), a = [value |-> Part(v, k), host |-> Part(o, k)]
      PROVE  Echoes(a.host, Passed(a.value))
  <2>1. a.value = Part(v, k) /\ a.host = Part(o, k)
    BY <1>6
  <2> QED
    BY <1>3, <2>1, ValueEchoes
<1>7. ASSUME NEW k \in KeysOf(o),
             a = [value |-> Hash(Only(k, Part(v, k))), host |-> Map(Only(k, Part(o, k)))]
      PROVE  Echoes(a.host, Passed(a.value))
  <2> DEFINE part  == Part(o, k)
             parts == Only(k, ToRuby(part, t))
             hash  == Hash(parts)
  <2>1. a.value = hash /\ a.host = Map(Only(k, part))
    BY <1>3, <1>7
  <2>2. Echoes(Map(Only(k, part)), ToObject(hash))
    BY <1>3, HashEchoes
  <2>3. hash[<<>>] = <<"hash", "strings">>
    <3>1. IsForest(parts)
      BY <1>3, ToRubyIsTree DEF IsForest, Only
    <3> HIDE DEF parts
    <3> QED
      BY <3>1, TreeFacts DEF Hash
  <2> HIDE DEF hash
  <2>4. hash # NoObject
    BY <2>3, NoneAndPending DEF Kind
  <2> QED
    BY <2>1, <2>2, <2>4 DEF Passed
<1> HIDE DEF o, v
<1>8. Echoable(t) =
        {[value |-> NoObject, host |-> NoObject], [value |-> v, host |-> o]}
          \union {[value |-> Part(v, k), host |-> Part(o, k)] : k \in KeysOf(o)}
          \union {[value |-> Hash(Only(k, Part(v, k))),
                   host  |-> Map(Only(k, Part(o, k)))] : k \in KeysOf(o)}
  BY DEF Echoable, o, v
<1> QED
  BY <1>4, <1>5, <1>6, <1>7, <1>8

(* A callback in the arguments of t is one that the host passed to t.      *)
LEMMA CallbackIsOfItsTransaction ==
  ASSUME NEW t \in Tids, HasItsArguments(t), Invoked(t), NEW c \in CallbacksIn(args[t])
  PROVE  c.tid = t /\ c.cid \in CallBacksOf(given[t])
<1>1. given[t] \in Given /\ args[t] = ToRuby(given[t], t)
  BY DEF HasItsArguments, Invoked
<1>2. CallbacksIn(args[t]) = {[tid |-> t, cid |-> d] : d \in CallBacksOf(given[t])}
  BY <1>1, GivenIs, CallbacksAreThoseOfTheObject
<1>3. PICK d \in CallBacksOf(given[t]) : c = [tid |-> t, cid |-> d]
  BY <1>2
<1> QED
  BY <1>3

-----------------------------------------------------------------------------
(* Every step keeps the invariant.                                         *)

LEMMA InitSession == Init => SessionInvariant
<1> SUFFICES ASSUME Init PROVE SessionInvariant
  OBVIOUS
<1>1. AreFaithful(<<>>)
  BY EmptySequence DEF AreFaithful
<1>2. \A t \in Tids : AreFaithful(posted[t])
  BY <1>1 DEF Init
<1>3. \A t \in Tids : HasItsArguments(t)
  BY DEF Init, HasItsArguments
<1>4. CallsAreFaithful /\ CallbacksFindTheirTransaction
  BY DEF Init, CallsAreFaithful, CallbacksFindTheirTransaction
<1> QED
  BY <1>2, <1>3, <1>4 DEF Init, SessionInvariant

(* What is kept by a step that leaves arguments, answers and callbacks.    *)
LEMMA RestKeeps ==
  ASSUME SessionInvariant, UNCHANGED <<args, posted, calls, given>>,
         running' \in Tids \union {NoTid}, crashed' \in BOOLEAN
  PROVE  SessionInvariant'
<1>1. \A t \in Tids : HasItsArguments(t)'
  BY DEF SessionInvariant, HasItsArguments
<1>2. \A t \in Tids : AreFaithful(posted[t])'
  BY DEF SessionInvariant
<1>3. CallsAreFaithful'
  BY DEF SessionInvariant, CallsAreFaithful
<1>4. CallbacksFindTheirTransaction'
  BY DEF SessionInvariant, CallbacksFindTheirTransaction, Invoked
<1> QED
  BY <1>1, <1>2, <1>3, <1>4 DEF SessionInvariant

(* A faithful answer keeps the rest.                                       *)
LEMMA PostKeeps ==
  ASSUME SessionInvariant, NEW t \in Tids, NEW answer, IsFaithful(answer),
         Post(t, answer), UNCHANGED <<args, calls, crashed, given>>,
         running' \in Tids \union {NoTid}
  PROVE  SessionInvariant'
<1>1. \A u \in Tids : HasItsArguments(u)'
  BY DEF SessionInvariant, HasItsArguments
<1>2. posted' = [posted EXCEPT ![t] = Append(posted[t], answer)] /\ DOMAIN posted = Tids
  BY DEF Post, SessionInvariant
<1>3. DOMAIN posted' = Tids
  BY <1>2
<1>4. ASSUME NEW u \in Tids
      PROVE  AreFaithful(posted'[u])
  <2>1. AreFaithful(posted[u])
    BY DEF SessionInvariant
  <2>2. CASE u = t
    <3>1. posted'[u] = Append(posted[u], answer)
      BY <1>2, <2>2
    <3> QED
      BY <2>1, <3>1, AppendFaithful
  <2>3. CASE u # t
    <3>1. posted'[u] = posted[u]
      BY <1>2, <2>3
    <3> QED
      BY <2>1, <3>1
  <2> QED
    BY <2>2, <2>3
<1>5. CallsAreFaithful'
  BY DEF SessionInvariant, CallsAreFaithful
<1>6. CallbacksFindTheirTransaction'
  BY DEF SessionInvariant, CallbacksFindTheirTransaction, Invoked
<1> QED
  BY <1>1, <1>3, <1>4, <1>5, <1>6 DEF SessionInvariant

(* BPPInvoke: the arguments are those of a transaction that had none.      *)
LEMMA InvokeStep ==
  ASSUME SessionInvariant, NEW t \in Tids, NEW o \in Arguments, Invoke(t, o)
  PROVE  SessionInvariant'
<1> DEFINE m == AsMap(o)
<1>1. /\ given' = [given EXCEPT ![t] = m] /\ args' = [args EXCEPT ![t] = ToRuby(m, t)]
      /\ DOMAIN given = Tids /\ DOMAIN args = Tids
      /\ ~Invoked(t) /\ running' = t /\ UNCHANGED <<posted, calls, crashed>>
  BY DEF Invoke, SessionInvariant
<1>2. DOMAIN given' = Tids /\ DOMAIN args' = Tids
  BY <1>1
<1>3. ASSUME NEW u \in Tids
      PROVE  HasItsArguments(u)'
  <2>1. CASE u = t
    <3>1. given'[u] = m /\ args'[u] = ToRuby(m, u)
      BY <1>1, <2>1
    <3>2. m \in Given
      BY DEF Given
    <3> QED
      BY <3>1, <3>2 DEF HasItsArguments
  <2>2. CASE u # t
    <3>1. given'[u] = given[u] /\ args'[u] = args[u] /\ HasItsArguments(u)
      BY <1>1, <2>2 DEF SessionInvariant
    <3> QED
      BY <3>1 DEF HasItsArguments
  <2> QED
    BY <2>1, <2>2
<1>4. \A u \in Tids : AreFaithful(posted[u])'
  BY <1>1 DEF SessionInvariant
<1>5. CallsAreFaithful'
  BY <1>1 DEF SessionInvariant, CallsAreFaithful
<1>6. CallbacksFindTheirTransaction'
  <2> SUFFICES ASSUME NEW c \in calls
               PROVE  /\ c.callback.tid \in Tids /\ Invoked(c.callback.tid)'
                      /\ c.callback.cid \in CallBacksOf(given'[c.callback.tid])
    BY <1>1 DEF CallbacksFindTheirTransaction
  <2>1. /\ c.callback.tid \in Tids /\ Invoked(c.callback.tid)
        /\ c.callback.cid \in CallBacksOf(given[c.callback.tid])
    BY DEF SessionInvariant, CallbacksFindTheirTransaction
  <2>2. given'[c.callback.tid] = given[c.callback.tid]
    BY <1>1, <2>1
  <2> QED
    BY <2>1, <2>2 DEF Invoked
<1> QED
  BY <1>1, <1>2, <1>3, <1>4, <1>5, <1>6 DEF SessionInvariant

(* BPTransaction#complete, of any transaction while any method runs.       *)
LEMMA CompleteStep ==
  ASSUME SessionInvariant, NEW t \in Tids, NEW a \in Echoable(t), Complete(t, a)
  PROVE  SessionInvariant'
<1>1. /\ Invoked(t) /\ UNCHANGED <<running, args, given>>
      /\ running \in Tids \union {NoTid}
  BY DEF Complete, SessionInvariant
<1>2. CASE IsConvertible(a.value)
  <2> DEFINE answer == Results(Passed(a.value), a.host)
  <2>1. Post(t, answer) /\ UNCHANGED <<calls, crashed>>
    BY <1>2 DEF Complete
  <2>2. Echoes(a.host, Passed(a.value))
    BY <1>1, EchoableEchoes DEF SessionInvariant
  <2>3. IsFaithful(answer)
    BY <2>2 DEF IsFaithful, Results
  <2> HIDE DEF answer
  <2> QED
    BY <1>1, <2>1, <2>3, PostKeeps
<1>3. CASE ~IsConvertible(a.value)
  <2>1. crashed' = TRUE /\ UNCHANGED <<posted, calls>>
    BY <1>3 DEF Complete, Crash
  <2> QED
    BY <1>1, <2>1, RestKeeps
<1> QED
  BY <1>2, <1>3

LEMMA TransErrorStep ==
  ASSUME SessionInvariant, NEW t \in Tids, NEW error, NEW verbose, TransError(t, error, verbose)
  PROVE  SessionInvariant'
<1> DEFINE answer == Error(IF Kind(error) = "string" THEN error ELSE Text("unknownError"),
                           IF Kind(verbose) = "string" THEN verbose ELSE NoObject)
<1>1. IsFaithful(answer)
  BY DEF IsFaithful, Error
<1>2. Post(t, answer) /\ UNCHANGED <<running, args, calls, crashed, given>>
  BY DEF TransError
<1> HIDE DEF answer
<1>3. running' \in Tids \union {NoTid}
  BY <1>2 DEF SessionInvariant
<1> QED
  BY <1>1, <1>2, <1>3, PostKeeps

(* What a method raises is posted for its own transaction.                 *)
LEMMA RaiseStep ==
  ASSUME SessionInvariant, Raise
  PROVE  SessionInvariant'
<1> DEFINE answer == Error(Text("ruby.evalError"), Text("lastError"))
<1>1. IsFaithful(answer)
  BY DEF IsFaithful, Error
<1>2. running \in Tids /\ running' = NoTid
  BY DEF Raise, SessionInvariant
<1>3. Post(running, answer) /\ UNCHANGED <<args, calls, crashed, given>>
  BY DEF Raise
<1> HIDE DEF answer
<1> QED
  BY <1>1, <1>2, <1>3, PostKeeps

(* BPCallback#invoke, with a callback that the service was given earlier.  *)
LEMMA InvokeCallbackStep ==
  ASSUME SessionInvariant, NEW t \in Tids, Invoked(t), NEW a \in Echoable(t),
         NEW callback \in CallbacksIn(args[t]), InvokeCallback(callback, a)
  PROVE  SessionInvariant'
<1>1. UNCHANGED <<running, args, given>> /\ running \in Tids \union {NoTid}
  BY DEF InvokeCallback, SessionInvariant
<1>2. CASE ~IsConvertible(a.value)
  <2>1. crashed' = TRUE /\ UNCHANGED <<posted, calls>>
    BY <1>2 DEF InvokeCallback, Crash
  <2> QED
    BY <1>1, <2>1, RestKeeps
<1>3. CASE IsConvertible(a.value)
  <2> DEFINE call == [callback |-> callback, object |-> Passed(a.value), meant |-> a.host]
  <2>1. calls' = calls \union {call} /\ UNCHANGED <<posted, crashed>>
    BY <1>3 DEF InvokeCallback
  <2>2. call.callback = callback /\ call.object = Passed(a.value) /\ call.meant = a.host
    OBVIOUS
  <2> HIDE DEF call
  <2>3. HasItsArguments(t) /\ Echoes(a.host, Passed(a.value))
    BY EchoableEchoes DEF SessionInvariant
  <2>4. callback.tid = t /\ callback.cid \in CallBacksOf(given[t])
    BY <2>3, CallbackIsOfItsTransaction
  <2>5. CallsAreFaithful'
    BY <2>1, <2>2, <2>3 DEF SessionInvariant, CallsAreFaithful
  <2>6. CallbacksFindTheirTransaction'
    <3> SUFFICES ASSUME NEW c \in calls \union {call}
                 PROVE  /\ c.callback.tid \in Tids /\ Invoked(c.callback.tid)
                        /\ c.callback.cid \in CallBacksOf(given[c.callback.tid])
      BY <1>1, <2>1 DEF CallbacksFindTheirTransaction, Invoked
    <3>1. CASE c \in calls
      BY <3>1 DEF SessionInvariant, CallbacksFindTheirTransaction
    <3>2. CASE c = call
      BY <2>2, <2>4, <3>2
    <3> QED
      BY <3>1, <3>2
  <2>7. \A u \in Tids : HasItsArguments(u)'
    BY <1>1 DEF SessionInvariant, HasItsArguments
  <2>8. \A u \in Tids : AreFaithful(posted[u])'
    BY <2>1 DEF SessionInvariant
  <2> QED
    BY <1>1, <2>1, <2>5, <2>6, <2>7, <2>8 DEF SessionInvariant
<1> QED
  BY <1>2, <1>3

LEMMA StepSession == SessionInvariant /\ [Next]_vars => SessionInvariant'
<1> SUFFICES ASSUME SessionInvariant, [Next]_vars PROVE SessionInvariant'
  OBVIOUS
<1>0. running \in Tids \union {NoTid} /\ crashed \in BOOLEAN
  BY DEF SessionInvariant
<1>1. CASE UNCHANGED vars \/ LoadStep
  <2>1. UNCHANGED sessionVars
    BY <1>1 DEF vars, LoadStep
  <2> QED
    BY <1>0, <2>1, RestKeeps DEF sessionVars
<1>2. CASE Return
  <2>1. running' = NoTid /\ UNCHANGED <<args, posted, calls, crashed, given>>
    BY <1>2 DEF Return
  <2> QED
    BY <1>0, <2>1, RestKeeps
<1>3. CASE Raise
  BY <1>3, RaiseStep
<1>4. ASSUME NEW t \in Tids, NEW o \in Arguments, Invoke(t, o)
      PROVE  SessionInvariant'
  BY <1>4, InvokeStep
<1>5. ASSUME NEW t \in Tids, NEW a \in Echoable(t), Complete(t, a)
      PROVE  SessionInvariant'
  BY <1>5, CompleteStep
<1>6. ASSUME NEW t \in Tids, Invoked(t), NEW a \in Echoable(t),
             NEW callback \in CallbacksIn(args[t]), InvokeCallback(callback, a)
      PROVE  SessionInvariant'
  BY <1>6, InvokeCallbackStep
<1>7. ASSUME NEW t \in Tids, NEW error, NEW verbose, TransError(t, error, verbose)
      PROVE  SessionInvariant'
  BY <1>7, TransErrorStep
<1> QED
  BY <1>1, <1>2, <1>3, <1>4, <1>5, <1>6, <1>7 DEF Next

(* Results, callbacks and arguments agree with their histories.            *)
THEOREM SessionHolds == Spec => []SessionInvariant
BY InitSession, StepSession, PTL DEF Spec

-----------------------------------------------------------------------------
(* What follows.                                                           *)

LEMMA SequenceDomain ==
  ASSUME NEW s, IsSequence(s)
  PROVE  DOMAIN s = 1 .. Len(s)
BY LenProperties DEF IsSequence

(* The variables have their types: a method is given a hash or nil.        *)
THEOREM SessionTypeCorrect == Spec => []TypeOK
<1>1. SessionInvariant /\ DefinitionTypeOK => TypeOK
  <2> SUFFICES ASSUME SessionInvariant, DefinitionTypeOK PROVE TypeOK
    OBVIOUS
  <2>1. \A t \in Tids : args[t] # Pending => Kind(args[t]) \in {"nil", "hash"}
    BY ArgumentsBecome DEF SessionInvariant, HasItsArguments
  <2>2. ASSUME NEW t \in Tids, NEW i \in DOMAIN posted[t]
        PROVE  posted[t][i].kind \in {"results", "error"}
    <3>1. AreFaithful(posted[t])
      BY DEF SessionInvariant
    <3>2. i \in 1 .. Len(posted[t])
      BY <2>2, <3>1, SequenceDomain DEF AreFaithful
    <3> QED
      BY <3>1, <3>2 DEF AreFaithful, IsFaithful
  <2> QED
    BY <2>1, <2>2 DEF SessionInvariant, TypeOK
<1> QED
  BY <1>1, SessionHolds, SessionIsDefinition, DefinitionTypeCorrect, PTL

(* bp::Object to VALUE to bp::Object: what a service passes on unchanged,  *)
(* whole or in part, in results or to a callback, comes back to the host   *)
(* as it was; a callback and a number that is negative or too big for a    *)
(* Fixnum come back as null, a path as one to the same file                *)
(* (BPTransaction#complete, BPCallback#invoke).                            *)
THEOREM AnswersFaithful == Spec => []AnswersAreFaithful
<1>1. SessionInvariant => AnswersAreFaithful
  <2> SUFFICES ASSUME SessionInvariant PROVE AnswersAreFaithful
    OBVIOUS
  <2>1. ASSUME NEW t \in Tids, NEW i \in DOMAIN posted[t], posted[t][i].kind = "results"
        PROVE  Echoes(posted[t][i].meant, posted[t][i].object)
    <3>1. AreFaithful(posted[t])
      BY DEF SessionInvariant
    <3>2. i \in 1 .. Len(posted[t])
      BY <2>1, <3>1, SequenceDomain DEF AreFaithful
    <3> QED
      BY <2>1, <3>1, <3>2 DEF AreFaithful, IsFaithful
  <2> QED
    BY <2>1 DEF SessionInvariant, CallsAreFaithful, AnswersAreFaithful
<1> QED
  BY <1>1, SessionHolds, PTL

(* A callback reaches the host with the transaction in whose arguments the *)
(* host passed it, however deep it was in them and however late it is      *)
(* invoked (BPCallback.new in bpObjectToRuby).                             *)
THEOREM CallbacksArrive == Spec => []CallbacksFindTheirTransaction
<1>1. SessionInvariant => CallbacksFindTheirTransaction
  BY DEF SessionInvariant
<1> QED
  BY <1>1, SessionHolds, PTL

-----------------------------------------------------------------------------
(* Where a conversion has no outcome.                                      *)

(* The host passed t a map with an entry.                                  *)
WasGivenEntries(t) ==
  /\ Invoked(t)
  /\ \E p \in DOMAIN given[t] \ {<<>>} : given[t][Front(p)] = <<"map">>

CrashIsOfAMap == crashed => \E t \in Tids : WasGivenEntries(t)

LEMMA CrashedByEntries ==
  ASSUME NEW t \in Tids, HasItsArguments(t), Invoked(t), NEW a \in Echoable(t),
         ~IsConvertible(a.value)
  PROVE  WasGivenEntries(t)
<1> DEFINE o == given[t]
           v == args[t]
<1>1. o \in Given /\ v = ToRuby(o, t)
  BY DEF HasItsArguments, Invoked
<1>2. IsObject(o) /\ IsTree(v) /\ IsClosed(v) /\ KeysOf(o) = KeysOf(v)
  <2>1. IsObject(o) /\ IsTree(o)
    BY <1>1, GivenIs
  <2>2. IsClosed(o)
    BY <2>1 DEF IsObject, IsClosed
  <2>3. IsClosed(v)
    BY <1>1, <2>2 DEF IsClosed, ToRuby
  <2> QED
    BY <1>1, <2>1, <2>3, ToRubyIsTree
<1>3. SUFFICES ASSUME IsConvertible(v) PROVE FALSE
  BY <1>1, <1>2, EntriesHaveNoWayBack DEF WasGivenEntries
<1>4. ASSUME NEW k \in KeysOf(o)
      PROVE  IsConvertible(Part(v, k)) /\ IsConvertible(Hash(Only(k, Part(v, k))))
  <2>1. k \in Keys /\ IsTree(Part(v, k))
    BY <1>2, PartIsTree
  <2>2. IsConvertible(Part(v, k)) /\ IsClosed(Part(v, k))
    BY <1>2, <1>3, <2>1, PartConverts, ClosedPart
  <2> QED
    BY <2>1, <2>2, HashConverts
<1>5. IsConvertible(NoObject)
  BY DEF IsConvertible, NoObject, Leaf
<1> HIDE DEF o, v
<1>6. Echoable(t) =
        {[value |-> NoObject, host |-> NoObject], [value |-> v, host |-> o]}
          \union {[value |-> Part(v, k), host |-> Part(o, k)] : k \in KeysOf(o)}
          \union {[value |-> Hash(Only(k, Part(v, k))),
                   host  |-> Map(Only(k, Part(o, k)))] : k \in KeysOf(o)}
  BY DEF Echoable, o, v
<1>7. IsConvertible(a.value)
  BY <1>3, <1>4, <1>5, <1>6
<1> QED
  BY <1>7

(* What the host passed stays as it was.                                   *)
LEMMA EntriesStay ==
  ASSUME SessionInvariant, [Next]_vars, NEW t \in Tids, WasGivenEntries(t)
  PROVE  WasGivenEntries(t)'
<1>1. given'[t] = given[t]
  <2>1. DOMAIN given = Tids /\ Invoked(t)
    BY DEF SessionInvariant, WasGivenEntries
  <2>2. ASSUME NEW u \in Tids, NEW o \in Arguments, Invoke(u, o)
        PROVE  given'[t] = given[t]
    BY <2>1, <2>2 DEF Invoke
  <2>3. CASE UNCHANGED given
    BY <2>3
  <2> QED
    BY <2>2, <2>3 DEF Next, vars, LoadStep, sessionVars, Return, Raise, Complete, TransError,
       InvokeCallback
<1> QED
  BY <1>1 DEF WasGivenEntries, Invoked

(* hashPopulator reads a key that is no string (DataMapping.cpp:44) only   *)
(* in what the host had put into a map: a service that passes on what it   *)
(* was given, or a part of it, is safe as long as no map in it has entries. *)
THEOREM CrashesAreOfMaps == Spec => []CrashIsOfAMap
<1>1. Init => CrashIsOfAMap
  BY DEF Init, CrashIsOfAMap
<1>2. ASSUME SessionInvariant, CrashIsOfAMap, [Next]_vars
      PROVE  CrashIsOfAMap'
  <2>1. ASSUME NEW t \in Tids, Invoked(t), NEW a \in Echoable(t), ~IsConvertible(a.value)
        PROVE  CrashIsOfAMap'
    <3>1. WasGivenEntries(t)
      BY <1>2, <2>1, CrashedByEntries DEF SessionInvariant
    <3> QED
      BY <1>2, <3>1, EntriesStay DEF CrashIsOfAMap
  <2>2. CASE UNCHANGED crashed
    BY <1>2, <2>2, EntriesStay DEF CrashIsOfAMap
  <2>3. ASSUME NEW t \in Tids, NEW a \in Echoable(t), Complete(t, a)
        PROVE  CrashIsOfAMap'
    BY <2>1, <2>2, <2>3 DEF Complete
  <2>4. ASSUME NEW t \in Tids, Invoked(t), NEW a \in Echoable(t),
               NEW callback, InvokeCallback(callback, a)
        PROVE  CrashIsOfAMap'
    BY <2>1, <2>2, <2>4 DEF InvokeCallback
  <2> QED
    BY <1>2, <2>2, <2>3, <2>4
    DEF Next, vars, LoadStep, sessionVars, Return, Raise, Invoke, TransError
<1> QED
  BY <1>1, <1>2, SessionHolds, PTL DEF Spec
=============================================================================
