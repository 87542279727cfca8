---------------------------- MODULE ServiceSession ----------------------------
(***************************************************************************)
(* A service that has been loaded (ServiceDefinition) and the values that  *)
(* go in and out of it (DataMapping): the arguments of its methods, what   *)
(* its transactions complete with, and the callbacks it invokes, then or   *)
(* much later.  Threads and the queue are left to RubyInterpreter.         *)
(***************************************************************************)
EXTENDS ServiceDefinition, DataMapping, TLC

CONSTANTS
  Tids,        \* transactions
  NoTid,
  Arguments,   \* what the host passes
  ErrorValues, \* what services give to BPTransaction#error
  MaxEvents    \* bound: invocations, answers and callbacks

ASSUME SessionAssumption ==
  /\ NoTid \notin Tids /\ MaxEvents \in Nat
  /\ \A o \in Arguments : IsObject(o)

VARIABLES
  running,    \* the transaction whose method runs, or NoTid
  args,       \* the arguments of each transaction, as its method has them
  posted,     \* the results and errors the host was given for each
              \* transaction, and (history) what the service meant by results
  calls,      \* the callbacks that were invoked, as the host was told of
              \* them, and (history) what the service meant to pass
  crashed,    \* a conversion read a key that is no string
  given       \* history: the arguments as they reached ruby::invoke

sessionVars == <<running, args, posted, calls, crashed, given>>
vars == <<definitionVars, sessionVars>>

Pending == Leaf(<<"pending">>)

Init ==
  /\ DefinitionInit
  /\ running = NoTid
  /\ args = [t \in Tids |-> Pending]
  /\ posted = [t \in Tids |-> <<>>]
  /\ calls = {}
  /\ crashed = FALSE
  /\ given = [t \in Tids |-> Pending]

Invoked(t) == given[t] # Pending
Events == Cardinality({t \in Tids : Invoked(t)}) + Cardinality(calls)
            + MapThenSumSet(LAMBDA t : Len(posted[t]), Tids)

-----------------------------------------------------------------------------
(* The dynamic_cast of BPPInvoke: arguments that are no map are dropped.   *)
AsMap(o) == IF Kind(o) = "map" THEN o ELSE NoObject

(* BPPInvoke and T_InvokeMethod: the host calls a method it was told of.   *)
Invoke(t, o) ==
  /\ load \notin {"evaluating", "down"} /\ running = NoTid
  /\ \E n \in DOMAIN descs : descs[n].functions # <<>>
  /\ ~Invoked(t)
  /\ running' = t
  /\ given' = [given EXCEPT ![t] = AsMap(o)]
  /\ args' = [args EXCEPT ![t] = ToRuby(AsMap(o), t)]
  /\ UNCHANGED <<definitionVars, posted, calls, crashed>>

Results(object, meant) == [kind |-> "results", object |-> object, meant |-> meant]
Error(error, verbose)  == [kind |-> "error", error |-> error, verbose |-> verbose]

(* The host is given an answer for the tid that trans_init keeps.          *)
Post(t, answer) == posted' = [posted EXCEPT ![t] = Append(@, answer)]

(* What a service that echoes may pass on: nothing at all, all of its      *)
(* arguments, one of them, or that one in a hash of its own.               *)
Echoable(t) ==
  {[value |-> NoObject, host |-> NoObject],
   [value |-> args[t],  host |-> given[t]]}
    \union {[value |-> Part(args[t], k), host |-> Part(given[t], k)] : k \in KeysOf(given[t])}
    \union {[value |-> Hash(Only(k, Part(args[t], k))),
             host  |-> Map(Only(k, Part(given[t], k)))] : k \in KeysOf(given[t])}

Passed(value) == IF value = NoObject THEN NoObject ELSE ToObject(value)

(* What a service passes on may have no conversion.                        *)
Crash == crashed' = TRUE /\ UNCHANGED <<posted, calls>>

(* BPTransaction#complete, without an argument or with one: by the method, *)
(* or by a thread or another method that was left the transaction.         *)
Complete(t, a) ==
  /\ Invoked(t)
  /\ IF IsConvertible(a.value)
       THEN /\ Post(t, Results(Passed(a.value), a.host))
            /\ UNCHANGED <<calls, crashed>>
       ELSE Crash
  /\ UNCHANGED <<definitionVars, running, args, given>>

(* BPTransaction#error.  It raises, and posts nothing, when the error is   *)
(* neither left out nor false nor a string.                                *)
TransError(t, error, verbose) ==
  /\ Invoked(t)
  /\ error \in {NoObject, False} \/ Kind(error) = "string"
  /\ Post(t, Error(IF Kind(error) = "string" THEN error ELSE Text("unknownError"),
                   IF Kind(verbose) = "string" THEN verbose ELSE NoObject))
  /\ UNCHANGED <<definitionVars, running, args, calls, crashed, given>>

(* The method returns, or what it raises is posted, answered or not.       *)
Return ==
  /\ running # NoTid
  /\ running' = NoTid
  /\ UNCHANGED <<definitionVars, args, posted, calls, crashed, given>>

Raise ==
  /\ running # NoTid
  /\ running' = NoTid
  /\ Post(running, Error(Text("ruby.evalError"), Text("lastError")))
  /\ UNCHANGED <<definitionVars, args, calls, crashed, given>>

(* BPCallback#invoke, from any method: services keep what they are given.  *)
(* The id of a callback fits the unsigned int that it is read into.        *)
InvokeCallback(callback, a) ==
  /\ IF IsConvertible(a.value)
       THEN /\ calls' = calls \union {[callback |-> callback,
                                       object |-> Passed(a.value), meant |-> a.host]}
            /\ UNCHANGED <<posted, crashed>>
       ELSE Crash
  /\ UNCHANGED <<definitionVars, running, args, given>>

LoadStep == running = NoTid /\ DefinitionNext /\ UNCHANGED sessionVars

Next ==
  /\ ~crashed
  /\ \/ LoadStep
     \/ Return
     \/ /\ Events < MaxEvents
        /\ load # "down"
        /\ \/ Raise
           \/ \E t \in Tids :
                \/ \E o \in Arguments : Invoke(t, o)
                \/ Invoked(t) /\ \E a \in Echoable(t) :
                     \/ Complete(t, a)
                     \/ \E callback \in CallbacksIn(args[t]) : InvokeCallback(callback, a)
                \/ \E error, verbose \in ErrorValues : TransError(t, error, verbose)

Spec == Init /\ [][Next]_vars

-----------------------------------------------------------------------------
(* The variables have their types.                                         *)
TypeOK ==
  /\ DefinitionTypeOK
  /\ running \in Tids \union {NoTid}
  /\ \A t \in Tids : args[t] # Pending => Kind(args[t]) \in {"nil", "hash"}
  /\ \A t \in Tids : \A i \in DOMAIN posted[t] :
       posted[t][i].kind \in {"results", "error"}
  /\ crashed \in BOOLEAN

(* What a service passes on unchanged comes back to the host as it was, or *)
(* as null where it is a callback or a number that is negative or too big  *)
(* for a Fixnum, or as a path to the same file: no number becomes another  *)
(* number, nothing in a list or hash is lost or moved ("map data back and  *)
(* forth", DataMapping.hh:32).  Nothing is claimed for a path that leads   *)
(* nowhere, nor where the conversion crashes.                              *)
AnswersAreFaithful ==
  /\ \A t \in Tids : \A i \in DOMAIN posted[t] : posted[t][i].kind = "results" =>
       Echoes(posted[t][i].meant, posted[t][i].object)
  /\ \A c \in calls : Echoes(c.meant, c.object)

(* A callback that is invoked, in its own transaction or in a later one,   *)
(* reaches the host with the transaction in whose arguments the host       *)
(* passed it, however deep it was in them.                                 *)
CallbacksFindTheirTransaction ==
  \A c \in calls :
    /\ c.callback.tid \in Tids
    /\ Invoked(c.callback.tid)
    /\ c.callback.cid \in CallBacksOf(given[c.callback.tid])
=============================================================================
