----------------------- MODULE ServiceInstancesProofs -----------------------
(***************************************************************************)
(* The safety properties of ServiceInstances hold for any clients and any  *)
(* works; those that say an instance is kept, for service classes that     *)
(* compare instances by identity.  The argument is InductiveInvariant of   *)
(* ServiceInstancesInductive: one lemma for what each step does to the     *)
(* queue, and one for each step that the invariant survives it.            *)
(***************************************************************************)
EXTENDS ServiceInstancesInductive, TLAPS

USE InstancesAssumption DEF Works, queueVars, requestVars, instanceVars, historyVars, vars

-----------------------------------------------------------------------------
(* What the steps of the queue do to the works that were sent, executed    *)
(* and are called.                                                         *)

LEMMA RequestEffect ==
  ASSUME InductiveInvariant,
         NEW c \in Clients, NEW w \in Works, NEW t, NEW a, Request(c, w, t, a)
  PROVE  /\ type[w] = "none" /\ ~IsSent(w) /\ ~InCall(w)
         /\ \A v \in Works : v # w => type'[v] = type[v] /\ target'[v] = target[v]
         /\ type'[w] = t /\ target'[w] = a
         /\ \A v : (IsSent(v)' <=> IsSent(v)) /\ (HasRun(v)' <=> HasRun(v))
         /\ \A v \in Works : InCall(v)' <=> InCall(v) \/ v = w
<1>1. work[c] = Null /\ work' = [work EXCEPT ![c] = w] /\ UNCHANGED <<sent, ran>>
  BY DEF Request, Queue!Call
<1>2. ~IsSent(w) /\ ~InCall(w)
  BY DEF Request, Queue!Call, Queue!Elements, IsSent, InCall
<1>3. type[w] = "none"
  BY <1>2 DEF InductiveInvariant, Requests
<1>4. /\ \A v \in Works : v # w => type'[v] = type[v] /\ target'[v] = target[v]
      /\ type'[w] = t /\ target'[w] = a
  BY DEF Request, InductiveInvariant, TypeOK
<1>5. \A v : (IsSent(v)' <=> IsSent(v)) /\ (HasRun(v)' <=> HasRun(v))
  BY <1>1 DEF IsSent, HasRun
<1>6. \A v \in Works : InCall(v)' <=> InCall(v) \/ v = w
  BY <1>1 DEF InCall, InductiveInvariant, QueueOrder
<1> QED
  BY <1>2, <1>3, <1>4, <1>5, <1>6

LEMMA SendEffect ==
  ASSUME InductiveInvariant, NEW c \in Clients, Queue!Send(c)
  PROVE  /\ work[c] \in Works /\ ~IsSent(work[c]) /\ InCall(work[c])
         /\ sent' \in Seq(Works)
         /\ Len(sent) \in Nat /\ DOMAIN sent = 1 .. Len(sent)
         /\ Len(sent') = Len(sent) + 1 /\ DOMAIN sent' = 1 .. Len(sent) + 1
         /\ \A i \in DOMAIN sent : sent'[i] = sent[i]
         /\ sent'[Len(sent) + 1] = work[c]
         /\ \A v : (HasRun(v)' <=> HasRun(v)) /\ (InCall(v)' <=> InCall(v))
         /\ \A v : IsSent(v)' <=> IsSent(v) \/ v = work[c]
<1>1. /\ work[c] # Null /\ work[c] \notin Queue!Elements(sent)
      /\ sent' = Append(sent, work[c]) /\ UNCHANGED <<work, ran>>
  BY DEF Queue!Send
<1>2. work[c] \in Works /\ ~IsSent(work[c]) /\ InCall(work[c])
  BY <1>1 DEF InductiveInvariant, QueueOrder, Queue!Elements, IsSent, InCall
<1>3. /\ sent' \in Seq(Works)
      /\ Len(sent) \in Nat /\ DOMAIN sent = 1 .. Len(sent)
      /\ Len(sent') = Len(sent) + 1 /\ DOMAIN sent' = 1 .. Len(sent) + 1
      /\ \A i \in DOMAIN sent : sent'[i] = sent[i]
      /\ sent'[Len(sent) + 1] = work[c]
  BY <1>1, <1>2 DEF InductiveInvariant, QueueOrder
<1>4. \A v : (HasRun(v)' <=> HasRun(v)) /\ (InCall(v)' <=> InCall(v))
  BY <1>1 DEF HasRun, InCall
<1>5. \A v : IsSent(v)' <=> IsSent(v) \/ v = work[c]
  BY <1>3 DEF IsSent
<1> QED
  BY <1>2, <1>3, <1>4, <1>5

LEMMA ReturnEffect ==
  ASSUME InductiveInvariant, NEW c \in Clients, Queue!Return(c)
  PROVE  /\ work[c] \in Works /\ InCall(work[c]) /\ IsSent(work[c])
         /\ work[c] \in StackWorks => HasRun(work[c])
         /\ work' \in [Clients -> Works \union {Null}]
         /\ \A d \in Clients : d # c => work'[d] = work[d]
         /\ work'[c] = Null
         /\ \A v : (IsSent(v)' <=> IsSent(v)) /\ (HasRun(v)' <=> HasRun(v))
         /\ \A v \in Works : InCall(v)' <=> InCall(v) /\ v # work[c]
<1>1. /\ work[c] \in Queue!Elements(IF work[c] \in StackWorks THEN ran ELSE sent)
      /\ work' = [work EXCEPT ![c] = Null] /\ UNCHANGED <<sent, ran>>
  BY DEF Queue!Return
<1>2. work[c] \in StackWorks => HasRun(work[c])
  BY <1>1 DEF Queue!Elements, HasRun
<1>3. HasRun(work[c]) => IsSent(work[c])
  BY DEF InductiveInvariant, QueueOrder, HasRun, IsSent
<1>4. IsSent(work[c])
  BY <1>1, <1>2, <1>3 DEF Queue!Elements, IsSent
<1>5. work[c] \in Works /\ InCall(work[c])
  BY <1>4 DEF InductiveInvariant, QueueOrder, IsSent, InCall
<1>6. /\ work' \in [Clients -> Works \union {Null}]
      /\ \A d \in Clients : d # c => work'[d] = work[d]
      /\ work'[c] = Null
  BY <1>1 DEF InductiveInvariant, QueueOrder
<1>7. \A v : (IsSent(v)' <=> IsSent(v)) /\ (HasRun(v)' <=> HasRun(v))
  BY <1>1 DEF IsSent, HasRun
<1>8. \A v \in Works : InCall(v)' <=> InCall(v) /\ v # work[c]
  BY <1>5, <1>6 DEF InCall, InductiveInvariant, QueueOrder
<1> QED
  BY <1>2, <1>4, <1>5, <1>6, <1>7, <1>8

(* The work at the head of the queue.                                      *)
Due == sent[Len(ran) + 1]

LEMMA ServeEffect ==
  ASSUME InductiveInvariant, Queue!Serve
  PROVE  /\ Due \in Works /\ ~HasRun(Due) /\ IsSent(Due) /\ type[Due] # "none"
         /\ ran' \in Seq(Works)
         /\ Len(ran) \in Nat /\ DOMAIN ran = 1 .. Len(ran)
         /\ Len(ran') = Len(ran) + 1 /\ DOMAIN ran' = 1 .. Len(ran) + 1
         /\ \A i \in DOMAIN ran : ran'[i] = ran[i]
         /\ ran'[Len(ran) + 1] = Due
         /\ Len(ran') <= Len(sent) /\ Len(ran) + 1 \in DOMAIN sent
         /\ \A v : (IsSent(v)' <=> IsSent(v)) /\ (InCall(v)' <=> InCall(v))
         /\ \A v : HasRun(v)' <=> HasRun(v) \/ v = Due
<1>1. Len(ran) < Len(sent) /\ ran' = Append(ran, Due) /\ UNCHANGED <<work, sent>>
  BY DEF Queue!Serve, Due
<1>2. Len(ran) \in Nat /\ Len(sent) \in Nat /\ DOMAIN ran = 1 .. Len(ran)
  BY DEF InductiveInvariant, QueueOrder
<1>3. Len(ran) + 1 \in DOMAIN sent /\ Due \in Works
  BY <1>1, <1>2 DEF InductiveInvariant, QueueOrder, Due
<1>4. IsSent(Due)
  BY <1>3 DEF IsSent, Due
<1>5. ~HasRun(Due)
  <2> SUFFICES ASSUME NEW i \in DOMAIN ran, ran[i] = Due PROVE FALSE
    BY DEF HasRun
  <2>1. sent[i] = sent[Len(ran) + 1] /\ i \in DOMAIN sent /\ i # Len(ran) + 1
    BY <1>1, <1>2 DEF InductiveInvariant, QueueOrder, Due
  <2> QED
    BY <1>3, <2>1 DEF InductiveInvariant, QueueOrder
<1>6. type[Due] # "none"
  BY <1>3, <1>4 DEF InductiveInvariant, Requests
<1>7. /\ ran' \in Seq(Works)
      /\ Len(ran') = Len(ran) + 1 /\ DOMAIN ran' = 1 .. Len(ran) + 1
      /\ \A i \in DOMAIN ran : ran'[i] = ran[i]
      /\ ran'[Len(ran) + 1] = Due
      /\ Len(ran') <= Len(sent)
  BY <1>1, <1>2, <1>3 DEF InductiveInvariant, QueueOrder
<1>8. \A v : (IsSent(v)' <=> IsSent(v)) /\ (InCall(v)' <=> InCall(v))
  BY <1>1 DEF IsSent, InCall
<1>9. \A v : HasRun(v)' <=> HasRun(v) \/ v = Due
  BY <1>2, <1>7 DEF HasRun
<1> QED
  BY <1>2, <1>3, <1>4, <1>5, <1>6, <1>7, <1>8, <1>9

LEMMA RunWasSent ==
  ASSUME InductiveInvariant
  PROVE  \A v : HasRun(v) => IsSent(v)
BY DEF InductiveInvariant, QueueOrder, HasRun, IsSent

-----------------------------------------------------------------------------
(* The calls of the host.                                                  *)

Kinds == {"LoadService", "AllocateInstance", "InvokeMethod", "ReleaseInstance"}

(* What any call keeps: its work was none of the works so far.             *)
LEMMA RequestKeeps ==
  ASSUME InductiveInvariant, NEW c \in Clients, NEW w \in Works,
         NEW t \in Kinds, NEW a \in StackWorks \union {Null}, Request(c, w, t, a),
         w \in HeapWorks <=> t = "InvokeMethod",
         t \in {"InvokeMethod", "ReleaseInstance"} => a \in held,
         held' \subseteq held
  PROVE  /\ TypeOK' /\ QueueOrder' /\ Requests' /\ Targets' /\ Instances'
         /\ ~ComparesByValue => Kept' /\ InvocationsFindTheirInstance'
<1> USE RequestEffect, RunWasSent DEF InductiveInvariant
<1>1. UNCHANGED <<loaded, instance, value, roots, seen, posted, sent, ran>>
  BY DEF Request, Queue!Call
<1>2. TypeOK'
  <2>1. type' = [type EXCEPT ![w] = t] /\ target' = [target EXCEPT ![w] = a]
    BY DEF Request
  <2> QED
    BY <1>1, <2>1 DEF TypeOK, Kinds
<1>3. QueueOrder'
  <2>1. work' = [work EXCEPT ![c] = w]
    BY DEF Request, Queue!Call
  <2> QED
    BY <1>1, <2>1 DEF QueueOrder, InCall
<1>4. Requests'
  BY DEF Requests, Kinds
<1>5. \A v \in StackWorks : Made(v)' <=> Made(v)
  BY DEF Made
<1>6. \A v \in StackWorks : Allocated(v) => Allocated(v)'
  BY <1>5 DEF Allocated, Made
<1>7. Targets'
  BY <1>6 DEF Targets, Ownership, TypeOK
<1>8. Instances'
  <2>1. \A v \in Works, b \in StackWorks : Releases(v, b)' => Releases(v, b) \/ ~HasRun(v)'
    BY DEF Releases
  <2> QED
    BY <1>1, <1>5, <2>1 DEF Instances
<1>9. ~ComparesByValue => Kept' /\ InvocationsFindTheirInstance'
  BY <1>1 DEF Kept, InvocationsFindTheirInstance, Releases
<1> QED
  BY <1>2, <1>3, <1>4, <1>7, <1>8, <1>9

(* A load, an allocation and an invocation take nothing from the host.     *)
LEMMA RequestKeepsOwnership ==
  ASSUME InductiveInvariant, NEW c \in Clients, NEW w \in Works,
         NEW t \in Kinds \ {"ReleaseInstance"}, NEW a, Request(c, w, t, a),
         t = "InvokeMethod" => a \in held,
         UNCHANGED held
  PROVE  Ownership' /\ UsesFirst'
<1> USE RequestEffect, RunWasSent DEF InductiveInvariant, Kinds
<1>1. \A v \in StackWorks : Allocated(v)' <=> Allocated(v)
  BY DEF Allocated, Made
<1>2. \A v \in Works, b \in StackWorks : Releases(v, b)' <=> Releases(v, b)
  BY DEF Releases
<1>3. Ownership'
  BY <1>1, <1>2 DEF Ownership
<1>4. \A v \in Works, b \in StackWorks : Uses(v, b)' => Uses(v, b) \/ (v = w /\ b \in held)
  BY DEF Uses
<1>5. UNCHANGED sent
  BY DEF Request, Queue!Call
<1>6. UsesFirst'
  BY <1>2, <1>4, <1>5 DEF UsesFirst, Ownership
<1> QED
  BY <1>3, <1>6

LEMMA LoadRubyServiceStep ==
  ASSUME InductiveInvariant, NEW c \in Clients, NEW w \in Works, LoadRubyService(c, w)
  PROVE  InductiveInvariant'
BY RequestKeeps, RequestKeepsOwnership DEF LoadRubyService, Kinds, InductiveInvariant

LEMMA AllocateInstanceStep ==
  ASSUME InductiveInvariant, NEW c \in Clients, NEW w \in Works, AllocateInstance(c, w)
  PROVE  InductiveInvariant'
BY RequestKeeps, RequestKeepsOwnership DEF AllocateInstance, Kinds, InductiveInvariant

LEMMA InvokeStep ==
  ASSUME InductiveInvariant, NEW c \in Clients, NEW w \in Works, NEW a \in StackWorks,
         Invoke(c, w, a)
  PROVE  InductiveInvariant'
BY RequestKeeps, RequestKeepsOwnership DEF Invoke, Kinds, InductiveInvariant

(* The host destroys an instance it holds, when its invocations were sent. *)
LEMMA DestroyInstanceStep ==
  ASSUME InductiveInvariant, NEW c \in Clients, NEW w \in Works, NEW a \in StackWorks,
         DestroyInstance(c, w, a)
  PROVE  InductiveInvariant'
<1> USE DEF Kinds
<1>0. /\ w \in StackWorks /\ a \in held /\ InCallOn(a) = {} /\ held' = held \ {a}
      /\ Request(c, w, "ReleaseInstance", a)
  BY DEF DestroyInstance
<1>r. /\ type[w] = "none" /\ ~IsSent(w) /\ ~InCall(w)
      /\ \A v \in Works : v # w => type'[v] = type[v] /\ target'[v] = target[v]
      /\ type'[w] = "ReleaseInstance" /\ target'[w] = a
      /\ \A v : (IsSent(v)' <=> IsSent(v)) /\ (HasRun(v)' <=> HasRun(v))
      /\ \A v \in Works : InCall(v)' <=> InCall(v) \/ v = w
  BY <1>0, RequestEffect
<1>1. /\ TypeOK' /\ QueueOrder' /\ Requests' /\ Targets' /\ Instances'
      /\ ~ComparesByValue => Kept' /\ InvocationsFindTheirInstance'
  BY <1>0, RequestKeeps
<1>2. \A v \in StackWorks : Allocated(v)' <=> Allocated(v)
  BY <1>r, RunWasSent DEF Allocated, Made
<1>3. \A v \in Works, b \in StackWorks : Releases(v, b)' <=> Releases(v, b) \/ (v = w /\ b = a)
  BY <1>r DEF Releases
<1>4. Ownership'
  BY <1>0, <1>2, <1>3 DEF InductiveInvariant, Ownership
<1>5. \A v \in Works : Uses(v, a) => IsSent(v)
  BY <1>0 DEF InductiveInvariant, Requests, Uses, InCallOn, InCall
<1>6. UsesFirst'
  <2> SUFFICES ASSUME NEW b \in StackWorks, NEW u \in Works, NEW v \in Works,
                      Uses(u, b)', Releases(v, b)'
               PROVE  /\ IsSent(u)'
                      /\ \A i, j \in DOMAIN sent' : sent'[i] = u /\ sent'[j] = v => i < j
    BY DEF UsesFirst
  <2>1. Uses(u, b) /\ UNCHANGED sent
    BY <1>0, <1>r DEF Uses, Request, Queue!Call
  <2>2. CASE Releases(v, b)
    BY <2>1, <2>2, <1>r DEF InductiveInvariant, UsesFirst
  <2>3. CASE v = w /\ b = a
    BY <1>5, <2>1, <2>3, <1>r DEF IsSent
  <2> QED
    BY <1>3, <2>2, <2>3
<1> QED
  BY <1>1, <1>4, <1>6 DEF InductiveInvariant

-----------------------------------------------------------------------------
(* The work of a call goes into the queue.  The destruction of an instance *)
(* is sent behind the invocations, and no invocation behind a destruction. *)
LEMMA SendStep ==
  ASSUME InductiveInvariant, NEW c \in Clients, Send(c)
  PROVE  InductiveInvariant'
<1>0. Queue!Send(c) /\ UNCHANGED <<requestVars, loaded, instanceVars, held, historyVars>>
  BY DEF Send
<1>1. UNCHANGED <<work, ran>>
  BY <1>0 DEF Queue!Send
<1> DEFINE w == work[c]
<1>s. /\ w \in Works /\ ~IsSent(w) /\ InCall(w)
      /\ sent' \in Seq(Works)
      /\ Len(sent) \in Nat /\ DOMAIN sent = 1 .. Len(sent)
      /\ Len(sent') = Len(sent) + 1 /\ DOMAIN sent' = 1 .. Len(sent) + 1
      /\ \A i \in DOMAIN sent : sent'[i] = sent[i]
      /\ sent'[Len(sent) + 1] = w
      /\ \A v : (HasRun(v)' <=> HasRun(v)) /\ (InCall(v)' <=> InCall(v))
      /\ \A v : IsSent(v)' <=> IsSent(v) \/ v = w
  BY <1>0, SendEffect
<1>2. TypeOK'
  BY <1>0 DEF InductiveInvariant, TypeOK
<1>3. QueueOrder'
  BY <1>1, <1>s DEF InductiveInvariant, QueueOrder, IsSent
<1>4. Requests'
  BY <1>0, <1>s DEF InductiveInvariant, Requests
<1>5. \A v \in Works, b \in StackWorks :
        /\ Made(v)' <=> Made(v)
        /\ Allocated(v)' <=> Allocated(v)
        /\ Releases(v, b)' <=> Releases(v, b)
        /\ Uses(v, b)' <=> Uses(v, b)
  BY <1>0, <1>s DEF Made, Allocated, Releases, Uses
<1>6. Targets'
  BY <1>0, <1>5 DEF InductiveInvariant, Targets
<1>7. Instances'
  BY <1>0, <1>s, <1>5 DEF InductiveInvariant, Instances
<1>8. Ownership'
  BY <1>0, <1>5 DEF InductiveInvariant, Ownership
<1>9. UsesFirst'
  <2> SUFFICES ASSUME NEW b \in StackWorks, NEW u \in Works, NEW v \in Works,
                      Uses(u, b), Releases(v, b)
               PROVE  /\ IsSent(u)'
                      /\ \A i, j \in DOMAIN sent' : sent'[i] = u /\ sent'[j] = v => i < j
    BY <1>5 DEF UsesFirst
  <2>1. IsSent(u) /\ u # w
    BY <1>s DEF InductiveInvariant, UsesFirst
  <2>2. ASSUME NEW i \in DOMAIN sent', NEW j \in DOMAIN sent', sent'[i] = u, sent'[j] = v
        PROVE  i < j
    <3>1. i \in DOMAIN sent /\ sent[i] = u
      BY <1>s, <2>1, <2>2
    <3>2. CASE j \in DOMAIN sent
      BY <1>s, <2>2, <3>1, <3>2 DEF InductiveInvariant, UsesFirst
    <3>3. CASE j = Len(sent) + 1
      BY <1>s, <3>1, <3>3
    <3> QED
      BY <1>s, <3>2, <3>3
  <2> QED
    BY <1>s, <2>1, <2>2
<1>10. ~ComparesByValue => Kept' /\ InvocationsFindTheirInstance'
  BY <1>0, <1>s, <1>5 DEF InductiveInvariant, Kept, InvocationsFindTheirInstance
<1> QED
  BY <1>2, <1>3, <1>4, <1>6, <1>7, <1>8, <1>9, <1>10 DEF InductiveInvariant

(* A call returns; an allocation hands its instance to the host.           *)
LEMMA ReturnStep ==
  ASSUME InductiveInvariant, NEW c \in Clients, Return(c)
  PROVE  InductiveInvariant'
<1> DEFINE w == work[c]
<1>0. /\ Queue!Return(c) /\ UNCHANGED <<requestVars, loaded, instanceVars, historyVars>>
      /\ held' = IF type[w] = "AllocateInstance" THEN held \union {w} ELSE held
  BY DEF Return
<1>1. UNCHANGED <<sent, ran>>
  BY <1>0 DEF Queue!Return
<1>r. /\ w \in Works /\ InCall(w) /\ IsSent(w)
      /\ w \in StackWorks => HasRun(w)
      /\ work' \in [Clients -> Works \union {Null}]
      /\ \A d \in Clients : d # c => work'[d] = work[d]
      /\ work'[c] = Null
      /\ \A v : (IsSent(v)' <=> IsSent(v)) /\ (HasRun(v)' <=> HasRun(v))
      /\ \A v \in Works : InCall(v)' <=> InCall(v) /\ v # w
  BY <1>0, ReturnEffect
<1>2. type[w] = "AllocateInstance" => w \in StackWorks
  BY <1>r DEF InductiveInvariant, Requests
<1>3. TypeOK'
  BY <1>0, <1>2 DEF InductiveInvariant, TypeOK
<1>4. QueueOrder'
  BY <1>1, <1>r DEF InductiveInvariant, QueueOrder
<1>5. Requests'
  BY <1>0, <1>r DEF InductiveInvariant, Requests
<1>6. \A v \in Works, b \in StackWorks :
        /\ Made(v)' <=> Made(v)
        /\ Allocated(v)' <=> Allocated(v) \/ (Made(v) /\ v = w)
        /\ Releases(v, b)' <=> Releases(v, b)
        /\ Uses(v, b)' <=> Uses(v, b)
  <2>1. \A v \in Works : Made(v)' <=> Made(v)
    BY <1>0, <1>r DEF Made
  <2>2. \A v \in Works : Allocated(v)' <=> Allocated(v) \/ (Made(v) /\ v = w)
    BY <1>r, <2>1 DEF Allocated
  <2>3. \A v \in Works, b \in StackWorks :
          (Releases(v, b)' <=> Releases(v, b)) /\ (Uses(v, b)' <=> Uses(v, b))
    BY <1>0 DEF Releases, Uses
  <2> QED
    BY <2>1, <2>2, <2>3
<1>7. Targets'
  BY <1>0, <1>6 DEF InductiveInvariant, Targets
<1>8. Instances'
  BY <1>0, <1>r, <1>6 DEF InductiveInvariant, Instances
<1>9. Ownership'
  <2>1. \A b \in StackWorks : Made(b) /\ b = w => b \in held'
    BY <1>0 DEF Made
  <2>2. \A v \in Works : ~Releases(v, w)
    BY <1>r DEF Releases, InductiveInvariant, Targets, Allocated
  <2> QED
    BY <1>0, <1>r, <1>2, <1>6, <2>1, <2>2 DEF InductiveInvariant, Ownership, Made
<1>10. UsesFirst'
  BY <1>1, <1>r, <1>6 DEF InductiveInvariant, UsesFirst
<1>11. ~ComparesByValue => Kept' /\ InvocationsFindTheirInstance'
  BY <1>0, <1>r, <1>6 DEF InductiveInvariant, Kept, InvocationsFindTheirInstance
<1> QED
  BY <1>3, <1>4, <1>5, <1>7, <1>8, <1>9, <1>10, <1>11 DEF InductiveInvariant
-----------------------------------------------------------------------------
(* The interpreter thread executes the work that is due.                   *)

ExecuteFrame == Queue!Serve /\ UNCHANGED <<requestVars, value, held>>

(* What no execution disturbs.                                             *)
LEMMA ExecuteKeeps ==
  ASSUME InductiveInvariant, ExecuteFrame
  PROVE  /\ Due \in Works /\ ~HasRun(Due) /\ type[Due] # "none"
         /\ Len(ran) \in Nat /\ DOMAIN ran = 1 .. Len(ran) /\ Len(ran) + 1 \in DOMAIN sent
         /\ QueueOrder' /\ Requests' /\ Targets' /\ Ownership' /\ UsesFirst'
         /\ \A v : HasRun(v)' <=> HasRun(v) \/ v = Due
         /\ \A a \in Works : Made(a)' <=> Made(a) \/ (type[Due] = "AllocateInstance" /\ a = Due)
         /\ \A v \in Works, a \in StackWorks : Releases(v, a)' <=> Releases(v, a)
<1>1. Queue!Serve /\ UNCHANGED <<work, sent, type, target, held>>
  BY DEF ExecuteFrame, Queue!Serve
<1>s. /\ Due \in Works /\ ~HasRun(Due) /\ IsSent(Due) /\ type[Due] # "none"
      /\ ran' \in Seq(Works)
      /\ Len(ran) \in Nat /\ DOMAIN ran = 1 .. Len(ran)
      /\ Len(ran') = Len(ran) + 1 /\ DOMAIN ran' = 1 .. Len(ran) + 1
      /\ \A i \in DOMAIN ran : ran'[i] = ran[i]
      /\ ran'[Len(ran) + 1] = Due
      /\ Len(ran') <= Len(sent) /\ Len(ran) + 1 \in DOMAIN sent
      /\ \A v : (IsSent(v)' <=> IsSent(v)) /\ (InCall(v)' <=> InCall(v))
      /\ \A v : HasRun(v)' <=> HasRun(v) \/ v = Due
  BY <1>1, ServeEffect
<1> USE DEF InductiveInvariant
<1>2. QueueOrder'
  <2>1. \A i \in DOMAIN ran' : ran'[i] = sent[i]
    BY <1>s DEF QueueOrder, Due
  <2> QED
    BY <1>1, <1>s, <2>1 DEF QueueOrder
<1>3. Requests'
  BY <1>1, <1>s DEF Requests
<1>4. \A a \in Works : Made(a)' <=> Made(a) \/ (type[Due] = "AllocateInstance" /\ a = Due)
  BY <1>1, <1>s DEF Made
<1>5. \A v \in Works, a \in StackWorks : Releases(v, a)' <=> Releases(v, a)
  BY <1>1 DEF Releases
<1>6. \A a \in Works : Allocated(a)' <=> Allocated(a)
  <2>1. type[Due] = "AllocateInstance" => InCall(Due)
    BY <1>s DEF Requests
  <2> QED
    BY <1>1, <1>s, <1>4, <2>1 DEF Allocated
<1>7. Targets'
  BY <1>1, <1>6 DEF Targets
<1>8. Ownership'
  BY <1>1, <1>5, <1>6 DEF Ownership
<1>9. UsesFirst'
  BY <1>1, <1>s, <1>5 DEF UsesFirst, Uses
<1> QED
  BY <1>s, <1>2, <1>3, <1>4, <1>5, <1>7, <1>8, <1>9

LEMMA ExecuteLoadStep ==
  ASSUME InductiveInvariant, ExecuteFrame, ExecuteLoad(Due)
  PROVE  InductiveInvariant'
<1>k. /\ Due \in Works /\ ~HasRun(Due) /\ type[Due] # "none"
      /\ Len(ran) \in Nat /\ DOMAIN ran = 1 .. Len(ran) /\ Len(ran) + 1 \in DOMAIN sent
      /\ QueueOrder' /\ Requests' /\ Targets' /\ Ownership' /\ UsesFirst'
      /\ \A v : HasRun(v)' <=> HasRun(v) \/ v = Due
      /\ \A b \in Works : Made(b)' <=> Made(b) \/ (type[Due] = "AllocateInstance" /\ b = Due)
      /\ \A v \in Works, b \in StackWorks : Releases(v, b)' <=> Releases(v, b)
  BY ExecuteKeeps
<1> USE DEF InductiveInvariant
<1>1. /\ type[Due] = "LoadService" /\ loaded' \in {"described", "failed"}
      /\ UNCHANGED <<instanceVars, historyVars, requestVars, held>>
  BY DEF ExecuteLoad, ExecuteFrame
<1>2. TypeOK'
  BY <1>1 DEF TypeOK
<1>3. \A v \in Works, a \in StackWorks : Releases(v, a) => v # Due
  BY <1>1 DEF Releases
<1>4. Instances'
  BY <1>1, <1>3, <1>k DEF Instances
<1>5. ~ComparesByValue => Kept' /\ InvocationsFindTheirInstance'
  BY <1>1, <1>k DEF Kept, InvocationsFindTheirInstance
<1> QED
  BY <1>2, <1>4, <1>5, <1>k

LEMMA ExecuteAllocateStep ==
  ASSUME InductiveInvariant, ExecuteFrame, ExecuteAllocate(Due)
  PROVE  InductiveInvariant'
<1>k. /\ Due \in Works /\ ~HasRun(Due) /\ type[Due] # "none"
      /\ Len(ran) \in Nat /\ DOMAIN ran = 1 .. Len(ran) /\ Len(ran) + 1 \in DOMAIN sent
      /\ QueueOrder' /\ Requests' /\ Targets' /\ Ownership' /\ UsesFirst'
      /\ \A v : HasRun(v)' <=> HasRun(v) \/ v = Due
      /\ \A b \in Works : Made(b)' <=> Made(b) \/ (type[Due] = "AllocateInstance" /\ b = Due)
      /\ \A v \in Works, b \in StackWorks : Releases(v, b)' <=> Releases(v, b)
  BY ExecuteKeeps
<1> USE DEF InductiveInvariant
<1>1. /\ type[Due] = "AllocateInstance"
      /\ \/ /\ instance' = [instance EXCEPT ![Due] = "failed"]
            /\ UNCHANGED roots
         \/ /\ instance' = [instance EXCEPT ![Due] = "live"]
            /\ roots' = roots \union {Due}
      /\ UNCHANGED <<loaded, value, historyVars, requestVars, held>>
  BY DEF ExecuteAllocate, ExecuteFrame, Register, InvokeFunction
<1>2. Due \in StackWorks
  BY <1>k, <1>1 DEF Requests
<1>3. TypeOK'
  BY <1>1, <1>2 DEF TypeOK
<1>4. \A v \in Works : ~Releases(v, Due)
  BY <1>k DEF Releases, Targets, Allocated, Made
<1>5. \A v \in Works, a \in StackWorks : Releases(v, a) => v # Due
  BY <1>1 DEF Releases
<1>6. \A a \in StackWorks : a # Due =>
        instance'[a] = instance[a] /\ (a \in roots' <=> a \in roots)
  BY <1>1 DEF TypeOK
<1>7. instance'[Due] = "failed" \/ (instance'[Due] = "live" /\ Due \in roots')
  BY <1>1, <1>2 DEF TypeOK
<1>8. Instances'
  BY <1>1, <1>2, <1>4, <1>5, <1>6, <1>7, <1>k DEF Instances
<1>9. ~ComparesByValue => Kept' /\ InvocationsFindTheirInstance'
  BY <1>1, <1>6, <1>7, <1>k DEF Kept, InvocationsFindTheirInstance
<1> QED
  BY <1>3, <1>8, <1>9, <1>k

(* An invocation is due before the destruction of its instance.            *)
LEMMA ExecuteInvokeStep ==
  ASSUME InductiveInvariant, ExecuteFrame, ExecuteInvoke(Due)
  PROVE  InductiveInvariant'
<1>k. /\ Due \in Works /\ ~HasRun(Due) /\ type[Due] # "none"
      /\ Len(ran) \in Nat /\ DOMAIN ran = 1 .. Len(ran) /\ Len(ran) + 1 \in DOMAIN sent
      /\ QueueOrder' /\ Requests' /\ Targets' /\ Ownership' /\ UsesFirst'
      /\ \A v : HasRun(v)' <=> HasRun(v) \/ v = Due
      /\ \A b \in Works : Made(b)' <=> Made(b) \/ (type[Due] = "AllocateInstance" /\ b = Due)
      /\ \A v \in Works, b \in StackWorks : Releases(v, b)' <=> Releases(v, b)
  BY ExecuteKeeps
<1> USE DEF InductiveInvariant
<1> DEFINE a == target[Due]
<1>1. /\ type[Due] = "InvokeMethod" /\ seen' = [seen EXCEPT ![Due] = instance[a]]
      /\ posted' \in {posted, posted \union {Due}}
      /\ UNCHANGED <<loaded, instanceVars, requestVars, held>>
  BY DEF ExecuteInvoke, ExecuteFrame, PostError, InvokeFunction
<1>2. Due \in HeapWorks /\ a \in StackWorks /\ Made(a)
  BY <1>k, <1>1 DEF Requests, Targets, Allocated
<1>3. TypeOK'
  BY <1>1, <1>2 DEF TypeOK
<1>4. \A v \in Works, b \in StackWorks : Releases(v, b) => v # Due
  BY <1>1 DEF Releases
<1>5. Instances'
  BY <1>1, <1>4, <1>k DEF Instances
<1>6. \A v \in Works : Releases(v, a) => ~HasRun(v)
  <2> SUFFICES ASSUME NEW v \in Works, Releases(v, a), NEW i \in DOMAIN ran, ran[i] = v
               PROVE  FALSE
    BY DEF HasRun
  <2>1. i \in DOMAIN sent /\ sent[i] = v /\ i < Len(ran) + 1
    BY <1>k DEF QueueOrder
  <2>2. Uses(Due, a)
    BY <1>1 DEF Uses
  <2>3. Len(ran) + 1 < i
    BY <1>k, <1>2, <2>1, <2>2 DEF UsesFirst, Due
  <2> QED
    BY <1>k, <2>1, <2>3
<1>7. ASSUME ~ComparesByValue
      PROVE  Kept' /\ InvocationsFindTheirInstance'
  <2>1. instance[a] \in {"failed", "live"}
    BY <1>2, <1>6, <1>7 DEF Kept, Instances
  <2>2. Kept'
    BY <1>1, <1>7, <1>k DEF Kept
  <2> QED
    BY <1>1, <1>2, <1>7, <2>1, <2>2 DEF InvocationsFindTheirInstance, TypeOK
<1> QED
  BY <1>3, <1>5, <1>7, <1>k

(* The destruction takes the root of its own instance, and of no other if  *)
(* instances are compared by identity.                                     *)
LEMMA ExecuteReleaseStep ==
  ASSUME InductiveInvariant, ExecuteFrame, ExecuteRelease(Due)
  PROVE  InductiveInvariant'
<1>k. /\ Due \in Works /\ ~HasRun(Due) /\ type[Due] # "none"
      /\ Len(ran) \in Nat /\ DOMAIN ran = 1 .. Len(ran) /\ Len(ran) + 1 \in DOMAIN sent
      /\ QueueOrder' /\ Requests' /\ Targets' /\ Ownership' /\ UsesFirst'
      /\ \A v : HasRun(v)' <=> HasRun(v) \/ v = Due
      /\ \A b \in Works : Made(b)' <=> Made(b) \/ (type[Due] = "AllocateInstance" /\ b = Due)
      /\ \A v \in Works, b \in StackWorks : Releases(v, b)' <=> Releases(v, b)
  BY ExecuteKeeps
<1> USE DEF InductiveInvariant
<1> DEFINE a == target[Due]
<1>1. /\ type[Due] = "ReleaseInstance"
      /\ instance' = [instance EXCEPT ![a] = IF @ = "failed" THEN @ ELSE "released"]
      /\ roots' = {b \in roots : ~RbEqual(b, a)}
      /\ UNCHANGED <<loaded, value, historyVars, requestVars, held>>
  BY DEF ExecuteRelease, ExecuteFrame, Unregister
<1>2. a \in StackWorks /\ Made(a) /\ Releases(Due, a)
  BY <1>k, <1>1 DEF Targets, Allocated, Releases
<1>3. TypeOK'
  BY <1>1, <1>2 DEF TypeOK
<1>4. /\ \A b \in StackWorks : b # a => instance'[b] = instance[b]
      /\ instance'[a] \in {"failed", "released"}
      /\ instance'[a] = "failed" => instance[a] = "failed"
      /\ a \notin roots' /\ roots' \subseteq roots
  BY <1>1, <1>2 DEF TypeOK, RbEqual
<1>5. \A v \in Works, b \in StackWorks : Releases(v, b) /\ v = Due => b = a
  BY DEF Releases
<1>6. Instances'
  BY <1>1, <1>2, <1>4, <1>5, <1>k DEF Instances
<1>7. ASSUME ~ComparesByValue
      PROVE  Kept' /\ InvocationsFindTheirInstance'
  <2>1. \A b \in StackWorks : b # a /\ b \in roots => b \in roots'
    BY <1>1, <1>7 DEF RbEqual
  <2>2. Kept'
    BY <1>2, <1>4, <1>7, <2>1, <1>k DEF Kept
  <2> QED
    BY <1>1, <1>7, <2>2 DEF InvocationsFindTheirInstance
<1> QED
  BY <1>3, <1>6, <1>7, <1>k

-----------------------------------------------------------------------------
(* The collector takes no instance that has a root.                        *)
LEMMA CollectStep ==
  ASSUME InductiveInvariant, NEW a \in StackWorks, Collect(a)
  PROVE  InductiveInvariant'
<1> USE DEF InductiveInvariant
<1>1. /\ instance[a] \in {"live", "released"} /\ a \notin roots
      /\ instance' = [instance EXCEPT ![a] = "collected"]
      /\ UNCHANGED <<queueVars, requestVars, loaded, value, roots, held, historyVars>>
  BY DEF Collect
<1>2. TypeOK'
  BY <1>1 DEF TypeOK
<1>3. QueueOrder' /\ Requests' /\ Targets' /\ Ownership' /\ UsesFirst'
  BY <1>1 DEF QueueOrder, Requests, Targets, Ownership, UsesFirst, IsSent, HasRun, InCall,
              Uses, Releases, Made, Allocated
<1>4. /\ \A b \in StackWorks : b # a => instance'[b] = instance[b]
      /\ instance'[a] = "collected"
  BY <1>1 DEF TypeOK
<1>5. Instances'
  BY <1>1, <1>4 DEF Instances, Made, HasRun, Releases
<1>6. ~ComparesByValue => Kept' /\ InvocationsFindTheirInstance'
  BY <1>1, <1>4 DEF Kept, InvocationsFindTheirInstance, HasRun, Releases
<1> QED
  BY <1>2, <1>3, <1>5, <1>6
-----------------------------------------------------------------------------
(* The invariant holds of every behaviour.                                 *)

LEMMA InvariantInit == Init => InductiveInvariant
<1> SUFFICES ASSUME Init PROVE InductiveInvariant
  OBVIOUS
<1> USE DEF Init, Queue!Init
<1>1. TypeOK
  BY DEF TypeOK
<1>2. \A v : ~IsSent(v) /\ ~HasRun(v)
  BY DEF IsSent, HasRun
<1>3. \A v \in Works : ~InCall(v)
  BY DEF InCall
<1>4. QueueOrder
  BY DEF QueueOrder
<1>5. Requests /\ Targets
  BY <1>2, <1>3 DEF Requests, Targets
<1>6. Instances /\ Ownership /\ UsesFirst
  BY <1>2 DEF Instances, Ownership, UsesFirst, Uses, Made, Allocated
<1>7. Kept /\ InvocationsFindTheirInstance
  BY DEF Kept, InvocationsFindTheirInstance
<1> QED
  BY <1>1, <1>4, <1>5, <1>6, <1>7 DEF InductiveInvariant

LEMMA ExecuteStep ==
  ASSUME InductiveInvariant, Execute
  PROVE  InductiveInvariant'
<1>1. Queue!Serve /\ UNCHANGED <<type, target, held>>
  BY DEF Execute
<1>2. ExecuteLoad(Due) \/ ExecuteAllocate(Due) \/ ExecuteInvoke(Due) \/ ExecuteRelease(Due)
  BY DEF Execute, Due
<1>3. UNCHANGED value
  BY <1>2 DEF ExecuteLoad, ExecuteAllocate, ExecuteInvoke, ExecuteRelease
<1>4. ExecuteFrame
  BY <1>1, <1>3 DEF ExecuteFrame
<1> QED
  BY <1>2, <1>4, ExecuteLoadStep, ExecuteAllocateStep, ExecuteInvokeStep, ExecuteReleaseStep

(* The invariant that carries every theorem below: host, queue, interpreter *)
(* and collector agree on who owns which instance, and until when.         *)
THEOREM InvariantHolds == Spec => []InductiveInvariant
<1>1. ASSUME InductiveInvariant, [Next]_vars
      PROVE  InductiveInvariant'
  <2>1. ASSUME NEW c \in Clients, NEW w \in Works,
               \/ LoadRubyService(c, w)
               \/ AllocateInstance(c, w)
               \/ \E a \in StackWorks : Invoke(c, w, a) \/ DestroyInstance(c, w, a)
        PROVE  InductiveInvariant'
    BY <1>1, <2>1, LoadRubyServiceStep, AllocateInstanceStep, InvokeStep, DestroyInstanceStep
  <2>2. ASSUME NEW c \in Clients, Send(c) \/ Return(c)
        PROVE  InductiveInvariant'
    BY <1>1, <2>2, SendStep, ReturnStep
  <2>3. CASE Execute
    BY <1>1, <2>3, ExecuteStep
  <2>4. ASSUME NEW a \in StackWorks, Collect(a)
        PROVE  InductiveInvariant'
    BY <1>1, <2>4, CollectStep
  <2>5. CASE UNCHANGED vars
    <3>1. UNCHANGED <<work, sent, ran, type, target, loaded, instance, value, roots, held,
                      seen, posted>>
      BY <2>5
    <3> QED
      BY <1>1, <3>1 DEF InductiveInvariant, TypeOK, QueueOrder, Requests, Targets, Instances,
         Ownership, UsesFirst, Kept, InvocationsFindTheirInstance,
         IsSent, HasRun, InCall, Uses, Releases, Made, Allocated
  <2> QED
    BY <1>1, <2>1, <2>2, <2>3, <2>4, <2>5 DEF Next
<1> QED
  BY <1>1, InvariantInit, PTL DEF Spec

(* The variables have their types.                                         *)
THEOREM TypeCorrect == Spec => []TypeOK
<1>1. InductiveInvariant => TypeOK
  BY DEF InductiveInvariant
<1> QED
  BY <1>1, InvariantHolds, PTL

(* gcArray keeps what the host holds: an instance that was given to the    *)
(* host lives, with a root, until the host calls for its destruction.      *)
THEOREM HeldInstancesLive ==
  ASSUME ~ComparesByValue
  PROVE  Spec => []HeldInstancesAreKept
<1>1. InductiveInvariant => HeldInstancesAreKept
  <2> SUFFICES ASSUME InductiveInvariant, NEW a \in held
               PROVE  instance[a] = "failed" \/ (instance[a] = "live" /\ a \in roots)
    BY DEF HeldInstancesAreKept
  <2>1. a \in StackWorks
    BY DEF InductiveInvariant, TypeOK
  <2>2. instance[a] # "none" /\ \A w \in Works : ~Releases(w, a)
    BY <2>1 DEF InductiveInvariant, Ownership, Instances, Allocated
  <2> QED
    BY <2>1, <2>2 DEF InductiveInvariant, Kept
<1> QED
  BY <1>1, InvariantHolds, PTL

(* However long an invocation waits in the queue, and whatever the host    *)
(* calls meanwhile, its instance is alive when its turn comes.             *)
THEOREM InvocationsFindInstances ==
  ASSUME ~ComparesByValue
  PROVE  Spec => []InvocationsFindTheirInstance
<1>1. InductiveInvariant => InvocationsFindTheirInstance
  BY DEF InductiveInvariant
<1> QED
  BY <1>1, InvariantHolds, PTL

(* gcArray keeps nothing that neither the host nor one of its calls owns,   *)
(* whatever == means to the service class.                                 *)
THEOREM NoRootLeaks == Spec => []RootsAreOwned
<1>1. InductiveInvariant => RootsAreOwned
  <2> SUFFICES ASSUME InductiveInvariant, NEW a \in roots, a \notin held, ~InCall(a)
               PROVE  InCallOn(a) # {}
    BY DEF RootsAreOwned, InCall
  <2>1. a \in StackWorks /\ Allocated(a)
    BY DEF InductiveInvariant, TypeOK, Instances, Allocated
  <2>2. PICK w \in Works : Releases(w, a)
    BY <2>1 DEF InductiveInvariant, Ownership
  <2>3. ~HasRun(w) /\ w \in StackWorks
    BY <2>1, <2>2 DEF InductiveInvariant, Instances, Requests, Releases
  <2>4. InCall(w)
    BY <2>2, <2>3 DEF InductiveInvariant, Requests, Releases
  <2> QED
    BY <2>2, <2>4 DEF InCall, InCallOn, Releases
<1> QED
  BY <1>1, InvariantHolds, PTL

-----------------------------------------------------------------------------
(* The queue.                                                              *)

(* Every step of an instance's life is a step of the abstract queue, which *)
(* RubyInterpreter implements, or leaves it alone.                         *)
THEOREM QueueIsWorkQueue == Spec => Queue!Spec
<1>1. Init => Queue!Init
  BY DEF Init
<1>2. ASSUME [Next]_vars
      PROVE  [Queue!Next]_(Queue!vars)
  <2>1. ASSUME NEW c \in Clients, NEW w \in Works,
               \/ LoadRubyService(c, w)
               \/ AllocateInstance(c, w)
               \/ \E a \in StackWorks : Invoke(c, w, a) \/ DestroyInstance(c, w, a)
        PROVE  Queue!Next
    <3>1. Queue!Call(c, w)
      BY <2>1 DEF LoadRubyService, AllocateInstance, Invoke, DestroyInstance, Request
    <3> QED
      BY <3>1 DEF Queue!Next
  <2>2. ASSUME NEW c \in Clients, Send(c) \/ Return(c)
        PROVE  Queue!Next
    BY <2>2 DEF Send, Return, Queue!Next
  <2>3. CASE Execute
    BY <2>3 DEF Execute, Queue!Next
  <2>4. ASSUME NEW a \in StackWorks, Collect(a)
        PROVE  UNCHANGED Queue!vars
    BY <2>4 DEF Collect, Queue!vars
  <2>5. CASE UNCHANGED vars
    BY <2>5 DEF Queue!vars
  <2> QED
    BY <1>2, <2>1, <2>2, <2>3, <2>4, <2>5 DEF Next
<1> QED
  BY <1>1, <1>2, PTL DEF Spec, Queue!Spec
=============================================================================
