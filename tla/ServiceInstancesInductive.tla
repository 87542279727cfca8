---------------------- MODULE ServiceInstancesInductive ----------------------
(***************************************************************************)
(* The inductive invariant behind the safety properties of                 *)
(* ServiceInstances.  Its parts say how the calls of the host, the queue   *)
(* and the executed works fit together (QueueOrder, Requests, Targets), to *)
(* whom an instance belongs (Instances, Ownership), that no invocation is  *)
(* behind the destruction of its instance in the queue (UsesFirst), and    *)
(* what that does for the instance (Kept).                                 *)
(***************************************************************************)
EXTENDS ServiceInstances

IsSent(w) == \E i \in DOMAIN sent : sent[i] = w
HasRun(w) == \E i \in DOMAIN ran : ran[i] = w
InCall(w) == \E c \in Clients : work[c] = w

Uses(w, a)     == type[w] = "InvokeMethod" /\ target[w] = a
Releases(w, a) == type[w] = "ReleaseInstance" /\ target[w] = a

(* Allocations that were executed, and those that returned to the host.    *)
Made(a)      == type[a] = "AllocateInstance" /\ HasRun(a)
Allocated(a) == Made(a) /\ ~InCall(a)

(* What was executed is the beginning of what was sent, where no work is   *)
(* twice; no two clients are in a call with the same work.                 *)
QueueOrder ==
  /\ work \in [Clients -> Works \union {Null}]
  /\ sent \in Seq(Works) /\ ran \in Seq(Works)
  /\ Len(ran) <= Len(sent)
  /\ \A i \in DOMAIN ran : ran[i] = sent[i]
  /\ \A i, j \in DOMAIN sent : sent[i] = sent[j] => i = j
  /\ \A c, d \in Clients : work[c] # Null /\ work[c] = work[d] => c = d

(* A work is of some kind from the call on that uses it.  A synchronous    *)
(* call lasts until its work was executed.                                 *)
Requests ==
  \A w \in Works :
    /\ type[w] # "none" <=> IsSent(w) \/ InCall(w)
    /\ type[w] # "none" /\ w \in StackWorks => HasRun(w) \/ InCall(w)
    /\ type[w] # "none" => (w \in HeapWorks <=> type[w] = "InvokeMethod")

(* What is invoked or destroyed was allocated, and that call has returned. *)
Targets ==
  \A w \in Works :
    type[w] \in {"InvokeMethod", "ReleaseInstance"} =>
      target[w] \in StackWorks /\ Allocated(target[w])

(* There is an instance, or a failure, where an allocation was executed,   *)
(* and a root at most until the destruction is.                            *)
Instances ==
  \A a \in StackWorks :
    /\ instance[a] # "none" <=> Made(a)
    /\ a \in roots => Made(a) /\ \A w \in Works : Releases(w, a) => ~HasRun(w)

(* What was allocated is the host's until the host calls its destruction.  *)
Ownership ==
  \A a \in StackWorks :
    /\ a \in held => Allocated(a) /\ \A w \in Works : ~Releases(w, a)
    /\ Allocated(a) => a \in held \/ \E w \in Works : Releases(w, a)

(* The invocations of an instance were sent before its destruction.        *)
UsesFirst ==
  \A a \in StackWorks, v, w \in Works :
    Uses(v, a) /\ Releases(w, a) =>
      /\ IsSent(v)
      /\ \A i, j \in DOMAIN sent : sent[i] = v /\ sent[j] = w => i < j

(* An instance lives, and is rooted, until its destruction is executed.    *)
Kept ==
  \A a \in StackWorks :
    \/ instance[a] \in {"none", "failed"}
    \/ instance[a] = "live" /\ a \in roots
    \/ \E w \in Works : Releases(w, a) /\ HasRun(w)

(* The inductive invariant.  Kept and what follows from it need that a     *)
(* service class compares instances by identity.                           *)
InductiveInvariant ==
  /\ TypeOK
  /\ QueueOrder
  /\ Requests
  /\ Targets
  /\ Instances
  /\ Ownership
  /\ UsesFirst
  /\ ~ComparesByValue => Kept /\ InvocationsFindTheirInstance
=============================================================================
