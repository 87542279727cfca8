--------------------------- MODULE ServiceInstances ---------------------------
(***************************************************************************)
(* What a piece of work does on the interpreter thread: the four cases of  *)
(* rubyThreadFunc (src/RubyInterpreter.cpp:126-230), the instances of the  *)
(* service they make, use and release, and the array of roots that keeps   *)
(* these from the garbage collector.  Threads and locks are not here: the  *)
(* queue is the abstract WorkQueue, which RubyInterpreter implements.      *)
(*                                                                         *)
(* An instance is named by the Work that allocated it.  A Work is used     *)
(* once.                                                                   *)
(***************************************************************************)
EXTENDS Naturals, Sequences

CONSTANTS
  Clients,          \* the host's threads
  StackWorks,       \* the Work of each load, allocate and destroy
  HeapWorks,        \* the Work of each invoke
  Null,             \* no Work
  Values,           \* what == of a service class may compare
  ComparesByValue   \* does the service class define == on values?

ASSUME InstancesAssumption ==
  /\ Null \notin StackWorks \union HeapWorks
  /\ StackWorks \intersect HeapWorks = {}
  /\ Values # {}
  /\ ComparesByValue \in BOOLEAN

VARIABLES
  work,       \* the Work of the call each client is in, or Null
  sent,       \* the Works in the order they were queued
  ran,        \* the Works in the order they were executed
  type,       \* m_type of each Work
  target,     \* m_instance of the Work of an invoke or a destroy
  loaded,     \* the service: "no", "described" or "failed"
  instance,   \* of each allocation: what became of its instance
  value,      \* of each allocation: what == of its instance compares
  roots,      \* gcArray
  held,       \* the instances the host has been given and not destroyed
  seen,       \* history: what each invoke found its instance to be
  posted      \* history: the invokes that had "ruby.evalError" posted

queueVars    == <<work, sent, ran>>
requestVars  == <<type, target>>
instanceVars == <<instance, value, roots>>
historyVars  == <<seen, posted>>
vars == <<queueVars, requestVars, loaded, instanceVars, held, historyVars>>

Works == StackWorks \union HeapWorks

Queue == INSTANCE WorkQueue WITH SyncWorks <- StackWorks,
                                 AsyncWorks <- HeapWorks,
                                 NoWork <- Null, call <- work, served <- ran

(* rb_equal: the same object, or == of the class says so.  A failed        *)
(* allocation hands out NULL, which Ruby takes for false and which equals  *)
(* no instance.  A == that raises is not modelled.                         *)
RbEqual(a, b) ==
  \/ a = b
  \/ /\ ComparesByValue
     /\ instance[a] # "failed" /\ instance[b] # "failed"
     /\ value[a] = value[b]

(* Slips of the pen in the code below, for the runs to notice.             *)
RegisterNothing(a) == roots
UnregisterAll(a) == {}
UnregisterNothing(a) == roots
PostToInstance(w) == posted \union {target[w]}

(* GCArray: rb_ary_delete removes every element that == a.  The order of   *)
(* the array never matters.                                                *)
Register(a) == roots \union {a}
Unregister(a) == {b \in roots : ~RbEqual(b, a)}

(* The host's postError, for the transaction of an invoke.                 *)
PostError(w) == posted \union {w}

(* invokeFunction calls Ruby under rb_protect: it returns or it raised.    *)
InvokeFunction == {"returned", "raised"}

(* The calls of the host that concern an instance.                         *)
InCallOn(a) == {c \in Clients : work[c] # Null /\ target[work[c]] = a}

Init ==
  /\ Queue!Init
  /\ type = [w \in Works |-> "none"]
  /\ target = [w \in Works |-> Null]
  /\ loaded = "no"
  /\ instance = [w \in StackWorks |-> "none"]
  /\ value \in [StackWorks -> Values]
  /\ roots = {}
  /\ held = {}
  /\ seen = [w \in HeapWorks |-> "none"]
  /\ posted = {}

-----------------------------------------------------------------------------
(* The host.  It loads the service once, allocates only when it got a      *)
(* description, and uses an instance from the return of its allocation to  *)
(* the call of its destruction, which it makes when no other of its calls  *)
(* on the instance is in progress; invocations that were queued may still  *)
(* be waiting then.                                                        *)

Request(c, w, t, a) ==
  /\ Queue!Call(c, w)
  /\ type' = [type EXCEPT ![w] = t]
  /\ target' = [target EXCEPT ![w] = a]
  /\ UNCHANGED <<loaded, instanceVars, historyVars>>

(* ruby::loadRubyService, from BPPInitialize.                              *)
LoadRubyService(c, w) ==
  /\ w \in StackWorks
  /\ \A v \in Works : type[v] = "none"
  /\ Request(c, w, "LoadService", Null)
  /\ UNCHANGED held

(* ruby::allocateInstance, from BPPAllocate.                               *)
AllocateInstance(c, w) ==
  /\ w \in StackWorks
  /\ loaded = "described"
  /\ \A d \in Clients : work[d] # Null => type[work[d]] # "LoadService"
  /\ Request(c, w, "AllocateInstance", Null)
  /\ UNCHANGED held

(* ruby::invoke, from BPPInvoke.                                           *)
Invoke(c, w, a) ==
  /\ w \in HeapWorks
  /\ a \in held
  /\ Request(c, w, "InvokeMethod", a)
  /\ UNCHANGED held

(* ruby::destroyInstance, from BPPDestroy.                                 *)
DestroyInstance(c, w, a) ==
  /\ w \in StackWorks
  /\ a \in held
  /\ InCallOn(a) = {}
  /\ Request(c, w, "ReleaseInstance", a)
  /\ held' = held \ {a}

Send(c) ==
  /\ Queue!Send(c)
  /\ UNCHANGED <<requestVars, loaded, instanceVars, held, historyVars>>

(* An allocation returns its instance, or NULL if m_error is set; BPPAllocate *)
(* hands either to the host and reports success.                           *)
Return(c) ==
  /\ Queue!Return(c)
  /\ held' = IF type[work[c]] = "AllocateInstance" THEN held \union {work[c]} ELSE held
  /\ UNCHANGED <<requestVars, loaded, instanceVars, historyVars>>

-----------------------------------------------------------------------------
(* The interpreter thread.                                                 *)

(* T_LoadService: an unreadable or empty file, an exception while it is    *)
(* evaluated, or no definition extracted set m_error.                      *)
ExecuteLoad(w) ==
  /\ type[w] = "LoadService"
  /\ loaded' \in {"described", "failed"}
  /\ UNCHANGED <<instanceVars, historyVars>>

(* T_AllocateInstance: new may raise; otherwise the instance is registered. *)
ExecuteAllocate(w) ==
  /\ type[w] = "AllocateInstance"
  /\ \E outcome \in InvokeFunction :
       IF outcome = "raised"
         THEN /\ instance' = [instance EXCEPT ![w] = "failed"]
              /\ UNCHANGED roots
         ELSE /\ instance' = [instance EXCEPT ![w] = "live"]
              /\ roots' = Register(w)
  /\ UNCHANGED <<loaded, value, historyVars>>

(* T_InvokeMethod: the method may raise; then "ruby.evalError" is posted.  *)
(* The NULL of a failed allocation is Ruby's false, which has no method of *)
(* the service, but those of Object and the private ones of Kernel, which  *)
(* rb_funcall2 finds too: there also the call may return.                  *)
ExecuteInvoke(w) ==
  /\ type[w] = "InvokeMethod"
  /\ seen' = [seen EXCEPT ![w] = instance[target[w]]]
  /\ \E outcome \in InvokeFunction :
       posted' = IF outcome = "raised" THEN PostError(w) ELSE posted
  /\ UNCHANGED <<loaded, instanceVars>>

(* T_ReleaseInstance: destroy is called if there is one, whatever comes of *)
(* it, and the instance is unregistered.                                   *)
ExecuteRelease(w) ==
  /\ type[w] = "ReleaseInstance"
  /\ instance' = [instance EXCEPT ![target[w]] = IF @ = "failed" THEN @ ELSE "released"]
  /\ roots' = Unregister(target[w])
  /\ UNCHANGED <<loaded, value, historyVars>>

Execute ==
  /\ Queue!Serve
  /\ LET w == sent[Len(ran) + 1] IN
       \/ ExecuteLoad(w)
       \/ ExecuteAllocate(w)
       \/ ExecuteInvoke(w)
       \/ ExecuteRelease(w)
  /\ UNCHANGED <<requestVars, held>>

(* Ruby's garbage collector may take what no root refers to; a Work is not *)
(* memory that it scans.                                                   *)
Collect(a) ==
  /\ instance[a] \in {"live", "released"}
  /\ a \notin roots
  /\ instance' = [instance EXCEPT ![a] = "collected"]
  /\ UNCHANGED <<queueVars, requestVars, loaded, value, roots, held, historyVars>>

Next ==
  \/ \E c \in Clients, w \in Works :
       \/ LoadRubyService(c, w)
       \/ AllocateInstance(c, w)
       \/ \E a \in StackWorks : Invoke(c, w, a) \/ DestroyInstance(c, w, a)
  \/ \E c \in Clients : Send(c) \/ Return(c)
  \/ Execute
  \/ \E a \in StackWorks : Collect(a)

Spec == Init /\ [][Next]_vars

-----------------------------------------------------------------------------
(* The variables have their types.                                         *)
TypeOK ==
  /\ type \in [Works -> {"none", "LoadService", "AllocateInstance",
                         "InvokeMethod", "ReleaseInstance"}]
  /\ target \in [Works -> StackWorks \union {Null}]
  /\ loaded \in {"no", "described", "failed"}
  /\ instance \in [StackWorks -> {"none", "failed", "live", "released", "collected"}]
  /\ value \in [StackWorks -> Values]
  /\ roots \subseteq StackWorks
  /\ held \subseteq StackWorks
  /\ seen \in [HeapWorks -> {"none", "failed", "live", "released", "collected"}]
  /\ posted \subseteq HeapWorks

(* An instance the host has been given is there until the host destroys    *)
(* it, and a root keeps it there (gcArray.Register, RubyUtils.hh:53-59),   *)
(* unless its allocation failed.                                           *)
HeldInstancesAreKept ==
  \A a \in held :
    \/ instance[a] = "failed"
    \/ instance[a] = "live" /\ a \in roots

(* A method is called on an instance that is alive and has not run its     *)
(* destroy method, however long the invocation waited in the queue, or on  *)
(* the NULL of a failed allocation.                                        *)
InvocationsFindTheirInstance ==
  \A w \in HeapWorks : seen[w] \in {"none", "live", "failed"}

(* The array of roots holds instances of the host, and those of allocate   *)
(* and destroy calls in progress: nothing leaks.                           *)
RootsAreOwned ==
  \A a \in roots :
    \/ a \in held
    \/ \E c \in Clients : work[c] = a
    \/ InCallOn(a) # {}
=============================================================================
