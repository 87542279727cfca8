-------------------------------- MODULE Prompts --------------------------------
(***************************************************************************)
(* The prompts of src/BuiltIns.cpp: trans_prompt, which Ruby code calls to *)
(* have the host ask its user something, dummyCB, which the host calls     *)
(* with the answer on a thread of its own, and s_outstandingPrompts, the   *)
(* map between the two that keeps the blocks from the garbage collector.   *)
(*                                                                         *)
(* One thread runs Ruby at a time, and trans_prompt does not give Ruby up  *)
(* to another in its middle, so the interpreter is one process here.  A    *)
(* prompt stands for the id the host gives it and for the block passed     *)
(* with it.  A slot is the memory of an element of the map; the allocator  *)
(* may hand out an erased one again.                                       *)
(***************************************************************************)
EXTENDS FiniteSets, BpSync

CONSTANTS
  PromptIds,    \* the ids the host gives, each once
  Slots,        \* memory for the elements of the map
  HostThreads,  \* the threads on which the host delivers answers
  Ruby,         \* the interpreter
  None          \* no prompt, no slot

ASSUME PromptsAssumption ==
  /\ Ruby \notin HostThreads
  /\ Free \notin HostThreads \union {Ruby}
  /\ None \notin PromptIds \union Slots

VARIABLES
  rubyPc,       \* where Ruby is: in "ruby" code, in trans_prompt, or "crashed"
  prompting,    \* the local variable x of trans_prompt
  lock,         \* s_lock
  slot,         \* s_outstandingPrompts: the slot of each prompt, or None
  registered,   \* the addresses given to rb_gc_register_address
  block,        \* of each prompt its block: "none", "live" or "collected"
  pending,      \* the prompts the host has been asked and has not answered
  hostPc,       \* where each host thread is in dummyCB, or "idle"
  answering     \* the argument promptId of each host thread's dummyCB

rubyVars == <<rubyPc, prompting>>
rootVars == <<slot, registered, block>>
hostVars == <<pending, hostPc, answering>>
vars     == <<rubyVars, lock, rootVars, hostVars>>

PromptPcs == {"lock", "ask", "record", "unlock"}

Outstanding == {x \in PromptIds : slot[x] # None}
UsedSlots   == {slot[x] : x \in Outstanding}

(* A step of Ruby from one place to another, and one of a host thread; a   *)
(* crash ends the process with all its threads.                            *)
RubyStep(from, to) == rubyPc = from /\ rubyPc' = to
HostStep(h, from, to) ==
  /\ rubyPc # "crashed"
  /\ hostPc[h] = from
  /\ hostPc' = [hostPc EXCEPT ![h] = to]

Init ==
  /\ rubyPc = "ruby"
  /\ prompting = None
  /\ lock = Free
  /\ slot = [x \in PromptIds |-> None]
  /\ registered = {}
  /\ block = [x \in PromptIds |-> "none"]
  /\ pending = {}
  /\ hostPc = [h \in HostThreads |-> "idle"]
  /\ answering = [h \in HostThreads |-> None]

-----------------------------------------------------------------------------
(* Slips of the pen in the code below: the runs show that a property would *)
(* notice.                                                                 *)

RegisterLocal(s) == registered \union {prompting}   \* the address of val
EraseNothing(x) == slot                             \* it is found and left there

-----------------------------------------------------------------------------
(* trans_prompt, on the interpreter thread.  A call with wrong arguments   *)
(* raises before it locks and changes nothing.  The bound: a prompt is made *)
(* only while PromptIds has an id for it.                                   *)
Prompt ==
  /\ RubyStep("ruby", "lock")
  /\ \E x \in PromptIds : block[x] = "none"
  /\ UNCHANGED <<prompting, lock, rootVars, hostVars>>

PromptLock ==
  /\ RubyStep("lock", "ask")
  /\ CanLock(lock)
  /\ lock' = Ruby
  /\ UNCHANGED <<prompting, rootVars, hostVars>>

(* The host's prompt() takes the question and returns its id; from then on *)
(* the host may answer.                                                    *)
PromptAsk ==
  /\ RubyStep("ask", "record")
  /\ \E x \in PromptIds :
       /\ block[x] = "none"
       /\ prompting' = x
       /\ pending' = pending \union {x}
  /\ UNCHANGED <<lock, rootVars, hostPc, answering>>

(* The block is put into the map, and the element's address is registered  *)
(* with the collector.                                                     *)
Register(s) == registered \union {s}

PromptRecord ==
  /\ RubyStep("record", "unlock")
  /\ \E s \in Slots \ UsedSlots :
       /\ slot' = [slot EXCEPT ![prompting] = s]
       /\ registered' = Register(s)
  /\ block' = [block EXCEPT ![prompting] = "live"]
  /\ UNCHANGED <<prompting, lock, hostVars>>

PromptUnlock ==
  /\ RubyStep("unlock", "ruby")
  /\ lock' \in Unlocked(lock, Ruby)
  /\ prompting' = None
  /\ UNCHANGED <<rootVars, hostVars>>

-----------------------------------------------------------------------------
(* The host answers a prompt, once: dummyCB on one of its threads.         *)

AnswerPrompt(h, x) ==
  /\ HostStep(h, "idle", "lock")
  /\ x \in pending
  /\ pending' = pending \ {x}
  /\ answering' = [answering EXCEPT ![h] = x]
  /\ UNCHANGED <<rubyVars, lock, rootVars>>

CallbackLock(h) ==
  /\ HostStep(h, "lock", "erase")
  /\ CanLock(lock)
  /\ lock' = h
  /\ UNCHANGED <<rubyVars, rootVars, pending, answering>>

(* An element that is found is erased, its address stays registered; an    *)
(* answer nobody is known to wait for is dropped.  The block is not called. *)
Erase(x) == [slot EXCEPT ![x] = None]

CallbackErase(h) ==
  /\ HostStep(h, "erase", "unlock")
  /\ slot' = Erase(answering[h])
  /\ UNCHANGED <<rubyVars, lock, registered, block, pending, answering>>

CallbackUnlock(h) ==
  /\ HostStep(h, "unlock", "idle")
  /\ lock' \in Unlocked(lock, h)
  /\ answering' = [answering EXCEPT ![h] = None]
  /\ UNCHANGED <<rubyVars, rootVars, pending>>

-----------------------------------------------------------------------------
(* The garbage collector runs in Ruby code, or in trans_prompt when it     *)
(* makes the block or registers the address, with the block on the stack.  *)
(* It takes a block that no registered element refers to.                  *)
Collect(x) ==
  /\ rubyPc \in {"ruby", "record", "unlock"}
  /\ block[x] = "live"
  /\ slot[x] \notin registered
  /\ x # prompting
  /\ block' = [block EXCEPT ![x] = "collected"]
  /\ UNCHANGED <<rubyVars, lock, slot, registered, hostVars>>

(* An address that stayed registered after its element was erased is read  *)
(* all the same.  What is there may look like an object, or like none, or  *)
(* the read may crash.                                                     *)
CollectorCrashes ==
  /\ rubyPc \in {"ruby", "record", "unlock"}
  /\ registered \ UsedSlots # {}
  /\ rubyPc' = "crashed"
  /\ UNCHANGED <<prompting, lock, rootVars, hostVars>>

PromptStep == PromptLock \/ PromptAsk \/ PromptRecord \/ PromptUnlock

CallbackStep(h) == CallbackLock(h) \/ CallbackErase(h) \/ CallbackUnlock(h)

Next ==
  \/ Prompt
  \/ PromptStep
  \/ \E h \in HostThreads :
       \/ \E x \in PromptIds : AnswerPrompt(h, x)
       \/ CallbackStep(h)
  \/ \E x \in PromptIds : Collect(x)
  \/ CollectorCrashes

Spec == Init /\ [][Next]_vars

(* Threads in the middle of a function go on, and a mutex that is free     *)
(* again and again starves nobody.  Ruby owes no prompt, the host no       *)
(* answer.                                                                 *)
FairSpec ==
  /\ Spec
  /\ SF_vars(PromptStep)
  /\ \A h \in HostThreads : SF_vars(CallbackStep(h))

-----------------------------------------------------------------------------
(* The variables have their types; the local variables are set where they  *)
(* are used and nowhere else.                                              *)
TypeOK ==
  /\ rubyPc \in {"ruby", "crashed"} \union PromptPcs
  /\ prompting \in PromptIds \union {None}
  /\ rubyPc # "crashed" => (prompting # None <=> rubyPc \in {"record", "unlock"})
  /\ lock \in HostThreads \union {Ruby, Free}
  /\ slot \in [PromptIds -> Slots \union {None}]
  /\ registered \subseteq Slots
  /\ block \in [PromptIds -> {"none", "live", "collected"}]
  /\ pending \subseteq PromptIds
  /\ hostPc \in [HostThreads -> {"idle", "lock", "erase", "unlock"}]
  /\ answering \in [HostThreads -> PromptIds \union {None}]
  /\ \A h \in HostThreads : answering[h] = None <=> hostPc[h] = "idle"

(* s_outstandingPrompts, "keeping track of outstanding procs", holds the   *)
(* prompts the host has still to answer, whenever its lock is free: no     *)
(* answer overtakes the recording of its prompt, as it would if s_lock     *)
(* were not held over the host's prompt(), and no answered prompt stays.   *)
OutstandingIsTracked ==
  lock = Free =>
    Outstanding = pending \union {answering[h] : h \in {g \in HostThreads : hostPc[g] = "lock"}}

(* The block of an outstanding prompt is rooted and has not been collected, *)
(* and no two prompts share an element.                                    *)
OutstandingIsRooted ==
  \A x \in Outstanding :
    /\ block[x] = "live"
    /\ slot[x] \in registered
    /\ \A y \in Outstanding : slot[x] = slot[y] => x = y

(* What the collector is told to read is an element of the map.            *)
RootsAreElements == registered \subseteq UsedSlots

(* transaction.prompt returns to Ruby.                                     *)
PromptReturns == rubyPc \in PromptPcs ~> rubyPc \in {"ruby", "crashed"}

(* The host's thread gets out of dummyCB.                                  *)
AnswerReturns ==
  \A h \in HostThreads : hostPc[h] # "idle" ~> (hostPc[h] = "idle" \/ rubyPc = "crashed")

-----------------------------------------------------------------------------
(* The invariant that carries the safety properties over every step.  A    *)
(* crash freezes the state, so its parts speak of a process that runs.     *)

(* s_lock is held by the thread that is between lock and unlock.           *)
LockOwner ==
  /\ lock = Ruby <=> rubyPc \in {"ask", "record", "unlock"}
  /\ \A h \in HostThreads : lock = h <=> hostPc[h] \in {"erase", "unlock"}

(* The prompts in the map, and the one about to be put there, are those the *)
(* host has to answer or is answering.                                     *)
Recording(x) == rubyPc = "record" /\ x = prompting
Tracked ==
  \A x \in PromptIds :
    slot[x] # None \/ Recording(x) <=>
      x \in pending \/ \E h \in HostThreads : hostPc[h] \in {"lock", "erase"} /\ answering[h] = x

(* An id the host has given is not given again, nor answered twice.        *)
AnsweredOnce ==
  \A x \in PromptIds, h \in HostThreads : answering[h] = x =>
    /\ x \notin pending
    /\ block[x] # "none" \/ Recording(x)
    /\ \A g \in HostThreads : answering[g] = x => g = h

AskedOnce == \A x \in pending : block[x] # "none" \/ Recording(x)

(* The inductive invariant.                                                *)
InductiveInvariant ==
  /\ TypeOK
  /\ OutstandingIsTracked
  /\ OutstandingIsRooted
  /\ rubyPc # "crashed" => LockOwner /\ Tracked /\ AnsweredOnce /\ AskedOnce
=============================================================================
