---------------------------- MODULE Win32Condition ----------------------------
(***************************************************************************)
(* Condition of src/util/bpsync_Windows.cpp: a count of waiters, an event  *)
(* that one waiter resets as it wakes (e[0]) and an event that stays set   *)
(* until somebody resets it (e[1]), used as src/ uses conditions: waiters  *)
(* and signallers hold the mutex the condition goes with.                  *)
(*                                                                         *)
(* What is between EnterCriticalSection and LeaveCriticalSection of the    *)
(* condition's own lock is one step.                                       *)
(***************************************************************************)
EXTENDS Integers, FiniteSets, FiniteSetsExt, BpSync

CONSTANTS
  Waiters,      \* threads that wait
  Signallers,   \* threads that signal or broadcast
  Calls,        \* what signallers call: "signal", "broadcast"
  TimedWaits    \* may a wait time out (timeWait with msecs # 0)?

ASSUME ConditionAssumption ==
  /\ IsFiniteSet(Waiters)
  /\ Waiters \intersect Signallers = {}
  /\ Free \notin Waiters \union Signallers
  /\ Calls \subseteq {"signal", "broadcast"}
  /\ TimedWaits \in BOOLEAN

VARIABLES
  mutex,      \* the mutex passed to wait
  count,      \* i, the number of waiters
  event,      \* are "signal" (e[0]) and "broadcast" (e[1]) set?
  pc,         \* where each thread is
  reason,     \* result of WaitForMultipleObjects, or the call of a signaller
  owed        \* history: the wake-ups promised to threads that sleep

vars == <<mutex, count, event, pc, reason, owed>>

WaiterPcs    == {"out", "locked", "counted", "asleep", "woken", "reset", "relock", "back"}
SignallerPcs == {"out", "locked", "set", "unlock"}

Asleep == {w \in Waiters : pc[w] = "asleep"}

Goto(t, label) == pc' = [pc EXCEPT ![t] = label]
Step(t, from, to) == pc[t] = from /\ Goto(t, to)

Init ==
  /\ mutex = Free
  /\ count = 0
  /\ event = [signal |-> FALSE, broadcast |-> FALSE]
  /\ pc = [t \in Waiters \union Signallers |-> "out"]
  /\ reason = [t \in Waiters \union Signallers |-> "none"]
  /\ owed = 0

(* A promise is kept, or void, when its thread has left the sleep.         *)
OneLessAsleep == owed' = Max({0, owed - 1})

-----------------------------------------------------------------------------
(* Slips of the pen in the code below: the runs show that a property would *)
(* notice.                                                                 *)

(* The waiter forgets to decrement i when it timed out, or does it twice.  *)
LeftUnlessTimedOut(w) == IF reason[w] = "timeout" THEN count ELSE count - 1
LeftTwice(w) == count - 2

(* The waiter goes without the mutex if it timed out.                      *)
LockUnlessTimedOut(w) ==
  IF reason[w] = "timeout" THEN UNCHANGED mutex ELSE CanLock(mutex) /\ mutex' = w

(* haveWait = (c->i > 1).                                                  *)
SeveralWait == count > 1

-----------------------------------------------------------------------------
(* Condition::timeWait, and wait, which is timeWait without a limit.       *)

(* Mutex::lock.                                                            *)
Lock(t) == CanLock(mutex) /\ mutex' = t

(* The caller has locked the mutex.                                        *)
LockToWait(w) ==
  /\ Step(w, "out", "locked")
  /\ Lock(w)
  /\ UNCHANGED <<count, event, reason, owed>>

Count(w) ==
  /\ Step(w, "locked", "counted")
  /\ count' = count + 1
  /\ UNCHANGED <<mutex, event, reason, owed>>

Release(w) ==
  /\ Step(w, "counted", "asleep")
  /\ mutex' \in Unlocked(mutex, w)
  /\ UNCHANGED <<count, event, reason, owed>>

(* WaitForMultipleObjects prefers the first event that is set; e[0] resets *)
(* itself as it lets a thread go.                                          *)
WakeUp(w) ==
  /\ Step(w, "asleep", "woken")
  /\ \/ /\ event.signal
        /\ event' = [event EXCEPT !.signal = FALSE]
        /\ reason' = [reason EXCEPT ![w] = "signal"]
     \/ /\ event.broadcast /\ ~event.signal
        /\ reason' = [reason EXCEPT ![w] = "broadcast"]
        /\ UNCHANGED event
  /\ OneLessAsleep
  /\ UNCHANGED <<mutex, count>>

TimeOut(w) ==
  /\ TimedWaits
  /\ Step(w, "asleep", "woken")
  /\ reason' = [reason EXCEPT ![w] = "timeout"]
  /\ owed' = Min({owed, Cardinality(Asleep) - 1})
  /\ UNCHANGED <<mutex, count, event>>

(* The last waiter of a broadcast will reset e[1], after it has left the   *)
(* critical section.                                                       *)
Left(w) == count - 1

Leave(w) ==
  /\ pc[w] = "woken"
  /\ count' = Left(w)
  /\ Goto(w, IF reason[w] = "broadcast" /\ count' = 0 THEN "reset" ELSE "relock")
  /\ UNCHANGED <<mutex, event, reason, owed>>

ResetBroadcast(w) ==
  /\ Step(w, "reset", "relock")
  /\ event' = [event EXCEPT !.broadcast = FALSE]
  /\ UNCHANGED <<mutex, count, reason, owed>>

Relock(w) ==
  /\ Step(w, "relock", "back")
  /\ Lock(w)
  /\ UNCHANGED <<count, event, reason, owed>>

(* The caller unlocks the mutex.                                           *)
UnlockAfterWait(w) ==
  /\ Step(w, "back", "out")
  /\ mutex' \in Unlocked(mutex, w)
  /\ reason' = [reason EXCEPT ![w] = "none"]
  /\ UNCHANGED <<count, event, owed>>

-----------------------------------------------------------------------------
(* Condition::signal and Condition::broadcast, under the mutex.            *)

LockToSignal(s) ==
  /\ Step(s, "out", "locked")
  /\ Lock(s)
  /\ UNCHANGED <<count, event, reason, owed>>

HaveWait == count > 0

(* The wake-ups that the call promises: a signal one more sleeper, if there *)
(* is one, a broadcast all of them.                                        *)
Owed(call) ==
  IF call = "broadcast" THEN Cardinality(Asleep)
                        ELSE Min({owed + 1, Cardinality(Asleep)})

TestWaiters(s, call) ==
  /\ Step(s, "locked", IF HaveWait THEN "set" ELSE "unlock")
  /\ reason' = [reason EXCEPT ![s] = call]
  /\ owed' = Owed(call)
  /\ UNCHANGED <<mutex, count, event>>

SetEvent(s) ==
  /\ Step(s, "set", "unlock")
  /\ event' = [event EXCEPT ![reason[s]] = TRUE]
  /\ UNCHANGED <<mutex, count, reason, owed>>

UnlockAfterSignal(s) ==
  /\ Step(s, "unlock", "out")
  /\ mutex' \in Unlocked(mutex, s)
  /\ reason' = [reason EXCEPT ![s] = "none"]
  /\ UNCHANGED <<count, event, owed>>

-----------------------------------------------------------------------------
WaiterStep(w) ==
  \/ Count(w) \/ Release(w) \/ WakeUp(w) \/ Leave(w) \/ ResetBroadcast(w)
  \/ Relock(w) \/ UnlockAfterWait(w)

SignallerStep(s) ==
  \/ \E call \in Calls : TestWaiters(s, call)
  \/ SetEvent(s)
  \/ UnlockAfterSignal(s)

Next ==
  \/ \E w \in Waiters : LockToWait(w) \/ TimeOut(w) \/ WaiterStep(w)
  \/ \E s \in Signallers : LockToSignal(s) \/ SignallerStep(s)

Spec == Init /\ [][Next]_vars

(* A thread inside a function of the condition goes on.  A free mutex      *)
(* starves nobody, and an event that is set stays set for the thread that  *)
(* waits.  Nobody owes a wait or a signal.                                 *)
FairSpec ==
  /\ Spec
  /\ \A w \in Waiters : SF_vars(WaiterStep(w))
  /\ \A s \in Signallers : SF_vars(SignallerStep(s))

-----------------------------------------------------------------------------
(* The variables have their types.                                         *)
TypeOK ==
  /\ mutex \in Waiters \union Signallers \union {Free}
  /\ count \in Nat
  /\ event \in [signal : BOOLEAN, broadcast : BOOLEAN]
  /\ pc \in [Waiters \union Signallers -> WaiterPcs \union SignallerPcs]
  /\ \A w \in Waiters : pc[w] \in WaiterPcs
  /\ \A s \in Signallers : pc[s] \in SignallerPcs
  /\ reason \in [Waiters \union Signallers -> {"none", "signal", "broadcast", "timeout"}]
  /\ owed \in Nat

(* i counts the threads that sleep or are about to: no signal is withheld  *)
(* from a sleeper, and none is given for a thread long gone.               *)
CountsTheWaiters ==
  count = Cardinality({w \in Waiters : pc[w] \in {"counted", "asleep", "woken"}})

(* wait returns with the mutex, however it ended (the caller is about to   *)
(* read what the mutex protects).                                          *)
ReturnsWithMutex == \A w \in Waiters : pc[w] = "back" => mutex = w

(* The sleepers that the events, and a signaller about to set one, are     *)
(* going to wake.                                                          *)
Coming(call) == event[call] \/ \E s \in Signallers : pc[s] = "set" /\ reason[s] = call
WillWake ==
  IF Coming("broadcast")
    THEN Cardinality(Asleep)
    ELSE Min({Cardinality(Asleep),
              (IF event.signal THEN 1 ELSE 0)
                + Cardinality({s \in Signallers : pc[s] = "set" /\ reason[s] = "signal"})})

(* "awake all threads waiting on the condition", "awake a single thread    *)
(* waiting on the condition" (util/bpsync.hh:65-68): as many sleepers will *)
(* wake as signals and broadcasts have promised.                           *)
WakeupsAreKept == owed <= WillWake

(* The condition is the one that bpsync.hh describes and pthread provides, *)
(* when one thread waits: releasing the mutex before the sleep, counting   *)
(* the waiters and resetting the events cannot be told from outside.  A    *)
(* sleeper is awake to the host as soon as a wake-up is promised to it.    *)
Place(t) ==
  CASE pc[t] = "counted"                                        -> "locked"
    [] pc[t] = "asleep" /\ owed > 0                             -> "awake"
    [] pc[t] \in {"woken", "reset", "relock"}                   -> "awake"
    [] pc[t] \in {"set", "unlock"}                              -> "called"
    [] OTHER                                                    -> pc[t]
Promised == INSTANCE PosixCondition
  WITH place <- [t \in Waiters \union Signallers |-> Place(t)]
ImplementsCondition == Promised!Promise

-----------------------------------------------------------------------------
(* The invariant that carries the safety properties over every step.       *)

(* The mutex belongs to the waiter that is about to wait or back from it,  *)
(* or to the signaller between its lock and unlock.                        *)
MutexOwner ==
  /\ \A w \in Waiters : mutex = w <=> pc[w] \in {"locked", "counted", "back"}
  /\ \A s \in Signallers : mutex = s <=> pc[s] \in {"locked", "set", "unlock"}

(* Wake-ups are owed to sleepers, and an event will be set for a purpose.  *)
OwedToSleepers == owed <= Cardinality(Asleep)
SetsAnEvent == \A s \in Signallers : pc[s] = "set" => reason[s] \in {"signal", "broadcast"}

(* The only waiter that sleeps while a wake-up is owed will find an event. *)
AtMostOneWaiter == \A v, w \in Waiters : v = w
WakeupIsComing == owed > 0 => Coming("signal") \/ Coming("broadcast")

(* The inductive invariant: what the counter, the events and the mutex     *)
(* have to do with each other.                                             *)
InductiveInvariant ==
  /\ TypeOK
  /\ MutexOwner
  /\ CountsTheWaiters
  /\ OwedToSleepers
  /\ SetsAnEvent
  /\ AtMostOneWaiter => WakeupIsComing
=============================================================================
