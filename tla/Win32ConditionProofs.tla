-------------------------- MODULE Win32ConditionProofs --------------------------
(***************************************************************************)
(* The counter and the mutex of the Windows condition are right for any    *)
(* waiters and signallers.  When one thread waits, no wake-up is lost and  *)
(* the condition is the one that bpsync.hh promises (PosixCondition).      *)
(***************************************************************************)
EXTENDS Win32Condition, FiniteSetTheorems, TLAPS

USE ConditionAssumption DEF vars

Threads == Waiters \union Signallers

-----------------------------------------------------------------------------
(* The larger and the smaller of two numbers.                              *)
LEMMA MaxOfTwo ==
  ASSUME NEW a \in Int, NEW b \in Int
  PROVE  Max({a, b}) = IF a >= b THEN a ELSE b
<1>1. \E x \in {a, b} : \A y \in {a, b} : x >= y
  OBVIOUS
<1> QED
  BY <1>1 DEF Max

LEMMA MinOfTwo ==
  ASSUME NEW a \in Int, NEW b \in Int
  PROVE  Min({a, b}) = IF a <= b THEN a ELSE b
<1>1. \E x \in {a, b} : \A y \in {a, b} : x =< y
  OBVIOUS
<1> QED
  BY <1>1 DEF Min

(* The threads that i counts, and how many they are.                       *)
Counted == {w \in Waiters : pc[w] \in {"counted", "asleep", "woken"}}

LEMMA WaitersAreFinite ==
  /\ IsFiniteSet(Asleep) /\ Cardinality(Asleep) \in Nat
  /\ IsFiniteSet(Counted) /\ Cardinality(Counted) \in Nat
  /\ Cardinality(Asleep) <= Cardinality(Counted)
<1>1. Asleep \in SUBSET Counted /\ Counted \in SUBSET Waiters
  BY DEF Asleep, Counted
<1>2. IsFiniteSet(Counted)
  BY <1>1, FS_Subset
<1> QED
  BY <1>1, <1>2, FS_Subset, FS_CardinalityType

LEMMA NobodyAsleep == Cardinality(Asleep) = 0 <=> Asleep = {}
BY WaitersAreFinite, FS_EmptySet

(* A thread that goes from one place to another leaves the others alone.   *)
LEMMA StepEffect ==
  ASSUME TypeOK, NEW t \in Threads, NEW to, Goto(t, to)
  PROVE  /\ pc'[t] = to
         /\ \A u \in Threads : u # t => pc'[u] = pc[u]
         /\ to \in WaiterPcs \union SignallerPcs =>
              pc' \in [Threads -> WaiterPcs \union SignallerPcs]
BY DEF TypeOK, Goto, Threads

(* What a step of a waiter does to the number of the sleepers and to that  *)
(* of the threads that i counts.                                           *)
LEMMA AsleepEffect ==
  ASSUME TypeOK, NEW w \in Waiters, NEW to, Goto(w, to)
  PROVE  Cardinality(Asleep)' =
           CASE pc[w] = "asleep" /\ to # "asleep" -> Cardinality(Asleep) - 1
             [] pc[w] # "asleep" /\ to = "asleep" -> Cardinality(Asleep) + 1
             [] OTHER -> Cardinality(Asleep)
<1>1. /\ pc'[w] = to
      /\ \A u \in Waiters : u # w => pc'[u] = pc[u]
  BY StepEffect DEF Threads
<1>2. Asleep' = IF to = "asleep" THEN Asleep \cup {w} ELSE Asleep \ {w}
  BY <1>1 DEF Asleep
<1>3. w \in Asleep <=> pc[w] = "asleep"
  BY DEF Asleep
<1> QED
  BY <1>2, <1>3, WaitersAreFinite, FS_AddElement, FS_RemoveElement

LEMMA CountedEffect ==
  ASSUME TypeOK, NEW w \in Waiters, NEW to, Goto(w, to)
  PROVE  LET in(label) == label \in {"counted", "asleep", "woken"}
         IN  Cardinality(Counted)' =
               CASE in(pc[w]) /\ ~in(to) -> Cardinality(Counted) - 1
                 [] ~in(pc[w]) /\ in(to) -> Cardinality(Counted) + 1
                 [] OTHER -> Cardinality(Counted)
<1> DEFINE in(label) == label \in {"counted", "asleep", "woken"}
<1>1. /\ pc'[w] = to
      /\ \A u \in Waiters : u # w => pc'[u] = pc[u]
  BY StepEffect DEF Threads
<1>2. Counted' = IF in(to) THEN Counted \cup {w} ELSE Counted \ {w}
  BY <1>1 DEF Counted
<1>3. w \in Counted <=> in(pc[w])
  BY DEF Counted
<1> HIDE DEF in
<1>4. Cardinality(Counted)' =
        CASE in(pc[w]) /\ ~in(to) -> Cardinality(Counted) - 1
          [] ~in(pc[w]) /\ in(to) -> Cardinality(Counted) + 1
          [] OTHER -> Cardinality(Counted)
  BY <1>2, <1>3, WaitersAreFinite, FS_AddElement, FS_RemoveElement
<1> QED
  BY <1>4 DEF in

(* A step of a signaller changes neither.                                  *)
LEMMA SignallerEffect ==
  ASSUME TypeOK, NEW s \in Signallers, NEW to, Goto(s, to)
  PROVE  Asleep' = Asleep /\ Counted' = Counted
<1>1. \A w \in Waiters : pc'[w] = pc[w]
  BY StepEffect DEF Threads
<1> QED
  BY <1>1 DEF Asleep, Counted

(* Where one thread waits, none sleeps when that one does not.             *)
LEMMA OnlyWaiter ==
  ASSUME AtMostOneWaiter, NEW w \in Waiters
  PROVE  /\ pc[w] # "asleep" => Cardinality(Asleep) = 0
         /\ pc[w] = "asleep" => Cardinality(Asleep) = 1
<1>1. Asleep = IF pc[w] = "asleep" THEN {w} ELSE {}
  BY DEF AtMostOneWaiter, Asleep
<1> QED
  BY <1>1, FS_EmptySet, FS_Singleton

-----------------------------------------------------------------------------
(* The steps that only pass the mutex on.                                  *)

(* Whoever takes the mutex was without it, and nobody else had it.         *)
LEMMA LockKeepsOwner ==
  ASSUME TypeOK, MutexOwner, NEW t \in Threads, NEW to, Goto(t, to), Lock(t),
         t \in Waiters => to \in {"locked", "counted", "back"},
         t \in Signallers => to \in {"locked", "set", "unlock"}
  PROVE  MutexOwner'
<1>1. mutex = Free /\ mutex' = t /\ t # Free
  BY DEF Lock, CanLock, Threads
<1>2. pc'[t] = to /\ \A u \in Threads : u # t => pc'[u] = pc[u]
  BY StepEffect
<1> QED
  BY <1>1, <1>2 DEF MutexOwner, Threads

(* Whoever gives it back was its owner, and leaves it free.                *)
LEMMA UnlockKeepsOwner ==
  ASSUME TypeOK, MutexOwner, NEW t \in Threads, NEW to, Goto(t, to),
         mutex = t, mutex' \in Unlocked(mutex, t),
         t \in Waiters => to \notin {"locked", "counted", "back"},
         t \in Signallers => to \notin {"locked", "set", "unlock"}
  PROVE  mutex' = Free /\ MutexOwner'
<1>1. mutex' = Free
  BY DEF Unlocked
<1>2. pc'[t] = to /\ \A u \in Threads : u # t => pc'[u] = pc[u]
  BY StepEffect
<1> QED
  BY <1>1, <1>2 DEF MutexOwner, Threads

(* A step of a thread that has the mutex before and after, or neither.     *)
LEMMA StepKeepsOwner ==
  ASSUME TypeOK, MutexOwner, NEW t \in Threads, NEW to, Goto(t, to), UNCHANGED mutex,
         t \in Waiters =>
           (pc[t] \in {"locked", "counted", "back"} <=> to \in {"locked", "counted", "back"}),
         t \in Signallers =>
           (pc[t] \in {"locked", "set", "unlock"} <=> to \in {"locked", "set", "unlock"})
  PROVE  MutexOwner'
<1>1. pc'[t] = to /\ \A u \in Threads : u # t => pc'[u] = pc[u]
  BY StepEffect
<1> QED
  BY <1>1 DEF MutexOwner, Threads

-----------------------------------------------------------------------------
(* Condition::wait and Condition::timeWait.                                *)

(* No signaller changes its mind when a waiter goes on.                    *)
LEMMA WaiterKeepsSignallers ==
  ASSUME InductiveInvariant, NEW w \in Waiters, NEW to \in WaiterPcs, Goto(w, to),
         \A s \in Signallers : reason'[s] = reason[s]
  PROVE  /\ pc' \in [Threads -> WaiterPcs \union SignallerPcs]
         /\ \A v \in Waiters : pc'[v] \in WaiterPcs
         /\ \A s \in Signallers : pc'[s] = pc[s]
         /\ SetsAnEvent'
         /\ \A call \in {"signal", "broadcast"} :
              event'[call] = event[call] => (Coming(call)' <=> Coming(call))
<1>1. /\ pc' \in [Threads -> WaiterPcs \union SignallerPcs]
      /\ pc'[w] = to
      /\ \A u \in Threads : u # w => pc'[u] = pc[u]
  BY StepEffect DEF InductiveInvariant, Threads
<1>2. \A s \in Signallers : pc'[s] = pc[s]
  BY <1>1 DEF Threads
<1>3. \A v \in Waiters : pc'[v] \in WaiterPcs
  BY <1>1 DEF InductiveInvariant, TypeOK, Threads
<1> QED
  BY <1>1, <1>2, <1>3 DEF InductiveInvariant, SetsAnEvent, Coming

LEMMA LockToWaitStep ==
  ASSUME InductiveInvariant, NEW w \in Waiters, LockToWait(w)
  PROVE  InductiveInvariant'
<1>0. /\ pc[w] = "out" /\ Goto(w, "locked") /\ Lock(w)
      /\ UNCHANGED <<count, event, reason, owed>>
  BY DEF LockToWait, Step
<1>k. /\ pc' \in [Threads -> WaiterPcs \union SignallerPcs]
      /\ \A v \in Waiters : pc'[v] \in WaiterPcs
      /\ \A s \in Signallers : pc'[s] = pc[s]
      /\ SetsAnEvent'
      /\ Coming("signal")' <=> Coming("signal")
      /\ Coming("broadcast")' <=> Coming("broadcast")
  BY <1>0, WaiterKeepsSignallers DEF WaiterPcs
<1> USE DEF InductiveInvariant
<1>1. TypeOK'
  BY <1>0, <1>k DEF TypeOK, Lock, Threads
<1>2. MutexOwner'
  BY <1>0, LockKeepsOwner DEF Threads
<1>3. CountsTheWaiters'
  BY <1>0, CountedEffect DEF CountsTheWaiters, Counted
<1>4. OwedToSleepers'
  BY <1>0, AsleepEffect DEF OwedToSleepers
<1>5. AtMostOneWaiter => WakeupIsComing'
  BY <1>0, <1>k DEF WakeupIsComing
<1> QED
  BY <1>k, <1>1, <1>2, <1>3, <1>4, <1>5

LEMMA CountStep ==
  ASSUME InductiveInvariant, NEW w \in Waiters, Count(w)
  PROVE  InductiveInvariant'
<1>0. /\ pc[w] = "locked" /\ Goto(w, "counted") /\ count' = count + 1
      /\ UNCHANGED <<mutex, event, reason, owed>>
  BY DEF Count, Step
<1>k. /\ pc' \in [Threads -> WaiterPcs \union SignallerPcs]
      /\ \A v \in Waiters : pc'[v] \in WaiterPcs
      /\ \A s \in Signallers : pc'[s] = pc[s]
      /\ SetsAnEvent'
      /\ Coming("signal")' <=> Coming("signal")
      /\ Coming("broadcast")' <=> Coming("broadcast")
  BY <1>0, WaiterKeepsSignallers DEF WaiterPcs
<1> USE DEF InductiveInvariant
<1>1. TypeOK'
  BY <1>0, <1>k DEF TypeOK, Threads
<1>2. MutexOwner'
  BY <1>0, StepKeepsOwner DEF Threads
<1>3. CountsTheWaiters'
  BY <1>0, CountedEffect DEF CountsTheWaiters, Counted
<1>4. OwedToSleepers'
  BY <1>0, AsleepEffect DEF OwedToSleepers
<1>5. AtMostOneWaiter => WakeupIsComing'
  BY <1>0, <1>k DEF WakeupIsComing
<1> QED
  BY <1>k, <1>1, <1>2, <1>3, <1>4, <1>5

(* Nobody owes a wake-up to the only waiter, which was not asleep.         *)
LEMMA ReleaseStep ==
  ASSUME InductiveInvariant, NEW w \in Waiters, Release(w)
  PROVE  InductiveInvariant'
<1>0. /\ pc[w] = "counted" /\ Goto(w, "asleep") /\ mutex' \in Unlocked(mutex, w)
      /\ UNCHANGED <<count, event, reason, owed>>
  BY DEF Release, Step
<1>k. /\ pc' \in [Threads -> WaiterPcs \union SignallerPcs]
      /\ \A v \in Waiters : pc'[v] \in WaiterPcs
      /\ \A s \in Signallers : pc'[s] = pc[s]
      /\ SetsAnEvent'
  BY <1>0, WaiterKeepsSignallers DEF WaiterPcs
<1> USE DEF InductiveInvariant
<1>2. mutex' = Free /\ MutexOwner'
  <2>1. mutex = w
    BY <1>0 DEF MutexOwner
  <2> QED
    BY <1>0, <2>1, UnlockKeepsOwner DEF Threads
<1>1. TypeOK'
  BY <1>0, <1>k, <1>2 DEF TypeOK, Threads
<1>3. CountsTheWaiters'
  BY <1>0, CountedEffect DEF CountsTheWaiters, Counted
<1>4. OwedToSleepers'
  BY <1>0, AsleepEffect, WaitersAreFinite DEF OwedToSleepers, TypeOK
<1>5. AtMostOneWaiter => WakeupIsComing'
  BY <1>0, OnlyWaiter DEF OwedToSleepers, WakeupIsComing, TypeOK
<1> QED
  BY <1>k, <1>1, <1>2, <1>3, <1>4, <1>5

(* A thread that leaves the sleep by an event leaves one promise less.     *)
LEMMA WakeUpStep ==
  ASSUME InductiveInvariant, NEW w \in Waiters, WakeUp(w)
  PROVE  InductiveInvariant'
<1>0. /\ pc[w] = "asleep" /\ Goto(w, "woken") /\ owed' = Max({0, owed - 1})
      /\ UNCHANGED <<mutex, count>>
  BY DEF WakeUp, Step, OneLessAsleep
<1>w. /\ event' \in {event, [event EXCEPT !.signal = FALSE]}
      /\ \E r \in {"signal", "broadcast"} : reason' = [reason EXCEPT ![w] = r]
  BY DEF WakeUp
<1>r. \A s \in Signallers : reason'[s] = reason[s]
  BY <1>w DEF InductiveInvariant, TypeOK
<1>k. /\ pc' \in [Threads -> WaiterPcs \union SignallerPcs]
      /\ \A v \in Waiters : pc'[v] \in WaiterPcs
      /\ \A s \in Signallers : pc'[s] = pc[s]
      /\ SetsAnEvent'
  BY <1>0, <1>r, WaiterKeepsSignallers DEF WaiterPcs
<1> USE DEF InductiveInvariant
<1>o. owed' \in Nat /\ owed' = IF owed = 0 THEN 0 ELSE owed - 1
  BY <1>0, MaxOfTwo DEF TypeOK
<1>1. TypeOK'
  <2>1. event' \in [signal : BOOLEAN, broadcast : BOOLEAN]
    BY <1>w DEF TypeOK
  <2>2. reason' \in [Threads -> {"none", "signal", "broadcast", "timeout"}]
    BY <1>w DEF TypeOK, Threads
  <2> QED
    BY <1>0, <1>k, <1>o, <2>1, <2>2 DEF TypeOK, Threads
<1>2. MutexOwner'
  BY <1>0, StepKeepsOwner DEF Threads
<1>3. CountsTheWaiters'
  BY <1>0, CountedEffect DEF CountsTheWaiters, Counted
<1>4. OwedToSleepers'
  <2>1. Cardinality(Asleep)' = Cardinality(Asleep) - 1 /\ Cardinality(Asleep)' \in Nat
    <3>1. Asleep' \in SUBSET Waiters
      BY DEF Asleep
    <3> QED
      BY <1>0, <3>1, AsleepEffect, FS_Subset, FS_CardinalityType
  <2> QED
    BY <1>o, <2>1, WaitersAreFinite DEF OwedToSleepers, TypeOK
<1>5. AtMostOneWaiter => WakeupIsComing'
  BY <1>o, OnlyWaiter, <1>0 DEF OwedToSleepers, WakeupIsComing, TypeOK
<1> QED
  BY <1>k, <1>1, <1>2, <1>3, <1>4, <1>5

(* A thread that times out takes a promise with it only when there are     *)
(* more promises than sleepers left.                                       *)
LEMMA TimeOutStep ==
  ASSUME InductiveInvariant, NEW w \in Waiters, TimeOut(w)
  PROVE  InductiveInvariant'
<1>0. /\ pc[w] = "asleep" /\ Goto(w, "woken")
      /\ owed' = Min({owed, Cardinality(Asleep) - 1})
      /\ reason' = [reason EXCEPT ![w] = "timeout"]
      /\ UNCHANGED <<mutex, count, event>>
  BY DEF TimeOut, Step
<1>r. \A s \in Signallers : reason'[s] = reason[s]
  BY <1>0 DEF InductiveInvariant, TypeOK
<1>k. /\ pc' \in [Threads -> WaiterPcs \union SignallerPcs]
      /\ \A v \in Waiters : pc'[v] \in WaiterPcs
      /\ \A s \in Signallers : pc'[s] = pc[s]
      /\ SetsAnEvent'
  BY <1>0, <1>r, WaiterKeepsSignallers DEF WaiterPcs
<1> USE DEF InductiveInvariant
<1>c. Cardinality(Asleep)' = Cardinality(Asleep) - 1 /\ Cardinality(Asleep)' \in Nat
  <2>1. Asleep' \in SUBSET Waiters
    BY DEF Asleep
  <2> QED
    BY <1>0, <2>1, AsleepEffect, FS_Subset, FS_CardinalityType
<1>o. owed' \in Nat /\ owed' <= Cardinality(Asleep)'
  BY <1>0, <1>c, MinOfTwo, WaitersAreFinite DEF TypeOK
<1>1. TypeOK'
  <2>1. reason' \in [Threads -> {"none", "signal", "broadcast", "timeout"}]
    BY <1>0 DEF TypeOK, Threads
  <2> QED
    BY <1>0, <1>k, <1>o, <2>1 DEF TypeOK, Threads
<1>2. MutexOwner'
  BY <1>0, StepKeepsOwner DEF Threads
<1>3. CountsTheWaiters'
  BY <1>0, CountedEffect DEF CountsTheWaiters, Counted
<1>4. OwedToSleepers'
  BY <1>o DEF OwedToSleepers
<1>5. AtMostOneWaiter => WakeupIsComing'
  BY <1>0, <1>c, <1>o, OnlyWaiter DEF WakeupIsComing
<1> QED
  BY <1>k, <1>1, <1>2, <1>3, <1>4, <1>5

LEMMA LeaveStep ==
  ASSUME InductiveInvariant, NEW w \in Waiters, Leave(w)
  PROVE  InductiveInvariant'
<1> PICK to \in {"reset", "relock"} : Goto(w, to)
  BY DEF Leave
<1>0. /\ pc[w] = "woken" /\ count' = count - 1
      /\ UNCHANGED <<mutex, event, reason, owed>>
  BY DEF Leave, Left
<1>k. /\ pc' \in [Threads -> WaiterPcs \union SignallerPcs]
      /\ \A v \in Waiters : pc'[v] \in WaiterPcs
      /\ \A s \in Signallers : pc'[s] = pc[s]
      /\ SetsAnEvent'
      /\ Coming("signal")' <=> Coming("signal")
      /\ Coming("broadcast")' <=> Coming("broadcast")
  BY <1>0, WaiterKeepsSignallers DEF WaiterPcs
<1> USE DEF InductiveInvariant
<1>2. MutexOwner'
  BY <1>0, StepKeepsOwner DEF Threads
<1>3. CountsTheWaiters'
  BY <1>0, CountedEffect DEF CountsTheWaiters, Counted
<1>1. TypeOK'
  <2>1. count' \in Nat
    <3>1. Counted' \in SUBSET Waiters
      BY DEF Counted
    <3> QED
      BY <1>3, <3>1, FS_Subset, FS_CardinalityType DEF CountsTheWaiters, Counted
  <2> QED
    BY <1>0, <1>k, <2>1 DEF TypeOK, Threads
<1>4. OwedToSleepers'
  BY <1>0, AsleepEffect DEF OwedToSleepers
<1>5. AtMostOneWaiter => WakeupIsComing'
  BY <1>0, <1>k DEF WakeupIsComing
<1> QED
  BY <1>k, <1>1, <1>2, <1>3, <1>4, <1>5

(* e[1] is reset by the only waiter, whose own wake-up it was.             *)
LEMMA ResetBroadcastStep ==
  ASSUME InductiveInvariant, NEW w \in Waiters, ResetBroadcast(w)
  PROVE  InductiveInvariant'
<1>0. /\ pc[w] = "reset" /\ Goto(w, "relock")
      /\ event' = [event EXCEPT !.broadcast = FALSE]
      /\ UNCHANGED <<mutex, count, reason, owed>>
  BY DEF ResetBroadcast, Step
<1>k. /\ pc' \in [Threads -> WaiterPcs \union SignallerPcs]
      /\ \A v \in Waiters : pc'[v] \in WaiterPcs
      /\ \A s \in Signallers : pc'[s] = pc[s]
      /\ SetsAnEvent'
  BY <1>0, WaiterKeepsSignallers DEF WaiterPcs
<1> USE DEF InductiveInvariant
<1>1. TypeOK'
  BY <1>0, <1>k DEF TypeOK, Threads
<1>2. MutexOwner'
  BY <1>0, StepKeepsOwner DEF Threads
<1>3. CountsTheWaiters'
  BY <1>0, CountedEffect DEF CountsTheWaiters, Counted
<1>4. OwedToSleepers'
  BY <1>0, AsleepEffect DEF OwedToSleepers
<1>5. AtMostOneWaiter => WakeupIsComing'
  BY <1>0, OnlyWaiter DEF OwedToSleepers, WakeupIsComing, TypeOK
<1> QED
  BY <1>k, <1>1, <1>2, <1>3, <1>4, <1>5

LEMMA RelockStep ==
  ASSUME InductiveInvariant, NEW w \in Waiters, Relock(w)
  PROVE  InductiveInvariant'
<1>0. /\ pc[w] = "relock" /\ Goto(w, "back") /\ Lock(w)
      /\ UNCHANGED <<count, event, reason, owed>>
  BY DEF Relock, Step
<1>k. /\ pc' \in [Threads -> WaiterPcs \union SignallerPcs]
      /\ \A v \in Waiters : pc'[v] \in WaiterPcs
      /\ \A s \in Signallers : pc'[s] = pc[s]
      /\ SetsAnEvent'
      /\ Coming("signal")' <=> Coming("signal")
      /\ Coming("broadcast")' <=> Coming("broadcast")
  BY <1>0, WaiterKeepsSignallers DEF WaiterPcs
<1> USE DEF InductiveInvariant
<1>1. TypeOK'
  BY <1>0, <1>k DEF TypeOK, Lock, Threads
<1>2. MutexOwner'
  BY <1>0, LockKeepsOwner DEF Threads
<1>3. CountsTheWaiters'
  BY <1>0, CountedEffect DEF CountsTheWaiters, Counted
<1>4. OwedToSleepers'
  BY <1>0, AsleepEffect DEF OwedToSleepers
<1>5. AtMostOneWaiter => WakeupIsComing'
  BY <1>0, <1>k DEF WakeupIsComing
<1> QED
  BY <1>k, <1>1, <1>2, <1>3, <1>4, <1>5

LEMMA UnlockAfterWaitStep ==
  ASSUME InductiveInvariant, NEW w \in Waiters, UnlockAfterWait(w)
  PROVE  InductiveInvariant'
<1>0. /\ pc[w] = "back" /\ Goto(w, "out") /\ mutex' \in Unlocked(mutex, w)
      /\ reason' = [reason EXCEPT ![w] = "none"]
      /\ UNCHANGED <<count, event, owed>>
  BY DEF UnlockAfterWait, Step
<1>r. \A s \in Signallers : reason'[s] = reason[s]
  BY <1>0 DEF InductiveInvariant, TypeOK
<1>k. /\ pc' \in [Threads -> WaiterPcs \union SignallerPcs]
      /\ \A v \in Waiters : pc'[v] \in WaiterPcs
      /\ \A s \in Signallers : pc'[s] = pc[s]
      /\ SetsAnEvent'
      /\ Coming("signal")' <=> Coming("signal")
      /\ Coming("broadcast")' <=> Coming("broadcast")
  BY <1>0, <1>r, WaiterKeepsSignallers DEF WaiterPcs
<1> USE DEF InductiveInvariant
<1>2. mutex' = Free /\ MutexOwner'
  <2>1. mutex = w
    BY <1>0 DEF MutexOwner
  <2> QED
    BY <1>0, <2>1, UnlockKeepsOwner DEF Threads
<1>1. TypeOK'
  <2>1. reason' \in [Threads -> {"none", "signal", "broadcast", "timeout"}]
    BY <1>0 DEF TypeOK, Threads
  <2> QED
    BY <1>0, <1>k, <1>2, <2>1 DEF TypeOK, Threads
<1>3. CountsTheWaiters'
  BY <1>0, CountedEffect DEF CountsTheWaiters, Counted
<1>4. OwedToSleepers'
  BY <1>0, AsleepEffect DEF OwedToSleepers
<1>5. AtMostOneWaiter => WakeupIsComing'
  BY <1>0, <1>k DEF WakeupIsComing
<1> QED
  BY <1>k, <1>1, <1>2, <1>3, <1>4, <1>5

-----------------------------------------------------------------------------
(* Condition::signal and Condition::broadcast.                             *)

(* What a step of a signaller keeps: the waiters and their number.         *)
LEMMA SignallerKeeps ==
  ASSUME InductiveInvariant, NEW s \in Signallers, NEW to \in SignallerPcs, Goto(s, to),
         UNCHANGED count
  PROVE  /\ pc' \in [Threads -> WaiterPcs \union SignallerPcs]
         /\ \A v \in Waiters : pc'[v] \in WaiterPcs
         /\ \A u \in Signallers : pc'[u] \in SignallerPcs
         /\ pc'[s] = to
         /\ \A u \in Signallers : u # s => pc'[u] = pc[u]
         /\ CountsTheWaiters'
         /\ Asleep' = Asleep
<1>1. /\ pc' \in [Threads -> WaiterPcs \union SignallerPcs]
      /\ pc'[s] = to
      /\ \A u \in Threads : u # s => pc'[u] = pc[u]
  BY StepEffect DEF InductiveInvariant, Threads
<1>2. Asleep' = Asleep /\ Counted' = Counted
  BY SignallerEffect DEF InductiveInvariant
<1>3. CountsTheWaiters'
  BY <1>2 DEF InductiveInvariant, CountsTheWaiters, Counted
<1> QED
  BY <1>1, <1>2, <1>3 DEF InductiveInvariant, TypeOK, Threads

LEMMA LockToSignalStep ==
  ASSUME InductiveInvariant, NEW s \in Signallers, LockToSignal(s)
  PROVE  InductiveInvariant'
<1>0. /\ pc[s] = "out" /\ Goto(s, "locked") /\ Lock(s)
      /\ UNCHANGED <<count, event, reason, owed>>
  BY DEF LockToSignal, Step
<1>k. /\ pc' \in [Threads -> WaiterPcs \union SignallerPcs]
      /\ \A v \in Waiters : pc'[v] \in WaiterPcs
      /\ \A u \in Signallers : pc'[u] \in SignallerPcs
      /\ pc'[s] = "locked"
      /\ \A u \in Signallers : u # s => pc'[u] = pc[u]
      /\ CountsTheWaiters'
      /\ Asleep' = Asleep
  BY <1>0, SignallerKeeps DEF SignallerPcs
<1> USE DEF InductiveInvariant
<1>1. TypeOK'
  BY <1>0, <1>k DEF TypeOK, Lock, Threads
<1>2. MutexOwner'
  BY <1>0, LockKeepsOwner DEF Threads
<1>4. OwedToSleepers'
  BY <1>0, <1>k DEF OwedToSleepers
<1>5. SetsAnEvent'
  BY <1>0, <1>k DEF SetsAnEvent
<1>6. AtMostOneWaiter => WakeupIsComing'
  BY <1>0, <1>k DEF WakeupIsComing, Coming
<1> QED
  BY <1>k, <1>1, <1>2, <1>4, <1>5, <1>6

(* The call promises wake-ups only where there are sleepers: then i is not *)
(* 0, and the event is going to be set.                                    *)
LEMMA OwedEffect ==
  ASSUME InductiveInvariant, NEW call \in Calls
  PROVE  /\ Owed(call) \in Nat /\ Owed(call) <= Cardinality(Asleep)
         /\ owed > 0 => Owed(call) > 0
         /\ Cardinality(Asleep) > 0 => Owed(call) > 0
         /\ Owed(call) > 0 => HaveWait
<1>1. Owed(call) = IF call = "broadcast" \/ Cardinality(Asleep) < owed + 1
                   THEN Cardinality(Asleep) ELSE owed + 1
  BY MinOfTwo, WaitersAreFinite DEF Owed, InductiveInvariant, TypeOK
<1>2. count = Cardinality(Counted)
  BY DEF InductiveInvariant, CountsTheWaiters, Counted
<1> QED
  BY <1>1, <1>2, WaitersAreFinite DEF InductiveInvariant, OwedToSleepers, TypeOK, HaveWait

LEMMA TestWaitersStep ==
  ASSUME InductiveInvariant, NEW s \in Signallers, NEW call \in Calls, TestWaiters(s, call)
  PROVE  InductiveInvariant'
<1> DEFINE to == IF HaveWait THEN "set" ELSE "unlock"
<1>0. /\ pc[s] = "locked" /\ Goto(s, to)
      /\ reason' = [reason EXCEPT ![s] = call]
      /\ owed' = Owed(call)
      /\ UNCHANGED <<mutex, count, event>>
  BY DEF TestWaiters, Step
<1>t. to \in SignallerPcs /\ to \in {"set", "unlock"}
  BY DEF SignallerPcs
<1> HIDE DEF to
<1>k. /\ pc' \in [Threads -> WaiterPcs \union SignallerPcs]
      /\ \A v \in Waiters : pc'[v] \in WaiterPcs
      /\ \A u \in Signallers : pc'[u] \in SignallerPcs
      /\ pc'[s] = to
      /\ \A u \in Signallers : u # s => pc'[u] = pc[u]
      /\ CountsTheWaiters'
      /\ Asleep' = Asleep
  BY <1>0, <1>t, SignallerKeeps
<1>r. /\ reason' \in [Threads -> {"none", "signal", "broadcast", "timeout"}]
      /\ reason'[s] = call /\ call \in {"signal", "broadcast"}
      /\ \A u \in Signallers : u # s => reason'[u] = reason[u]
  BY <1>0 DEF InductiveInvariant, TypeOK, Threads
<1>o. /\ owed' \in Nat /\ owed' <= Cardinality(Asleep)
      /\ owed' > 0 => to = "set"
  BY <1>0, OwedEffect DEF to
<1> USE DEF InductiveInvariant
<1>1. TypeOK'
  BY <1>0, <1>k, <1>r, <1>o DEF TypeOK, Threads
<1>2. MutexOwner'
  BY <1>0, <1>t, StepKeepsOwner DEF Threads
<1>4. OwedToSleepers'
  BY <1>o, <1>k DEF OwedToSleepers
<1>5. SetsAnEvent'
  BY <1>r, <1>k DEF SetsAnEvent
<1>6. AtMostOneWaiter => WakeupIsComing'
  BY <1>r, <1>k, <1>o DEF WakeupIsComing, Coming
<1> QED
  BY <1>k, <1>1, <1>2, <1>4, <1>5, <1>6

LEMMA SetEventStep ==
  ASSUME InductiveInvariant, NEW s \in Signallers, SetEvent(s)
  PROVE  InductiveInvariant'
<1>0. /\ pc[s] = "set" /\ Goto(s, "unlock")
      /\ event' = [event EXCEPT ![reason[s]] = TRUE]
      /\ UNCHANGED <<mutex, count, reason, owed>>
  BY DEF SetEvent, Step
<1>k. /\ pc' \in [Threads -> WaiterPcs \union SignallerPcs]
      /\ \A v \in Waiters : pc'[v] \in WaiterPcs
      /\ \A u \in Signallers : pc'[u] \in SignallerPcs
      /\ pc'[s] = "unlock"
      /\ \A u \in Signallers : u # s => pc'[u] = pc[u]
      /\ CountsTheWaiters'
      /\ Asleep' = Asleep
  BY <1>0, SignallerKeeps DEF SignallerPcs
<1>r. reason[s] \in {"signal", "broadcast"}
  BY <1>0 DEF InductiveInvariant, SetsAnEvent
<1> USE DEF InductiveInvariant
<1>e. /\ event' \in [signal : BOOLEAN, broadcast : BOOLEAN]
      /\ event'[reason[s]] = TRUE
  BY <1>0, <1>r DEF TypeOK
<1>1. TypeOK'
  BY <1>0, <1>k, <1>e DEF TypeOK, Threads
<1>2. MutexOwner'
  BY <1>0, StepKeepsOwner DEF Threads
<1>4. OwedToSleepers'
  BY <1>0, <1>k DEF OwedToSleepers
<1>5. SetsAnEvent'
  BY <1>0, <1>k DEF SetsAnEvent
<1>6. AtMostOneWaiter => WakeupIsComing'
  BY <1>0, <1>r, <1>e DEF WakeupIsComing, Coming
<1> QED
  BY <1>k, <1>1, <1>2, <1>4, <1>5, <1>6

LEMMA UnlockAfterSignalStep ==
  ASSUME InductiveInvariant, NEW s \in Signallers, UnlockAfterSignal(s)
  PROVE  InductiveInvariant'
<1>0. /\ pc[s] = "unlock" /\ Goto(s, "out") /\ mutex' \in Unlocked(mutex, s)
      /\ reason' = [reason EXCEPT ![s] = "none"]
      /\ UNCHANGED <<count, event, owed>>
  BY DEF UnlockAfterSignal, Step
<1>k. /\ pc' \in [Threads -> WaiterPcs \union SignallerPcs]
      /\ \A v \in Waiters : pc'[v] \in WaiterPcs
      /\ \A u \in Signallers : pc'[u] \in SignallerPcs
      /\ pc'[s] = "out"
      /\ \A u \in Signallers : u # s => pc'[u] = pc[u]
      /\ CountsTheWaiters'
      /\ Asleep' = Asleep
  BY <1>0, SignallerKeeps DEF SignallerPcs
<1>r. /\ reason' \in [Threads -> {"none", "signal", "broadcast", "timeout"}]
      /\ \A u \in Signallers : u # s => reason'[u] = reason[u]
  BY <1>0 DEF InductiveInvariant, TypeOK, Threads
<1> USE DEF InductiveInvariant
<1>2. mutex' = Free /\ MutexOwner'
  <2>1. mutex = s
    BY <1>0 DEF MutexOwner
  <2> QED
    BY <1>0, <2>1, UnlockKeepsOwner DEF Threads
<1>1. TypeOK'
  BY <1>0, <1>k, <1>r, <1>2 DEF TypeOK, Threads
<1>4. OwedToSleepers'
  BY <1>0, <1>k DEF OwedToSleepers
<1>5. SetsAnEvent'
  BY <1>r, <1>k DEF SetsAnEvent
<1>6. AtMostOneWaiter => WakeupIsComing'
  BY <1>0, <1>r, <1>k DEF WakeupIsComing, Coming
<1> QED
  BY <1>k, <1>1, <1>2, <1>4, <1>5, <1>6

-----------------------------------------------------------------------------
LEMMA InitInvariant == Init => InductiveInvariant
<1> SUFFICES ASSUME Init PROVE InductiveInvariant
  OBVIOUS
<1>1. Asleep = {} /\ Counted = {}
  BY DEF Init, Asleep, Counted
<1>2. TypeOK
  BY DEF Init, TypeOK, WaiterPcs, SignallerPcs
<1>3. MutexOwner
  BY DEF Init, MutexOwner
<1>4. CountsTheWaiters /\ OwedToSleepers
  BY <1>1, FS_EmptySet DEF Init, CountsTheWaiters, OwedToSleepers, Counted
<1>5. SetsAnEvent
  BY DEF Init, SetsAnEvent
<1>6. WakeupIsComing
  BY DEF Init, WakeupIsComing
<1> QED
  BY <1>2, <1>3, <1>4, <1>5, <1>6 DEF InductiveInvariant

LEMMA StepInvariant == InductiveInvariant /\ [Next]_vars => InductiveInvariant'
<1> SUFFICES ASSUME InductiveInvariant, [Next]_vars PROVE InductiveInvariant'
  OBVIOUS
<1>1. ASSUME NEW w \in Waiters, LockToWait(w) \/ TimeOut(w) \/ WaiterStep(w)
      PROVE  InductiveInvariant'
  BY <1>1, LockToWaitStep, TimeOutStep, CountStep, ReleaseStep, WakeUpStep, LeaveStep,
     ResetBroadcastStep, RelockStep, UnlockAfterWaitStep
  DEF WaiterStep
<1>2. ASSUME NEW s \in Signallers, LockToSignal(s) \/ SignallerStep(s)
      PROVE  InductiveInvariant'
  BY <1>2, LockToSignalStep, TestWaitersStep, SetEventStep, UnlockAfterSignalStep
  DEF SignallerStep
<1>3. CASE UNCHANGED vars
  BY <1>3 DEF InductiveInvariant, TypeOK, MutexOwner, CountsTheWaiters, OwedToSleepers,
              SetsAnEvent, WakeupIsComing, Coming, Asleep
<1> QED
  BY <1>1, <1>2, <1>3 DEF Next

(* The counter, the events and the mutex agree, always, for any number of  *)
(* threads.                                                                *)
THEOREM InvariantHolds == Spec => []InductiveInvariant
<1> QED
  BY InitInvariant, StepInvariant, PTL DEF Spec

(* The variables have their types.                                         *)
THEOREM TypeCorrect == Spec => []TypeOK
<1>1. InductiveInvariant => TypeOK
  BY DEF InductiveInvariant
<1> QED
  BY <1>1, InvariantHolds, PTL

(* i counts the threads that sleep or are about to, however many wait and  *)
(* time out: no signal is withheld from a sleeper (bpsync_Windows.cpp).    *)
THEOREM CounterIsRight == Spec => []CountsTheWaiters
<1>1. InductiveInvariant => CountsTheWaiters
  BY DEF InductiveInvariant
<1> QED
  BY <1>1, InvariantHolds, PTL

(* wait and timeWait return with the mutex, however they end.              *)
THEOREM WaitersHoldMutex == Spec => []ReturnsWithMutex
<1>1. InductiveInvariant => ReturnsWithMutex
  BY DEF InductiveInvariant, MutexOwner, ReturnsWithMutex
<1> QED
  BY <1>1, InvariantHolds, PTL

-----------------------------------------------------------------------------
(* The wake-ups that are promised to a single waiter.                      *)

(* One signaller at most is about to set an event: it has the mutex.       *)
LEMMA SettersAreFew ==
  ASSUME InductiveInvariant
  PROVE  LET setters == {s \in Signallers : pc[s] = "set" /\ reason[s] = "signal"}
         IN  /\ Cardinality(setters) \in Nat
             /\ setters # {} => Cardinality(setters) > 0
<1> DEFINE setters == {s \in Signallers : pc[s] = "set" /\ reason[s] = "signal"}
<1>1. setters \in SUBSET {mutex}
  BY DEF InductiveInvariant, MutexOwner
<1>2. IsFiniteSet(setters)
  BY <1>1, FS_Singleton, FS_Subset
<1> QED
  BY <1>2, FS_CardinalityType, FS_EmptySet

LEMMA PromisesAreCovered ==
  ASSUME InductiveInvariant, AtMostOneWaiter
  PROVE  WakeupsAreKept
<1> DEFINE asleep  == Cardinality(Asleep)
           setters == {s \in Signallers : pc[s] = "set" /\ reason[s] = "signal"}
           events  == (IF event.signal THEN 1 ELSE 0) + Cardinality(setters)
<1>1. asleep \in Nat /\ owed \in Nat /\ owed <= asleep
  BY WaitersAreFinite DEF InductiveInvariant, TypeOK, OwedToSleepers
<1>2. asleep <= 1
  <2>1. CASE Waiters = {}
    <3>1. Asleep = {}
      BY <2>1 DEF Asleep
    <3> QED
      BY <3>1, FS_EmptySet
  <2>2. CASE \E w \in Waiters : TRUE
    BY <2>2, OnlyWaiter
  <2> QED
    BY <2>1, <2>2
<1>3. events \in Nat /\ (Coming("signal") => events > 0)
  BY SettersAreFew DEF Coming
<1>4. WillWake = IF Coming("broadcast") THEN asleep ELSE Min({asleep, events})
  BY DEF WillWake
<1> HIDE DEF asleep, events
<1>5. owed > 0 => Coming("signal") \/ Coming("broadcast")
  BY DEF InductiveInvariant, WakeupIsComing
<1> QED
  BY <1>1, <1>2, <1>3, <1>4, <1>5, MinOfTwo DEF WakeupsAreKept

(* Where one thread waits on a condition, as on each condition of src/, as *)
(* many sleepers wake as signals and broadcasts have promised, whoever     *)
(* signals and whatever times out.  (With two it is false: the run         *)
(* Win32LostBroadcast shows how.)                                          *)
THEOREM PromisesAreKept ==
  ASSUME AtMostOneWaiter
  PROVE  Spec => []WakeupsAreKept
<1>1. InductiveInvariant => WakeupsAreKept
  BY PromisesAreCovered
<1> QED
  BY <1>1, InvariantHolds, PTL

-----------------------------------------------------------------------------
(* The condition of bpsync.hh is implemented.                              *)

Places == {"out", "locked", "asleep", "awake", "back", "called"}

(* What a step shows of the thread that takes it and of the others, when   *)
(* the promises to sleepers stay as they are.                              *)
LEMMA PlaceEffect ==
  ASSUME TypeOK, NEW t \in Threads, NEW to, Goto(t, to), owed' = owed
  PROVE  /\ \A u \in Threads : u # t => Place(u)' = Place(u)
         /\ Place(t)' = CASE to = "counted"                        -> "locked"
                          [] to = "asleep" /\ owed > 0             -> "awake"
                          [] to \in {"woken", "reset", "relock"}   -> "awake"
                          [] to \in {"set", "unlock"}              -> "called"
                          [] OTHER                                 -> to
<1>1. pc'[t] = to /\ \A u \in Threads : u # t => pc'[u] = pc[u]
  BY StepEffect
<1>2. \A u \in Threads : u # t => Place(u)' = Place(u)
  BY <1>1 DEF Place
<1>3. Place(t)' = CASE to = "counted"                        -> "locked"
                    [] to = "asleep" /\ owed > 0             -> "awake"
                    [] to \in {"woken", "reset", "relock"}   -> "awake"
                    [] to \in {"set", "unlock"}              -> "called"
                    [] OTHER                                 -> to
  BY <1>1 DEF Place
<1> QED
  BY <1>2, <1>3

(* A step that moves one thread from one place to another is a Move of the *)
(* promise, and one that moves nobody a stutter.                           *)
LEMMA MoveOfPlaces ==
  ASSUME NEW t \in Threads, NEW from, NEW to, Place(t) = from, Place(t)' = to,
         \A u \in Threads : u # t => Place(u)' = Place(u)
  PROVE  Promised!Move(t, from, to)
BY DEF Promised!Move, Threads

LEMMA StutterOfPlaces ==
  ASSUME UNCHANGED mutex, \A u \in Threads : Place(u)' = Place(u)
  PROVE  UNCHANGED Promised!vars
BY DEF Promised!vars, Threads

(* A step that shows nothing: counting, leaving the critical section,      *)
(* resetting e[1], setting an event.                                       *)
LEMMA HiddenSteps ==
  ASSUME InductiveInvariant
  PROVE  /\ \A w \in Waiters :
              Count(w) \/ Leave(w) \/ ResetBroadcast(w) => UNCHANGED Promised!vars
         /\ \A s \in Signallers : SetEvent(s) => UNCHANGED Promised!vars
<1>0. TypeOK
  BY DEF InductiveInvariant
<1>1. ASSUME NEW t \in Threads, NEW to, Goto(t, to), UNCHANGED <<mutex, owed>>,
             \/ pc[t] = "locked" /\ to = "counted"
             \/ pc[t] = "woken" /\ to \in {"reset", "relock"}
             \/ pc[t] = "reset" /\ to = "relock"
             \/ pc[t] = "set" /\ to = "unlock"
      PROVE  UNCHANGED Promised!vars
  <2>1. Place(t)' = Place(t)
    BY <1>0, <1>1, PlaceEffect DEF Place
  <2>2. \A u \in Threads : Place(u)' = Place(u)
    BY <1>0, <1>1, <2>1, PlaceEffect
  <2> QED
    BY <1>1, <2>2, StutterOfPlaces
<1>2. ASSUME NEW w \in Waiters, Count(w) \/ Leave(w) \/ ResetBroadcast(w)
      PROVE  UNCHANGED Promised!vars
  BY <1>1, <1>2 DEF Count, Leave, ResetBroadcast, Step, Threads
<1>3. ASSUME NEW s \in Signallers, SetEvent(s)
      PROVE  UNCHANGED Promised!vars
  BY <1>1, <1>3 DEF SetEvent, Step, Threads
<1> QED
  BY <1>2, <1>3

LEMMA LocksAreLocks ==
  ASSUME InductiveInvariant
  PROVE  /\ \A w \in Waiters : LockToWait(w) => Promised!Lock(w, "out", "locked")
         /\ \A w \in Waiters : Relock(w) => Promised!Return(w)
         /\ \A s \in Signallers : LockToSignal(s) => Promised!Lock(s, "out", "locked")
<1>0. TypeOK
  BY DEF InductiveInvariant
<1>1. ASSUME NEW t \in Threads, NEW from, NEW to, Step(t, from, to), Lock(t), owed' = owed,
             <<from, to>> \in {<<"out", "locked">>, <<"relock", "back">>}
      PROVE  Promised!Lock(t, IF from = "relock" THEN "awake" ELSE from, to)
  <2>1. Place(t) = IF from = "relock" THEN "awake" ELSE from
    BY <1>1 DEF Place, Step
  <2>2. /\ Place(t)' = to
        /\ \A u \in Threads : u # t => Place(u)' = Place(u)
    BY <1>0, <1>1, PlaceEffect DEF Step
  <2>3. Promised!Move(t, IF from = "relock" THEN "awake" ELSE from, to)
    BY <2>1, <2>2, MoveOfPlaces
  <2> QED
    BY <1>1, <2>3 DEF Promised!Lock, Promised!CanLock, Lock, CanLock
<1> QED
  BY <1>1 DEF LockToWait, Relock, LockToSignal, Promised!Return, Threads

LEMMA UnlocksAreUnlocks ==
  ASSUME InductiveInvariant
  PROVE  /\ \A w \in Waiters : UnlockAfterWait(w) => Promised!Leave(w, "back")
         /\ \A s \in Signallers : UnlockAfterSignal(s) => Promised!Leave(s, "called")
<1>0. TypeOK
  BY DEF InductiveInvariant
<1>1. ASSUME NEW t \in Threads, NEW from \in {"back", "unlock"}, Step(t, from, "out"),
             mutex' \in Unlocked(mutex, t), owed' = owed
      PROVE  Promised!Leave(t, IF from = "unlock" THEN "called" ELSE from)
  <2>1. Place(t) = IF from = "unlock" THEN "called" ELSE from
    BY <1>1 DEF Place, Step
  <2>2. /\ Place(t)' = "out"
        /\ \A u \in Threads : u # t => Place(u)' = Place(u)
    BY <1>0, <1>1, PlaceEffect DEF Step
  <2>3. Promised!Move(t, IF from = "unlock" THEN "called" ELSE from, "out")
    BY <2>1, <2>2, MoveOfPlaces
  <2> QED
    BY <1>1, <2>3 DEF Promised!Leave, Promised!Unlocked, Unlocked
<1> QED
  BY <1>1 DEF UnlockAfterWait, UnlockAfterSignal, Threads

(* Releasing the mutex and going to sleep are one step to the host: nobody *)
(* owes a wake-up to the only waiter yet.                                  *)
LEMMA ReleaseIsWait ==
  ASSUME InductiveInvariant, AtMostOneWaiter, NEW w \in Waiters, Release(w)
  PROVE  Promised!Wait(w)
<1>1. TypeOK /\ Step(w, "counted", "asleep") /\ mutex' \in Unlocked(mutex, w) /\ owed' = owed
  BY DEF InductiveInvariant, Release
<1>2. owed = 0
  BY <1>1, OnlyWaiter DEF InductiveInvariant, OwedToSleepers, TypeOK, Step
<1>3. Place(w) = "locked"
  BY <1>1 DEF Place, Step
<1>4. Place(w)' = "asleep" /\ \A u \in Threads : u # w => Place(u)' = Place(u)
  BY <1>1, <1>2, PlaceEffect DEF Step, Threads
<1>5. Promised!Move(w, "locked", "asleep")
  BY <1>3, <1>4, MoveOfPlaces DEF Threads
<1> QED
  BY <1>1, <1>5 DEF Promised!Wait, Promised!Unlocked, Unlocked

(* A waiter that leaves the sleep was promised a wake-up, and was awake to *)
(* the host, or wakes unasked.                                             *)
LEMMA WakingRefines ==
  ASSUME InductiveInvariant, AtMostOneWaiter, NEW w \in Waiters, WakeUp(w) \/ TimeOut(w)
  PROVE  Promised!WakeUnasked(w) \/ UNCHANGED Promised!vars
<1>1. TypeOK /\ Step(w, "asleep", "woken") /\ UNCHANGED mutex
  BY DEF InductiveInvariant, WakeUp, TimeOut
<1>2. /\ pc'[w] = "woken"
      /\ \A u \in Threads : u # w => pc'[u] = pc[u]
  BY <1>1, StepEffect DEF Step, Threads
<1>3. \A s \in Signallers : pc[s] # "asleep"
  BY <1>1 DEF TypeOK, SignallerPcs
<1>4. \A u \in Threads : u # w => pc[u] # "asleep"
  BY <1>3 DEF AtMostOneWaiter, Threads
<1>5. \A u \in Threads : u # w => Place(u)' = Place(u)
  BY <1>2, <1>4 DEF Place
<1>6. Place(w)' = "awake" /\ Place(w) = IF owed > 0 THEN "awake" ELSE "asleep"
  BY <1>1, <1>2 DEF Place, Step
<1>7. CASE owed > 0
  BY <1>1, <1>5, <1>6, <1>7, StutterOfPlaces
<1>8. CASE ~(owed > 0)
  BY <1>1, <1>5, <1>6, <1>8, MoveOfPlaces DEF Promised!WakeUnasked, Threads
<1> QED
  BY <1>7, <1>8

(* A signal and a broadcast rouse the waiter that sleeps and is promised   *)
(* nothing yet.                                                            *)
LEMMA TestIsCall ==
  ASSUME InductiveInvariant, AtMostOneWaiter,
         NEW s \in Signallers, NEW call \in Calls, TestWaiters(s, call)
  PROVE  Promised!Call(s, call)
<1> DEFINE to == IF HaveWait THEN "set" ELSE "unlock"
           place == [t \in Waiters \union Signallers |-> Place(t)]
<1>1. /\ TypeOK /\ pc[s] = "locked" /\ Goto(s, to) /\ to \in {"set", "unlock"}
      /\ owed' = Owed(call) /\ UNCHANGED mutex
  BY DEF InductiveInvariant, TestWaiters, Step
<1> HIDE DEF to
<1>2. pc'[s] = to /\ \A u \in Threads : u # s => pc'[u] = pc[u]
  BY <1>1, StepEffect DEF Threads
<1>3. Place(s) = "locked" /\ Place(s)' = "called"
  BY <1>1, <1>2 DEF Place
<1>4. \A v \in Signallers : v # s => Place(v)' = Place(v)
  <2>1. \A v \in Signallers : pc[v] # "asleep"
    BY <1>1 DEF TypeOK, SignallerPcs
  <2> QED
    BY <1>2, <2>1 DEF Place, Threads
<1>5. \A w \in Waiters : pc[w] = "asleep" => owed' > 0
  BY <1>1, OnlyWaiter, OwedEffect
<1>6. \A w \in Waiters : Place(w)' = IF Place(w) = "asleep" THEN "awake" ELSE Place(w)
  <2>1. \A w \in Waiters : pc'[w] = pc[w]
    BY <1>2 DEF Threads
  <2> QED
    BY <1>5, <2>1 DEF Place
<1>7. Promised!Sleepers \in Promised!Roused(call)
  <2>1. CASE call = "broadcast"
    BY <2>1 DEF Promised!Roused
  <2>2. CASE Promised!Sleepers = {}
    BY <2>2 DEF Promised!Roused, Promised!Signalled
  <2>3. CASE \E w \in Promised!Sleepers : TRUE
    <3> PICK w : w \in Promised!Sleepers
      BY <2>3
    <3>1. Promised!Sleepers = {w} /\ {} \union {w} = {w}
      BY DEF Promised!Sleepers, AtMostOneWaiter
    <3> QED
      BY <3>1 DEF Promised!Roused, Promised!Signalled
  <2> QED
    BY <2>1, <2>2, <2>3
<1>8. place[s] = "locked"
  BY <1>3
<1>9. place' = [t \in DOMAIN place |->
                  IF t = s THEN "called"
                  ELSE IF t \in Promised!Sleepers THEN "awake" ELSE place[t]]
  <2>1. \A w \in Waiters : w \in Promised!Sleepers <=> Place(w) = "asleep"
    BY DEF Promised!Sleepers
  <2>2. \A v \in Signallers : v \notin Promised!Sleepers
    BY DEF Promised!Sleepers
  <2> QED
    BY <1>3, <1>4, <1>6, <2>1, <2>2
<1> QED
  BY <1>1, <1>7, <1>8, <1>9 DEF Promised!Call

LEMMA StepRefines ==
  ASSUME InductiveInvariant, AtMostOneWaiter, [Next]_vars
  PROVE  [Promised!Next]_(Promised!vars)
<1>1. ASSUME NEW w \in Waiters, LockToWait(w) \/ TimeOut(w) \/ WaiterStep(w)
      PROVE  [Promised!Next]_(Promised!vars)
  BY <1>1, LocksAreLocks, UnlocksAreUnlocks, HiddenSteps, ReleaseIsWait, WakingRefines
  DEF WaiterStep, Promised!Next
<1>2. ASSUME NEW s \in Signallers, LockToSignal(s) \/ SignallerStep(s)
      PROVE  [Promised!Next]_(Promised!vars)
  BY <1>2, LocksAreLocks, UnlocksAreUnlocks, HiddenSteps, TestIsCall
  DEF SignallerStep, Promised!Next
<1>3. CASE UNCHANGED vars
  BY <1>3, StutterOfPlaces DEF Place
<1> QED
  BY <1>1, <1>2, <1>3 DEF Next

(* Where one thread waits, the counter and the two events are the          *)
(* condition that bpsync.hh describes and pthread provides: releasing the  *)
(* mutex before the sleep, counting and resetting cannot be told from      *)
(* outside.  (That whom it wakes returns is liveness: TLC checks it.)      *)
THEOREM IsTheCondition ==
  ASSUME AtMostOneWaiter
  PROVE  Spec => Promised!Spec
<1>1. Init => Promised!Init
  BY DEF Init, Promised!Init, Place
<1>2. InductiveInvariant /\ [Next]_vars => [Promised!Next]_(Promised!vars)
  BY StepRefines
<1> QED
  BY <1>1, <1>2, InvariantHolds, PTL DEF Spec, Promised!Spec
=============================================================================
