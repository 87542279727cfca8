---------------------------- MODULE PosixCondition ----------------------------
(***************************************************************************)
(* What util/bpsync.hh promises of a condition and its mutex, and what the *)
(* POSIX build (bpsync_UNIX.cpp) has from pthread: a wait releases the     *)
(* mutex and falls asleep in one step, a signal or a broadcast wakes those *)
(* who sleep, and a thread that is awake takes the mutex before it returns. *)
(* Win32Condition builds the same out of a counter and two events.         *)
(***************************************************************************)
EXTENDS BpSync

CONSTANTS
  Waiters,      \* threads that wait
  Signallers,   \* threads that signal or broadcast
  Calls         \* what signallers call: "signal", "broadcast"

VARIABLES
  mutex,   \* the mutex that goes with the condition
  place    \* where each thread is

vars == <<mutex, place>>

Sleepers == {w \in Waiters : place[w] = "asleep"}

Move(t, from, to) == place[t] = from /\ place' = [place EXCEPT ![t] = to]

Init ==
  /\ mutex = Free
  /\ place = [t \in Waiters \union Signallers |-> "out"]

(* Mutex::lock and Mutex::unlock, by a thread that holds it.               *)
Lock(t, from, to) == Move(t, from, to) /\ CanLock(mutex) /\ mutex' = t
Leave(t, from)    == Move(t, from, "out") /\ mutex' \in Unlocked(mutex, t)

(* "Atomically release a mutex and sleep on a condition."                  *)
Wait(w) == Move(w, "locked", "asleep") /\ mutex' \in Unlocked(mutex, w)

(* A time-out of timeWait, or a spurious wake-up.                          *)
WakeUnasked(w) == Move(w, "asleep", "awake") /\ UNCHANGED mutex

(* wait and timeWait return.                                               *)
Return(w) == Lock(w, "awake", "back")

(* Condition::signal, Condition::broadcast: who sleeps no longer.          *)
Roused(call) ==
  IF call = "broadcast" THEN {Sleepers} ELSE Signalled({}, Sleepers)

Call(s, call) ==
  /\ place[s] = "locked"
  /\ \E roused \in Roused(call) :
       place' = [t \in DOMAIN place |->
                   IF t = s THEN "called" ELSE IF t \in roused THEN "awake" ELSE place[t]]
  /\ UNCHANGED mutex

Next ==
  \/ \E w \in Waiters :
       \/ Lock(w, "out", "locked") \/ Wait(w) \/ WakeUnasked(w) \/ Return(w)
       \/ Leave(w, "back")
  \/ \E s \in Signallers :
       \/ Lock(s, "out", "locked")
       \/ \E call \in Calls : Call(s, call)
       \/ Leave(s, "called")

Spec == Init /\ [][Next]_vars

(* "Awake all threads waiting on the condition", "awake a single thread":  *)
(* who was woken returns, if those who hold the mutex give it back.        *)
WokenReturn == \A w \in Waiters : place[w] = "awake" ~> place[w] = "back"

Promise == Spec /\ WokenReturn
=============================================================================
