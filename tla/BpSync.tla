------------------------------- MODULE BpSync -------------------------------
(***************************************************************************)
(* The synchronization primitives of src/util/bpsync.hh as the POSIX build *)
(* (bpsync_UNIX.cpp) provides them, written as functions from the state of *)
(* a primitive to its possible next states.                                *)
(*                                                                         *)
(* A mutex is its holder, or Free.  A condition is the set of threads that *)
(* sleep on it; a client module keeps that set, and the set of those that  *)
(* have been woken and are about to take the mutex again.                  *)
(***************************************************************************)
CONSTANT Free   \* the state of a mutex nobody holds

(* A mutex that excludes nobody, and an unlock that is forgotten, to show   *)
(* what the runs would notice.                                             *)
AlwaysLocks(m) == TRUE
NeverUnlocks(m, t) == {m}

(* Mutex::lock() returns to a thread only when the mutex is free: the      *)
(* mutex is not recursive, so its holder blocks on it as any other thread. *)
CanLock(m) == m = Free

(* The outcomes of Mutex::unlock() by thread t.  POSIX leaves the unlock of *)
(* a default mutex by a thread that does not hold it undefined: the builds *)
(* either ignore the call or free the mutex under its holder.              *)
Unlocked(m, t) == IF m = t THEN {Free} ELSE {m, Free}

(* The outcomes of Condition::signal() for the set woken of threads already *)
(* awake, when the threads in sleepers wait on the condition: one sleeper, *)
(* if there is one, wakes up.                                              *)
Signalled(woken, sleepers) ==
  IF sleepers = {} THEN {woken} ELSE {woken \union {t} : t \in sleepers}
=============================================================================
