---------------------- MODULE RubyInterpreterInductive ----------------------
(***************************************************************************)
(* The inductive invariant behind the safety properties of RubyInterpreter. *)
(* Its parts say who may be where together (Phases), who holds which mutex *)
(* (RubyLockOwner, SyncLockOwner), who refers to a Work (Fresh, Held,      *)
(* Queued, Current), what m_done means (Answered), where the work of a     *)
(* waiting call is (Remembered) and how the queue and the histories fit    *)
(* together (History).                                                     *)
(***************************************************************************)
EXTENDS RubyInterpreter

IsQueued(w) == \E i \in DOMAIN queue : queue[i] = w
IsSent(w)   == \E i \in DOMAIN sent : sent[i] = w
HasRun(w)   == \E i \in DOMAIN ran : ran[i] = w

(* Only Main starts and stops the interpreter.  It starts it while no call *)
(* is in progress, and stops it after its own calls.                       *)
HostPhases ==
  /\ \A c \in Clients \ {Main} : pc[c] \notin InitializePcs \union ShutdownPcs
  /\ pc[Main] \in InitializePcs =>
       ~open /\ \A c \in Clients \ {Main} : pc[c] = "idle"
  /\ pc[Main] \in ShutdownPcs => ~open
  /\ pc[Main] \in RunWorkPcs => open

(* Where the interpreter thread may be while Main is in each part of its   *)
(* life: this is what s_running and the join are for.  LoopPcs are the     *)
(* program points of a thread between its announcement and its exit.       *)
ThreadPhases ==
  /\ running => rubyPc \in LoopPcs
  /\ ~running /\ rubyPc \in LoopPcs \union {"exit"} =>
       pc[Main] \in {"shut_unlock", "shut_join"}
  /\ rubyPc \in {"boot", "announce"} => pc[Main] \in {"init_test", "init_wait"}
  /\ pc[Main] = "init_spawn" => rubyPc \in {"none", "dead"}
  /\ pc[Main] \in {"init_test", "init_wait"} =>
       running \/ rubyPc \in {"boot", "announce", "aborted"}
  /\ pc[Main] = "init_return" => running \/ rubyPc \in {"none", "dead"}
  /\ pc[Main] = "shut_clear" => running
  /\ thread = "joinable" <=>
       running \/ pc[Main] \in {"init_test", "init_wait", "shut_unlock", "shut_join"}
  /\ open /\ ~running => rubyPc \in {"none", "dead"}
  /\ ~open /\ pc[Main] = "idle" => rubyPc \in {"none", "dead", "aborted"}

(* s_rubyLock is held by the thread in the queue's section; only the exit  *)
(* of the interpreter thread may free it too early.                        *)
RubyLockOwner ==
  /\ rubyLock = Ruby <=> rubyPc \in {"announced", "popped"}
  /\ \A c \in Clients : rubyLock = c => pc[c] \in QueuePcs
  /\ rubyPc # "dead" => \A c \in Clients : pc[c] \in QueuePcs => rubyLock = c

(* Nobody refers to a Work that has not been made.                         *)
Fresh ==
  \A w \in Works : mem[w] = "unborn" =>
    /\ syncLock[w] = Null /\ ~done[w]
    /\ ~IsQueued(w) /\ ~IsSent(w) /\ cur # w
    /\ \A c \in Clients : work[c] # w

(* Every host thread has a Work of its own.  One on its stack is live.     *)
Held ==
  /\ \A c, d \in Clients : work[c] # Null /\ work[c] = work[d] => c = d
  /\ \A c \in Clients : work[c] \in StackWorks => mem[work[c]] = "live"
  /\ \A c \in Clients :
       pc[c] \in {"attach", "sleep", "wait", "return"} => work[c] \in StackWorks
  /\ \A c \in Clients : pc[c] = "submit" =>
       /\ mem[work[c]] = "live"
       /\ ~IsQueued(work[c]) /\ ~IsSent(work[c]) /\ cur # work[c]
  /\ \A c \in Clients : pc[c] \in {"attach", "unlock"} => IsSent(work[c])

(* m_syncLock exists only for a Work on a stack; its owner holds it but    *)
(* for its wait, and the interpreter thread takes it only to reply.        *)
SyncLockOwner ==
  /\ \A w \in HeapWorks : syncLock[w] = Null
  /\ \A w \in Works : syncLock[w] = Ruby <=> rubyPc = "replied" /\ cur = w
  /\ \A c \in Clients :
       /\ pc[c] \in {"submit", "attach"} => syncLock[work[c]] = Null
       /\ pc[c] \in {"unlock", "sleep", "return"} /\ work[c] \in StackWorks =>
            syncLock[work[c]] = c
       /\ pc[c] = "wait" => syncLock[work[c]] # Null

(* A Work in the queue is live, is there once, and if it is on a stack,    *)
(* its owner is still waiting for an answer.                               *)
Queued ==
  /\ \A i, j \in DOMAIN queue : queue[i] = queue[j] => i = j
  /\ \A i \in DOMAIN queue : mem[queue[i]] = "live"
  /\ \A i \in DOMAIN queue : queue[i] \in StackWorks =>
       /\ ~done[queue[i]]
       /\ \E c \in Clients :
            work[c] = queue[i] /\ pc[c] \in {"attach", "unlock", "sleep", "wait"}

(* The same of the Work the interpreter thread runs, which has left the    *)
(* queue.  Its owner has left the queue's section, so m_syncLock is set.   *)
Current ==
  cur # Null =>
    /\ rubyPc \in {"popped", "execute", "reply", "replied", "delete"}
    /\ ~IsQueued(cur)
    /\ mem[cur] = "live"
    /\ rubyPc \in {"reply", "replied"} => cur \in StackWorks
    /\ rubyPc = "delete" => cur \in HeapWorks
    /\ cur \in StackWorks =>
         /\ done[cur] <=> rubyPc = "replied"
         /\ \E c \in Clients : work[c] = cur /\ pc[c] \in {"sleep", "wait"}

(* m_done is set for a Work that has run; its owner returns, and does not  *)
(* go to sleep again.                                                      *)
Answered ==
  /\ \A w \in Works : done[w] => HasRun(w)
  /\ \A c \in Clients :
       /\ pc[c] = "return" => done[work[c]]
       /\ pc[c] \in {"submit", "attach", "unlock", "sleep"} => ~done[work[c]]
       /\ pc[c] = "wait" /\ done[work[c]] => c \in woken
  /\ rubyPc \in {"reply", "replied"} => HasRun(cur)

(* A synchronous call whose work has been queued: the work is still there, *)
(* in the hands of the interpreter thread, or answered.                    *)
Remembered ==
  \A c \in Clients :
    pc[c] \in {"attach", "unlock", "sleep", "wait"} /\ work[c] \in StackWorks =>
      IsQueued(work[c]) \/ cur = work[c] \/ done[work[c]]

(* What was sent is what has run, then the Work about to run, then the     *)
(* queue.                                                                  *)
Popped == IF rubyPc \in {"popped", "execute"} /\ cur # Null THEN 1 ELSE 0
History ==
  /\ Len(sent) = Len(ran) + Popped + Len(queue)
  /\ Popped = 1 => sent[Len(ran) + 1] = cur
  /\ \A i \in 1 .. Len(queue) : queue[i] = sent[Len(ran) + Popped + i]

(* The inductive invariant of the interpreter: together, the parts above   *)
(* are what the order of the critical sections of RubyInterpreter.cpp      *)
(* keeps, and every safety property follows from them.                     *)
InductiveInvariant ==
  /\ TypeOK
  /\ HostPhases
  /\ ThreadPhases
  /\ RubyLockOwner
  /\ Fresh
  /\ Held
  /\ SyncLockOwner
  /\ Queued
  /\ Current
  /\ Answered
  /\ Remembered
  /\ History
=============================================================================
