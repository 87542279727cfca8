--------------------------- MODULE RubyInterpreter ---------------------------
(***************************************************************************)
(* The interpreter thread of src/RubyInterpreter.cpp and the host threads  *)
(* that hand it work: ruby::initialize, ruby::shutdown, runWorkSync,       *)
(* runWorkASync and rubyThreadFunc, at the granularity of their critical   *)
(* sections.  What one piece of work does inside Ruby is left to the       *)
(* module of the service instances; here it runs, once, in one step.       *)
(*                                                                         *)
(* A Work is an address.  One in StackWorks is a local variable of the     *)
(* caller of runWorkSync, one in HeapWorks is allocated by ruby::invoke    *)
(* for runWorkASync.  No address is used twice, so a stale pointer is seen *)
(* as a pointer to memory that is "gone".                                  *)
(***************************************************************************)
EXTENDS Naturals, Sequences, BpSync

CONSTANTS
  Clients,              \* the host's threads
  Main,                 \* the one of them that starts and stops the interpreter
  Ruby,                 \* the interpreter thread
  StackWorks,           \* Work objects in the frame of a synchronous call
  HeapWorks,            \* Work objects of asynchronous calls
  Null,                 \* the null pointer
  MaxInits,             \* bound: how often the host calls initialize
  SpawnMayFail,         \* may s_rubyThread.run() fail?
  OverlappingShutdown   \* may the host call shutdown while other calls run?

Works == StackWorks \union HeapWorks

ASSUME ConstantsAssumption ==
  /\ Main \in Clients
  /\ Ruby \notin Clients
  /\ Free \notin Clients \union {Ruby}
  /\ Null \notin Works \union Clients \union {Ruby, Free}
  /\ StackWorks \intersect HeapWorks = {}
  /\ MaxInits \in Nat
  /\ SpawnMayFail \in BOOLEAN
  /\ OverlappingShutdown \in BOOLEAN

VARIABLES
  running,     \* s_running
  rubyLock,    \* s_rubyLock: its holder, or Free
  queue,       \* s_workQueue
  mem,         \* the memory of each Work: "unborn", "live" or "gone"
  syncLock,    \* m_syncLock of each Work: Null, or the mutex' holder, or Free
  done,        \* m_done of each Work
  pc,          \* where each client is
  work,        \* the Work of the call a client is in, or Null
  woken,       \* the clients that woke up in Condition::wait
  open,        \* the host makes calls: initialize returned, shutdown not called
  inits,       \* how often initialize was called
  thread,      \* the handle in s_rubyThread: "none", "joinable" or "joined"
  rubyPc,      \* where the interpreter thread is
  cur,         \* the local variable work of rubyThreadFunc
  builtins,    \* initd of bp_load_builtins
  sent,        \* history: the Works in the order they were queued
  ran          \* history: the Works in the order they were run

lockVars  == <<rubyLock, queue, sent>>
workVars  == <<mem, syncLock, done>>
startVars == <<open, inits, thread>>
hostVars  == <<pc, work, woken, startVars>>
rubyVars  == <<rubyPc, cur, builtins, ran>>
vars      == <<running, lockVars, workVars, hostVars, rubyVars>>

InitializePcs == {"init_spawn", "init_test", "init_wait", "init_return"}
ShutdownPcs   == {"shut_clear", "shut_unlock", "shut_join"}
RunWorkPcs    == {"submit", "attach", "unlock", "sleep", "wait", "return"}
RubyPcs       == {"none", "boot", "announce", "announced", "loop", "pop",
                  "popped", "execute", "reply", "replied", "delete", "exit",
                  "dead", "aborted"}

(* A failed assertion ends the process: no thread takes another step.      *)
At(c, label)   == rubyPc # "aborted" /\ pc[c] = label
Goto(c, label) == pc' = [pc EXCEPT ![c] = label]

RubyStep(from, to) == rubyPc = from /\ rubyPc' = to

RubyCondSleepers    == {c \in Clients : pc[c] = "init_wait"} \ woken
SyncCondSleepers(w) == {c \in Clients : pc[c] = "wait" /\ work[c] = w} \ woken

Init ==
  /\ running = FALSE
  /\ rubyLock = Free
  /\ queue = <<>>
  /\ mem = [w \in Works |-> "unborn"]
  /\ syncLock = [w \in Works |-> Null]
  /\ done = [w \in Works |-> FALSE]
  /\ pc = [c \in Clients |-> "idle"]
  /\ work = [c \in Clients |-> Null]
  /\ woken = {}
  /\ open = FALSE
  /\ inits = 0
  /\ thread = "none"
  /\ rubyPc = "none"
  /\ cur = Null
  /\ builtins = FALSE
  /\ sent = <<>>
  /\ ran = <<>>

-----------------------------------------------------------------------------
(* Slips of the pen in the code below: the runs show that a property would *)
(* notice.                                                                 *)

StartsAnyway == TRUE                \* initialize does not ask s_running,
BootAssumed == TRUE                 \* or does not wait
JoinReturnsAtOnce == TRUE           \* nobody waits for the thread
UnlockedAfterPush(c) == Free        \* s_rubyLock is held for the push alone
SyncLockFree(c) == Free             \* runWorkSync waits without m_syncLock,
AnswerAssumed(w) == TRUE            \* or does not test m_done
GoesOnForever == TRUE               \* rubyThreadFunc loops whatever s_running says,
Newest == queue[Len(queue)]         \* takes the work from the wrong end,
RestForgotten == <<>>               \* clears the queue,
WorkAssumed == TRUE                 \* or does not test the pointer

-----------------------------------------------------------------------------
(* ruby::initialize, called by the host when no other call is in progress. *)
(* s_running is read without the lock.                                     *)
MustStart == ~running

InitializeEnter ==
  /\ inits < MaxInits
  /\ \A c \in Clients : At(c, "idle")
  /\ inits' = inits + 1
  /\ open' = running
  /\ pc' = [pc EXCEPT ![Main] = IF MustStart THEN "init_spawn" ELSE "idle"]
  /\ UNCHANGED <<running, lockVars, workVars, work, woken, thread, rubyVars>>

(* Thread::run: pthread_create, and the new thread calls rubyThreadFunc    *)
(* through blockAndRun.  The handle of an earlier thread is overwritten.   *)
Run ==
  \/ rubyPc' = "boot" /\ thread' = "joinable"
  \/ SpawnMayFail /\ thread' = "none" /\ UNCHANGED rubyPc

(* s_rubyThread.run(), under the lock.                                     *)
InitializeSpawn ==
  /\ At(Main, "init_spawn")
  /\ CanLock(rubyLock)
  /\ rubyLock' = Main
  /\ Run
  /\ Goto(Main, IF thread' = "joinable" THEN "init_test" ELSE "init_return")
  /\ UNCHANGED <<running, queue, sent, workVars, work, woken, open, inits,
                 cur, builtins, ran>>

(* One test of the loop around s_rubyCond.wait().                          *)
Booted == running

InitializeTest ==
  /\ At(Main, "init_test")
  /\ \/ Booted /\ Goto(Main, "init_return") /\ UNCHANGED rubyLock
     \/ ~Booted /\ Goto(Main, "init_wait") /\ rubyLock' \in Unlocked(rubyLock, Main)
  /\ UNCHANGED <<running, queue, sent, workVars, work, woken, startVars, rubyVars>>

InitializeWake ==
  /\ At(Main, "init_wait")
  /\ Main \in woken
  /\ CanLock(rubyLock)
  /\ rubyLock' = Main
  /\ woken' = woken \ {Main}
  /\ Goto(Main, "init_test")
  /\ UNCHANGED <<running, queue, sent, workVars, work, startVars, rubyVars>>

(* BPPInitialize ignores whether the thread runs and goes on to load.      *)
InitializeReturn ==
  /\ At(Main, "init_return")
  /\ rubyLock' \in Unlocked(rubyLock, Main)
  /\ open' = TRUE
  /\ Goto(Main, "idle")
  /\ UNCHANGED <<running, queue, sent, workVars, work, woken, inits, thread, rubyVars>>

-----------------------------------------------------------------------------
(* ruby::shutdown.  A host that does not overlap calls waits for the calls *)
(* of its other threads first.                                             *)
ShutdownEnter ==
  /\ At(Main, "idle")
  /\ open
  /\ OverlappingShutdown \/ \A c \in Clients : pc[c] = "idle"
  /\ open' = FALSE
  /\ pc' = [pc EXCEPT ![Main] = IF running THEN "shut_clear" ELSE "idle"]
  /\ UNCHANGED <<running, lockVars, workVars, work, woken, inits, thread, rubyVars>>

ShutdownClear ==
  /\ At(Main, "shut_clear")
  /\ CanLock(rubyLock)
  /\ rubyLock' = Main
  /\ running' = FALSE
  /\ woken' \in Signalled(woken, RubyCondSleepers)
  /\ Goto(Main, "shut_unlock")
  /\ UNCHANGED <<queue, sent, workVars, work, startVars, rubyVars>>

ShutdownUnlock ==
  /\ At(Main, "shut_unlock")
  /\ rubyLock' \in Unlocked(rubyLock, Main)
  /\ Goto(Main, "shut_join")
  /\ UNCHANGED <<running, queue, sent, workVars, work, woken, startVars, rubyVars>>

(* Thread::join waits for the thread and frees its handle.  What it does   *)
(* with a handle that is none is undefined: it may return at once.         *)
JoinReturns == thread = "joinable" => rubyPc = "dead"

(* s_rubyThread.join() and ruby_finalize().                                *)
ShutdownJoin ==
  /\ At(Main, "shut_join")
  /\ JoinReturns
  /\ thread' = "joined"
  /\ Goto(Main, "idle")
  /\ UNCHANGED <<running, lockVars, workVars, work, woken, open, inits, rubyVars>>

-----------------------------------------------------------------------------
(* The host calls loadRubyService, allocateInstance or destroyInstance (a  *)
(* Work on the stack) or invoke (one on the heap).  The constructor leaves *)
(* m_syncLock null and m_done false.                                       *)
BeginWork(c, w) ==
  /\ open
  /\ At(c, "idle")
  /\ mem[w] = "unborn"
  /\ mem' = [mem EXCEPT ![w] = "live"]
  /\ work' = [work EXCEPT ![c] = w]
  /\ Goto(c, "submit")
  /\ UNCHANGED <<running, lockVars, syncLock, done, woken, startVars, rubyVars>>

(* The common start of runWorkSync and runWorkASync: lock, push, signal.   *)
(* The lock is kept until m_syncLock is set.                               *)
LockedAfterPush(c) == c

Submit(c) ==
  /\ At(c, "submit")
  /\ CanLock(rubyLock)
  /\ rubyLock' = LockedAfterPush(c)
  /\ queue' = Append(queue, work[c])
  /\ sent' = Append(sent, work[c])
  /\ woken' \in Signalled(woken, RubyCondSleepers)
  /\ Goto(c, IF work[c] \in StackWorks THEN "attach" ELSE "unlock")
  /\ UNCHANGED <<running, workVars, work, startVars, rubyVars>>

(* runWorkSync makes m_syncLock only after it queued the work, and locks it. *)
SyncLockHeld(c) == c

Attach(c) ==
  /\ At(c, "attach")
  /\ syncLock' = [syncLock EXCEPT ![work[c]] = SyncLockHeld(c)]
  /\ Goto(c, "unlock")
  /\ UNCHANGED <<running, lockVars, mem, done, work, woken, startVars, rubyVars>>

(* s_rubyLock.unlock(); runWorkASync returns here.                         *)
Unlock(c) ==
  /\ At(c, "unlock")
  /\ rubyLock' \in Unlocked(rubyLock, c)
  /\ IF work[c] \in StackWorks
       THEN Goto(c, "sleep") /\ UNCHANGED work
       ELSE Goto(c, "idle") /\ work' = [work EXCEPT ![c] = Null]
  /\ UNCHANGED <<running, queue, sent, workVars, woken, startVars, rubyVars>>

(* m_syncCond->wait(m_syncLock): release the mutex and fall asleep at once. *)
Sleep(c) ==
  /\ At(c, "sleep")
  /\ \E m \in Unlocked(syncLock[work[c]], c) :
       syncLock' = [syncLock EXCEPT ![work[c]] = m]
  /\ Goto(c, "wait")
  /\ UNCHANGED <<running, lockVars, mem, done, work, woken, startVars, rubyVars>>

(* wait() returns with the mutex held, and the loop tests m_done.          *)
IsAnswered(w) == done[w]

Wake(c) ==
  /\ At(c, "wait")
  /\ c \in woken
  /\ CanLock(syncLock[work[c]])
  /\ syncLock' = [syncLock EXCEPT ![work[c]] = c]
  /\ woken' = woken \ {c}
  /\ Goto(c, IF IsAnswered(work[c]) THEN "return" ELSE "sleep")
  /\ UNCHANGED <<running, lockVars, mem, done, work, startVars, rubyVars>>

(* runWorkSync unlocks m_syncLock and returns; its caller reads the result *)
(* and returns, and the Work goes with the frame.                          *)
Return(c) ==
  /\ At(c, "return")
  /\ \E m \in Unlocked(syncLock[work[c]], c) :
       syncLock' = [syncLock EXCEPT ![work[c]] = m]
  /\ mem' = [mem EXCEPT ![work[c]] = "gone"]
  /\ work' = [work EXCEPT ![c] = Null]
  /\ Goto(c, "idle")
  /\ UNCHANGED <<running, lockVars, done, woken, startVars, rubyVars>>

(* bpsync.hh warns of it: a thread may wake up without a signal.           *)
SpuriousWake(c) ==
  /\ At(c, "init_wait") \/ At(c, "wait")
  /\ c \notin woken
  /\ woken' = woken \union {c}
  /\ UNCHANGED <<running, lockVars, workVars, pc, work, startVars, rubyVars>>

-----------------------------------------------------------------------------
(* rubyThreadFunc copies the path out of the frame of initialize, starts   *)
(* Ruby and loads the built-in classes.  The second time in a process the  *)
(* assertion of bp_load_builtins fails, in the builds that keep assertions. *)
Boot ==
  /\ \/ RubyStep("boot", "announce")
     \/ builtins /\ RubyStep("boot", "aborted")
  /\ builtins' = TRUE
  /\ UNCHANGED <<running, lockVars, workVars, hostVars, cur, ran>>

Announce ==
  /\ RubyStep("announce", "announced")
  /\ CanLock(rubyLock)
  /\ rubyLock' = Ruby
  /\ running' = TRUE
  /\ woken' \in Signalled(woken, RubyCondSleepers)
  /\ UNCHANGED <<queue, sent, workVars, pc, work, startVars, cur, builtins, ran>>

AnnounceUnlock ==
  /\ RubyStep("announced", "loop")
  /\ rubyLock' \in Unlocked(rubyLock, Ruby)
  /\ UNCHANGED <<running, queue, sent, workVars, hostVars, cur, builtins, ran>>

(* while (s_running), read without the lock.                               *)
GoesOn == running

Loop ==
  /\ RubyStep("loop", IF GoesOn THEN "pop" ELSE "exit")
  /\ UNCHANGED <<running, lockVars, workVars, hostVars, cur, builtins, ran>>

Oldest == Head(queue)
Rest == Tail(queue)

Pop ==
  /\ RubyStep("pop", "popped")
  /\ CanLock(rubyLock)
  /\ rubyLock' = Ruby
  /\ IF queue = <<>>
       THEN UNCHANGED <<cur, queue>>
       ELSE cur' = Oldest /\ queue' = Rest
  /\ UNCHANGED <<running, sent, workVars, hostVars, builtins, ran>>

(* With no work the thread sleeps in Ruby for a while, and tests again.    *)
HasWork == cur # Null

PopUnlock ==
  /\ RubyStep("popped", IF HasWork THEN "execute" ELSE "loop")
  /\ rubyLock' \in Unlocked(rubyLock, Ruby)
  /\ UNCHANGED <<running, queue, sent, workVars, hostVars, cur, builtins, ran>>

(* Run the work, and then test whether it has an m_syncLock.               *)
Execute ==
  /\ RubyStep("execute", IF syncLock[cur] # Null THEN "reply" ELSE "delete")
  /\ ran' = Append(ran, cur)
  /\ UNCHANGED <<running, lockVars, workVars, hostVars, cur, builtins>>

Reply ==
  /\ RubyStep("reply", "replied")
  /\ CanLock(syncLock[cur])
  /\ syncLock' = [syncLock EXCEPT ![cur] = Ruby]
  /\ done' = [done EXCEPT ![cur] = TRUE]
  /\ woken' \in Signalled(woken, SyncCondSleepers(cur))
  /\ UNCHANGED <<running, lockVars, mem, pc, work, startVars, cur, builtins, ran>>

(* work->m_syncLock->unlock(): the last time the thread touches the work.  *)
ReplyUnlock ==
  /\ RubyStep("replied", "loop")
  /\ \E m \in Unlocked(syncLock[cur], Ruby) :
       syncLock' = [syncLock EXCEPT ![cur] = m]
  /\ cur' = Null
  /\ UNCHANGED <<running, lockVars, mem, done, hostVars, builtins, ran>>

Delete ==
  /\ RubyStep("delete", "loop")
  /\ mem' = [mem EXCEPT ![cur] = "gone"]
  /\ cur' = Null
  /\ UNCHANGED <<running, lockVars, syncLock, done, hostVars, builtins, ran>>

(* After the loop the thread unlocks s_rubyLock, which it does not hold.   *)
Exit ==
  /\ RubyStep("exit", "dead")
  /\ rubyLock' \in Unlocked(rubyLock, Ruby)
  /\ UNCHANGED <<running, queue, sent, workVars, hostVars, cur, builtins, ran>>

-----------------------------------------------------------------------------
(* A step of Main that goes on with initialize or shutdown.                *)
MainStep ==
  \/ InitializeSpawn \/ InitializeTest \/ InitializeWake \/ InitializeReturn
  \/ ShutdownClear \/ ShutdownUnlock \/ ShutdownJoin

(* A step of a host thread that goes on with runWorkSync or runWorkASync.  *)
ClientStep(c) ==
  Submit(c) \/ Attach(c) \/ Unlock(c) \/ Sleep(c) \/ Wake(c) \/ Return(c)

RubyNext ==
  \/ Boot \/ Announce \/ AnnounceUnlock
  \/ Loop \/ Pop \/ PopUnlock \/ Execute \/ Reply \/ ReplyUnlock \/ Delete
  \/ Exit

(* The host is done, or the process ended: nothing is left to happen.      *)
Finished ==
  /\ \/ rubyPc = "aborted"
     \/ /\ rubyPc \in {"none", "dead"}
        /\ ~open /\ inits = MaxInits
        /\ \A c \in Clients : pc[c] = "idle"
  /\ UNCHANGED vars

Next ==
  \/ InitializeEnter \/ ShutdownEnter
  \/ MainStep
  \/ \E c \in Clients :
       \/ \E w \in Works : BeginWork(c, w)
       \/ ClientStep(c)
       \/ SpuriousWake(c)
  \/ RubyNext
  \/ Finished

Spec == Init /\ [][Next]_vars

(* A thread in the middle of a call, and the interpreter thread, go on      *)
(* whenever they can again and again.  Fairness is strong for the mutexes: *)
(* they are free again and again (the interpreter sleeps between polls),   *)
(* and an operating system starves no thread on a mutex for ever.  Nothing *)
(* makes the host begin a call, and no spurious wake-up is promised.       *)
Fairness ==
  /\ SF_vars(MainStep)
  /\ \A c \in Clients : SF_vars(ClientStep(c))
  /\ SF_vars(RubyNext)

FairSpec == Spec /\ Fairness
-----------------------------------------------------------------------------
(* The type invariant.  A host thread has a Work exactly while it is in    *)
(* runWorkSync or runWorkASync, and rubyThreadFunc dereferences no null    *)
(* pointer: it works on an item only after its test of the popped pointer. *)
TypeOK ==
  /\ running \in BOOLEAN
  /\ rubyLock \in Clients \union {Ruby, Free}
  /\ queue \in Seq(Works)
  /\ mem \in [Works -> {"unborn", "live", "gone"}]
  /\ syncLock \in [Works -> Clients \union {Ruby, Free, Null}]
  /\ done \in [Works -> BOOLEAN]
  /\ pc \in [Clients -> {"idle"} \union InitializePcs \union ShutdownPcs \union RunWorkPcs]
  /\ work \in [Clients -> Works \union {Null}]
  /\ woken \in SUBSET Clients
  /\ open \in BOOLEAN
  /\ inits \in 0..MaxInits
  /\ thread \in {"none", "joinable", "joined"}
  /\ rubyPc \in RubyPcs
  /\ cur \in Works \union {Null}
  /\ \A c \in Clients : work[c] = Null <=> pc[c] \notin RunWorkPcs
  /\ rubyPc \in {"execute", "reply", "replied", "delete"} => cur # Null
  /\ builtins \in BOOLEAN
  /\ sent \in Seq(Works)
  /\ ran \in Seq(Works)

(* The queue and the interpreter thread hold no dangling pointer: a Work   *)
(* they refer to has neither been deleted nor gone with its caller's frame. *)
(* rubyThreadFunc uses work->m_syncLock up to the unlock of its reply.     *)
WorkIsLive ==
  /\ \A i \in DOMAIN queue : mem[queue[i]] = "live"
  /\ cur # Null => mem[cur] = "live"

(* rubyThreadFunc tells by m_syncLock whether to reply or to delete: a Work *)
(* on a stack is never deleted, and a Work on the heap never waited for,   *)
(* although runWorkSync queues the work before it sets m_syncLock.         *)
DeletesOnlyHeapWork ==
  /\ rubyPc = "delete" => cur \in HeapWorks
  /\ rubyPc \in {"reply", "replied"} => cur \in StackWorks

(* The wake-up of runWorkSync is not lost: once m_done is set, its caller  *)
(* does not sleep, whatever the order of reply and wait.                   *)
NoLostWakeup ==
  \A c \in Clients : pc[c] = "wait" /\ done[work[c]] => c \in woken

(* The new thread reads the path from the frame of BPPInitialize, through  *)
(* a pointer: that call has not returned.  And when initialize returns and *)
(* a thread was created, Ruby has booted.                                  *)
InitializeWaitsForBoot ==
  /\ rubyPc \in {"boot", "announce"} => pc[Main] \in InitializePcs
  /\ open /\ ~running => rubyPc \in {"none", "dead"}

(* s_workQueue has one user at a time as long as the interpreter thread    *)
(* lives: whoever is between lock and unlock of s_rubyLock holds it.       *)
QueuePcs == {"init_test", "init_return", "attach", "unlock", "shut_unlock"}
InQueueSection(t) ==
  IF t = Ruby THEN rubyPc \in {"announced", "popped"} ELSE pc[t] \in QueuePcs
QueueIsExclusive ==
  rubyPc # "dead" =>
    \A t, u \in Clients \union {Ruby} :
      InQueueSection(t) /\ InQueueSection(u) => t = u

(* When shutdown has returned, the interpreter thread is gone: it cannot   *)
(* use Ruby during ruby_finalize, nor call the host afterwards.            *)
QuietAfterShutdown ==
  ~open /\ pc[Main] = "idle" => rubyPc \in {"none", "dead", "aborted"}

(* Every thread that was created is joined, and once: s_rubyThread does not *)
(* take a second thread while it holds the handle of one that runs, and    *)
(* shutdown joins a thread that was created and not joined before.         *)
ThreadIsJoinedOnce ==
  /\ pc[Main] = "init_spawn" => thread # "joinable"
  /\ pc[Main] = "shut_join" => thread = "joinable"

(* A caller of runWorkSync waits only for a thread that gets to its work:  *)
(* while it waits for an answer, its work is in the queue or in the hands  *)
(* of the interpreter thread, and from a start that created a thread to    *)
(* the call of shutdown that thread goes round its loop.  Nothing is       *)
(* claimed of the thread for a call that overlaps the shutdown, or follows *)
(* a failed start: such a call may wait for ever.                          *)
LoopPcs == {"announced", "loop", "pop", "popped", "execute", "reply", "replied", "delete"}
NoCallIsStranded ==
  \A c \in Clients :
    pc[c] \in {"attach", "unlock", "sleep", "wait"}
      /\ work[c] \in StackWorks /\ ~done[work[c]] =>
      /\ cur = work[c] \/ \E i \in DOMAIN queue : queue[i] = work[c]
      /\ open /\ thread = "joinable" => running /\ rubyPc \in LoopPcs

(* The promise of WorkQueue: order, at most once, and no synchronous call  *)
(* that returns before its work has run.                                   *)
WQ == INSTANCE WorkQueue WITH SyncWorks <- StackWorks, AsyncWorks <- HeapWorks,
                              NoWork <- Null, call <- work, served <- ran
ImplementsWorkQueue == WQ!Spec

-----------------------------------------------------------------------------
(* Every call of the host into the interpreter comes back: initialize,     *)
(* shutdown, the synchronous and the asynchronous calls.                   *)
EveryCallReturns ==
  \A c \in Clients : pc[c] # "idle" ~> (pc[c] = "idle" \/ rubyPc = "aborted")

(* An invocation that has been queued is run, unless shutdown is called.   *)
InvocationRuns ==
  \A w \in HeapWorks :
    mem[w] = "live" ~> (mem[w] = "gone" \/ ~open)

(* RubyInterpreter.cpp:272 says of the work of an asynchronous call that   *)
(* it "will be freed by the interpreter thread".                           *)
HeapWorkIsFreed ==
  \A w \in HeapWorks : mem[w] = "live" ~> (mem[w] = "gone" \/ rubyPc = "aborted")

(* bpsync.hh:37: s_rubyLock is "a posix style non-recursive mutual         *)
(* exclusion device": a thread between its lock and unlock holds it.       *)
LockIsHeld ==
  \A t \in Clients \union {Ruby} : InQueueSection(t) => rubyLock = t
=============================================================================
