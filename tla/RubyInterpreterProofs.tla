------------------------ MODULE RubyInterpreterProofs ------------------------
(***************************************************************************)
(* The safety properties of RubyInterpreter hold for every set of host     *)
(* threads and of works, however often the interpreter is started, whether *)
(* or not its thread can be created and whether or not the host overlaps   *)
(* its calls with the shutdown.  The argument is InductiveInvariant of     *)
(* RubyInterpreterInductive: it holds initially, every step keeps each of  *)
(* its parts, and the safety properties follow from it.  The same          *)
(* invariant shows that every step is a step of WorkQueue or leaves its    *)
(* variables alone.                                                        *)
(***************************************************************************)
EXTENDS RubyInterpreterInductive, TLAPS

(* The tests and values of the code that have names of their own.          *)
USE DEF MustStart, Run, Booted, JoinReturns, LockedAfterPush, SyncLockHeld,
        IsAnswered, GoesOn, Oldest, Rest, HasWork

-----------------------------------------------------------------------------
(* Facts about sequences, and about the outcomes of a signal.              *)

LEMMA AppendFacts ==
  ASSUME NEW S, NEW s \in Seq(S), NEW x \in S
  PROVE  /\ Append(s, x) \in Seq(S)
         /\ Len(Append(s, x)) = Len(s) + 1
         /\ DOMAIN Append(s, x) = 1 .. Len(s) + 1
         /\ \A i \in 1 .. Len(s) : Append(s, x)[i] = s[i]
         /\ Append(s, x)[Len(s) + 1] = x
OBVIOUS

LEMMA TailFacts ==
  ASSUME NEW S, NEW s \in Seq(S), s # <<>>
  PROVE  /\ Tail(s) \in Seq(S)
         /\ Head(s) = s[1] /\ Head(s) \in S /\ 1 \in DOMAIN s
         /\ Len(Tail(s)) = Len(s) - 1
         /\ DOMAIN Tail(s) = 1 .. Len(s) - 1
         /\ \A i \in DOMAIN Tail(s) : i + 1 \in DOMAIN s /\ i + 1 # 1 /\ Tail(s)[i] = s[i + 1]
OBVIOUS

LEMMA WokenFacts ==
  ASSUME woken \in SUBSET Clients, NEW w, NEW x,
         x \in Signalled(woken, RubyCondSleepers) \/ x \in Signalled(woken, SyncCondSleepers(w))
  PROVE  x \in SUBSET Clients
BY DEF Signalled, RubyCondSleepers, SyncCondSleepers

-----------------------------------------------------------------------------
(* What the actions do to the sequences, element by element.               *)

LEMMA SequenceTypes ==
  ASSUME TypeOK
  PROVE  /\ \A c \in Clients : Submit(c) => queue' \in Seq(Works) /\ sent' \in Seq(Works)
         /\ Pop => queue' \in Seq(Works) /\ cur' \in Works \union {Null}
         /\ Execute => ran' \in Seq(Works)
<1>1. ASSUME NEW c \in Clients, Submit(c) PROVE queue' \in Seq(Works) /\ sent' \in Seq(Works)
  <2>1. work[c] \in Works
    BY <1>1 DEF TypeOK, Submit, At, RunWorkPcs
  <2> QED
    BY <1>1, <2>1 DEF TypeOK, Submit
<1>2. ASSUME Pop PROVE queue' \in Seq(Works) /\ cur' \in Works \union {Null}
  <2>1. CASE queue = <<>>
    BY <1>2, <2>1 DEF TypeOK, Pop
  <2>2. CASE queue # <<>>
    <3>1. queue' = Tail(queue) /\ cur' = Head(queue)
      BY <1>2, <2>2 DEF Pop
    <3> QED
      BY <2>2, <3>1, TailFacts DEF TypeOK
  <2> QED
    BY <2>1, <2>2
<1>3. ASSUME Execute PROVE ran' \in Seq(Works)
  <2>1. cur \in Works
    BY <1>3 DEF TypeOK, Execute, RubyStep
  <2> QED
    BY <1>3, <2>1 DEF TypeOK, Execute
<1> QED
  BY <1>1, <1>2, <1>3

LEMMA SubmitEffect ==
  ASSUME TypeOK, NEW c \in Clients, Submit(c)
  PROVE  /\ work[c] \in Works
         /\ Len(queue) \in Nat /\ DOMAIN queue = 1 .. Len(queue)
         /\ Len(sent) \in Nat /\ DOMAIN sent = 1 .. Len(sent)
         /\ Len(queue') = Len(queue) + 1 /\ DOMAIN queue' = 1 .. Len(queue) + 1
         /\ Len(sent') = Len(sent) + 1 /\ DOMAIN sent' = 1 .. Len(sent) + 1
         /\ \A i \in DOMAIN queue : queue'[i] = queue[i]
         /\ \A i \in DOMAIN sent : sent'[i] = sent[i]
         /\ queue'[Len(queue) + 1] = work[c]
         /\ sent'[Len(sent) + 1] = work[c]
<1>1. work[c] \in Works
  BY DEF TypeOK, Submit, At, RunWorkPcs
<1>2. queue' = Append(queue, work[c]) /\ sent' = Append(sent, work[c])
  BY DEF Submit
<1> QED
  BY <1>1, <1>2, AppendFacts DEF TypeOK

LEMMA PopEffect ==
  ASSUME TypeOK, Pop
  PROVE  \/ UNCHANGED <<queue, cur>>
         \/ /\ 1 \in DOMAIN queue /\ cur' = queue[1] /\ cur' \in Works
            /\ Len(queue) \in Nat /\ Len(queue) >= 1
            /\ Len(queue') = Len(queue) - 1
            /\ DOMAIN queue' = 1 .. Len(queue')
            /\ \A i \in DOMAIN queue' :
                 i + 1 \in DOMAIN queue /\ i + 1 # 1 /\ queue'[i] = queue[i + 1]
<1>1. CASE queue = <<>> BY <1>1 DEF Pop
<1>2. CASE queue # <<>>
  <2>1. queue' = Tail(queue) /\ cur' = Head(queue)
    BY <1>2 DEF Pop
  <2>2. Len(queue) \in Nat /\ Len(queue) >= 1
    BY <1>2 DEF TypeOK
  <2> QED
    BY <1>2, <2>1, <2>2, TailFacts DEF TypeOK
<1> QED
  BY <1>1, <1>2

LEMMA ExecuteEffect ==
  ASSUME TypeOK, Execute
  PROVE  /\ cur \in Works
         /\ Len(ran) \in Nat /\ DOMAIN ran = 1 .. Len(ran)
         /\ Len(ran') = Len(ran) + 1 /\ DOMAIN ran' = 1 .. Len(ran) + 1
         /\ \A i \in DOMAIN ran : ran'[i] = ran[i]
         /\ ran'[Len(ran) + 1] = cur
<1>1. cur \in Works
  BY DEF TypeOK, Execute, RubyStep
<1>2. ran' = Append(ran, cur)
  BY DEF Execute
<1> QED
  BY <1>1, <1>2, AppendFacts DEF TypeOK

-----------------------------------------------------------------------------
(* The type invariant.                                                     *)

LEMMA TypeInit == Init => TypeOK
<1> SUFFICES ASSUME Init PROVE TypeOK
  OBVIOUS
<1> USE ConstantsAssumption DEF Init
<1>1. rubyLock \in Clients \union {Ruby, Free} /\ inits \in 0 .. MaxInits
  OBVIOUS
<1>2. queue \in Seq(Works) /\ sent \in Seq(Works) /\ ran \in Seq(Works)
  OBVIOUS
<1>3. mem \in [Works -> {"unborn", "live", "gone"}] /\ done \in [Works -> BOOLEAN]
  OBVIOUS
<1>4. syncLock \in [Works -> Clients \union {Ruby, Free, Null}]
  OBVIOUS
<1>5. pc \in [Clients -> {"idle"} \union InitializePcs \union ShutdownPcs \union RunWorkPcs]
  OBVIOUS
<1>6. work \in [Clients -> Works \union {Null}]
  OBVIOUS
<1>7. \A c \in Clients : work[c] = Null <=> pc[c] \notin RunWorkPcs
  BY DEF RunWorkPcs
<1>8. rubyPc \in RubyPcs
  BY DEF RubyPcs
<1> QED
  BY <1>1, <1>2, <1>3, <1>4, <1>5, <1>6, <1>7, <1>8 DEF TypeOK

LEMMA TypeStep ==
  ASSUME TypeOK, [Next]_vars
  PROVE  TypeOK'
<1> USE ConstantsAssumption DEF TypeOK, At, Goto, RubyStep,
        lockVars, workVars, hostVars, startVars, rubyVars
<1> DEFINE Pcs == {"idle"} \union InitializePcs \union ShutdownPcs \union RunWorkPcs
<1>1. CASE InitializeEnter BY <1>1 DEF InitializeEnter, InitializePcs, ShutdownPcs, RunWorkPcs
<1>2. CASE InitializeSpawn
  <2>1. pc' \in [Clients -> Pcs] /\ rubyLock' \in Clients
    BY <1>2 DEF InitializeSpawn, InitializePcs
  <2>2. \A c \in Clients : pc'[c] \notin RunWorkPcs <=> pc[c] \notin RunWorkPcs
    BY <1>2 DEF InitializeSpawn, RunWorkPcs
  <2>3. rubyPc' \in RubyPcs /\ rubyPc' \in {rubyPc, "boot"} /\ thread' \in {"joinable", "none"}
    BY <1>2 DEF InitializeSpawn, RubyPcs
  <2> QED
    BY <1>2, <2>1, <2>2, <2>3 DEF InitializeSpawn
<1>3. CASE InitializeTest
  BY <1>3 DEF InitializeTest, Unlocked, InitializePcs, ShutdownPcs, RunWorkPcs
<1>4. CASE InitializeWake BY <1>4 DEF InitializeWake, InitializePcs, ShutdownPcs, RunWorkPcs
<1>5. CASE InitializeReturn
  BY <1>5 DEF InitializeReturn, Unlocked, InitializePcs, ShutdownPcs, RunWorkPcs
<1>6. CASE ShutdownEnter
  <2>1. pc' \in [Clients -> Pcs]
    BY <1>6 DEF ShutdownEnter, ShutdownPcs
  <2>2. \A c \in Clients : pc'[c] \notin RunWorkPcs <=> pc[c] \notin RunWorkPcs
    BY <1>6 DEF ShutdownEnter, RunWorkPcs
  <2> QED
    BY <1>6, <2>1, <2>2 DEF ShutdownEnter
<1>7. CASE ShutdownClear
  <2>1. pc' \in [Clients -> Pcs]
    BY <1>7 DEF ShutdownClear, ShutdownPcs
  <2>2. \A c \in Clients : pc'[c] \notin RunWorkPcs <=> pc[c] \notin RunWorkPcs
    BY <1>7 DEF ShutdownClear, RunWorkPcs
  <2>3. woken' \in SUBSET Clients
    BY <1>7, WokenFacts DEF ShutdownClear
  <2> QED
    BY <1>7, <2>1, <2>2, <2>3 DEF ShutdownClear
<1>8. CASE ShutdownUnlock
  BY <1>8 DEF ShutdownUnlock, Unlocked, InitializePcs, ShutdownPcs, RunWorkPcs
<1>9. CASE ShutdownJoin BY <1>9 DEF ShutdownJoin, InitializePcs, ShutdownPcs, RunWorkPcs
<1>10. ASSUME NEW c \in Clients, NEW w \in Works, BeginWork(c, w) PROVE TypeOK'
  BY <1>10 DEF BeginWork, InitializePcs, ShutdownPcs, RunWorkPcs
<1>11. ASSUME NEW c \in Clients, Submit(c) PROVE TypeOK'
  <2>1. queue' \in Seq(Works) /\ sent' \in Seq(Works)
    BY <1>11, SequenceTypes
  <2>2. pc' \in [Clients -> Pcs]
    BY <1>11 DEF Submit, RunWorkPcs
  <2>3. \A d \in Clients : pc'[d] \notin RunWorkPcs <=> pc[d] \notin RunWorkPcs
    BY <1>11 DEF Submit, RunWorkPcs
  <2>4. woken' \in SUBSET Clients
    BY <1>11, WokenFacts DEF Submit
  <2> QED
    BY <1>11, <2>1, <2>2, <2>3, <2>4 DEF Submit
<1>12. ASSUME NEW c \in Clients, Attach(c) PROVE TypeOK'
  BY <1>12 DEF Attach, InitializePcs, ShutdownPcs, RunWorkPcs
<1>13. ASSUME NEW c \in Clients, Unlock(c) PROVE TypeOK'
  BY <1>13, SMTT(40) DEF Unlock, Unlocked, InitializePcs, ShutdownPcs, RunWorkPcs
<1>14. ASSUME NEW c \in Clients, Sleep(c) PROVE TypeOK'
  BY <1>14 DEF Sleep, Unlocked, InitializePcs, ShutdownPcs, RunWorkPcs
<1>15. ASSUME NEW c \in Clients, Wake(c) PROVE TypeOK'
  BY <1>15 DEF Wake, InitializePcs, ShutdownPcs, RunWorkPcs
<1>16. ASSUME NEW c \in Clients, Return(c) PROVE TypeOK'
  BY <1>16 DEF Return, Unlocked, InitializePcs, ShutdownPcs, RunWorkPcs
<1>17. ASSUME NEW c \in Clients, SpuriousWake(c) PROVE TypeOK' BY <1>17 DEF SpuriousWake
<1>18. CASE Boot BY <1>18 DEF Boot, RubyPcs
<1>19. CASE Announce
  <2>1. woken' \in SUBSET Clients
    BY <1>19, WokenFacts DEF Announce
  <2> QED
    BY <1>19, <2>1 DEF Announce, RubyPcs
<1>20. CASE AnnounceUnlock BY <1>20 DEF AnnounceUnlock, Unlocked, RubyPcs
<1>21. CASE Loop BY <1>21 DEF Loop, RubyPcs
<1>22. CASE Pop
  <2>1. queue' \in Seq(Works) /\ cur' \in Works \union {Null}
    BY <1>22, SequenceTypes
  <2> QED
    BY <1>22, <2>1 DEF Pop, RubyPcs
<1>23. CASE PopUnlock BY <1>23 DEF PopUnlock, Unlocked, RubyPcs
<1>24. CASE Execute BY <1>24, SequenceTypes DEF Execute, RubyPcs
<1>25. CASE Reply
  <2>1. woken' \in SUBSET Clients
    BY <1>25, WokenFacts DEF Reply
  <2> QED
    BY <1>25, <2>1 DEF Reply, RubyPcs
<1>26. CASE ReplyUnlock BY <1>26 DEF ReplyUnlock, Unlocked, RubyPcs
<1>27. CASE Delete BY <1>27 DEF Delete, RubyPcs
<1>28. CASE Exit BY <1>28 DEF Exit, Unlocked, RubyPcs
<1>29. CASE UNCHANGED vars BY <1>29 DEF vars
<1> QED
  BY <1>1, <1>2, <1>3, <1>4, <1>5, <1>6, <1>7, <1>8, <1>9, <1>10, <1>11, <1>12, <1>13,
     <1>14, <1>15, <1>16, <1>17, <1>18, <1>19, <1>20, <1>21, <1>22, <1>23, <1>24, <1>25,
     <1>26, <1>27, <1>28, <1>29
  DEF Next, MainStep, ClientStep, RubyNext, Finished

-----------------------------------------------------------------------------
(* Starting and stopping the interpreter leaves the works, the queue and   *)
(* the calls in progress alone.                                            *)
StartStop == InitializeEnter \/ ShutdownEnter \/ MainStep

LEMMA StartStopFrame ==
  ASSUME InductiveInvariant, StartStop
  PROVE  /\ UNCHANGED <<queue, sent, mem, syncLock, done, work, cur, ran>>
         /\ rubyPc' = rubyPc \/ (rubyPc \in {"none", "dead"} /\ rubyPc' = "boot")
         /\ \A c \in Clients :
              pc'[c] # pc[c] => pc[c] \notin RunWorkPcs /\ pc'[c] \notin RunWorkPcs
         /\ \A c \in woken : pc[c] = "wait" => c \in woken'
<1> USE ConstantsAssumption DEF InductiveInvariant, TypeOK, HostPhases, ThreadPhases,
        InitializePcs, ShutdownPcs, RunWorkPcs, At, Goto, Signalled,
        lockVars, workVars, hostVars, startVars, rubyVars
<1>1. CASE InitializeEnter BY <1>1 DEF InitializeEnter
<1>2. CASE ShutdownEnter BY <1>2 DEF ShutdownEnter
<1>3. CASE InitializeSpawn BY <1>3 DEF InitializeSpawn
<1>4. CASE InitializeTest BY <1>4 DEF InitializeTest
<1>5. CASE InitializeWake BY <1>5 DEF InitializeWake
<1>6. CASE InitializeReturn BY <1>6 DEF InitializeReturn
<1>7. CASE ShutdownClear BY <1>7 DEF ShutdownClear
<1>8. CASE ShutdownUnlock BY <1>8 DEF ShutdownUnlock
<1>9. CASE ShutdownJoin BY <1>9 DEF ShutdownJoin
<1> QED
  BY <1>1, <1>2, <1>3, <1>4, <1>5, <1>6, <1>7, <1>8, <1>9 DEF StartStop, MainStep

LEMMA StartStopKeeps ==
  ASSUME InductiveInvariant, StartStop
  PROVE  /\ Fresh' /\ Held' /\ SyncLockOwner' /\ Queued' /\ Current'
         /\ Answered' /\ Remembered' /\ History'
<1> USE StartStopFrame DEF InductiveInvariant
<1>1. Fresh' BY DEF Fresh, IsQueued, IsSent
<1>2. Held' BY DEF TypeOK, Held, RunWorkPcs, IsQueued, IsSent
<1>3. SyncLockOwner' BY DEF TypeOK, SyncLockOwner, RunWorkPcs
<1>4. Queued'
  <2>1. \A i \in DOMAIN queue : queue[i] \in StackWorks =>
          \E c \in Clients :
            work[c] = queue[i] /\ pc'[c] \in {"attach", "unlock", "sleep", "wait"}
    BY DEF Queued, RunWorkPcs
  <2> QED BY <2>1 DEF Queued
<1>5. Current' BY DEF TypeOK, Current, RunWorkPcs, IsQueued
<1>6. Answered'
  <2>1. \A w \in Works : done'[w] => HasRun(w)' BY DEF Answered, HasRun
  <2>2. rubyPc' \in {"reply", "replied"} => HasRun(cur)' BY DEF Answered, HasRun
  <2>3. ASSUME NEW c \in Clients
        PROVE  /\ pc'[c] = "return" => done'[work'[c]]
               /\ pc'[c] \in {"submit", "attach", "unlock", "sleep"} => ~done'[work'[c]]
               /\ pc'[c] = "wait" /\ done'[work'[c]] => c \in woken'
    BY DEF TypeOK, Answered, RunWorkPcs
  <2> QED BY <2>1, <2>2, <2>3 DEF Answered
<1>7. Remembered' BY DEF TypeOK, Remembered, RunWorkPcs, IsQueued
<1>8. History' BY DEF History, Popped
<1> QED
  BY <1>1, <1>2, <1>3, <1>4, <1>5, <1>6, <1>7, <1>8

-----------------------------------------------------------------------------
(* Every step keeps every part of the inductive invariant.                 *)

(* Only Main moves in and out of initialize and shutdown.                   *)
LEMMA HostPhasesStep ==
  ASSUME InductiveInvariant, [Next]_vars
  PROVE  HostPhases'
<1> USE ConstantsAssumption DEF InductiveInvariant, TypeOK,
          At, Goto, RubyStep, CanLock, Unlocked, lockVars, workVars, hostVars, startVars, rubyVars,
          HostPhases, InitializePcs, ShutdownPcs, RunWorkPcs
<1>1. CASE UNCHANGED <<pc, open>> BY <1>1
<1>2. CASE StartStop
  BY <1>2, SMTT(30) DEF StartStop, MainStep, InitializeEnter, InitializeSpawn, InitializeTest,
     InitializeWake, InitializeReturn, ShutdownEnter, ShutdownClear, ShutdownUnlock,
     ShutdownJoin, At, Goto, lockVars, workVars, hostVars, startVars, rubyVars
<1>3. ASSUME NEW c \in Clients, NEW w \in Works, BeginWork(c, w) PROVE HostPhases'
  BY <1>3 DEF BeginWork
<1>4. ASSUME NEW c \in Clients, Submit(c) PROVE HostPhases' BY <1>4 DEF Submit
<1>5. ASSUME NEW c \in Clients, Attach(c) PROVE HostPhases' BY <1>5 DEF Attach
<1>6. ASSUME NEW c \in Clients, Unlock(c) PROVE HostPhases' BY <1>6 DEF Unlock
<1>7. ASSUME NEW c \in Clients, Sleep(c) PROVE HostPhases' BY <1>7 DEF Sleep
<1>8. ASSUME NEW c \in Clients, Wake(c) PROVE HostPhases' BY <1>8 DEF Wake
<1>9. ASSUME NEW c \in Clients, Return(c) PROVE HostPhases' BY <1>9 DEF Return
<1> HIDE DEF InductiveInvariant, TypeOK,
          HostPhases, InitializePcs, ShutdownPcs, RunWorkPcs
<1> QED
  BY <1>1, <1>2, <1>3, <1>4, <1>5, <1>6, <1>7, <1>8, <1>9
  DEF Next, vars, Finished, StartStop, ClientStep, RubyNext, lockVars, workVars,
     hostVars, startVars, rubyVars, SpuriousWake, Boot, Announce, AnnounceUnlock, Loop, Pop,
     PopUnlock, Execute, Reply, ReplyUnlock, Delete, Exit

(* The thread is where s_running and Main say it is.                       *)
LEMMA ThreadPhasesStep ==
  ASSUME InductiveInvariant, [Next]_vars
  PROVE  ThreadPhases'
<1> USE ConstantsAssumption DEF InductiveInvariant, TypeOK,
          At, Goto, RubyStep, CanLock, Unlocked, lockVars, workVars, hostVars, startVars, rubyVars,
          HostPhases, ThreadPhases, LoopPcs, InitializePcs, ShutdownPcs, RunWorkPcs
<1>1. CASE UNCHANGED <<running, pc, open, thread, rubyPc>> BY <1>1
<1>2. CASE StartStop
  BY <1>2, SMTT(30) DEF StartStop, MainStep, InitializeEnter, InitializeSpawn, InitializeTest,
     InitializeWake, InitializeReturn, ShutdownEnter, ShutdownClear, ShutdownUnlock,
     ShutdownJoin, At, Goto, lockVars, workVars, hostVars, startVars, rubyVars
<1>3. ASSUME NEW c \in Clients, NEW w \in Works, BeginWork(c, w) PROVE ThreadPhases'
  BY <1>3 DEF BeginWork
<1>4. ASSUME NEW c \in Clients, Submit(c) PROVE ThreadPhases' BY <1>4 DEF Submit
<1>5. ASSUME NEW c \in Clients, Attach(c) PROVE ThreadPhases' BY <1>5 DEF Attach
<1>6. ASSUME NEW c \in Clients, Unlock(c) PROVE ThreadPhases' BY <1>6 DEF Unlock
<1>7. ASSUME NEW c \in Clients, Sleep(c) PROVE ThreadPhases' BY <1>7 DEF Sleep
<1>8. ASSUME NEW c \in Clients, Wake(c) PROVE ThreadPhases' BY <1>8 DEF Wake
<1>9. ASSUME NEW c \in Clients, Return(c) PROVE ThreadPhases' BY <1>9 DEF Return
<1>10. CASE Boot BY <1>10 DEF Boot
<1>11. CASE Announce BY <1>11 DEF Announce
<1>12. CASE AnnounceUnlock BY <1>12 DEF AnnounceUnlock
<1>13. CASE Loop BY <1>13 DEF Loop
<1>14. CASE Pop BY <1>14 DEF Pop
<1>15. CASE PopUnlock BY <1>15 DEF PopUnlock
<1>16. CASE Execute BY <1>16 DEF Execute
<1>17. CASE Reply BY <1>17 DEF Reply
<1>18. CASE ReplyUnlock BY <1>18 DEF ReplyUnlock
<1>19. CASE Delete BY <1>19 DEF Delete
<1>20. CASE Exit BY <1>20 DEF Exit
<1> HIDE DEF InductiveInvariant, TypeOK,
          HostPhases, ThreadPhases, LoopPcs, InitializePcs, ShutdownPcs, RunWorkPcs
<1> QED
  BY <1>1, <1>2, <1>3, <1>4, <1>5, <1>6, <1>7, <1>8, <1>9, <1>10, <1>11, <1>12,
     <1>13, <1>14, <1>15, <1>16, <1>17, <1>18, <1>19, <1>20
  DEF Next, vars, Finished, StartStop, ClientStep, RubyNext, lockVars, workVars,
     hostVars, startVars, rubyVars, SpuriousWake

(* s_rubyLock changes hands only between lock and unlock, or at the exit.  *)
LEMMA RubyLockOwnerStep ==
  ASSUME InductiveInvariant, [Next]_vars
  PROVE  RubyLockOwner'
<1> USE ConstantsAssumption DEF InductiveInvariant, TypeOK,
          At, Goto, RubyStep, CanLock, Unlocked, lockVars, workVars, hostVars, startVars, rubyVars,
          HostPhases, ThreadPhases, RubyLockOwner, QueuePcs, LoopPcs, InitializePcs,
             ShutdownPcs, RunWorkPcs
<1>1. CASE UNCHANGED <<rubyLock, pc, rubyPc>> BY <1>1
<1>2. CASE StartStop
  BY <1>2, SMTT(30) DEF StartStop, MainStep, InitializeEnter, InitializeSpawn, InitializeTest,
     InitializeWake, InitializeReturn, ShutdownEnter, ShutdownClear, ShutdownUnlock,
     ShutdownJoin, At, CanLock, Goto, Unlocked, lockVars, workVars, hostVars, startVars, rubyVars
<1>3. ASSUME NEW c \in Clients, NEW w \in Works, BeginWork(c, w) PROVE RubyLockOwner'
  BY <1>3 DEF BeginWork
<1>4. ASSUME NEW c \in Clients, Submit(c) PROVE RubyLockOwner' BY <1>4 DEF Submit
<1>5. ASSUME NEW c \in Clients, Attach(c) PROVE RubyLockOwner' BY <1>5 DEF Attach
<1>6. ASSUME NEW c \in Clients, Unlock(c) PROVE RubyLockOwner' BY <1>6 DEF Unlock
<1>7. ASSUME NEW c \in Clients, Sleep(c) PROVE RubyLockOwner' BY <1>7 DEF Sleep
<1>8. ASSUME NEW c \in Clients, Wake(c) PROVE RubyLockOwner' BY <1>8 DEF Wake
<1>9. ASSUME NEW c \in Clients, Return(c) PROVE RubyLockOwner' BY <1>9 DEF Return
<1>10. CASE Boot BY <1>10 DEF Boot
<1>11. CASE Announce BY <1>11 DEF Announce
<1>12. CASE AnnounceUnlock BY <1>12 DEF AnnounceUnlock
<1>13. CASE Loop BY <1>13 DEF Loop
<1>14. CASE Pop BY <1>14 DEF Pop
<1>15. CASE PopUnlock BY <1>15 DEF PopUnlock
<1>16. CASE Execute BY <1>16 DEF Execute
<1>17. CASE Reply BY <1>17 DEF Reply
<1>18. CASE ReplyUnlock BY <1>18 DEF ReplyUnlock
<1>19. CASE Delete BY <1>19 DEF Delete
<1>20. CASE Exit BY <1>20 DEF Exit
<1> HIDE DEF InductiveInvariant, TypeOK,
          HostPhases, ThreadPhases, RubyLockOwner, QueuePcs, LoopPcs, InitializePcs,
             ShutdownPcs, RunWorkPcs
<1> QED
  BY <1>1, <1>2, <1>3, <1>4, <1>5, <1>6, <1>7, <1>8, <1>9, <1>10, <1>11, <1>12,
     <1>13, <1>14, <1>15, <1>16, <1>17, <1>18, <1>19, <1>20
  DEF Next, vars, Finished, StartStop, ClientStep, RubyNext, lockVars, workVars,
     hostVars, startVars, rubyVars, SpuriousWake

LEMMA FreshPop ==
  ASSUME InductiveInvariant, Pop
  PROVE  Fresh'
<1> USE ConstantsAssumption DEF InductiveInvariant, TypeOK,
          Works, Fresh, Held, Current, SyncLockOwner, IsQueued, IsSent
<1>1. UNCHANGED <<mem, syncLock, done, work, sent>>
  BY DEF Pop, workVars, hostVars, startVars
<1>2. ASSUME NEW w \in Works, IsQueued(w)' \/ cur' = w PROVE IsQueued(w) \/ cur = w
  BY <1>2, PopEffect
<1> QED
  BY <1>1, <1>2

(* A Work is referred to only after it has been made.                      *)
LEMMA FreshStep ==
  ASSUME InductiveInvariant, [Next]_vars
  PROVE  Fresh'
<1> USE ConstantsAssumption DEF InductiveInvariant, TypeOK,
          At, Goto, RubyStep, CanLock, Unlocked, lockVars, workVars, hostVars, startVars, rubyVars,
          Works, Fresh, Held, Current, SyncLockOwner, IsQueued, IsSent
<1>1. CASE UNCHANGED <<mem, syncLock, done, queue, sent, cur, work>> BY <1>1
<1>2. CASE StartStop BY <1>2, StartStopKeeps
<1>3. ASSUME NEW c \in Clients, NEW w \in Works, BeginWork(c, w) PROVE Fresh'
  BY <1>3 DEF BeginWork
<1>4. ASSUME NEW c \in Clients, Submit(c) PROVE Fresh' BY <1>4 DEF Submit
<1>5. ASSUME NEW c \in Clients, Attach(c) PROVE Fresh' BY <1>5 DEF Attach
<1>6. ASSUME NEW c \in Clients, Unlock(c) PROVE Fresh' BY <1>6 DEF Unlock
<1>7. ASSUME NEW c \in Clients, Sleep(c) PROVE Fresh' BY <1>7 DEF Sleep
<1>8. ASSUME NEW c \in Clients, Wake(c) PROVE Fresh' BY <1>8 DEF Wake
<1>9. ASSUME NEW c \in Clients, Return(c) PROVE Fresh' BY <1>9 DEF Return
<1>10. CASE Pop BY <1>10, FreshPop
<1>11. CASE Reply BY <1>11 DEF Reply
<1>12. CASE ReplyUnlock BY <1>12 DEF ReplyUnlock
<1>13. CASE Delete BY <1>13 DEF Delete
<1> HIDE DEF InductiveInvariant, TypeOK,
          Works, Fresh, Held, Current, SyncLockOwner, IsQueued, IsSent
<1> QED
  BY <1>1, <1>2, <1>3, <1>4, <1>5, <1>6, <1>7, <1>8, <1>9, <1>10, <1>11, <1>12,
     <1>13
  DEF Next, vars, Finished, StartStop, ClientStep, RubyNext, lockVars, workVars,
     hostVars, startVars, rubyVars, SpuriousWake, Boot, Announce, AnnounceUnlock, Loop,
     PopUnlock, Execute, Exit

LEMMA HeldSubmit ==
  ASSUME InductiveInvariant, NEW c \in Clients, Submit(c)
  PROVE  Held'
<1>1. UNCHANGED <<mem, work, cur>> BY DEF Submit, workVars, rubyVars
<1>2. \A w \in Works : /\ IsQueued(w)' <=> IsQueued(w) \/ w = work[c]
                       /\ IsSent(w)' <=> IsSent(w) \/ w = work[c]
  <2>1. TypeOK
    BY DEF InductiveInvariant
  <2>2. /\ \A i \in DOMAIN queue' : i \in DOMAIN queue \/ i = Len(queue) + 1
        /\ \A i \in DOMAIN sent' : i \in DOMAIN sent \/ i = Len(sent) + 1
    BY <2>1, SubmitEffect
  <2>3. /\ DOMAIN queue \subseteq DOMAIN queue' /\ Len(queue) + 1 \in DOMAIN queue'
        /\ DOMAIN sent \subseteq DOMAIN sent' /\ Len(sent) + 1 \in DOMAIN sent'
    BY <2>1, SubmitEffect
  <2>4. \A w \in Works : IsQueued(w)' <=> IsQueued(w) \/ w = work[c]
    BY <2>1, <2>2, <2>3, SubmitEffect DEF IsQueued
  <2>5. \A w \in Works : IsSent(w)' <=> IsSent(w) \/ w = work[c]
    BY <2>1, <2>2, <2>3, SubmitEffect DEF IsSent
  <2> QED
    BY <2>4, <2>5
<1>3. pc[c] = "submit" /\ pc' = [pc EXCEPT ![c] = IF work[c] \in StackWorks THEN "attach" ELSE "unlock"]
  BY DEF Submit, At, Goto
<1> QED BY <1>1, <1>2, <1>3, SubmitEffect DEF InductiveInvariant, TypeOK, Held, RunWorkPcs

LEMMA HeldUnlock ==
  ASSUME InductiveInvariant, NEW c \in Clients, Unlock(c)
  PROVE  Held'
<1> USE ConstantsAssumption DEF InductiveInvariant, TypeOK,
          Held, IsQueued, IsSent
<1>1. UNCHANGED <<mem, queue, sent, cur>>
  BY DEF Unlock, workVars, rubyVars
<1>2. CASE work[c] \in StackWorks BY <1>1, <1>2 DEF Unlock, At, Goto
<1>3. CASE work[c] \notin StackWorks
  <2>1. Null \notin StackWorks
    BY DEF Works
  <2>2. \A d \in Clients : /\ work'[d] = IF d = c THEN Null ELSE work[d]
                           /\ pc'[d] = IF d = c THEN "idle" ELSE pc[d]
    BY <1>3 DEF Unlock, Goto
  <2> QED
    BY <1>1, <2>1, <2>2
<1> QED
  BY <1>2, <1>3

LEMMA HeldPop ==
  ASSUME InductiveInvariant, Pop
  PROVE  Held'
<1>1. UNCHANGED <<mem, pc, work, sent>> BY DEF Pop, workVars, hostVars, startVars
<1>2. ASSUME NEW w \in Works, IsQueued(w)' \/ cur' = w PROVE IsQueued(w) \/ cur = w
  BY <1>2, PopEffect DEF InductiveInvariant, IsQueued
<1> QED BY <1>1, <1>2 DEF InductiveInvariant, TypeOK, Held, IsQueued, IsSent, RunWorkPcs

(* A Work belongs to one call, and is queued by it once.                   *)
LEMMA HeldStep ==
  ASSUME InductiveInvariant, [Next]_vars
  PROVE  Held'
<1> USE ConstantsAssumption DEF InductiveInvariant, TypeOK,
          At, Goto, RubyStep, CanLock, Unlocked, lockVars, workVars, hostVars, startVars, rubyVars,
          Held, IsQueued, IsSent
<1>1. CASE UNCHANGED <<mem, queue, sent, cur, work, pc>> BY <1>1
<1>2. CASE StartStop BY <1>2, StartStopKeeps
<1>3. ASSUME NEW c \in Clients, NEW w \in Works, BeginWork(c, w) PROVE Held'
  BY <1>3 DEF BeginWork, Fresh, Works, RunWorkPcs, At, Goto, lockVars, hostVars, startVars, rubyVars
<1>4. ASSUME NEW c \in Clients, Submit(c) PROVE Held' BY <1>4, HeldSubmit
<1>5. ASSUME NEW c \in Clients, Attach(c) PROVE Held' BY <1>5 DEF Attach
<1>6. ASSUME NEW c \in Clients, Unlock(c) PROVE Held' BY <1>6, HeldUnlock
<1>7. ASSUME NEW c \in Clients, Sleep(c) PROVE Held' BY <1>7 DEF Sleep
<1>8. ASSUME NEW c \in Clients, Wake(c) PROVE Held' BY <1>8 DEF Wake
<1>9. ASSUME NEW c \in Clients, Return(c) PROVE Held'
  BY <1>9 DEF Return, Works, RunWorkPcs, At, Goto, lockVars, hostVars, startVars, rubyVars
<1>10. CASE Pop BY <1>10, HeldPop
<1>11. CASE ReplyUnlock BY <1>11 DEF ReplyUnlock, Works, RunWorkPcs, lockVars, hostVars, startVars
<1>12. CASE Delete
  BY <1>12 DEF Delete, Works, Current, RubyStep, RunWorkPcs, lockVars, hostVars, startVars
<1> HIDE DEF InductiveInvariant, TypeOK,
          Held, IsQueued, IsSent
<1> QED
  BY <1>1, <1>2, <1>3, <1>4, <1>5, <1>6, <1>7, <1>8, <1>9, <1>10, <1>11, <1>12
  DEF Next, vars, Finished, StartStop, ClientStep, RubyNext, lockVars, workVars,
     hostVars, startVars, rubyVars, SpuriousWake, Boot, Announce, AnnounceUnlock, Loop,
     PopUnlock, Execute, Reply, Exit

(* m_syncLock changes hands only between lock and unlock.                  *)
LEMMA SyncLockOwnerStep ==
  ASSUME InductiveInvariant, [Next]_vars
  PROVE  SyncLockOwner'
<1> USE ConstantsAssumption DEF InductiveInvariant, TypeOK,
          At, Goto, RubyStep, CanLock, Unlocked, lockVars, workVars, hostVars, startVars, rubyVars,
          Works, Fresh, Held, Current, SyncLockOwner, RunWorkPcs
<1>1. CASE UNCHANGED <<syncLock, work, pc, rubyPc, cur>> BY <1>1
<1>2. CASE StartStop BY <1>2, StartStopKeeps
<1>3. ASSUME NEW c \in Clients, NEW w \in Works, BeginWork(c, w) PROVE SyncLockOwner'
  BY <1>3 DEF BeginWork
<1>4. ASSUME NEW c \in Clients, Submit(c) PROVE SyncLockOwner' BY <1>4 DEF Submit
<1>5. ASSUME NEW c \in Clients, Attach(c) PROVE SyncLockOwner' BY <1>5 DEF Attach
<1>6. ASSUME NEW c \in Clients, Unlock(c) PROVE SyncLockOwner' BY <1>6 DEF Unlock
<1>7. ASSUME NEW c \in Clients, Sleep(c) PROVE SyncLockOwner' BY <1>7 DEF Sleep
<1>8. ASSUME NEW c \in Clients, Wake(c) PROVE SyncLockOwner' BY <1>8 DEF Wake
<1>9. ASSUME NEW c \in Clients, Return(c) PROVE SyncLockOwner' BY <1>9 DEF Return
<1>10. CASE Boot BY <1>10 DEF Boot
<1>11. CASE Announce BY <1>11 DEF Announce
<1>12. CASE AnnounceUnlock BY <1>12 DEF AnnounceUnlock
<1>13. CASE Loop BY <1>13 DEF Loop
<1>14. CASE Pop BY <1>14 DEF Pop
<1>15. CASE PopUnlock BY <1>15 DEF PopUnlock
<1>16. CASE Execute BY <1>16 DEF Execute
<1>17. CASE Reply BY <1>17 DEF Reply
<1>18. CASE ReplyUnlock BY <1>18 DEF ReplyUnlock
<1>19. CASE Delete BY <1>19 DEF Delete
<1>20. CASE Exit BY <1>20 DEF Exit
<1> HIDE DEF InductiveInvariant, TypeOK,
          Works, Fresh, Held, Current, SyncLockOwner, RunWorkPcs
<1> QED
  BY <1>1, <1>2, <1>3, <1>4, <1>5, <1>6, <1>7, <1>8, <1>9, <1>10, <1>11, <1>12,
     <1>13, <1>14, <1>15, <1>16, <1>17, <1>18, <1>19, <1>20
  DEF Next, vars, Finished, StartStop, ClientStep, RubyNext, lockVars, workVars,
     hostVars, startVars, rubyVars, SpuriousWake

LEMMA QueuedPop ==
  ASSUME InductiveInvariant, Pop
  PROVE  Queued'
<1> USE ConstantsAssumption DEF InductiveInvariant, TypeOK,
          Works, Fresh, Held, Current, Queued, Answered, SyncLockOwner, IsQueued
<1>1. UNCHANGED <<mem, done, pc, work>>
  BY DEF Pop, workVars, hostVars, startVars
<1>2. CASE UNCHANGED queue BY <1>1, <1>2
<1>3. CASE ~UNCHANGED queue BY <1>1, <1>3, PopEffect DEF InductiveInvariant, TypeOK, Queued
<1> QED
  BY <1>2, <1>3

(* A queued Work is waited for until it leaves the queue.                  *)
LEMMA QueuedStep ==
  ASSUME InductiveInvariant, [Next]_vars
  PROVE  Queued'
<1> USE ConstantsAssumption DEF InductiveInvariant, TypeOK,
          At, Goto, RubyStep, CanLock, Unlocked, lockVars, workVars, hostVars, startVars, rubyVars,
          Works, Fresh, Held, Current, Queued, Answered, SyncLockOwner, IsQueued
<1>1. CASE UNCHANGED <<queue, mem, done, work, pc>> BY <1>1
<1>2. CASE StartStop BY <1>2, StartStopKeeps
<1>3. ASSUME NEW c \in Clients, NEW w \in Works, BeginWork(c, w) PROVE Queued'
  BY <1>3, SMTT(40) DEF BeginWork
<1>4. ASSUME NEW c \in Clients, Submit(c) PROVE Queued' BY <1>4 DEF Submit
<1>5. ASSUME NEW c \in Clients, Attach(c) PROVE Queued' BY <1>5 DEF Attach
<1>6. ASSUME NEW c \in Clients, Unlock(c) PROVE Queued' BY <1>6 DEF Unlock
<1>7. ASSUME NEW c \in Clients, Sleep(c) PROVE Queued' BY <1>7 DEF Sleep
<1>8. ASSUME NEW c \in Clients, Wake(c) PROVE Queued' BY <1>8 DEF Wake
<1>9. ASSUME NEW c \in Clients, Return(c) PROVE Queued' BY <1>9 DEF Return
<1>10. CASE Pop BY <1>10, QueuedPop
<1>11. CASE Reply BY <1>11 DEF Reply
<1>12. CASE Delete BY <1>12 DEF Delete
<1> HIDE DEF InductiveInvariant, TypeOK,
          Works, Fresh, Held, Current, Queued, Answered, SyncLockOwner, IsQueued
<1> QED
  BY <1>1, <1>2, <1>3, <1>4, <1>5, <1>6, <1>7, <1>8, <1>9, <1>10, <1>11, <1>12
  DEF Next, vars, Finished, StartStop, ClientStep, RubyNext, lockVars, workVars,
     hostVars, startVars, rubyVars, SpuriousWake, Boot, Announce, AnnounceUnlock, Loop,
     PopUnlock, Execute, ReplyUnlock, Exit

LEMMA CurrentPop ==
  ASSUME InductiveInvariant, Pop
  PROVE  Current'
<1> USE ConstantsAssumption DEF InductiveInvariant, TypeOK,
          Works, Fresh, Held, Queued, Answered, SyncLockOwner, Current, IsQueued
<1>1. UNCHANGED <<mem, done, pc, work>> /\ rubyPc = "pop" /\ rubyPc' = "popped"
  BY DEF Pop, RubyStep, workVars, hostVars, startVars
<1>2. cur = Null
  BY <1>1
<1>3. \A c \in Clients : pc[c] \notin {"attach", "unlock"}
  BY <1>1 DEF Pop, CanLock, RubyLockOwner, QueuePcs
<1>4. CASE UNCHANGED <<queue, cur>> BY <1>1, <1>2, <1>4
<1>5. CASE ~UNCHANGED <<queue, cur>>
  <2>1. ~IsQueued(cur)'
    BY <1>5, PopEffect
  <2> QED
    BY <1>1, <1>3, <1>5, <2>1, PopEffect
<1> QED
  BY <1>4, <1>5

(* The Work of the interpreter thread is waited for until it is answered.  *)
LEMMA CurrentStep ==
  ASSUME InductiveInvariant, [Next]_vars
  PROVE  Current'
<1> USE ConstantsAssumption DEF InductiveInvariant, TypeOK,
          At, Goto, RubyStep, CanLock, Unlocked, lockVars, workVars, hostVars, startVars, rubyVars,
          Works, Fresh, Held, Queued, Answered, SyncLockOwner, Current, IsQueued
<1>1. CASE UNCHANGED <<queue, mem, done, work, pc, cur, rubyPc>> BY <1>1
<1>2. CASE StartStop BY <1>2, StartStopKeeps
<1>3. ASSUME NEW c \in Clients, NEW w \in Works, BeginWork(c, w) PROVE Current'
  BY <1>3 DEF BeginWork
<1>4. ASSUME NEW c \in Clients, Submit(c) PROVE Current' BY <1>4 DEF Submit
<1>5. ASSUME NEW c \in Clients, Attach(c) PROVE Current' BY <1>5 DEF Attach
<1>6. ASSUME NEW c \in Clients, Unlock(c) PROVE Current' BY <1>6 DEF Unlock
<1>7. ASSUME NEW c \in Clients, Sleep(c) PROVE Current' BY <1>7 DEF Sleep
<1>8. ASSUME NEW c \in Clients, Wake(c) PROVE Current' BY <1>8 DEF Wake
<1>9. ASSUME NEW c \in Clients, Return(c) PROVE Current' BY <1>9 DEF Return
<1>10. CASE Boot BY <1>10 DEF Boot
<1>11. CASE Announce BY <1>11 DEF Announce
<1>12. CASE AnnounceUnlock BY <1>12 DEF AnnounceUnlock
<1>13. CASE Loop BY <1>13 DEF Loop
<1>14. CASE Pop BY <1>14, CurrentPop
<1>15. CASE PopUnlock BY <1>15 DEF PopUnlock
<1>16. CASE Execute BY <1>16 DEF Execute
<1>17. CASE Reply BY <1>17 DEF Reply
<1>18. CASE ReplyUnlock BY <1>18 DEF ReplyUnlock
<1>19. CASE Delete BY <1>19 DEF Delete
<1>20. CASE Exit BY <1>20 DEF Exit
<1> HIDE DEF InductiveInvariant, TypeOK,
          Works, Fresh, Held, Queued, Answered, SyncLockOwner, Current, IsQueued
<1> QED
  BY <1>1, <1>2, <1>3, <1>4, <1>5, <1>6, <1>7, <1>8, <1>9, <1>10, <1>11, <1>12,
     <1>13, <1>14, <1>15, <1>16, <1>17, <1>18, <1>19, <1>20
  DEF Next, vars, Finished, StartStop, ClientStep, RubyNext, lockVars, workVars,
     hostVars, startVars, rubyVars, SpuriousWake

LEMMA AnsweredExecute ==
  ASSUME InductiveInvariant, Execute
  PROVE  Answered'
<1> USE ConstantsAssumption DEF InductiveInvariant, TypeOK,
          Works, Fresh, Held, SyncLockOwner, Current, Answered, HasRun, Signalled,
             SyncCondSleepers
<1>1. UNCHANGED <<done, pc, work, woken, cur>>
  BY DEF Execute, workVars, hostVars, startVars
<1>2. \A w \in Works : HasRun(w) => HasRun(w)'
  BY ExecuteEffect
<1>3. HasRun(cur)'
  BY <1>1, ExecuteEffect
<1> QED
  BY <1>1, <1>2, <1>3

(* m_done is set after the run, and wakes the owner if it sleeps.           *)
LEMMA AnsweredStep ==
  ASSUME InductiveInvariant, [Next]_vars
  PROVE  Answered'
<1> USE ConstantsAssumption DEF InductiveInvariant, TypeOK,
          At, Goto, RubyStep, CanLock, Unlocked, lockVars, workVars, hostVars, startVars, rubyVars,
          Works, Fresh, Held, SyncLockOwner, Current, Answered, HasRun, Signalled,
             SyncCondSleepers
<1>1. CASE UNCHANGED <<done, work, pc, woken, cur, rubyPc, ran>> BY <1>1
<1>2. CASE StartStop BY <1>2, StartStopKeeps
<1>3. ASSUME NEW c \in Clients, NEW w \in Works, BeginWork(c, w) PROVE Answered'
  BY <1>3 DEF BeginWork
<1>4. ASSUME NEW c \in Clients, Submit(c) PROVE Answered' BY <1>4 DEF Submit
<1>5. ASSUME NEW c \in Clients, Attach(c) PROVE Answered' BY <1>5 DEF Attach
<1>6. ASSUME NEW c \in Clients, Unlock(c) PROVE Answered' BY <1>6 DEF Unlock
<1>7. ASSUME NEW c \in Clients, Sleep(c) PROVE Answered' BY <1>7 DEF Sleep
<1>8. ASSUME NEW c \in Clients, Wake(c) PROVE Answered' BY <1>8 DEF Wake
<1>9. ASSUME NEW c \in Clients, Return(c) PROVE Answered' BY <1>9 DEF Return
<1>10. ASSUME NEW c \in Clients, SpuriousWake(c) PROVE Answered' BY <1>10 DEF SpuriousWake
<1>11. CASE Boot BY <1>11 DEF Boot
<1>12. CASE Announce BY <1>12 DEF Announce
<1>13. CASE AnnounceUnlock BY <1>13 DEF AnnounceUnlock
<1>14. CASE Loop BY <1>14 DEF Loop
<1>15. CASE Pop BY <1>15 DEF Pop
<1>16. CASE PopUnlock BY <1>16 DEF PopUnlock
<1>17. CASE Execute BY <1>17, AnsweredExecute
<1>18. CASE Reply BY <1>18 DEF Reply
<1>19. CASE ReplyUnlock BY <1>19 DEF ReplyUnlock
<1>20. CASE Delete BY <1>20 DEF Delete
<1>21. CASE Exit BY <1>21 DEF Exit
<1> HIDE DEF InductiveInvariant, TypeOK,
          Works, Fresh, Held, SyncLockOwner, Current, Answered, HasRun, Signalled,
             SyncCondSleepers
<1> QED
  BY <1>1, <1>2, <1>3, <1>4, <1>5, <1>6, <1>7, <1>8, <1>9, <1>10, <1>11, <1>12,
     <1>13, <1>14, <1>15, <1>16, <1>17, <1>18, <1>19, <1>20, <1>21
  DEF Next, vars, Finished, StartStop, ClientStep, RubyNext, lockVars, workVars,
     hostVars, startVars, rubyVars

(* The queue forgets no work but the one that Pop hands to the thread.     *)
LEMMA RememberedSubmit ==
  ASSUME InductiveInvariant, NEW c \in Clients, Submit(c)
  PROVE  Remembered'
<1> USE ConstantsAssumption DEF InductiveInvariant, TypeOK, At, Goto, workVars, rubyVars
<1>1. UNCHANGED <<cur, done, work>> /\ \A d \in Clients : d # c => pc'[d] = pc[d]
  BY DEF Submit
<1>2. IsQueued(work[c])'
  BY <1>1, SubmitEffect DEF IsQueued
<1>3. \A w : IsQueued(w) => IsQueued(w)'
  BY SubmitEffect DEF IsQueued
<1> QED
  BY <1>1, <1>2, <1>3 DEF Remembered

LEMMA RememberedPop ==
  ASSUME InductiveInvariant, Pop
  PROVE  Remembered'
<1> USE DEF InductiveInvariant
<1>1. UNCHANGED <<pc, work, done>> /\ cur = Null
  BY DEF Pop, RubyStep, workVars, hostVars, Current
<1>2. ASSUME NEW w, IsQueued(w) PROVE IsQueued(w)' \/ cur' = w
  <2>1. CASE UNCHANGED <<queue, cur>>
    BY <1>2, <2>1 DEF IsQueued
  <2>2. CASE ~UNCHANGED <<queue, cur>>
    <3>1. PICK i \in DOMAIN queue : queue[i] = w
      BY <1>2 DEF IsQueued
    <3>2. i = 1 \/ i - 1 \in DOMAIN queue'
      BY <2>2, PopEffect DEF TypeOK
    <3>3. i - 1 \in DOMAIN queue' => queue'[i - 1] = w
      BY <2>2, <3>1, PopEffect DEF TypeOK
    <3> QED
      BY <2>2, <3>1, <3>2, <3>3, PopEffect DEF IsQueued
  <2> QED
    BY <2>1, <2>2
<1>3. \A c \in Clients : pc[c] \in {"attach", "unlock", "sleep", "wait"} => work[c] # Null
  BY DEF TypeOK, RunWorkPcs
<1> QED
  BY <1>1, <1>2, <1>3 DEF Remembered

(* The thread gives up a stack work only when it has answered it.          *)
LEMMA RememberedStep ==
  ASSUME InductiveInvariant, [Next]_vars
  PROVE  Remembered'
<1> USE ConstantsAssumption DEF InductiveInvariant, TypeOK,
          At, Goto, RubyStep, lockVars, workVars, hostVars, startVars, rubyVars,
          Current, Remembered, IsQueued
<1>1. CASE UNCHANGED <<done, work, pc, queue, cur>> BY <1>1
<1>2. CASE StartStop BY <1>2, StartStopKeeps
<1>3. ASSUME NEW c \in Clients, NEW w \in Works, BeginWork(c, w) PROVE Remembered'
  BY <1>3 DEF BeginWork
<1>4. ASSUME NEW c \in Clients, Submit(c) PROVE Remembered' BY <1>4, RememberedSubmit
<1>5. ASSUME NEW c \in Clients, Attach(c) PROVE Remembered' BY <1>5 DEF Attach
<1>6. ASSUME NEW c \in Clients, Unlock(c) PROVE Remembered' BY <1>6 DEF Unlock
<1>7. ASSUME NEW c \in Clients, Sleep(c) PROVE Remembered' BY <1>7 DEF Sleep
<1>8. ASSUME NEW c \in Clients, Wake(c) PROVE Remembered' BY <1>8 DEF Wake
<1>9. ASSUME NEW c \in Clients, Return(c) PROVE Remembered' BY <1>9 DEF Return
<1>10. CASE Pop BY <1>10, RememberedPop
<1>11. CASE Reply BY <1>11 DEF Reply
<1>12. CASE ReplyUnlock BY <1>12 DEF ReplyUnlock
<1>13. CASE Delete BY <1>13 DEF Delete
<1> HIDE DEF InductiveInvariant, TypeOK, Current, Remembered, IsQueued
<1> QED
  BY <1>1, <1>2, <1>3, <1>4, <1>5, <1>6, <1>7, <1>8, <1>9, <1>10, <1>11, <1>12, <1>13
  DEF Next, vars, Finished, StartStop, ClientStep, RubyNext, SpuriousWake, Boot, Announce,
      AnnounceUnlock, Loop, PopUnlock, Execute, Exit

LEMMA HistorySubmit ==
  ASSUME InductiveInvariant, NEW c \in Clients, Submit(c)
  PROVE  History'
<1>1. UNCHANGED <<ran, rubyPc, cur>> /\ Len(ran) \in Nat BY DEF Submit, rubyVars, InductiveInvariant, TypeOK
<1>2. Popped' = Popped /\ Popped \in {0, 1} BY <1>1 DEF Popped
<1>3. Len(sent)' = Len(ran)' + Popped' + Len(queue)'
  BY <1>1, <1>2, SubmitEffect DEF InductiveInvariant, History
<1>4. Popped' = 1 => sent'[Len(ran)' + 1] = cur'
  BY <1>1, <1>2, SubmitEffect DEF InductiveInvariant, History
<1>5. ASSUME NEW i \in 1 .. Len(queue)' PROVE queue'[i] = sent'[Len(ran)' + Popped' + i]
  <2>1. CASE i = Len(queue) + 1
     BY <1>1, <1>2, <2>1, SubmitEffect DEF InductiveInvariant, History
  <2>2. CASE i # Len(queue) + 1
     <3>1. i \in 1 .. Len(queue) BY <2>2, SubmitEffect DEF InductiveInvariant
     <3>2. Len(ran) + Popped + i \in 1 .. Len(sent) 
        BY <1>1, <1>2, <3>1, SubmitEffect DEF InductiveInvariant, History
     <3>3. queue'[i] = queue[i] /\ sent'[Len(ran) + Popped + i] = sent[Len(ran) + Popped + i]
        BY <3>1, <3>2, SubmitEffect DEF InductiveInvariant
     <3> QED BY <1>1, <1>2, <3>1, <3>3 DEF InductiveInvariant, History
  <2> QED BY <2>1, <2>2
<1> QED BY <1>3, <1>4, <1>5 DEF History

LEMMA HistoryPop ==
  ASSUME InductiveInvariant, Pop
  PROVE  History'
<1>1. UNCHANGED <<sent, ran>> /\ Popped = 0 /\ Len(ran) \in Nat /\ rubyPc' = "popped"
  BY DEF Pop, RubyStep, rubyVars, InductiveInvariant, TypeOK, Current, Popped
<1>2. CASE UNCHANGED <<queue, cur>>
  <2>1. cur' = Null BY <1>2 DEF Pop, RubyStep, InductiveInvariant, Current
  <2> QED BY <1>1, <1>2, <2>1 DEF InductiveInvariant, History, Popped
<1>3. CASE ~UNCHANGED <<queue, cur>>
  <2>1. cur' \in Works BY <1>3, PopEffect DEF InductiveInvariant
  <2>2. cur' # Null BY <2>1, ConstantsAssumption
  <2>3. Popped' = 1 BY <1>1, <2>2 DEF Popped
  <2>4. \A i \in 1 .. Len(queue) : queue[i] = sent[Len(ran) + i] BY <1>1 DEF InductiveInvariant, History
  <2>5. Len(sent) = Len(ran) + Len(queue) BY <1>1, PopEffect, <1>3 DEF InductiveInvariant, History
  <2>6. cur' = sent[Len(ran) + 1] BY <1>3, <2>4, PopEffect DEF InductiveInvariant
  <2>7. Len(sent) = Len(ran) + 1 + Len(queue')
    <3>1. Len(queue) \in Nat /\ Len(queue') = Len(queue) - 1
      BY <1>3, PopEffect DEF InductiveInvariant
    <3> QED BY <1>1, <2>5, <3>1
  <2>8. ASSUME NEW i \in 1 .. Len(queue') PROVE queue'[i] = sent[Len(ran) + 1 + i] 
    <3>1. i \in Nat /\ queue'[i] = queue[i + 1] /\ i + 1 \in 1 .. Len(queue)
      BY <1>3, PopEffect DEF InductiveInvariant
    <3>2. Len(ran) + (i + 1) = Len(ran) + 1 + i BY <1>1, <3>1
    <3> QED BY <2>4, <3>1, <3>2
  <2> QED BY <1>1, <2>3, <2>6, <2>7, <2>8 DEF History
<1> QED BY <1>2, <1>3

(* A Work moves from sent to the queue to the thread to ran, in order.      *)
LEMMA HistoryStep ==
  ASSUME InductiveInvariant, [Next]_vars
  PROVE  History'
<1> USE ConstantsAssumption DEF InductiveInvariant, TypeOK,
          At, Goto, RubyStep, CanLock, Unlocked, lockVars, workVars, hostVars, startVars, rubyVars,
          Works, Current, History, Popped
<1>1. CASE UNCHANGED <<sent, ran, queue, cur, rubyPc>> BY <1>1
<1>2. CASE StartStop BY <1>2, StartStopKeeps
<1>3. ASSUME NEW c \in Clients, NEW w \in Works, BeginWork(c, w) PROVE History'
  BY <1>3 DEF BeginWork
<1>4. ASSUME NEW c \in Clients, Submit(c) PROVE History' BY <1>4, HistorySubmit
<1>5. ASSUME NEW c \in Clients, Attach(c) PROVE History' BY <1>5 DEF Attach
<1>6. ASSUME NEW c \in Clients, Unlock(c) PROVE History' BY <1>6 DEF Unlock
<1>7. ASSUME NEW c \in Clients, Sleep(c) PROVE History' BY <1>7 DEF Sleep
<1>8. ASSUME NEW c \in Clients, Wake(c) PROVE History' BY <1>8 DEF Wake
<1>9. ASSUME NEW c \in Clients, Return(c) PROVE History' BY <1>9 DEF Return
<1>10. ASSUME NEW c \in Clients, SpuriousWake(c) PROVE History' BY <1>10 DEF SpuriousWake
<1>11. CASE Boot BY <1>11 DEF Boot
<1>12. CASE Announce BY <1>12 DEF Announce
<1>13. CASE AnnounceUnlock BY <1>13 DEF AnnounceUnlock
<1>14. CASE Loop BY <1>14 DEF Loop
<1>15. CASE Pop BY <1>15, HistoryPop
<1>16. CASE PopUnlock BY <1>16 DEF PopUnlock
<1>17. CASE Execute BY <1>17 DEF Execute
<1>18. CASE Reply BY <1>18 DEF Reply
<1>19. CASE ReplyUnlock BY <1>19 DEF ReplyUnlock
<1>20. CASE Delete BY <1>20 DEF Delete
<1>21. CASE Exit BY <1>21 DEF Exit
<1> HIDE DEF InductiveInvariant, TypeOK,
          Works, Current, History, Popped
<1> QED
  BY <1>1, <1>2, <1>3, <1>4, <1>5, <1>6, <1>7, <1>8, <1>9, <1>10, <1>11, <1>12,
     <1>13, <1>14, <1>15, <1>16, <1>17, <1>18, <1>19, <1>20, <1>21
  DEF Next, vars, Finished, StartStop, ClientStep, RubyNext, lockVars, workVars,
     hostVars, startVars, rubyVars

-----------------------------------------------------------------------------
(* The invariant holds of every behaviour.                                 *)

LEMMA InductiveInit == Init => InductiveInvariant
<1> SUFFICES ASSUME Init PROVE InductiveInvariant
  OBVIOUS
<1> USE ConstantsAssumption DEF Init, InitializePcs, ShutdownPcs, RunWorkPcs, Works
<1>1. HostPhases BY DEF HostPhases
<1>2. ThreadPhases BY DEF ThreadPhases, LoopPcs
<1>3. RubyLockOwner BY DEF RubyLockOwner, QueuePcs
<1>4. Fresh BY DEF Fresh, IsQueued, IsSent
<1>5. Held BY DEF Held
<1>6. SyncLockOwner BY DEF SyncLockOwner
<1>7. Queued BY DEF Queued
<1>8. Current BY DEF Current
<1>9. Answered BY DEF Answered, HasRun
<1>10. Remembered BY DEF Remembered
<1>11. History BY DEF History, Popped
<1> QED
  BY TypeInit, <1>1, <1>2, <1>3, <1>4, <1>5, <1>6, <1>7, <1>8, <1>9, <1>10, <1>11
  DEF InductiveInvariant

(* The invariant that carries every other theorem: the critical sections   *)
(* of RubyInterpreter.cpp keep host threads, interpreter thread, mutexes,  *)
(* queue and works in step.                                                *)
THEOREM InvariantHolds == Spec => []InductiveInvariant
<1>1. Init => InductiveInvariant
  BY InductiveInit
<1>2. InductiveInvariant /\ [Next]_vars => InductiveInvariant'
  <2> SUFFICES ASSUME InductiveInvariant, [Next]_vars PROVE InductiveInvariant'
    OBVIOUS
  <2>1. TypeOK'
    BY TypeStep DEF InductiveInvariant
  <2> QED
    BY <2>1, HostPhasesStep, ThreadPhasesStep, RubyLockOwnerStep, FreshStep, HeldStep,
       SyncLockOwnerStep, QueuedStep, CurrentStep, AnsweredStep,
       RememberedStep, HistoryStep
    DEF InductiveInvariant
<1> QED
  BY <1>1, <1>2, PTL DEF Spec

(* The variables have their types, and rubyThreadFunc works on no null     *)
(* pointer.                                                                *)
THEOREM TypeCorrect == Spec => []TypeOK
<1>1. InductiveInvariant => TypeOK
  BY DEF InductiveInvariant
<1> QED
  BY <1>1, InvariantHolds, PTL

(* s_workQueue and rubyThreadFunc hold no pointer to a Work that is gone.   *)
THEOREM NoDanglingWork == Spec => []WorkIsLive
<1>1. InductiveInvariant => WorkIsLive
  BY DEF InductiveInvariant, WorkIsLive, Queued, Current
<1> QED
  BY <1>1, InvariantHolds, PTL

(* The test of m_syncLock in rubyThreadFunc tells a Work on a caller's     *)
(* stack from one on the heap.                                             *)
THEOREM DeletesWhatItOwns == Spec => []DeletesOnlyHeapWork
<1>1. InductiveInvariant => DeletesOnlyHeapWork
  BY ConstantsAssumption DEF InductiveInvariant, DeletesOnlyHeapWork, Current, TypeOK
<1> QED
  BY <1>1, InvariantHolds, PTL

(* No caller of runWorkSync sleeps on after its answer.                    *)
THEOREM WakeupNotLost == Spec => []NoLostWakeup
<1>1. InductiveInvariant => NoLostWakeup
  BY DEF InductiveInvariant, NoLostWakeup, Answered
<1> QED
  BY <1>1, InvariantHolds, PTL

(* initialize returns after the boot, if there is one.                     *)
THEOREM BootBeforeReturn == Spec => []InitializeWaitsForBoot
<1>1. InductiveInvariant => InitializeWaitsForBoot
  BY DEF InductiveInvariant, InitializeWaitsForBoot, ThreadPhases, InitializePcs
<1> QED
  BY <1>1, InvariantHolds, PTL

(* While the interpreter thread lives, s_workQueue has one user at a time. *)
THEOREM QueueMutualExclusion == Spec => []QueueIsExclusive
<1>1. InductiveInvariant => QueueIsExclusive
  BY ConstantsAssumption DEF InductiveInvariant, QueueIsExclusive, InQueueSection, RubyLockOwner
<1> QED
  BY <1>1, InvariantHolds, PTL

(* No handle of a running thread is overwritten, and none is joined twice. *)
THEOREM HandleIsJoinedOnce == Spec => []ThreadIsJoinedOnce
<1>1. InductiveInvariant => ThreadIsJoinedOnce
  BY DEF InductiveInvariant, ThreadIsJoinedOnce, ThreadPhases, LoopPcs
<1> QED
  BY <1>1, InvariantHolds, PTL

(* When shutdown has returned, the interpreter thread runs no more.        *)
THEOREM ThreadIsJoined == Spec => []QuietAfterShutdown
<1>1. InductiveInvariant => QuietAfterShutdown
  BY DEF InductiveInvariant, QuietAfterShutdown, ThreadPhases
<1> QED
  BY <1>1, InvariantHolds, PTL

(* A call of runWorkSync that waits has its work in the queue or in the    *)
(* thread's hands, and a thread that serves it unless the host shuts down. *)
THEOREM CallsAreNotStranded == Spec => []NoCallIsStranded
<1>1. InductiveInvariant => NoCallIsStranded
  <2> SUFFICES ASSUME InductiveInvariant, NEW c \in Clients,
                      pc[c] \in {"attach", "unlock", "sleep", "wait"},
                      work[c] \in StackWorks, ~done[work[c]]
               PROVE  /\ cur = work[c] \/ \E i \in DOMAIN queue : queue[i] = work[c]
                      /\ open /\ thread = "joinable" => running /\ rubyPc \in LoopPcs
    BY DEF NoCallIsStranded
  <2>1. cur = work[c] \/ \E i \in DOMAIN queue : queue[i] = work[c]
    BY DEF InductiveInvariant, Remembered, IsQueued
  <2>2. open /\ thread = "joinable" => running
    BY DEF InductiveInvariant, HostPhases, ThreadPhases, InitializePcs, ShutdownPcs
  <2>3. running => rubyPc \in LoopPcs
    BY DEF InductiveInvariant, ThreadPhases
  <2> QED
    BY <2>1, <2>2, <2>3
<1> QED
  BY <1>1, InvariantHolds, PTL

-----------------------------------------------------------------------------
(* The interpreter implements WorkQueue: runWorkSync and runWorkASync send, *)
(* rubyThreadFunc serves.                                                  *)

LEMMA StepRefines ==
  ASSUME InductiveInvariant, [Next]_vars
  PROVE  [WQ!Next]_(WQ!vars)
<1> USE DEF lockVars, workVars, hostVars, startVars, rubyVars, WQ!Next, WQ!vars, WQ!Elements
<1>1. CASE UNCHANGED <<work, sent, ran>> BY <1>1
<1>2. ASSUME NEW c \in Clients, NEW w \in Works, BeginWork(c, w) PROVE WQ!Next
  <2>1. work[c] = Null
    BY <1>2 DEF BeginWork, At, InductiveInvariant, TypeOK, RunWorkPcs
  <2>2. ~IsSent(w) /\ \A d \in Clients : work[d] # w
    BY <1>2 DEF BeginWork, InductiveInvariant, Fresh
  <2>3. WQ!Call(c, w)
    BY <1>2, <2>1, <2>2 DEF BeginWork, IsSent, WQ!Call
  <2> QED
    BY <2>3 DEF Works
<1>3. ASSUME NEW c \in Clients, Submit(c) PROVE WQ!Next
  <2>1. work[c] # Null /\ ~IsSent(work[c])
    BY <1>3 DEF Submit, At, InductiveInvariant, TypeOK, Held, RunWorkPcs
  <2>2. WQ!Send(c)
    BY <1>3, <2>1 DEF Submit, IsSent, WQ!Send
  <2> QED
    BY <2>2
<1>4. ASSUME NEW c \in Clients, Unlock(c) PROVE WQ!Next \/ UNCHANGED WQ!vars
  <2>1. CASE work[c] \in StackWorks
    BY <1>4, <2>1 DEF Unlock
  <2>2. CASE work[c] \notin StackWorks
    <3>1. IsSent(work[c])
      BY <1>4 DEF Unlock, At, InductiveInvariant, Held
    <3>2. WQ!Return(c)
      BY <1>4, <2>2, <3>1 DEF Unlock, IsSent, WQ!Return
    <3> QED
      BY <3>2
  <2> QED
    BY <2>1, <2>2
<1>5. ASSUME NEW c \in Clients, Return(c) PROVE WQ!Next
  <2>1. work[c] \in StackWorks /\ work[c] \in Works /\ done[work[c]]
    BY <1>5 DEF Return, At, InductiveInvariant, Held, Answered, Works
  <2>2. HasRun(work[c])
    BY <2>1 DEF InductiveInvariant, Answered
  <2>3. WQ!Return(c)
    BY <1>5, <2>1, <2>2 DEF Return, HasRun, WQ!Return
  <2> QED
    BY <2>3
<1>6. CASE Execute
  <2>1. cur # Null /\ Popped = 1
    BY <1>6 DEF Execute, RubyStep, InductiveInvariant, TypeOK, Popped
  <2>2. Len(ran) < Len(sent) /\ sent[Len(ran) + 1] = cur
    BY <2>1 DEF InductiveInvariant, TypeOK, History
  <2>3. WQ!Serve
    BY <1>6, <2>2 DEF Execute, WQ!Serve
  <2> QED
    BY <2>3
<1>7. CASE StartStop BY <1>7, StartStopFrame
<1> QED
  BY <1>1, <1>2, <1>3, <1>4, <1>5, <1>6, <1>7
  DEF Next, vars, Finished, StartStop, ClientStep, RubyNext, Attach, Sleep, Wake,
      SpuriousWake, Boot, Announce, AnnounceUnlock, Loop, Pop, PopUnlock, Reply,
      ReplyUnlock, Delete, Exit

(* Every behaviour of the threads and their locks is one of the abstract   *)
(* queue: works are served one at a time, in the order sent, once, and a   *)
(* synchronous call returns only after its work was served.                *)
THEOREM Refinement == Spec => ImplementsWorkQueue
<1>1. Init => WQ!Init
  BY DEF Init, WQ!Init
<1>2. InductiveInvariant /\ [Next]_vars => [WQ!Next]_(WQ!vars)
  BY StepRefines
<1> QED
  BY <1>1, <1>2, InvariantHolds, PTL DEF Spec, ImplementsWorkQueue, WQ!Spec

(* What the order of the queue is worth: a Work runs at most once, and     *)
(* after all that was sent before it.                                      *)
ServedInOrder ==
  /\ Len(ran) <= Len(sent)
  /\ \A i \in 1 .. Len(ran) : ran[i] = sent[i]
  /\ \A i, j \in 1 .. Len(sent) : sent[i] = sent[j] => i = j

(* The steps of the abstract queue keep that order.                        *)
LEMMA QueueKeepsOrder ==
  ASSUME sent \in Seq(Works), ran \in Seq(Works), ServedInOrder, [WQ!Next]_(WQ!vars),
         work \in [Clients -> Works \union {Null}]
  PROVE  ServedInOrder'
<1>1. CASE UNCHANGED <<sent, ran>>
  BY <1>1 DEF ServedInOrder
<1>2. ASSUME NEW c \in Clients, WQ!Send(c)
      PROVE  ServedInOrder'
  <2>1. /\ work[c] \in Works /\ sent' = Append(sent, work[c]) /\ ran' = ran
        /\ \A i \in 1 .. Len(sent) : sent[i] # work[c]
    BY <1>2 DEF WQ!Send, WQ!Elements
  <2>2. /\ Len(sent') = Len(sent) + 1 /\ sent'[Len(sent) + 1] = work[c]
        /\ \A i \in 1 .. Len(sent) : sent'[i] = sent[i]
    BY <2>1
  <2> QED
    BY <2>1, <2>2 DEF ServedInOrder
<1>3. CASE WQ!Serve
  <2>1. /\ Len(ran) < Len(sent) /\ sent' = sent
        /\ ran' = Append(ran, sent[Len(ran) + 1])
    BY <1>3 DEF WQ!Serve
  <2>2. /\ Len(ran') = Len(ran) + 1 /\ ran'[Len(ran) + 1] = sent[Len(ran) + 1]
        /\ \A i \in 1 .. Len(ran) : ran'[i] = ran[i]
    BY <2>1
  <2> QED
    BY <2>1, <2>2 DEF ServedInOrder
<1> QED
  BY <1>1, <1>2, <1>3 DEF WQ!Next, WQ!vars, WQ!Call, WQ!Return

(* s_workQueue is first in, first out, and rubyThreadFunc runs no Work     *)
(* twice, over any number of starts, calls and threads.                    *)
THEOREM WorksRunInOrder == Spec => []ServedInOrder
<1>1. Init => ServedInOrder
  BY DEF Init, ServedInOrder
<1>2. InductiveInvariant /\ ServedInOrder /\ [Next]_vars => ServedInOrder'
  BY StepRefines, QueueKeepsOrder DEF InductiveInvariant, TypeOK
<1> QED
  BY <1>1, <1>2, InvariantHolds, PTL DEF Spec
=============================================================================
