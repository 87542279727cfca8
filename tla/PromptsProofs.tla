----------------------------- MODULE PromptsProofs -----------------------------
(***************************************************************************)
(* Proofs of the safety properties of Prompts, for any prompts, slots and  *)
(* host threads.                                                           *)
(***************************************************************************)
EXTENDS Prompts, TLAPS

USE PromptsAssumption DEF vars, rubyVars, rootVars, hostVars, Register, Erase

LEMMA InvariantInit == Init => InductiveInvariant
  BY DEF Init, InductiveInvariant, TypeOK, PromptPcs, OutstandingIsTracked,
         OutstandingIsRooted, Outstanding, LockOwner, Tracked, AnsweredOnce,
         AskedOnce, Recording

LEMMA TypeStep ==
  ASSUME InductiveInvariant, [Next]_vars
  PROVE  TypeOK'
<1> USE DEF InductiveInvariant, TypeOK, PromptPcs, RubyStep, HostStep
<1>1. CASE Prompt
  BY <1>1 DEF Prompt
<1>2. CASE PromptLock
  BY <1>2 DEF PromptLock
<1>3. CASE PromptAsk
  BY <1>3 DEF PromptAsk
<1>4. CASE PromptRecord
  BY <1>4 DEF PromptRecord
<1>5. CASE PromptUnlock
  BY <1>5 DEF PromptUnlock, Unlocked
<1>6. ASSUME NEW h \in HostThreads, NEW x \in PromptIds, AnswerPrompt(h, x)
      PROVE  TypeOK'
  BY <1>6 DEF AnswerPrompt
<1>7. ASSUME NEW h \in HostThreads, CallbackLock(h)
      PROVE  TypeOK'
  BY <1>7 DEF CallbackLock
<1>8. ASSUME NEW h \in HostThreads, CallbackErase(h)
      PROVE  TypeOK'
  BY <1>8 DEF CallbackErase
<1>9. ASSUME NEW h \in HostThreads, CallbackUnlock(h)
      PROVE  TypeOK'
  BY <1>9 DEF CallbackUnlock, Unlocked
<1>10. ASSUME NEW x \in PromptIds, Collect(x)
       PROVE  TypeOK'
  BY <1>10 DEF Collect
<1>11. CASE CollectorCrashes
  BY <1>11 DEF CollectorCrashes
<1>12. CASE UNCHANGED vars
  BY <1>12
<1> QED
  BY <1>1, <1>2, <1>3, <1>4, <1>5, <1>6, <1>7, <1>8, <1>9, <1>10, <1>11, <1>12
     DEF Next, PromptStep, CallbackStep

(* s_outstandingPrompts and the two sides of a prompt stay in step.        *)
LEMMA RunningStep ==
  ASSUME InductiveInvariant, [Next]_vars, TypeOK', rubyPc' # "crashed"
  PROVE  (LockOwner /\ Tracked /\ AnsweredOnce /\ AskedOnce)'
<1> USE DEF InductiveInvariant, TypeOK, PromptPcs, RubyStep, HostStep, LockOwner,
            Tracked, AnsweredOnce, AskedOnce, Recording
<1>1. CASE Prompt
  BY <1>1 DEF Prompt
<1>2. CASE PromptLock
  BY <1>2 DEF PromptLock, CanLock
<1>3. CASE PromptAsk
  BY <1>3 DEF PromptAsk
<1>4. CASE PromptRecord
  BY <1>4 DEF PromptRecord
<1>5. CASE PromptUnlock
  BY <1>5 DEF PromptUnlock, Unlocked
<1>6. ASSUME NEW h \in HostThreads, NEW x \in PromptIds, AnswerPrompt(h, x)
      PROVE  (LockOwner /\ Tracked /\ AnsweredOnce /\ AskedOnce)'
  BY <1>6 DEF AnswerPrompt
<1>7. ASSUME NEW h \in HostThreads, CallbackLock(h)
      PROVE  (LockOwner /\ Tracked /\ AnsweredOnce /\ AskedOnce)'
  BY <1>7 DEF CallbackLock, CanLock
<1>8. ASSUME NEW h \in HostThreads, CallbackErase(h)
      PROVE  (LockOwner /\ Tracked /\ AnsweredOnce /\ AskedOnce)'
  BY <1>8 DEF CallbackErase
<1>9. ASSUME NEW h \in HostThreads, CallbackUnlock(h)
      PROVE  (LockOwner /\ Tracked /\ AnsweredOnce /\ AskedOnce)'
  BY <1>9 DEF CallbackUnlock, Unlocked
<1>10. ASSUME NEW x \in PromptIds, Collect(x)
       PROVE  (LockOwner /\ Tracked /\ AnsweredOnce /\ AskedOnce)'
  BY <1>10 DEF Collect
<1>11. CASE CollectorCrashes
  BY <1>11 DEF CollectorCrashes
<1>12. CASE UNCHANGED vars
  BY <1>12
<1> HIDE DEF InductiveInvariant, TypeOK, LockOwner, Tracked, AnsweredOnce, AskedOnce
<1> QED
  BY <1>1, <1>2, <1>3, <1>4, <1>5, <1>6, <1>7, <1>8, <1>9, <1>10, <1>11, <1>12
     DEF Next, PromptStep, CallbackStep

(* When the lock is free, nobody is between the host's prompt() and the    *)
(* recording, or between the search and the erasure.                       *)
LEMMA TrackedWhenFree ==
  ASSUME TypeOK, LockOwner, Tracked
  PROVE  OutstandingIsTracked
BY DEF TypeOK, LockOwner, Tracked, OutstandingIsTracked, Outstanding, Recording

LEMMA TrackedStep ==
  ASSUME InductiveInvariant, [Next]_vars, TypeOK'
  PROVE  OutstandingIsTracked'
<1>1. CASE rubyPc' # "crashed"
  <2>1. (LockOwner /\ Tracked)'
    BY <1>1, RunningStep
  <2> QED
    BY <2>1, TrackedWhenFree, PTL
<1>2. CASE rubyPc' = "crashed"
  <2>1. UNCHANGED <<lock, rootVars, hostVars>>
    BY <1>2 DEF InductiveInvariant, TypeOK, PromptPcs, Next, PromptStep, CallbackStep,
                Prompt, PromptLock, PromptAsk, PromptRecord, PromptUnlock, AnswerPrompt,
                CallbackLock, CallbackErase, CallbackUnlock, Collect, CollectorCrashes,
                RubyStep, HostStep
  <2> QED
    BY <2>1 DEF InductiveInvariant, OutstandingIsTracked, Outstanding
<1> QED
  BY <1>1, <1>2

LEMMA RootedStep ==
  ASSUME InductiveInvariant, [Next]_vars
  PROVE  OutstandingIsRooted'
<1> USE DEF InductiveInvariant, TypeOK, OutstandingIsRooted, Outstanding, UsedSlots,
            RubyStep, HostStep
<1>1. CASE PromptRecord
  BY <1>1 DEF PromptRecord
<1>2. ASSUME NEW h \in HostThreads, CallbackErase(h)
      PROVE  OutstandingIsRooted'
  BY <1>2 DEF CallbackErase
<1>3. ASSUME NEW x \in PromptIds, Collect(x)
      PROVE  OutstandingIsRooted'
  BY <1>3 DEF Collect
<1>4. CASE UNCHANGED rootVars
  BY <1>4
<1> QED
  BY <1>1, <1>2, <1>3, <1>4
     DEF Next, PromptStep, CallbackStep, Prompt, PromptLock, PromptAsk, PromptUnlock,
         AnswerPrompt, CallbackLock, CallbackUnlock, CollectorCrashes

(* Every state has the inductive invariant.                                *)
THEOREM InvariantHolds == Spec => []InductiveInvariant
<1>1. ASSUME InductiveInvariant, [Next]_vars
      PROVE  InductiveInvariant'
  <2>1. TypeOK'
    BY <1>1, TypeStep
  <2>2. OutstandingIsTracked'
    BY <1>1, <2>1, TrackedStep
  <2>3. OutstandingIsRooted'
    BY <1>1, RootedStep
  <2>4. (rubyPc # "crashed" => LockOwner /\ Tracked /\ AnsweredOnce /\ AskedOnce)'
    BY <1>1, <2>1, RunningStep
  <2> QED
    BY <2>1, <2>2, <2>3, <2>4 DEF InductiveInvariant
<1> QED
  BY <1>1, InvariantInit, PTL DEF Spec

(* The variables have their types.                                         *)
THEOREM TypeCorrect == Spec => []TypeOK
<1>1. InductiveInvariant => TypeOK
  BY DEF InductiveInvariant
<1> QED
  BY <1>1, InvariantHolds, PTL

(* No answer overtakes the recording of its prompt, and no answered prompt *)
(* stays in s_outstandingPrompts.                                          *)
THEOREM NoAnswerOvertakes == Spec => []OutstandingIsTracked
<1>1. InductiveInvariant => OutstandingIsTracked
  BY DEF InductiveInvariant
<1> QED
  BY <1>1, InvariantHolds, PTL

(* The block of an outstanding prompt survives every collection.           *)
THEOREM OutstandingBlocksSurvive == Spec => []OutstandingIsRooted
<1>1. InductiveInvariant => OutstandingIsRooted
  BY DEF InductiveInvariant
<1> QED
  BY <1>1, InvariantHolds, PTL
=============================================================================
