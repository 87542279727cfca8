\* Three prompts, answered on two threads of the host.
CONSTANTS
  p1 = p1  p2 = p2  p3 = p3
  a1 = a1  a2 = a2  a3 = a3
  h1 = h1  h2 = h2
  PromptIds <- ThreePrompts
  Slots <- ThreeSlots
  HostThreads <- TwoThreads
  Ruby = ruby
  None = none
  Free = free
SPECIFICATION FairSpec
INVARIANTS
  TypeOK
  OutstandingIsTracked
  OutstandingIsRooted
  InductiveInvariant
PROPERTIES
  PromptReturns
  AnswerReturns
\* The process may crash, and the prompt ids run out.
CHECK_DEADLOCK FALSE
