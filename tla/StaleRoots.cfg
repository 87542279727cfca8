\* The same instance, for the roots that outlive their elements.
CONSTANTS
  p1 = p1  p2 = p2  p3 = p3
  a1 = a1  a2 = a2  a3 = a3
  h1 = h1  h2 = h2
  PromptIds <- ThreePrompts
  Slots <- ThreeSlots
  HostThreads <- TwoThreads
  Ruby = ruby
  None = none
  Free = free
SPECIFICATION Spec
INVARIANT RootsAreElements
CHECK_DEADLOCK FALSE
