\* Two instances in a class that defines == on values.
CONSTANTS
  c1 = c1  c2 = c2
  s1 = s1  s2 = s2  s3 = s3  s4 = s4  s5 = s5
  h1 = h1  h2 = h2
  v1 = v1  v2 = v2
  Clients <- TwoClients
  StackWorks <- FiveStack
  HeapWorks <- TwoHeap
  Null = Null
  Values <- TwoValues
  ComparesByValue = TRUE
SYMMETRY Symmetries
SPECIFICATION Spec
INVARIANT HeldInstancesAreKept
CHECK_DEADLOCK FALSE
