\* Two instances at most, in a class that keeps the == of Object.
CONSTANTS
  c1 = c1  c2 = c2
  s1 = s1  s2 = s2  s3 = s3  s4 = s4  s5 = s5
  h1 = h1  h2 = h2
  v1 = v1  v2 = v2
  Clients <- TwoClients
  StackWorks <- FiveStack
  HeapWorks <- TwoHeap
  Null = Null
  Values = {v1}
  ComparesByValue = FALSE
SYMMETRY Symmetries
SPECIFICATION Spec
INVARIANTS
  TypeOK
  HeldInstancesAreKept
  InvocationsFindTheirInstance
  RootsAreOwned
  InductiveInvariant
\* The works run out.
CHECK_DEADLOCK FALSE
