\* Two host threads that complete their calls before the shutdown; the
\* thread creation succeeds.  A deadlock is an error.
SPECIFICATION FairSpec
CONSTANTS
  c1 = c1 c2 = c2 c3 = c3 s1 = s1 s2 = s2 s3 = s3 h1 = h1 h2 = h2
  Clients <- TwoClients
  Main = c1
  Ruby = Ruby
  Free = Free
  Null = Null
  StackWorks <- TwoStackWorks
  HeapWorks <- OneHeapWork
  MaxInits = 2
  SpawnMayFail = FALSE
  OverlappingShutdown = FALSE
PROPERTIES
  EveryCallReturns
  InvocationRuns
