\* Two host threads that may overlap calls with the shutdown, a thread
\* creation that may fail, and a second start.
SPECIFICATION Spec
CONSTANTS
  c1 = c1 c2 = c2 c3 = c3 s1 = s1 s2 = s2 s3 = s3 h1 = h1 h2 = h2
  Clients <- ThreeClients
  Main = c1
  Ruby = Ruby
  Free = Free
  Null = Null
  StackWorks <- TwoStackWorks
  HeapWorks <- TwoHeapWorks
  MaxInits = 2
  SpawnMayFail = TRUE
  OverlappingShutdown = TRUE
INVARIANTS
  TypeOK
  WorkIsLive
  DeletesOnlyHeapWork
  NoLostWakeup
  InitializeWaitsForBoot
  QueueIsExclusive
  QuietAfterShutdown
  ThreadIsJoinedOnce
  NoCallIsStranded
  InductiveInvariant
PROPERTY
  ImplementsWorkQueue
\* A call that overlaps the shutdown, or follows a failed start, waits for ever.
CHECK_DEADLOCK FALSE
