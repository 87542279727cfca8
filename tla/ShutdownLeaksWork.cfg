\* An invocation that is still queued when the interpreter stops.
SPECIFICATION FairSpec
CONSTANTS
  c1 = c1 c2 = c2 c3 = c3 s1 = s1 s2 = s2 s3 = s3 h1 = h1 h2 = h2
  Clients <- OneClient
  Main = c1
  Ruby = Ruby
  Free = Free
  Null = Null
  StackWorks <- OneStackWork
  HeapWorks <- OneHeapWork
  MaxInits = 1
  SpawnMayFail = FALSE
  OverlappingShutdown = FALSE
PROPERTY
  HeapWorkIsFreed
CHECK_DEADLOCK FALSE
