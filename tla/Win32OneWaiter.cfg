\* One thread waits, as on every condition of src/; three signal.
CONSTANTS
  w1 = w1  w2 = w2
  s1 = s1  s2 = s2  s3 = s3
  Waiters <- OneWaiter
  Signallers <- ThreeSignallers
  Calls <- BothCalls
  TimedWaits = TRUE
  Free = free
SPECIFICATION FairSpec
INVARIANTS
  TypeOK
  CountsTheWaiters
  ReturnsWithMutex
  WakeupsAreKept
  InductiveInvariant
PROPERTY ImplementsCondition
