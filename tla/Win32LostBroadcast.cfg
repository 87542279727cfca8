\* Two threads wait on one condition; broadcasts alone, no time-outs.
CONSTANTS
  w1 = w1  w2 = w2
  s1 = s1  s2 = s2  s3 = s3
  Waiters <- TwoWaiters
  Signallers <- TwoSignallers
  Calls = {"broadcast"}
  TimedWaits = FALSE
  Free = free
SPECIFICATION Spec
INVARIANT WakeupsAreKept
