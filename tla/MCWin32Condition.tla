--------------------------- MODULE MCWin32Condition ---------------------------
(* Small instances of Win32Condition for TLC.                              *)
EXTENDS Win32Condition

CONSTANTS w1, w2, s1, s2, s3

OneWaiter       == {w1}
TwoWaiters      == {w1, w2}
TwoSignallers   == {s1, s2}
ThreeSignallers == {s1, s2, s3}
BothCalls       == {"signal", "broadcast"}
=============================================================================
