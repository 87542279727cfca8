-------------------------- MODULE MCServiceInstances --------------------------
(* Small instances of ServiceInstances for TLC.                            *)
EXTENDS ServiceInstancesInductive, TLC

CONSTANTS c1, c2, s1, s2, s3, s4, s5, h1, h2, v1, v2

TwoClients   == {c1, c2}
FiveStack    == {s1, s2, s3, s4, s5}
TwoHeap      == {h1, h2}
TwoValues    == {v1, v2}
Symmetries   == Permutations(TwoClients) \union Permutations(FiveStack)
                  \union Permutations(TwoHeap)
=============================================================================
