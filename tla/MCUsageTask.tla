------------------------------ MODULE MCUsageTask ------------------------------
(* Instances of UsageTask for TLC.                                         *)
EXTENDS UsageTask, TLC
CONSTANTS p1, p2, r1, r2, off, slow, fast

P1 == {p1}
P2 == {p1, p2}
R1 == {r1}
R2 == {r1, r2}
S3 == {off, slow, fast}
Same == Permutations(P2) \cup Permutations(R2) \cup Permutations({slow, fast})
===============================================================================
