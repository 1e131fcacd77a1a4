------------------------------ MODULE MCCpampSync ------------------------------
(* Instances of CpampSync for TLC.                                         *)
EXTENDS CpampSync, TLC
CONSTANTS w1, r1, a1, a2

None == {}
W1 == {w1}
R1 == {r1}
A2 == {a1, a2}
Identities == Permutations(A2)
===============================================================================
