-------------------------- MODULE MCQuotaCollection --------------------------
(* Instances of QuotaCollection for TLC.                                   *)
EXTENDS QuotaCollection, TLC
CONSTANTS w1, r1, a1, a2, k1, k2, p1

None == {}
W1 == {w1}
R1 == {r1}
W1R1 == {w1, r1}
A1 == {a1}
A2 == {a1, a2}
K1 == {k1}
K2 == {k1, k2}
P1 == {p1}
Credentials == Permutations(K2)
===============================================================================
