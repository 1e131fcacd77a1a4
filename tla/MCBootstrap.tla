----------------------------- MODULE MCBootstrap -----------------------------
(* Instances of Bootstrap for TLC.                                         *)
EXTENDS Bootstrap, TLC
CONSTANTS p1, p2, a1, a2, t1, t2, s1

P2 == {p1, p2}
A2 == {a1, a2}
Both == <<a1, a2>>
T2 == {t1, t2}
S1 == {s1}
Same == Permutations(P2) \cup Permutations(T2)
===============================================================================
