----------------------------- MODULE MCCpaChannel -----------------------------
(* Instances of CpaChannel for TLC.                                        *)
EXTENDS CpaChannel, TLC
CONSTANTS w1, q1, r1, e1, e2, m1, p1, h1, h2

None == {}
W1 == {w1}
Q1 == {q1}
R1 == {r1}
E1 == {e1}
E2 == {e1, e2}
M1 == {m1}
P1 == {p1}
H1 == {h1}
(* The sessions share a process; requests are served by it or another one, *)
(* whose cache is not the one the sessions use.                            *)
H2 == {h1, h2}
OneHome == [s \in Session |-> h1]
CpaEndpoints == Permutations(E2)
===============================================================================
