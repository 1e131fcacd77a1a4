----------------------------- MODULE MCUsageSync -----------------------------
(* Instances of UsageSync for TLC.                                         *)
EXTENDS UsageSync
CONSTANTS a1, s1, s2, w1, q1, h1, h2

None == {}
A1 == {a1}
S1 == {s1}
S2 == {s1, s2}
W1 == {w1}
Q1 == {q1}
HQ == {h2}
H2 == {h1, h2}
Sessions == W1 \cup Q1
(* The loop and the request run in processes of their own.                 *)
Apart == [o \in Sessions |-> IF o = w1 THEN h1 ELSE h2]
FewRecords == [s \in Space |-> IF s = s1 THEN 2 ELSE 0]
MoreRecords == [s \in Space |-> 4]
===============================================================================
