--------------------------- MODULE MCSchedulerLease ---------------------------
(* Instances of SchedulerLease for TLC.                                    *)
EXTENDS SchedulerLease
CONSTANTS o1, o2, o3
Owners == {o1, o2, o3}
OneMortal == {o1}
(* o1 may sleep through its whole lease, the others through a tick.        *)
OneLate == [o \in Owners |-> IF o = o1 THEN 3 ELSE 1]
===============================================================================
