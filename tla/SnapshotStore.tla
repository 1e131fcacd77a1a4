----------------------------- MODULE SnapshotStore -----------------------------
(***************************************************************************)
(* What the CPAMP quota snapshots of a channel promise to their readers    *)
(* (db.py): the windows of an account only ever move forward in            *)
(* observation time, never come from before the barrier that a replaced    *)
(* account was given, and only the generation of the channel's present     *)
(* endpoint is written.  A discovery may rearrange that generation: drop a *)
(* row, start it again, or give one row's content to another key.          *)
(* CpampSync implements this module.                                       *)
(***************************************************************************)
EXTENDS Naturals

CONSTANTS
    Key,        \* account keys
    Gen,        \* endpoint revisions
    Time        \* observation times; 0 is "never"

VARIABLES
    cur,        \* the channel's endpoint revision
    seen        \* of each generation and key: observed_at and the barrier

storeVars == <<cur, seen>>

Cell == [at : Time, floor : Time]
Blank == [at |-> 0, floor |-> 0]

StoreTypeOK == cur \in Gen /\ seen \in [Gen -> [Key -> Cell]]

StoreInit ==
    /\ cur \in Gen
    /\ seen = [g \in Gen |-> [k \in Key |-> Blank]]

(* A reading is accepted: newer than the last one, not before the barrier. *)
Observe(k, t) ==
    /\ seen[cur][k].at < t /\ seen[cur][k].floor <= t
    /\ seen' = [seen EXCEPT ![cur] =
            [seen[cur] EXCEPT ![k] = [at |-> t, floor |-> seen[cur][k].floor]]]
    /\ UNCHANGED cur

(* What a key holds after a discovery: what it or another key held, or     *)
(* nothing but a barrier.                                                  *)
Contents(cells) == {cells[k] : k \in Key} \cup {[at |-> 0, floor |-> t] : t \in Time}

Rearrange ==
    /\ UNCHANGED cur
    /\ seen' \in [Gen -> [Key -> Cell]]
    /\ LET was == seen
           is == seen'
       IN  /\ \A k \in Key : is[cur][k] \in Contents(was[cur])
           /\ \A g \in Gen \ {cur} : is[g] = was[g]

MoveOn ==
    /\ cur' \in {g \in Gen : g > cur}
    /\ UNCHANGED seen

(* The channel is deleted, and its rows with it.                           *)
Clear ==
    /\ seen' = [g \in Gen |-> [k \in Key |-> Blank]]
    /\ UNCHANGED cur

StoreNext ==
    \/ Rearrange \/ MoveOn \/ Clear
    \/ \E k \in Key, t \in Time : Observe(k, t)

StoreSpec == StoreInit /\ [][StoreNext]_storeVars

(* Windows come from after the barrier.                                    *)
BarrierHolds ==
    \A g \in Gen : \A k \in Key :
        seen[g][k].at # 0 => seen[g][k].at >= seen[g][k].floor
===============================================================================
