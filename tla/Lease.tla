-------------------------------- MODULE Lease --------------------------------
(***************************************************************************)
(* What the SQLite scheduler lease promises to the code that collects      *)
(* under it (quota_sync.py, cpa_queue.py, usage_sync.py), with no timers,  *)
(* rows or heartbeats: at any moment at most one owner may write, a new    *)
(* owner is let in only when nobody may, and a write is accepted only from *)
(* the owner that may write now.  SchedulerLease implements this module;   *)
(* QuotaCollection and UsageSync are its users.                            *)
(***************************************************************************)
CONSTANTS
    Owner,      \* owner ids: one per process, one per manual refresh
    NoOwner     \* nobody may write

ASSUME NoOwnerAssumption == NoOwner \notin Owner

VARIABLES
    holder,     \* the owner whose writes are accepted, or NoOwner
    inside,     \* owners between acquire() and release()
    committed   \* those of them that had a write accepted in this session

leaseVars == <<holder, inside, committed>>

LeaseTypeOK ==
    /\ holder \in Owner \cup {NoOwner}
    /\ inside \subseteq Owner
    /\ committed \subseteq inside

LeaseInit ==
    /\ holder = NoOwner
    /\ inside = {}
    /\ committed = {}

(* A session begins: only when nobody may write, or for the same owner.    *)
Grant(o) ==
    /\ o \notin inside
    /\ holder \in {NoOwner, o}
    /\ holder' = o
    /\ inside' = inside \cup {o}
    /\ UNCHANGED committed

(* Mutation: a write guarded by the session alone.                         *)
CommitUnfenced(o) ==
    /\ o \in inside
    /\ committed' = committed \cup {o}
    /\ UNCHANGED <<holder, inside>>

(* A guarded write is accepted: only from the holder, during its session.  *)
Commit(o) ==
    /\ o \in inside
    /\ holder = o
    /\ committed' = committed \cup {o}
    /\ UNCHANGED <<holder, inside>>

(* The right to write runs out by itself.                                  *)
Lapse ==
    /\ holder # NoOwner
    /\ holder' = NoOwner
    /\ UNCHANGED <<inside, committed>>

(* A session ends.  It gives back the right to write if it still has it,   *)
(* or (a crash, a failed DELETE) leaves it to lapse; it can never take     *)
(* away another owner's.                                                   *)
Leave(o) ==
    /\ o \in inside
    /\ inside' = inside \ {o}
    /\ \/ holder' = IF holder = o THEN NoOwner ELSE holder
       \/ UNCHANGED holder
    /\ committed' = committed \ {o}

LeaseNext ==
    \/ \E o \in Owner : Grant(o) \/ Commit(o) \/ Leave(o)
    \/ Lapse

LeaseSpec == LeaseInit /\ [][LeaseNext]_leaseVars
==============================================================================
