---------------------------- MODULE SchedulerLease ----------------------------
(***************************************************************************)
(* backend/app/scheduler.py and the lease operations of db.py: one row of  *)
(* table scheduler_leases, the SchedulerLease objects that compete for it  *)
(* (one session per owner id at a time: the in-process asyncio locks see   *)
(* to that), their heartbeat tasks, and the collector between acquire()    *)
(* and release(), which checks is_valid(), awaits an upstream request,     *)
(* checks again and writes under the lease guard of the same transaction.  *)
(*                                                                         *)
(* The row's expires_at is kept as the time left until it, so that a       *)
(* clock is not needed: "expires_at > now" is left > 0.  A process may be  *)
(* slow: its heartbeat runs up to MaxDelay[o] ticks after it is due.       *)
(***************************************************************************)
EXTENDS Integers, FiniteSets

CONSTANTS
    Owner,      \* owner ids (process_owner_id(), or a fresh uuid per refresh)
    NoOwner,    \* there is no row
    Ttl,        \* LEASE_TTL_SECONDS, in ticks
    Heartbeat,  \* LEASE_HEARTBEAT_SECONDS, in ticks
    MaxDelay,   \* how late each owner's process may run its heartbeat, in ticks
    Mortal      \* the owners whose process may crash

ASSUME OwnerAssumption == NoOwner \notin Owner /\ Mortal \subseteq Owner
ASSUME TimingAssumption ==
    /\ Ttl \in Nat \ {0} /\ Heartbeat \in Nat \ {0} /\ Heartbeat < Ttl
    /\ MaxDelay \in [Owner -> Nat]

VARIABLES
    row,        \* scheduler_leases: owner_id and the time left to expires_at
    phase,      \* where each owner's session is
    lost,       \* SchedulerLease._lost
    beating,    \* the heartbeat task runs
    beat,       \* time until the heartbeat is due; negative when it is late
    committed,  \* owners whose open session had a write accepted
    overtaken   \* history: another owner was granted the lease since

vars == <<row, phase, lost, beating, beat, committed, overtaken>>

Phase == {"idle", "working", "requesting", "answered", "checked",
          "stopping", "dead"}
Open  == {"working", "requesting", "answered", "checked", "stopping"}

TypeOK ==
    /\ row \in [owner : Owner \cup {NoOwner}, left : 0..Ttl]
    /\ phase \in [Owner -> Phase]
    /\ lost \in [Owner -> BOOLEAN]
    /\ beating \in [Owner -> BOOLEAN]
    /\ beat \in [Owner -> Int]
    /\ \A o \in Owner : beat[o] \in (-MaxDelay[o])..Heartbeat
    /\ committed \subseteq Owner
    /\ overtaken \in [Owner -> BOOLEAN]

Init ==
    /\ row = [owner |-> NoOwner, left |-> 0]
    /\ phase = [o \in Owner |-> "idle"]
    /\ lost = [o \in Owner |-> FALSE]
    /\ beating = [o \in Owner |-> FALSE]
    /\ beat = [o \in Owner |-> Heartbeat]
    /\ committed = {}
    /\ overtaken = [o \in Owner |-> FALSE]

-------------------------------------------------------------------------------
(* Mutations: a row is never taken over; it is taken over a tick too soon. *)
MayTakeFree(o) == row.owner \in {NoOwner, o}
MayTakeEarly(o) == row.owner \in {NoOwner, o} \/ row.left <= 1

(* acquire_scheduler_lease: the upsert's WHERE.                            *)
MayTake(o) == row.owner \in {NoOwner, o} \/ row.left = 0

(* Mutations: whose row it is does not matter; its expiry does not matter. *)
HoldsAnyRow(o) == row.left > 0
HoldsExpired(o) == row.owner = o

(* holds_scheduler_lease, and the lease half of _validate_collection_guard *)
Holds(o) == row.owner = o /\ row.left > 0

(* SchedulerLease.acquire.  A refusal and a database error change nothing. *)
Acquire(o) ==
    /\ phase[o] = "idle"
    /\ MayTake(o)
    /\ row' = [owner |-> o, left |-> Ttl]
    /\ phase' = [phase EXCEPT ![o] = "working"]
    /\ lost' = [lost EXCEPT ![o] = FALSE]
    /\ beating' = [beating EXCEPT ![o] = TRUE]
    /\ beat' = [beat EXCEPT ![o] = Heartbeat]
    /\ UNCHANGED committed
    /\ overtaken' = [p \in Owner |-> p # o]

(* is_valid: sticky once lost, else what the database says; a database     *)
(* error and a row that is gone both mark the session lost.                *)
Valid(o) ==
    /\ ~lost[o] /\ Holds(o)
    /\ UNCHANGED lost
Invalid(o) ==
    /\ lost' = [lost EXCEPT ![o] = TRUE]

(* The collector checks the lease and starts a request, or stops.          *)
StartRequest(o) ==
    /\ phase[o] = "working"
    /\ \/ Valid(o) /\ phase' = [phase EXCEPT ![o] = "requesting"]
       \/ Invalid(o) /\ phase' = [phase EXCEPT ![o] = "stopping"]
    /\ UNCHANGED <<row, beating, beat, committed, overtaken>>

Answer(o) ==
    /\ phase[o] = "requesting"
    /\ phase' = [phase EXCEPT ![o] = "answered"]
    /\ UNCHANGED <<row, lost, beating, beat, committed, overtaken>>

(* _require_lease once the answer is in.                                   *)
Recheck(o) ==
    /\ phase[o] = "answered"
    /\ \/ Valid(o) /\ phase' = [phase EXCEPT ![o] = "checked"]
       \/ Invalid(o) /\ phase' = [phase EXCEPT ![o] = "stopping"]
    /\ UNCHANGED <<row, beating, beat, committed, overtaken>>

(* The write and its guard are one BEGIN IMMEDIATE transaction; the guard  *)
(* reads the row, not the session's flag.                                  *)
WriteAccepted(o) ==
    /\ phase[o] = "checked"
    /\ Holds(o)
    /\ committed' = committed \cup {o}
    /\ phase' = [phase EXCEPT ![o] = "working"]
    /\ UNCHANGED <<row, lost, beating, beat, overtaken>>

WriteRejected(o) ==
    /\ phase[o] = "checked"
    /\ ~Holds(o)
    /\ phase' = [phase EXCEPT ![o] = "stopping"]
    /\ UNCHANGED <<row, lost, beating, beat, committed, overtaken>>

(* The cycle is done, or an exception or (at an await) the cancellation of *)
(* the task takes it to its finally block.                                 *)
Finish(o) ==
    /\ phase[o] \in {"working", "requesting"}
    /\ phase' = [phase EXCEPT ![o] = "stopping"]
    /\ UNCHANGED <<row, lost, beating, beat, committed, overtaken>>

(* release: the heartbeat is cancelled first; the DELETE names the owner,  *)
(* and an error in it is logged and the row left behind.                   *)
Release(o) ==
    /\ phase[o] = "stopping"
    /\ phase' = [phase EXCEPT ![o] = "idle"]
    /\ beating' = [beating EXCEPT ![o] = FALSE]
    /\ beat' = [beat EXCEPT ![o] = Heartbeat]
    /\ \/ row' = IF row.owner = o THEN [owner |-> NoOwner, left |-> 0] ELSE row
       \/ UNCHANGED row
    /\ committed' = committed \ {o}
    /\ UNCHANGED <<lost, overtaken>>

(* One turn of _heartbeat: renew_scheduler_lease, which needs a row that   *)
(* is still ours and unexpired.                                            *)
Renew(o) ==
    /\ beating[o] /\ beat[o] <= 0
    /\ Holds(o)
    /\ row' = [row EXCEPT !.left = Ttl]
    /\ beat' = [beat EXCEPT ![o] = Heartbeat]
    /\ UNCHANGED <<phase, lost, beating, committed, overtaken>>

(* Mutation: the task returns without marking the session lost.            *)
HeartbeatStopsSilently(o) ==
    /\ beating[o] /\ beat[o] <= 0
    /\ beating' = [beating EXCEPT ![o] = FALSE]
    /\ beat' = [beat EXCEPT ![o] = Heartbeat]
    /\ UNCHANGED <<row, phase, lost, committed, overtaken>>

(* The renewal is refused, or the database fails: the task marks the       *)
(* session lost and returns, for good.                                     *)
HeartbeatStops(o) ==
    /\ beating[o] /\ beat[o] <= 0
    /\ lost' = [lost EXCEPT ![o] = TRUE]
    /\ beating' = [beating EXCEPT ![o] = FALSE]
    /\ beat' = [beat EXCEPT ![o] = Heartbeat]
    /\ UNCHANGED <<row, phase, committed, overtaken>>

(* The process dies at any point: its row stays until it expires, and the  *)
(* restarted process has another owner id.                                 *)
Crash(o) ==
    /\ o \in Mortal /\ phase[o] # "dead"
    /\ phase' = [phase EXCEPT ![o] = "dead"]
    /\ beating' = [beating EXCEPT ![o] = FALSE]
    /\ beat' = [beat EXCEPT ![o] = Heartbeat]
    /\ committed' = committed \ {o}
    /\ UNCHANGED <<row, lost, overtaken>>

(* Mutation: the time left goes on below zero.                             *)
TickPastZero ==
    /\ \A o \in Owner : beating[o] => beat[o] > -MaxDelay[o]
    /\ row.left > -1
    /\ row' = [row EXCEPT !.left = row.left - 1]
    /\ beat' = [o \in Owner |-> IF beating[o] THEN beat[o] - 1 ELSE beat[o]]
    /\ UNCHANGED <<phase, lost, beating, committed, overtaken>>

Tick ==
    /\ \A o \in Owner : beating[o] => beat[o] > -MaxDelay[o]
    /\ row' = [row EXCEPT !.left = IF row.left > 0 THEN row.left - 1 ELSE 0]
    /\ beat' = [o \in Owner |-> IF beating[o] THEN beat[o] - 1 ELSE beat[o]]
    /\ UNCHANGED <<phase, lost, beating, committed, overtaken>>

Session(o) ==
    \/ Acquire(o) \/ StartRequest(o) \/ Answer(o) \/ Recheck(o)
    \/ WriteAccepted(o) \/ WriteRejected(o) \/ Finish(o) \/ Release(o)

Next ==
    \/ \E o \in Owner :
          Session(o) \/ Renew(o) \/ HeartbeatStops(o) \/ Crash(o)
    \/ Tick

Spec == Init /\ [][Next]_vars

(* Time passes, a live process runs its session to the end (requests have  *)
(* timeouts, a cycle has finitely many jobs) and polls for the lease again *)
(* and again.  Nothing is assumed of crashes, of cancellations, of late    *)
(* heartbeats, of the database failing, or of who wins a race for the row. *)
Fairness ==
    /\ WF_vars(Tick)
    /\ \A o \in Owner :
        /\ WF_vars(Renew(o) \/ HeartbeatStops(o))
        /\ WF_vars(StartRequest(o)) /\ WF_vars(Answer(o)) /\ WF_vars(Recheck(o))
        /\ WF_vars(WriteAccepted(o) \/ WriteRejected(o))
        /\ WF_vars(Release(o)) /\ WF_vars(Acquire(o))

FairSpec == Spec /\ Fairness

-------------------------------------------------------------------------------
(* A session whose lease has since been granted to somebody else never     *)
(* gets a write accepted, however late its answer arrives: the fence of    *)
(* _validate_collection_guard.                                             *)
NoCommitAfterTakeover ==
    [][\A o \in Owner :
          phase[o] = "checked" /\ phase'[o] = "working" => ~overtaken[o]]_vars

(* The heartbeat of a process that is never later than this cannot let the *)
(* row expire.                                                             *)
Timely(o) == Heartbeat + MaxDelay[o] < Ttl

(* A session whose process is timely and whose heartbeat runs has the row: *)
(* its lease cannot expire under it, nor be taken, however late the        *)
(* processes are that compete with it.                                     *)
HeartbeatKeepsLease ==
    \A o \in Owner : Timely(o) /\ beating[o] => Holds(o)

(* README: several workers on one SQLite file stay single-flight.  Two     *)
(* open sessions of timely processes mean that one of them has lost its    *)
(* heartbeat and knows it: it will start no further request.               *)
SingleFlight ==
    \A o, p \in Owner :
        /\ o # p /\ Timely(o) /\ Timely(p)
        /\ phase[o] \in Open /\ phase[p] \in Open
        => lost[o] \/ lost[p]

(* A lease left behind by a dead process (or by a failed DELETE) does not  *)
(* block the others for ever: whenever some owner can still run, some live *)
(* session gets the lease again.                                           *)
LeaseRecovers ==
    (\E o \in Owner : phase[o] # "dead")
        ~> (\E o \in Owner : phase[o] \in Open /\ Holds(o))

(* The promise made to the collectors.                                     *)
L == INSTANCE Lease WITH
        holder <- IF row.left > 0 THEN row.owner ELSE NoOwner,
        inside <- {o \in Owner : phase[o] \in Open}
ImplementsLease == L!LeaseSpec
===============================================================================
