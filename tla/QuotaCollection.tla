--------------------------- MODULE QuotaCollection ---------------------------
(***************************************************************************)
(* OpenCode and Ollama quota collection: the account rows and their quota  *)
(* snapshots (db.py), the background cycle collect_due_quotas of every     *)
(* worker process (quota_sync.py), the manual refresh of one account, and  *)
(* the administrator's create, update, enable/disable and delete           *)
(* (main.py).  They meet in SQLite only, under the quota-collection lease. *)
(*                                                                         *)
(* The two providers run the same code over the same columns (a workspace  *)
(* id is part of the OpenCode credential); an account here is of either    *)
(* kind.  Code between two awaits of one process is one step, except that  *)
(* the check after an answer and the guarded write are separate database   *)
(* transactions, between which another process may run.                    *)
(***************************************************************************)
EXTENDS Lease, Naturals, FiniteSets

CONSTANTS
    Account,    \* account ids (uuids: a deleted one never comes back)
    Cred,       \* credentials: cookie and workspace
    Worker,     \* background loops, one per process
    Refresher,  \* manual refreshes, each session with a fresh owner id
    Admin,      \* administrators' update requests
    Mortal,     \* the collectors whose process may crash
    NoAccount, NoCred,
    MaxRev,     \* bound on the revisions of one account
    Faults,     \* leases lapse under live sessions, writes and cycles fail
    AdminCrash  \* a process may die between the two transactions of an update

ASSUME CollectorAssumption ==
    /\ Owner = Worker \cup Refresher /\ Worker \cap Refresher = {}
    /\ Mortal \subseteq Owner
    /\ NoAccount \notin Account /\ NoCred \notin Cred
    /\ MaxRev \in Nat /\ Faults \in BOOLEAN /\ AdminCrash \in BOOLEAN

VARIABLES
    acct,       \* opencode_accounts, ollama_accounts
    snap,       \* opencode_quota_snapshots, ollama_quota_snapshots
    admin,      \* the account an update request has still to mark due
    unmarked,   \* history: accounts whose mark was lost in a crash
    pc, jobs, job, paced, answer, lost,   \* of each collector's session
    earlier, outdated   \* history: who asked before whom (see NoStaleOverwrite)

sessionVars == <<pc, jobs, job, paced, answer, lost>>
marks == <<admin, unmarked>>
history == <<earlier, outdated>>
vars == <<leaseVars, acct, snap, marks, sessionVars, history>>

Job == [id : Account, cred : Cred, rev : 0..MaxRev]
NoJob == [id |-> NoAccount, cred |-> NoCred, rev |-> 0]
Waiting == {"inflight", "answered", "checked"}
Pc == {"idle", "listing", "next", "pacing", "releasing", "dead"} \cup Waiting

TypeOK ==
    /\ LeaseTypeOK
    /\ acct \in [Account -> [state : {"new", "live", "deleted"},
                             enabled : BOOLEAN, cred : Cred, rev : 0..MaxRev]]
    /\ snap \in [Account -> [attempted : BOOLEAN,
                             status : {"never", "success", "error"},
                             stale : BOOLEAN, windows : Cred \cup {NoCred},
                             rev : 0..MaxRev]]
    /\ admin \in [Admin -> Account \cup {NoAccount}]
    /\ unmarked \subseteq Account
    /\ pc \in [Owner -> Pc]
    /\ jobs \in [Owner -> SUBSET Job]
    /\ job \in [Owner -> Job \cup {NoJob}]
    /\ paced \in [Owner -> BOOLEAN]
    /\ answer \in [Owner -> {"none", "success", "failure", "error"}]
    /\ lost \in [Owner -> BOOLEAN]
    /\ earlier \in [Owner -> SUBSET Owner]
    /\ outdated \subseteq Owner

(* A row with last_attempt_at NULL.  windows is the credential the stored  *)
(* windows were read with, and NoCred while last_success_at is NULL; rev   *)
(* is history: the revision the last attempt was recorded under.           *)
EmptySnapshot == [attempted |-> FALSE, status |-> "never", stale |-> FALSE,
                  windows |-> NoCred, rev |-> 0]

Init ==
    /\ LeaseInit
    /\ acct \in [Account -> {[state |-> "new", enabled |-> FALSE,
                              cred |-> k, rev |-> 0] : k \in Cred}]
    /\ snap = [a \in Account |-> EmptySnapshot]
    /\ admin = [p \in Admin |-> NoAccount]
    /\ unmarked = {}
    /\ pc = [c \in Owner |-> "idle"]
    /\ jobs = [c \in Owner |-> {}]
    /\ job = [c \in Owner |-> NoJob]
    /\ paced = [c \in Owner |-> FALSE]
    /\ answer = [c \in Owner |-> "none"]
    /\ lost = [c \in Owner |-> FALSE]
    /\ earlier = [c \in Owner |-> {}]
    /\ outdated = {}

Live(a) == acct[a].state = "live"
Enabled(a) == Live(a) /\ acct[a].enabled

-------------------------------------------------------------------------------
(* The administrator.                                                      *)

Create(a) ==
    /\ acct[a].state = "new"
    /\ \E en \in BOOLEAN :
          acct' = [acct EXCEPT ![a] = [@ EXCEPT !.state = "live", !.enabled = en]]
    /\ snap' = [snap EXCEPT ![a] = EmptySnapshot]
    /\ UNCHANGED <<leaseVars, marks, sessionVars, history>>

(* Mutation: a new credential does not count as a change of the source.    *)
UpdateUnrevised(p, a) ==
    /\ admin[p] = NoAccount /\ Live(a)
    /\ \E cred \in Cred, en \in BOOLEAN :
        LET changed == en # acct[a].enabled
        IN  /\ changed => acct[a].rev < MaxRev
            /\ acct' = [acct EXCEPT ![a] =
                    [@ EXCEPT !.cred = cred, !.enabled = en,
                              !.rev = acct[a].rev + (IF changed THEN 1 ELSE 0)]]
            /\ admin' = [admin EXCEPT ![p] =
                    IF en /\ changed THEN a ELSE NoAccount]
    /\ UNCHANGED <<leaseVars, snap, unmarked, sessionVars, history>>

(* update_*_account: the revision counts changes of what a collection      *)
(* depends on.  The handler then decides, in the same request, whether a   *)
(* new collection is due.                                                  *)
Update(p, a) ==
    /\ admin[p] = NoAccount /\ Live(a)
    /\ \E cred \in Cred, en \in BOOLEAN :
        LET changed == cred # acct[a].cred \/ en # acct[a].enabled
        IN  /\ changed => acct[a].rev < MaxRev
            /\ acct' = [acct EXCEPT ![a] =
                    [@ EXCEPT !.cred = cred, !.enabled = en,
                              !.rev = acct[a].rev + (IF changed THEN 1 ELSE 0)]]
            /\ admin' = [admin EXCEPT ![p] =
                    IF en /\ changed THEN a ELSE NoAccount]
    /\ UNCHANGED <<leaseVars, snap, unmarked, sessionVars, history>>

(* Mutations: the stale flag is left as it was; the attempt is left as it  *)
(* was; the stale column gets the windows themselves.                      *)
MarkDueKeepsStale(p) ==
    /\ admin[p] # NoAccount
    /\ snap' = [snap EXCEPT ![admin[p]].attempted = FALSE]
    /\ admin' = [admin EXCEPT ![p] = NoAccount]
    /\ unmarked' = unmarked \ {admin[p]}
    /\ UNCHANGED <<leaseVars, acct, sessionVars, history>>
MarkDueStaleOnly(p) ==
    /\ admin[p] # NoAccount
    /\ snap' = [snap EXCEPT ![admin[p]].stale = snap[admin[p]].windows # NoCred]
    /\ admin' = [admin EXCEPT ![p] = NoAccount]
    /\ unmarked' = unmarked \ {admin[p]}
    /\ UNCHANGED <<leaseVars, acct, sessionVars, history>>
MarkDueStaleValue(p) ==
    /\ admin[p] # NoAccount
    /\ snap' = [snap EXCEPT ![admin[p]] =
            [@ EXCEPT !.attempted = FALSE, !.stale = snap[admin[p]].windows]]
    /\ admin' = [admin EXCEPT ![p] = NoAccount]
    /\ unmarked' = unmarked \ {admin[p]}
    /\ UNCHANGED <<leaseVars, acct, sessionVars, history>>

(* mark_quota_snapshot_due, a transaction of its own after the update's.   *)
MarkDue(p) ==
    /\ admin[p] # NoAccount
    /\ snap' = [snap EXCEPT ![admin[p]] =
            [@ EXCEPT !.attempted = FALSE, !.stale = snap[admin[p]].windows # NoCred]]
    /\ admin' = [admin EXCEPT ![p] = NoAccount]
    /\ unmarked' = unmarked \ {admin[p]}
    /\ UNCHANGED <<leaseVars, acct, sessionVars, history>>

UpdateCrash(p) ==
    /\ AdminCrash /\ admin[p] # NoAccount
    /\ admin' = [admin EXCEPT ![p] = NoAccount]
    /\ unmarked' = unmarked \cup {admin[p]}
    /\ UNCHANGED <<leaseVars, acct, snap, sessionVars, history>>

(* The snapshot row goes with the account's (ON DELETE CASCADE).           *)
Delete(a) ==
    /\ Live(a)
    /\ acct' = [acct EXCEPT ![a] = [@ EXCEPT !.state = "deleted",
                                             !.enabled = FALSE]]
    /\ snap' = [snap EXCEPT ![a] = EmptySnapshot]
    /\ UNCHANGED <<leaseVars, marks, sessionVars, history>>

-------------------------------------------------------------------------------
(* The collectors.                                                         *)

IsValid(c) == ~lost[c] /\ holder = c

JobOf(a) == [id |-> a, cred |-> acct[a].cred, rev |-> acct[a].rev]

(* _current_opencode_account, _current_ollama_account                      *)
Current(j) == Enabled(j.id) /\ acct[j.id].rev = j.rev /\ acct[j.id].cred = j.cred

(* Mutation: the guard looks at enabled only.                              *)
SourceEnabled(j) == Enabled(j.id)

(* _validate_collection_guard: the row's revision and the lease, not the   *)
(* credential and not the session's flag.                                  *)
SourceUnchanged(j) == Enabled(j.id) /\ acct[j.id].rev = j.rev

(* A request goes out with the credential of j.                            *)
Send(c, j) ==
    /\ pc' = [pc EXCEPT ![c] = "inflight"]
    /\ job' = [job EXCEPT ![c] = j]
    /\ earlier' = [d \in Owner |->
            IF d = c
            THEN {e \in Owner \ {c} : pc[e] \in Waiting /\ job[e].id = j.id}
            ELSE earlier[d] \ {c}]
    /\ outdated' = outdated \ {c}

Goto(c, label) == pc' = [pc EXCEPT ![c] = label]

(* The job is over, with or without a result: on to the next one.          *)
NextJob(c) ==
    /\ Goto(c, "next")
    /\ job' = [job EXCEPT ![c] = NoJob]
    /\ answer' = [answer EXCEPT ![c] = "none"]
    /\ earlier' = [earlier EXCEPT ![c] = {}]

(* What the session kept goes with it.                                     *)
Forget(c) ==
    /\ jobs' = [jobs EXCEPT ![c] = {}]
    /\ job' = [job EXCEPT ![c] = NoJob]
    /\ paced' = [paced EXCEPT ![c] = FALSE]
    /\ answer' = [answer EXCEPT ![c] = "none"]
    /\ lost' = [lost EXCEPT ![c] = FALSE]
    /\ earlier' = [d \in Owner |-> IF d = c THEN {} ELSE earlier[d] \ {c}]
    /\ outdated' = outdated \ {c}

(* is_valid() fails, marks the session lost, and the cycle ends.           *)
Interrupted(c) ==
    /\ ~IsValid(c)
    /\ lost' = [lost EXCEPT ![c] = TRUE]
    /\ Goto(c, "releasing")

Start(w) ==
    /\ w \in Worker /\ pc[w] = "idle"
    /\ Grant(w)
    /\ Goto(w, "listing")
    /\ UNCHANGED <<acct, snap, marks, jobs, job, paced, answer, lost, history>>

(* The due accounts: those never attempted or marked due, and any others   *)
(* whose interval may have passed.  The order (by creation) is left open.  *)
ListJobs(w) ==
    /\ pc[w] = "listing"
    /\ \E due \in SUBSET {a \in Account : Enabled(a)} :
        /\ {a \in Account : Enabled(a) /\ ~snap[a].attempted} \subseteq due
        /\ jobs' = [jobs EXCEPT ![w] = {JobOf(a) : a \in due}]
    /\ Goto(w, "next")
    /\ UNCHANGED <<leaseVars, acct, snap, marks, job, paced, answer, lost, history>>

Skip(c) ==
    /\ pc[c] = "next" /\ IsValid(c)
    /\ \E j \in jobs[c] :
        /\ ~Current(j)
        /\ jobs' = [jobs EXCEPT ![c] = @ \ {j}]
    /\ UNCHANGED <<leaseVars, acct, snap, marks, pc, job, paced, answer, lost,
                   history>>

(* The first request of a cycle goes out at once, the others a second      *)
(* later.                                                                  *)
PickFirst(c) ==
    /\ pc[c] = "next" /\ IsValid(c) /\ ~paced[c]
    /\ \E j \in jobs[c] :
        /\ Current(j)
        /\ jobs' = [jobs EXCEPT ![c] = @ \ {j}]
        /\ Send(c, j)
    /\ paced' = [paced EXCEPT ![c] = TRUE]
    /\ UNCHANGED <<leaseVars, acct, snap, marks, answer, lost>>

PickNext(c) ==
    /\ pc[c] = "next" /\ IsValid(c) /\ paced[c]
    /\ \E j \in jobs[c] :
        /\ Current(j)
        /\ jobs' = [jobs EXCEPT ![c] = @ \ {j}]
        /\ job' = [job EXCEPT ![c] = j]
    /\ Goto(c, "pacing")
    /\ UNCHANGED <<leaseVars, acct, snap, marks, paced, answer, lost, history>>

(* After the pacing sleep only the lease is checked again.                 *)
SendPaced(c) ==
    /\ pc[c] = "pacing" /\ IsValid(c)
    /\ Send(c, job[c])
    /\ UNCHANGED <<leaseVars, acct, snap, marks, jobs, paced, answer, lost>>

(* refresh_*_quota: lease, row, request, with no look at enabled.          *)
Refresh(r, a) ==
    /\ r \in Refresher /\ pc[r] = "idle" /\ holder = NoOwner
    /\ Grant(r)
    /\ Live(a)
    /\ Send(r, JobOf(a))
    /\ UNCHANGED <<acct, snap, marks, jobs, paced, answer, lost>>

Answer(c) ==
    /\ pc[c] = "inflight"
    /\ \E result \in {"success", "failure", "error"} :
          answer' = [answer EXCEPT ![c] = result]
    /\ Goto(c, "answered")
    /\ UNCHANGED <<leaseVars, acct, snap, marks, jobs, job, paced, lost, history>>

(* The answer is in: _require_lease, then is the source still the same?    *)
Recheck(c) ==
    /\ pc[c] = "answered" /\ IsValid(c)
    /\ \/ /\ Current(job[c])
          /\ Goto(c, "checked")
          /\ UNCHANGED <<job, answer, earlier>>
       \/ /\ ~Current(job[c])
          /\ NextJob(c)
    /\ UNCHANGED <<leaseVars, acct, snap, marks, jobs, paced, lost, outdated>>

LeaseLost(c) ==
    /\ \/ pc[c] = "next" /\ jobs[c] # {}
       \/ pc[c] \in {"pacing", "answered"}
    /\ Interrupted(c)
    /\ UNCHANGED <<leaseVars, acct, snap, marks, jobs, job, paced, answer, history>>

(* _record_quota_snapshot: a failure keeps the windows and calls them      *)
(* stale.                                                                  *)
Recorded(s, j, result) ==
    IF result = "success"
    THEN [attempted |-> TRUE, status |-> "success", stale |-> FALSE,
          windows |-> j.cred, rev |-> j.rev]
    ELSE [s EXCEPT !.attempted = TRUE, !.status = "error",
                   !.stale = s.windows # NoCred, !.rev = j.rev]

Accept(c) ==
    /\ pc[c] = "checked"
    /\ SourceUnchanged(job[c]) /\ Commit(c)
    /\ snap' = [snap EXCEPT ![job[c].id] = Recorded(@, job[c], answer[c])]
    /\ NextJob(c)
    /\ outdated' = outdated \cup earlier[c]
    /\ unmarked' = unmarked \ {job[c].id}
    /\ UNCHANGED <<acct, admin, jobs, paced, lost>>

(* CollectionGuardRejected: the source is looked at first.                 *)
Reject(c) ==
    /\ pc[c] = "checked"
    /\ \/ /\ ~SourceUnchanged(job[c])
          /\ NextJob(c)
       \/ /\ SourceUnchanged(job[c]) /\ holder # c
          /\ Goto(c, "releasing")
          /\ UNCHANGED <<job, answer, earlier>>
    /\ UNCHANGED <<leaseVars, acct, snap, marks, jobs, paced, lost, outdated>>

(* The write raises (the database is locked): the handler records a        *)
(* failure instead, by the same path; when that raises too the job is over *)
(* and the cycle goes on.                                                  *)
WriteError(c) ==
    /\ Faults /\ pc[c] = "checked"
    /\ \/ /\ answer[c] # "error"
          /\ answer' = [answer EXCEPT ![c] = "error"]
          /\ Goto(c, "answered")
          /\ UNCHANGED <<job, earlier>>
       \/ /\ answer[c] = "error"
          /\ NextJob(c)
    /\ UNCHANGED <<leaseVars, acct, snap, marks, jobs, paced, lost, outdated>>

Done(c) ==
    /\ pc[c] = "next" /\ jobs[c] = {}
    /\ Goto(c, "releasing")
    /\ UNCHANGED <<leaseVars, acct, snap, marks, jobs, job, paced, answer, lost,
                   history>>

(* An unexpected error outside a job, or the task's cancellation.          *)
Abort(c) ==
    /\ Faults /\ pc[c] \in {"listing", "next", "pacing", "inflight"}
    /\ Goto(c, "releasing")
    /\ UNCHANGED <<leaseVars, acct, snap, marks, jobs, job, paced, answer, lost,
                   history>>

Release(c) ==
    /\ pc[c] = "releasing"
    /\ Leave(c)
    /\ Goto(c, "idle")
    /\ Forget(c)
    /\ UNCHANGED <<acct, snap, marks>>

(* The heartbeat is refused or fails; the row may outlive it.              *)
HeartbeatStops(c) ==
    /\ Faults /\ c \in inside
    /\ lost' = [lost EXCEPT ![c] = TRUE]
    /\ UNCHANGED <<leaseVars, acct, snap, marks, pc, jobs, job, paced, answer,
                   history>>

(* Without Faults a lease lapses only when its session is over: the        *)
(* theorem LeaseKept about SchedulerLease.                                 *)
Expire ==
    /\ Faults \/ holder \notin inside
    /\ Lapse
    /\ UNCHANGED <<acct, snap, marks, sessionVars, history>>

Crash(c) ==
    /\ c \in Mortal /\ pc[c] # "dead"
    /\ Goto(c, "dead")
    /\ inside' = inside \ {c} /\ committed' = committed \ {c}
    /\ Forget(c)
    /\ UNCHANGED <<holder, acct, snap, marks>>

-------------------------------------------------------------------------------
Collect(c) ==
    \/ Start(c) \/ ListJobs(c) \/ Skip(c) \/ PickFirst(c) \/ PickNext(c)
    \/ SendPaced(c) \/ Answer(c) \/ Recheck(c) \/ LeaseLost(c)
    \/ Accept(c) \/ Reject(c) \/ Done(c) \/ Release(c)

Administer ==
    \/ \E a \in Account : Create(a) \/ Delete(a)
    \/ \E p \in Admin : MarkDue(p) \/ UpdateCrash(p)
    \/ \E p \in Admin, a \in Account : Update(p, a)

Next ==
    \/ Administer
    \/ \E c \in Owner :
          \/ Collect(c) \/ WriteError(c) \/ Abort(c) \/ HeartbeatStops(c)
          \/ Crash(c)
    \/ \E r \in Refresher, a \in Account : Refresh(r, a)
    \/ Expire

Spec == Init /\ [][Next]_vars

(* A live loop keeps polling and its requests end (they have timeouts); a  *)
(* request that updated an account goes on to mark it; time passes.  The   *)
(* administrator need do nothing.                                          *)
Fairness ==
    /\ \A c \in Owner : WF_vars(Collect(c))
    /\ \A p \in Admin : WF_vars(MarkDue(p))
    /\ WF_vars(Expire)

FairSpec == Spec /\ Fairness

-------------------------------------------------------------------------------
PendingMark(a) == \E p \in Admin : admin[p] = a

(* An enabled account whose last attempt was made under an older revision  *)
(* is queued, or the request that changed it is about to queue it: an      *)
(* answer for the old credential that comes in after the mark cannot       *)
(* swallow it by recording an attempt.  A crash may lose the mark; the     *)
(* next attempt, whenever the interval brings it, makes up for it.         *)
ChangeIsQueued ==
    \A a \in Account :
        Enabled(a) /\ snap[a].attempted /\ snap[a].rev # acct[a].rev
            => PendingMark(a) \/ a \in unmarked

(* Windows shown as fresh (success, not stale) were read with the          *)
(* account's present credential, or the mark that calls them stale is on   *)
(* its way or was lost in a crash, even when a credential is replaced and  *)
(* put back.                                                               *)
FreshMatchesCredential ==
    \A a \in Account :
        Enabled(a) /\ snap[a].status = "success" /\ ~snap[a].stale
            => \/ snap[a].windows = acct[a].cred
               \/ PendingMark(a) \/ a \in unmarked

(* The guard compares revisions only.  That is enough, because a job that  *)
(* has the account's revision has its credential.                          *)
JobsMatchRevision ==
    \A c \in Owner : \A j \in jobs[c] \cup {job[c]} :
        j # NoJob =>
            /\ j.rev <= acct[j.id].rev
            /\ j.rev = acct[j.id].rev => j.cred = acct[j.id].cred

(* The answer to a request never replaces what a later request for the     *)
(* same account has already stored, whoever lost the lease in between.     *)
NoStaleOverwrite ==
    [][\A c \in Owner :
          pc[c] = "checked" /\ snap'[job[c].id] # snap[job[c].id]
            /\ pc'[c] = "next" => c \notin outdated]_vars

(* README: failures keep the last good quota and mark it stale.  Windows   *)
(* are only ever replaced by a success, or deleted with their account.     *)
LastSuccessKept ==
    [][\A a \in Account :
          /\ snap[a].windows # NoCred /\ Live(a)'
          /\ snap'[a].status # "success"
          => snap'[a].windows = snap[a].windows /\ snap'[a].stale]_vars

(* README: a new, changed or re-enabled account is collected in the        *)
(* background: with that very revision, unless it is changed again,        *)
(* disabled or deleted first.                                              *)
EveryChangeCollected ==
    \A a \in Account : \A r \in 0..MaxRev :
        Enabled(a) /\ acct[a].rev = r
            ~> \/ snap[a].attempted /\ snap[a].rev = r
               \/ acct[a].rev # r \/ ~Live(a)
===============================================================================
