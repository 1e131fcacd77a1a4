------------------------------- MODULE UsageSync -------------------------------
(***************************************************************************)
(* OpenCode usage records: the incremental synchronization and the         *)
(* backfill of usage_sync.py, the periodic loop and the manual requests    *)
(* that run them (main.py), the records, totals and page watermark they    *)
(* leave in SQLite (db.py), and the administrator who creates, changes,    *)
(* tests and deletes the account meanwhile.                                *)
(*                                                                         *)
(* Upstream lists the records of a workspace from the newest to the        *)
(* oldest, PageSize a page, so that every new record moves all the others  *)
(* towards later pages.  Record <<s, n>> is the n-th of workspace s.  An   *)
(* account's credential is named by the workspace it is resolved to.       *)
(*                                                                         *)
(* Each database transaction is a step; a check with no write of its own   *)
(* goes with the read it follows.  A lease whose loss the heartbeat has    *)
(* noticed (SchedulerLease._lost) is a check that fails although the row   *)
(* is still there: with Faults any check may.                              *)
(***************************************************************************)
EXTENDS Lease, Integers, FiniteSets

CONSTANTS
    Account,    \* opencode account ids
    Space,      \* workspaces upstream
    Worker,     \* the periodic loops, one per process
    Request,    \* manual requests, each with a fresh owner id
    Process,    \* worker processes
    Home,       \* the process of each loop and request
    Mortal,     \* the processes that may crash
    NoAccount, NoSpace,
    PageSize,   \* USAGE_PAGE_SIZE
    MaxPages,   \* usage_sync.max_pages_per_incremental
    MaxBackfill,\* bound on the pages a backfill request asks for
    Most,       \* bound on the records of each workspace
    MaxRev,     \* bound on the revisions of one account
    Faults      \* leases lapse, requests and writes fail, loops are cancelled

ASSUME SyncAssumption ==
    /\ Owner = Worker \cup Request /\ Worker \cap Request = {}
    /\ Home \in [Owner -> Process] /\ Mortal \subseteq Process
    /\ NoAccount \notin Account /\ NoSpace \notin Space
    /\ PageSize \in Nat \ {0} /\ MaxPages \in Nat \ {0}
    /\ MaxBackfill \in Nat \ {0} /\ Most \in [Space -> Nat]
    /\ MaxRev \in Nat /\ Faults \in BOOLEAN

VARIABLES
    made,       \* upstream: how many records each workspace has
    acct,       \* opencode_accounts
    stored,     \* usage_records of each account
    sync,       \* usage_sync_state
    pc, due, run,   \* of each session
    walk        \* history: has incremental paging been carried to its end

sessionVars == <<pc, due, run>>
vars == <<leaseVars, made, acct, stored, sync, sessionVars, walk>>

Record == {r \in Space \X Nat : r[2] \in 1..Most[r[1]]}
Row == [id : Account, space : Space, rev : 0..MaxRev]
NoRow == [id |-> NoAccount, space |-> NoSpace, rev |-> 0]

(* A session's call of sync_usage_incremental or backfill_usage: the row   *)
(* it was given, the page it is at, the pages its loop has left, whether   *)
(* it has fetched any, the records of the page, the watermark it has read; *)
(* and as history, the records that were stored when it began.             *)
Run == [row : Row \cup {NoRow}, kind : {"sync", "backfill"}, page : Nat,
        left : Nat, some : BOOLEAN, records : SUBSET Record,
        deepest : Nat \cup {-1}, before : SUBSET Record]
NoRun == [row |-> NoRow, kind |-> "sync", page |-> 0, left |-> 0,
          some |-> FALSE, records |-> {}, deepest |-> -1, before |-> {}]

Writing == {"recording", "checked", "marking", "counting", "writing",
            "recounting", "failing"}
Checking == {"resolving", "inflight", "marking", "counting",
             "reading", "failing"}
Pc == {"idle", "listing", "next", "testing", "releasing", "dead"} \cup Writing \cup Checking

TypeOK ==
    /\ LeaseTypeOK
    /\ made \in [Space -> Nat] /\ \A s \in Space : made[s] <= Most[s]
    /\ acct \in [Account -> [state : {"new", "live", "deleted"},
                             enabled : BOOLEAN, space : Space, rev : 0..MaxRev,
                             resolved : Space \cup {NoSpace}]]
    /\ stored \in [Account -> SUBSET Record]
    /\ sync \in [Account -> [synced : BOOLEAN,
                             deepest : Nat \cup {-1}, total : Nat]]
    /\ pc \in [Owner -> Pc]
    /\ due \in [Owner -> SUBSET Account]
    /\ run \in [Owner -> Run]
    /\ walk \in [Account -> {"whole", "paging", "torn"}]

(* synced: last_sync_at is not NULL.  "ok" and "error" are not told apart. *)
EmptySync == [synced |-> FALSE, deepest |-> -1, total |-> 0]

Init ==
    /\ LeaseInit
    /\ made \in [Space -> UNION {0..Most[s] : s \in Space}]
    /\ \A s \in Space : made[s] <= Most[s]
    /\ acct \in [Account -> {[state |-> "new", enabled |-> FALSE, space |-> s,
                              rev |-> 0, resolved |-> NoSpace] : s \in Space}]
    /\ stored = [a \in Account |-> {}]
    /\ sync = [a \in Account |-> EmptySync]
    /\ pc = [o \in Owner |-> "idle"]
    /\ due = [o \in Owner |-> {}]
    /\ run = [o \in Owner |-> NoRun]
    /\ walk = [a \in Account |-> "whole"]

Live(a) == acct[a].state = "live"
Enabled(a) == Live(a) /\ acct[a].enabled
RowOf(a) == [id |-> a, space |-> acct[a].space, rev |-> acct[a].rev]

(* What usage_records has, of whichever account: usg_id is its key.        *)
Known == UNION {stored[a] : a \in Account}

-------------------------------------------------------------------------------
(* Upstream and the administrator.                                         *)

(* How far a record is from the newest, and the records of page p.         *)
Depth(r) == made[r[1]] - r[2]
Page(s, p) == {r \in {s} \X (1..made[s]) :
                  p * PageSize <= Depth(r) /\ Depth(r) < (p + 1) * PageSize}

Arrive(s) ==
    /\ made[s] < Most[s]
    /\ made' = [made EXCEPT ![s] = @ + 1]
    /\ UNCHANGED <<leaseVars, acct, stored, sync, sessionVars, walk>>

Create(a) ==
    /\ acct[a].state = "new"
    /\ \E en \in BOOLEAN :
          acct' = [acct EXCEPT ![a] = [@ EXCEPT !.state = "live", !.enabled = en]]
    /\ sync' = [sync EXCEPT ![a] = EmptySync]
    /\ UNCHANGED <<leaseVars, made, stored, sessionVars, walk>>

(* Mutation: a change of the source keeps the workspace resolved before.   *)
UpdateKeepsResolved(a) ==
    /\ Live(a) /\ acct[a].rev < MaxRev
    /\ \E s \in Space, en \in BOOLEAN :
          acct' = [acct EXCEPT ![a] =
                [@ EXCEPT !.space = s, !.enabled = en, !.rev = acct[a].rev + 1]]
    /\ UNCHANGED <<leaseVars, made, stored, sync, sessionVars, walk>>

(* update_opencode_account.  A new cookie or workspace forgets the         *)
(* resolved one; the records and the watermark of the old one stay.        *)
Update(a) ==
    /\ Live(a) /\ acct[a].rev < MaxRev
    /\ \E s \in Space, en \in BOOLEAN, cookie \in BOOLEAN :
        LET moved == cookie \/ s # acct[a].space
        IN  /\ moved \/ en # acct[a].enabled
            /\ acct' = [acct EXCEPT ![a] =
                    [@ EXCEPT !.space = s, !.enabled = en, !.rev = acct[a].rev + 1,
                              !.resolved = IF moved THEN NoSpace
                                           ELSE acct[a].resolved]]
            /\ walk' = [walk EXCEPT ![a] = IF s = acct[a].space THEN @ ELSE "torn"]
    /\ UNCHANGED <<leaseVars, made, stored, sync, sessionVars>>

(* Records and state go with the account (ON DELETE CASCADE).              *)
Delete(a) ==
    /\ Live(a)
    /\ acct' = [acct EXCEPT ![a] = [@ EXCEPT !.state = "deleted",
                                !.enabled = FALSE, !.resolved = NoSpace]]
    /\ stored' = [stored EXCEPT ![a] = {}]
    /\ sync' = [sync EXCEPT ![a] = EmptySync]
    /\ UNCHANGED <<leaseVars, made, sessionVars, walk>>

(* Mutation: the guard looks at enabled only.                              *)
SourceEnabled(row) == Enabled(row.id)

(* _validate_collection_guard: the revision, not the credential.           *)
SourceUnchanged(row) == Enabled(row.id) /\ acct[row.id].rev = row.rev

-------------------------------------------------------------------------------
(* The sessions.                                                           *)

(* _require_current_account                                                *)
Current(row) == SourceUnchanged(row) /\ acct[row.id].space = row.space

Goto(o, label) == pc' = [pc EXCEPT ![o] = label]

(* _usage_sync_lock: one session at a time in a process.                   *)
LockFree(o) ==
    /\ pc[o] = "idle"
    /\ \A p \in Owner : Home[p] = Home[o] => pc[p] \in {"idle", "testing"}

(* Mutation: at the watermark itself.                                      *)
StartAtWatermark(d) == d

(* Where a backfill goes on.                                               *)
StartPage(d) == IF d >= 0 THEN d + 1 ELSE 0

(* The workspace is known: the page loop begins.                           *)
EnterPages(o, r) ==
    /\ run' = [run EXCEPT ![o] =
            IF r.kind = "sync" THEN [r EXCEPT !.before = stored[r.row.id]]
            ELSE [r EXCEPT !.page = StartPage(sync[r.row.id].deepest)]]
    /\ Goto(o, "inflight")

(* The call for account a begins.  _ensure_workspace asks upstream only    *)
(* for a workspace the row does not have.                                  *)
Call(o, a, kind, pages) ==
    LET r == [NoRun EXCEPT !.row = RowOf(a), !.kind = kind, !.left = pages]
    IN  IF acct[a].resolved = NoSpace
        THEN run' = [run EXCEPT ![o] = r] /\ Goto(o, "resolving")
        ELSE EnterPages(o, r)

(* The call returns or raises: a loop goes on to its next account, a       *)
(* request to its finally block.                                           *)
EndCall(o) ==
    /\ run' = [run EXCEPT ![o] = NoRun]
    /\ Goto(o, IF o \in Worker THEN "next" ELSE "releasing")

(* UsageSyncInterrupted, cancellation: straight to the finally block.      *)
Stop(o) ==
    /\ run' = [run EXCEPT ![o] = NoRun]
    /\ due' = [due EXCEPT ![o] = {}]
    /\ Goto(o, "releasing")

Start(w) ==
    /\ w \in Worker /\ LockFree(w)
    /\ Grant(w)
    /\ Goto(w, "listing")
    /\ UNCHANGED <<made, acct, stored, sync, due, run, walk>>

(* The enabled accounts that were never synchronized, and any others       *)
(* whose interval may have passed; none when auto_sync is off.             *)
ListDue(w) ==
    /\ pc[w] = "listing"
    /\ \E d \in SUBSET {a \in Account : Enabled(a)} :
        /\ d = {} \/ {a \in Account : Enabled(a) /\ ~sync[a].synced} \subseteq d
        /\ due' = [due EXCEPT ![w] = d]
    /\ Goto(w, "next")
    /\ UNCHANGED <<leaseVars, made, acct, stored, sync, run, walk>>

Pick(w) ==
    /\ pc[w] = "next" /\ holder = w
    /\ \E a \in due[w] :
        /\ due' = [due EXCEPT ![w] = @ \ {a}]
        /\ IF Enabled(a) THEN Call(w, a, "sync", MaxPages)
                         ELSE UNCHANGED <<pc, run>>
    /\ UNCHANGED <<leaseVars, made, acct, stored, sync, walk>>

(* usage_sync and usage_backfill: a disabled account is refused by         *)
(* _require_current_account, once the lease is held.                       *)
Ask(q, a) ==
    /\ q \in Request /\ LockFree(q) /\ Live(a)
    /\ Grant(q)
    /\ IF Enabled(a)
       THEN \/ Call(q, a, "sync", MaxPages)
            \/ \E pages \in 1..MaxBackfill : Call(q, a, "backfill", pages)
       ELSE Goto(q, "releasing") /\ UNCHANGED run
    /\ UNCHANGED <<made, acct, stored, sync, due, walk>>

(* test_opencode_account takes neither lock nor lease: the row is read,     *)
(* upstream is asked, and what it says is recorded under the row's         *)
(* revision.  A workspace the row already has is not asked for, and its    *)
(* test changes nothing.                                                   *)
Test(q, a) ==
    /\ q \in Request /\ pc[q] = "idle"
    /\ Live(a) /\ acct[a].resolved = NoSpace
    /\ run' = [run EXCEPT ![q] = [NoRun EXCEPT !.row = RowOf(a)]]
    /\ Goto(q, "testing")
    /\ UNCHANGED <<leaseVars, made, acct, stored, sync, due, walk>>

TestAnswer(q) ==
    /\ pc[q] = "testing"
    /\ \/ /\ SourceUnchanged(run[q].row)
          /\ acct' = [acct EXCEPT ![run[q].row.id].resolved = run[q].row.space]
       \/ ~SourceUnchanged(run[q].row) /\ UNCHANGED acct
       \/ Faults /\ UNCHANGED acct
    /\ run' = [run EXCEPT ![q] = NoRun]
    /\ Goto(q, "idle")
    /\ UNCHANGED <<leaseVars, made, stored, sync, due, walk>>

(* _ensure_workspace, once upstream has answered.                          *)
Resolve(o) ==
    /\ pc[o] = "resolving" /\ holder = o
    /\ IF ~Current(run[o].row) THEN EndCall(o)
       ELSE IF acct[run[o].row.id].resolved = run[o].row.space
       THEN EnterPages(o, run[o])
       ELSE Goto(o, "recording") /\ UNCHANGED run
    /\ UNCHANGED <<leaseVars, made, acct, stored, sync, due, walk>>

RecordWorkspace(o) ==
    /\ pc[o] = "recording"
    /\ SourceUnchanged(run[o].row) /\ Commit(o)
    /\ acct' = [acct EXCEPT ![run[o].row.id].resolved = run[o].row.space]
    /\ EnterPages(o, run[o])
    /\ UNCHANGED <<made, stored, sync, due, walk>>

(* fetch_usage_page.  A page is in, and the lease and the account are      *)
(* looked at again: a lease that was gone before the request is gone now.  *)
(* An empty page ends the loop.                                            *)
Answer(o) ==
    /\ pc[o] = "inflight" /\ holder = o
    /\ LET row == run[o].row
           records == Page(row.space, run[o].page)
       IN  \/ /\ ~Current(row)
              /\ EndCall(o)
              /\ UNCHANGED walk
           \/ /\ Current(row) /\ records = {}
              /\ Goto(o, "counting")
              /\ walk' = [walk EXCEPT ![row.id] =
                    IF run[o].kind = "sync" /\ run[o].page > 0 /\ @ = "paging"
                    THEN "whole" ELSE @]
              /\ run' = [run EXCEPT ![o].left = 0]
           \/ /\ Current(row) /\ records # {}
              /\ run' = [run EXCEPT ![o] =
                    [@ EXCEPT !.records = records, !.some = TRUE]]
              /\ Goto(o, "checked")
              /\ UNCHANGED walk
    /\ UNCHANGED <<leaseVars, made, acct, stored, sync, due>>

(* On to the next page, or out of the loop.                                *)
Turn(o, last) ==
    LET r == run[o]
    IN  /\ run' = [run EXCEPT ![o] =
                IF last THEN [r EXCEPT !.left = 0, !.records = {}]
                ELSE [r EXCEPT !.page = r.page + 1, !.left = r.left - 1,
                               !.records = {}]]
        /\ Goto(o, IF last \/ r.left = 1 THEN "counting" ELSE "inflight")

Short(o) == Cardinality(run[o].records) < PageSize

(* The incremental loop has come down to what is stored already, or to the *)
(* end of the list.                                                        *)
ReachesKnown(o) == run[o].records \cap Known # {} \/ Short(o)

(* insert_usage_records_ignore.  A record another account has is ignored.  *)
Store(o) ==
    /\ pc[o] = "checked"
    /\ SourceUnchanged(run[o].row) /\ Commit(o)
    /\ stored' = [stored EXCEPT ![run[o].row.id] =
                        @ \cup (run[o].records \ Known)]

(* The walk down from the newest record has come to its end when it meets  *)
(* a record that was stored before it, or the end of the list.  It is torn *)
(* when its loop ends before that, at the page cap or because it meets     *)
(* what it has stored itself, when the one before it never came to its     *)
(* end, or when it meets another account's records.                        *)
ComesToEnd(o) == Short(o) \/ run[o].records \cap run[o].before # {}

Walked(o) ==
    LET a == run[o].row.id
    IN  IF \/ walk[a] = "torn"
           \/ walk[a] = "paging" /\ run[o].page = 0
           \/ run[o].records \cap (Known \ stored[a]) # {}
        THEN "torn"
        ELSE IF ComesToEnd(o) THEN "whole"
        ELSE IF ReachesKnown(o) \/ run[o].left = 1 THEN "torn" ELSE "paging"

InsertNewest(o) ==
    /\ run[o].kind = "sync"
    /\ Store(o)
    /\ Turn(o, ReachesKnown(o))
    /\ walk' = [walk EXCEPT ![run[o].row.id] = Walked(o)]
    /\ UNCHANGED <<made, acct, sync, due>>

InsertEarlier(o) ==
    /\ run[o].kind = "backfill"
    /\ Store(o)
    /\ Goto(o, "marking")
    /\ walk' = [walk EXCEPT ![run[o].row.id] =
            IF run[o].records \cap (Known \ stored[run[o].row.id]) # {}
            THEN "torn" ELSE @]
    /\ UNCHANGED <<made, acct, sync, due, run>>

(* Mutation: the watermark names the page to fetch next.                   *)
MarkNextPage(o) ==
    /\ pc[o] = "marking"
    /\ SourceUnchanged(run[o].row) /\ Commit(o)
    /\ sync' = [sync EXCEPT ![run[o].row.id].deepest = run[o].page + 1]
    /\ Turn(o, Short(o))
    /\ UNCHANGED <<made, acct, stored, due, walk>>

(* The backfill moves the watermark page by page.                          *)
MarkPage(o) ==
    /\ pc[o] = "marking"
    /\ SourceUnchanged(run[o].row) /\ Commit(o)
    /\ sync' = [sync EXCEPT ![run[o].row.id].deepest = run[o].page]
    /\ Turn(o, Short(o))
    /\ UNCHANGED <<made, acct, stored, due, walk>>

(* refresh_usage_sync_totals                                               *)
Count(o) ==
    /\ SourceUnchanged(run[o].row) /\ Commit(o)
    /\ sync' = [sync EXCEPT ![run[o].row.id].total =
                        Cardinality(stored[run[o].row.id])]
    /\ UNCHANGED <<made, acct, stored, due, walk>>

CountFirst(o) ==
    /\ pc[o] = "counting"
    /\ Count(o)
    /\ IF run[o].kind = "sync"
       THEN Goto(o, "reading") /\ run' = [run EXCEPT ![o].before = {}]
       ELSE Goto(o, "writing") /\ run' = [run EXCEPT ![o].page = 0,
                                                    ![o].some = FALSE]

(* Mutation: the page is taken as it is.                                   *)
WatermarkOfRun(r, d) == IF r.some THEN r.page ELSE d

(* The new watermark, from the one that was read.                          *)
Watermark(r, d) == IF r.some /\ r.page > d THEN r.page ELSE d

ReadState(o) ==
    /\ pc[o] = "reading" /\ holder = o
    /\ run' = [run EXCEPT ![o] =
            [NoRun EXCEPT !.row = run[o].row,
                !.deepest = Watermark(run[o], sync[run[o].row.id].deepest)]]
    /\ Goto(o, "writing")
    /\ UNCHANGED <<leaseVars, made, acct, stored, sync, due, walk>>

WriteOk(o) ==
    /\ pc[o] = "writing"
    /\ SourceUnchanged(run[o].row) /\ Commit(o)
    /\ sync' = [sync EXCEPT ![run[o].row.id] =
            IF run[o].kind = "sync"
            THEN [@ EXCEPT !.synced = TRUE, !.deepest = run[o].deepest]
            ELSE [@ EXCEPT !.synced = TRUE]]
    /\ IF run[o].kind = "sync"
       THEN Goto(o, "recounting") /\ run' = [run EXCEPT ![o].deepest = -1]
       ELSE EndCall(o)
    /\ UNCHANGED <<made, acct, stored, due, walk>>

CountAgain(o) ==
    /\ pc[o] = "recounting"
    /\ Count(o)
    /\ EndCall(o)

(* except Exception: the failure is noted under the same guard; the totals *)
(* are left as they were.                                                  *)
NoteFailure(o) ==
    /\ pc[o] = "failing" /\ holder = o
    /\ SourceUnchanged(run[o].row) /\ Commit(o)
    /\ sync' = [sync EXCEPT ![run[o].row.id].synced = TRUE]
    /\ EndCall(o)
    /\ UNCHANGED <<made, acct, stored, due, walk>>

(* CollectionGuardRejected: the source is looked at first.                 *)
Reject(o) ==
    /\ pc[o] \in Writing
    /\ \/ ~SourceUnchanged(run[o].row) /\ EndCall(o) /\ UNCHANGED due
       \/ SourceUnchanged(run[o].row) /\ holder # o /\ Stop(o)
    /\ UNCHANGED <<leaseVars, made, acct, stored, sync, walk>>

(* _require_continuation fails.                                            *)
Interrupt(o) ==
    /\ \/ pc[o] \in Checking
       \/ pc[o] = "writing" /\ run[o].kind = "backfill"
       \/ pc[o] = "next" /\ due[o] # {}
    /\ holder # o \/ Faults
    /\ Stop(o)
    /\ UNCHANGED <<leaseVars, made, acct, stored, sync, walk>>

(* Upstream answers with an error, or SQLite raises; so may the note.      *)
Fail(o) ==
    /\ Faults
    /\ \/ /\ pc[o] \in (Writing \cup {"resolving", "inflight", "reading"})
                            \ {"failing"}
          /\ Goto(o, "failing")
          /\ run' = [run EXCEPT ![o] = [NoRun EXCEPT !.row = run[o].row]]
       \/ pc[o] = "failing" /\ EndCall(o)
    /\ UNCHANGED <<leaseVars, made, acct, stored, sync, due, walk>>

(* The settings are saved and restart_usage_sync_task cancels the loop at  *)
(* an await; or the cycle itself fails.                                    *)
Cancel(w) ==
    /\ Faults /\ w \in Worker
    /\ pc[w] \in {"listing", "next", "resolving", "inflight"}
    /\ Stop(w)
    /\ UNCHANGED <<leaseVars, made, acct, stored, sync, walk>>

Done(w) ==
    /\ pc[w] = "next" /\ due[w] = {}
    /\ Stop(w)
    /\ UNCHANGED <<leaseVars, made, acct, stored, sync, walk>>

Release(o) ==
    /\ pc[o] = "releasing"
    /\ Leave(o)
    /\ Goto(o, "idle")
    /\ UNCHANGED <<made, acct, stored, sync, due, run, walk>>

(* Without Faults a lease lapses only when its session is over: the        *)
(* theorem LeaseKept about SchedulerLease.                                 *)
Expire ==
    /\ Faults \/ holder \notin inside
    /\ Lapse
    /\ UNCHANGED <<made, acct, stored, sync, sessionVars, walk>>

(* A process dies with its session; a new one has a new owner id.          *)
Crash(h) ==
    LET gone == {o \in Owner : Home[o] = h}
    IN  /\ h \in Mortal /\ \E o \in gone : pc[o] # "dead"
        /\ pc' = [o \in Owner |-> IF o \in gone THEN "dead" ELSE pc[o]]
        /\ due' = [o \in Owner |-> IF o \in gone THEN {} ELSE due[o]]
        /\ run' = [o \in Owner |-> IF o \in gone THEN NoRun ELSE run[o]]
        /\ inside' = inside \ gone /\ committed' = committed \ gone
        /\ UNCHANGED <<holder, made, acct, stored, sync, walk>>

-------------------------------------------------------------------------------
Session(o) ==
    \/ Start(o) \/ ListDue(o) \/ Pick(o) \/ Resolve(o) \/ RecordWorkspace(o)
    \/ Answer(o) \/ InsertNewest(o) \/ InsertEarlier(o)
    \/ MarkPage(o) \/ CountFirst(o) \/ ReadState(o) \/ WriteOk(o)
    \/ CountAgain(o) \/ NoteFailure(o) \/ Reject(o) \/ Interrupt(o)
    \/ Fail(o) \/ Cancel(o) \/ Done(o) \/ Release(o)

Next ==
    \/ \E s \in Space : Arrive(s)
    \/ \E a \in Account : Create(a) \/ Update(a) \/ Delete(a)
    \/ \E o \in Owner :
          \/ Session(o) \/ TestAnswer(o)
          \/ \E a \in Account : Ask(o, a) \/ Test(o, a)
    \/ \E h \in Process : Crash(h)
    \/ Expire

Spec == Init /\ [][Next]_vars

-------------------------------------------------------------------------------
(* A record that is missing will still be fetched: it is newer than every  *)
(* stored one, so that the next incremental synchronization walks over it, *)
(* or it is on a page the backfill has yet to come to.                     *)
StillFetchable(a, r) ==
    \/ \A q \in stored[a] : q[1] = r[1] => q[2] < r[2]
    \/ Depth(r) >= StartPage(sync[a].deepest) * PageSize

Missing(a) == {r \in {acct[a].space} \X (1..made[acct[a].space]) : r \notin Known}

(* Sessions that lose their lease, requests and writes that fail and       *)
(* backfills that stop half-way, whatever arrives meanwhile, open no gap   *)
(* between the two; only an incremental walk that ends early does, or a    *)
(* change of workspace, or another account of the same one (usage_sync.py  *)
(* 138-169, 264-302).                                                      *)
NoGap ==
    \A a \in Account : Live(a) /\ walk[a] = "whole"
        => \A r \in Missing(a) : StillFetchable(a, r)

(* The console's "fetch earlier" can bring in whatever the incremental     *)
(* synchronizations, once they are done, have left out: it goes on from    *)
(* deepest_page_fetched.                                                   *)
EarlierIsFetchable ==
    inside = {} => \A a \in Account : Live(a) =>
        \A r \in Missing(a) : StillFetchable(a, r)

(* What is counted is what is stored, from the count to the "ok" that      *)
(* vouches for it: nobody else inserts for the account in between.         *)
TotalsCount ==
    \A o \in Owner :
        /\ pc[o] \in {"reading", "writing"}
        /\ holder = o /\ SourceUnchanged(run[o].row)
        => sync[run[o].row.id].total = Cardinality(stored[run[o].row.id])

(* The workspace on record is the one the present credential leads to,     *)
(* whoever resolved it and however late the answer came.                   *)
ResolvedIsCurrent ==
    \A a \in Account : acct[a].resolved \in {NoSpace, acct[a].space}

(* A record is inserted only for an enabled account, and only from the     *)
(* workspace the account is set to at that moment.                         *)
RecordsOfConfiguration ==
    [][\A a \in Account : \A r \in stored'[a] \ stored[a] :
          Enabled(a) /\ r[1] = acct[a].space]_vars

(* The watermark is read in one transaction and written in another, yet it *)
(* never goes back while the account lives.                                *)
WatermarkNeverFalls ==
    [][\A a \in Account :
          Live(a)' => sync'[a].deepest >= sync[a].deepest]_vars
===============================================================================
