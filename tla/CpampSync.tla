------------------------------- MODULE CpampSync -------------------------------
(***************************************************************************)
(* Collection of CPAMP quota snapshots (quota_sync.collect_cpamp_channel,  *)
(* cpamp_quota.py, db.py): discovery through auth-files, readings from its *)
(* quota signals, from the snapshot query or from header snapshots, and    *)
(* the rows of cpa_accounts and cpa_quota_snapshots they end in.           *)
(*                                                                         *)
(* The model follows one auth file of one channel.  Upstream an account    *)
(* sits behind the file at each moment; a reading is known by the moment   *)
(* of its observation.  An account is stored under its identity, or under  *)
(* the file itself (Locator) when only header snapshots tell of it.        *)
(* Readings, not their percentages, are followed; of text there is none.   *)
(***************************************************************************)
EXTENDS Naturals

CONSTANTS
    Identity,   \* canonical accounts that may sit behind the file
    Locator,    \* the file's own key, for an account that has no other
    Nobody,     \* an empty file, an unknown subject
    Worker,     \* background cycles, one per process
    Refresher,  \* manual refreshes, each session with a fresh owner id
    NoOwner,
    Mortal,     \* the collectors whose process may crash
    MaxTime, MaxAge,    \* moments; the age from which a reading is stale
    MaxEp, MaxCol,      \* bounds on the endpoint and collection revisions
    Faults      \* leases lapse under live sessions, database writes fail

Owner == Worker \cup Refresher
Key == Identity \cup {Locator}
Subject == Identity \cup {Nobody}
Time == 0..MaxTime
Gen == 1..MaxEp

ASSUME CpampAssumption ==
    /\ Worker \cap Refresher = {} /\ NoOwner \notin Owner
    /\ Mortal \subseteq Owner
    /\ Locator \notin Identity /\ Nobody \notin Key
    /\ MaxTime \in Nat \ {0} /\ MaxAge \in Nat /\ MaxEp \in Nat \ {0}
    /\ MaxCol \in Nat /\ Faults \in BOOLEAN

VARIABLES
    now, past,  \* the moment, and who sat behind the file at each one
    chan,       \* the row of cpa_channels
    accts,      \* cpa_accounts
    rows,       \* cpa_quota_snapshots, by endpoint revision and key
    holder,     \* of the quota lease (module Lease), or NoOwner
    pc, job,    \* of each collector's session
    since,      \* history: rows written since the last discovery or attempt
                \* that made all of them stale
    found       \* history: the account of the last discovery, while it counts

upstream == <<now, past>>
tables == <<chan, accts, rows>>
history == <<since, found>>
vars == <<holder, upstream, tables, pc, job, history>>

Channel == [live : BOOLEAN, enabled : BOOLEAN, selected : BOOLEAN,
            eprev : Gen, colrev : 0..MaxCol,
            fresh : {"never", "fresh", "stale"}]
Acct == [state : {"none", "hidden", "shown"}, sub : Subject]

(* at is observed_at, 0 while last_success_at is NULL; floor is            *)
(* accept_observed_after; loc says that locator_hash is set; from is       *)
(* history: the endpoint revision the windows were asked for under.        *)
Row == [here : BOOLEAN, shown : BOOLEAN, at : Time, floor : Time,
        stale : BOOLEAN, loc : BOOLEAN, sub : Subject, from : 0..MaxEp]
NoAcct == [state |-> "none", sub |-> Nobody]
NoRow == [here |-> FALSE, shown |-> FALSE, at |-> 0, floor |-> 0,
          stale |-> FALSE, loc |-> FALSE, sub |-> Nobody, from |-> 0]

(* rev and ep are the row's revisions when the session read it, listed     *)
(* says that auth-files were read, t is a reading and old its stale flag   *)
(* (t = 0: none, or a failure), gen what the check before a write read.    *)
Job == [rev : 0..MaxCol, ep : Gen, listed : BOOLEAN, key : Key \cup {Nobody},
        sub : Subject, t : Time, old : BOOLEAN, gen : Gen, fresh : BOOLEAN]
NoJob == [rev |-> 0, ep |-> 1, listed |-> FALSE, key |-> Nobody,
          sub |-> Nobody, t |-> 0, old |-> FALSE, gen |-> 1, fresh |-> FALSE]

Asking == {"discovering", "querying", "headers"}
Writing == {"prepare", "screen", "store", "attempt", "failed"}
Pc == {"idle", "found", "answered", "failing", "releasing", "dead"}
        \cup Asking \cup Writing

TypeOK ==
    /\ holder \in Owner \cup {NoOwner}
    /\ now \in 1..MaxTime /\ past \in [1..MaxTime -> Subject]
    /\ chan \in Channel
    /\ accts \in [Key -> Acct]
    /\ rows \in [Gen -> [Key -> Row]]
    /\ pc \in [Owner -> Pc] /\ job \in [Owner -> Job]
    /\ since \subseteq Gen \X Key /\ found \in Key \cup {Nobody}

Init ==
    /\ holder = NoOwner
    /\ now = 1
    /\ past \in [1..MaxTime -> Subject]
    /\ \A t \in 2..MaxTime : past[t] = Nobody
    /\ chan \in [live : {TRUE}, enabled : {TRUE}, selected : BOOLEAN,
                 eprev : {1}, colrev : {0}, fresh : {"never"}]
    /\ accts = [k \in Key |-> NoAcct]
    /\ rows = [g \in Gen |-> [k \in Key |-> NoRow]]
    /\ pc = [c \in Owner |-> "idle"]
    /\ job = [c \in Owner |-> NoJob]
    /\ since = {} /\ found = Nobody

(* Upstream, somebody else may now sit behind the file.                    *)
Tick ==
    /\ now < MaxTime
    /\ now' = now + 1
    /\ \E who \in Subject : past' = [past EXCEPT ![now + 1] = who]
    /\ UNCHANGED <<holder, tables, pc, job, history>>

-------------------------------------------------------------------------------
(* The administrator.                                                      *)

Hidden(a) == [state |-> IF a.state = "none" THEN "none" ELSE "hidden",
              sub |-> a.sub]
HideAccounts == [k \in Key |-> Hidden(accts[k])]

(* Mutation: an endpoint that is not selected is not counted.              *)
UpdateUncounted ==
    /\ chan.live
    /\ \E moved \in BOOLEAN, en \in BOOLEAN :
        LET chosen == moved /\ chan.selected
            switched == en # chan.enabled
        IN  /\ moved \/ switched
            /\ chan' = [chan EXCEPT
                    !.enabled = en,
                    !.eprev = IF moved THEN @ + 1 ELSE @,
                    !.colrev = IF switched THEN @ + 1 ELSE @]
            /\ chan'.eprev <= MaxEp /\ chan'.colrev <= MaxCol
            /\ accts' = IF chosen THEN HideAccounts ELSE accts
            /\ found' = IF chosen THEN Nobody ELSE found
    /\ UNCHANGED <<holder, upstream, rows, pc, job, since>>

(* update_cpa_channel: a new CPAMP endpoint begins a generation of rows;   *)
(* it counts as a change of the collection only while CPAMP is selected.   *)
Update ==
    /\ chan.live
    /\ \E moved \in BOOLEAN, en \in BOOLEAN :
        LET chosen == moved /\ chan.selected
            switched == en # chan.enabled
        IN  /\ moved \/ switched
            /\ chan' = [chan EXCEPT
                    !.enabled = en,
                    !.eprev = IF moved THEN @ + 1 ELSE @,
                    !.colrev = IF chosen \/ switched THEN @ + 1 ELSE @]
            /\ chan'.eprev <= MaxEp /\ chan'.colrev <= MaxCol
            /\ accts' = IF chosen THEN HideAccounts ELSE accts
            /\ found' = IF chosen THEN Nobody ELSE found
    /\ UNCHANGED <<holder, upstream, rows, pc, job, since>>

(* set_cpa_quota_source, to or from the CPAMP snapshots.                   *)
SetSource ==
    /\ chan.live /\ chan.colrev < MaxCol
    /\ chan' = [chan EXCEPT !.selected = ~@, !.colrev = @ + 1]
    /\ accts' = HideAccounts
    /\ found' = Nobody
    /\ UNCHANGED <<holder, upstream, rows, pc, job, since>>

(* Mutation: the state of an account is written in place of the channel's. *)
OutdatedHidden(status) == IF status = "never" THEN "never" ELSE "hidden"

Outdated(status) == IF status = "never" THEN "never" ELSE "stale"

(* mark_cpa_channel_due, a transaction of its own that an update or a      *)
(* change of source goes on to; CpaChannel follows the request.            *)
Mark ==
    /\ chan.live
    /\ chan' = [chan EXCEPT !.fresh = Outdated(@)]
    /\ UNCHANGED <<holder, upstream, accts, rows, pc, job, history>>

(* The accounts and the rows go with the channel's (ON DELETE CASCADE).    *)
Delete ==
    /\ chan.live
    /\ chan' = [chan EXCEPT !.live = FALSE]
    /\ accts' = [k \in Key |-> NoAcct]
    /\ rows' = [g \in Gen |-> [k \in Key |-> NoRow]]
    /\ since' = {} /\ found' = Nobody
    /\ UNCHANGED <<holder, upstream, pc, job>>

-------------------------------------------------------------------------------
(* A collector's session.                                                  *)

Goto(c, label) == pc' = [pc EXCEPT ![c] = label]

(* What the rest of the session does not use is forgotten.                 *)
Last(c, fresh) ==
    job' = [job EXCEPT ![c] =
        [NoJob EXCEPT !.rev = job[c].rev, !.ep = job[c].ep, !.fresh = fresh]]

(* _current_cpamp_channel                                                  *)
Current(c) ==
    /\ chan.live /\ chan.enabled /\ chan.selected
    /\ chan.colrev = job[c].rev /\ chan.eprev = job[c].ep

(* Mutation: the guard does not compare the revision.                      *)
SourceAlive(c) == chan.live /\ chan.enabled

(* _validate_collection_guard: the source, then the lease.                 *)
SourceUnchanged(c) == chan.live /\ chan.enabled /\ chan.colrev = job[c].rev

Guarded(c) == SourceUnchanged(c) /\ holder = c

(* The background cycle lists enabled channels of this source; a manual    *)
(* refresh reads the row again after it has the lease, whatever it says.   *)
Start(c) ==
    /\ pc[c] = "idle" /\ chan.live
    /\ c \in Worker => chan.enabled /\ chan.selected
    /\ holder = NoOwner \/ (c \in Worker /\ holder = c)
    /\ holder' = c
    /\ job' = [job EXCEPT ![c] =
            [NoJob EXCEPT !.rev = chan.colrev, !.ep = chan.eprev]]
    /\ Goto(c, "discovering")
    /\ UNCHANGED <<upstream, tables, history>>

(* A lost lease may be noticed before every request and write.             *)
LeaseLost(c) ==
    /\ Faults \/ holder # c
    /\ pc[c] \in {"discovering", "found", "querying", "headers", "answered",
                  "screen", "attempt", "failing"}
    /\ Goto(c, "releasing") /\ Last(c, FALSE)
    /\ UNCHANGED <<holder, upstream, tables, history>>

(* discover_cpamp_accounts: who is behind the file now, perhaps with the   *)
(* signals of an earlier moment of the same account.                       *)
Discovered(c) ==
    /\ pc[c] = "discovering"
    /\ LET who == past[now]
           signals == {t \in 1..now : past[t] = who /\ who # Nobody}
       IN  \E t \in {0} \cup signals :
              job' = [job EXCEPT ![c] =
                    [@ EXCEPT !.listed = TRUE, !.key = who, !.sub = who,
                              !.t = t, !.old = t # 0 /\ now > t + MaxAge]]
    /\ Goto(c, "found")
    /\ UNCHANGED <<holder, upstream, tables, history>>

(* list_cpamp_snapshot_identities: what is shown of this generation.       *)
Stored == {k \in Key : /\ rows[chan.eprev][k].shown
                       /\ rows[chan.eprev][k].loc}

(* Any error but a refused key: the accounts known from before are used.   *)
DiscoveryFails(c) ==
    /\ pc[c] = "discovering"
    /\ \/ Stored = {} /\ UNCHANGED job
       \/ \E k \in Stored :
            job' = [job EXCEPT ![c] =
                    [@ EXCEPT !.key = k, !.sub = rows[chan.eprev][k].sub]]
    /\ Goto(c, "found")
    /\ UNCHANGED <<holder, upstream, tables, history>>

(* The management key is refused, or headers cannot be had.                *)
RequestFails(c) ==
    /\ pc[c] \in Asking
    /\ Goto(c, "failing") /\ Last(c, FALSE)
    /\ UNCHANGED <<holder, upstream, tables, history>>

(* After an answer: _require_lease, then is it still the same channel?     *)
Recheck(c) ==
    /\ pc[c] \in {"found", "answered", "failing"} /\ holder = c
    /\ Goto(c, IF ~Current(c) THEN "releasing"
               ELSE CASE pc[c] = "failing" -> "failed"
                      [] pc[c] = "found" ->
                            IF job[c].listed THEN "prepare" ELSE "headers"
                      [] pc[c] = "answered" /\ job[c].t # 0 ->
                            IF job[c].listed THEN "screen" ELSE "prepare"
                      [] pc[c] = "answered" /\ job[c].t = 0 ->
                            IF job[c].listed THEN "attempt" ELSE "failing")
    /\ UNCHANGED <<holder, upstream, tables, job, history>>

Reading(c, key, sub, t, old) ==
    job' = [job EXCEPT ![c] =
        [@ EXCEPT !.key = key, !.sub = sub, !.t = t, !.old = old]]

(* query_cpamp_snapshots_batch: whatever CPAMP has kept for the file; it   *)
(* says itself whether a reading is stale.  404 and 405 lead to the header *)
(* snapshots, any other error is recorded with the account.                *)
Queried(c) ==
    /\ pc[c] = "querying"
    /\ \/ /\ \E t \in 1..now, old \in BOOLEAN :
                /\ past[t] # Nobody
                /\ Reading(c, job[c].key, job[c].sub, t, old)
          /\ Goto(c, "answered")
       \/ Goto(c, "answered") /\ UNCHANGED job
       \/ Goto(c, "headers") /\ UNCHANGED job
       \/ Goto(c, "screen") /\ UNCHANGED job
    /\ UNCHANGED <<holder, upstream, tables, history>>

(* parse_cpamp_header_items: a header of another name than the listed      *)
(* account is skipped; without a list it goes to the account known for the *)
(* file, and else to an account made up for it.  An old one is stale, and  *)
(* so may be one whose windows have all ended.                             *)
Headers(c) ==
    /\ pc[c] = "headers"
    /\ \/ Goto(c, "answered") /\ UNCHANGED job
       \/ /\ \E t \in 1..now, old \in BOOLEAN, named \in BOOLEAN :
                LET who == IF named THEN past[t] ELSE Nobody
                    known == job[c].key # Nobody
                IN  /\ past[t] # Nobody
                    /\ job[c].listed /\ named => who = job[c].key
                    /\ now > t + MaxAge => old
                    /\ IF known THEN Reading(c, job[c].key, job[c].sub, t, old)
                                ELSE Reading(c, Locator, who, t, old)
          /\ Goto(c, "answered")
    /\ UNCHANGED <<holder, upstream, tables, history>>

-------------------------------------------------------------------------------
(* Discovery is written: prepare_cpa_channel_discovery.                    *)

Compatible(x, y) == x = Nobody \/ y = Nobody \/ x = y
Or(sub, kept) == IF sub # Nobody THEN sub ELSE kept

(* An account first kept under the file takes its identity's key.          *)
Renames(j) ==
    /\ j.listed /\ accts[j.key].state = "none"
    /\ accts[Locator].state # "none" /\ Compatible(accts[Locator].sub, j.sub)

(* _upsert_cpa_account: the key itself, or else the account that has the   *)
(* subject (never more than one here).                                     *)
Canonical(j) ==
    LET twins == {k \in Key : accts[k].state # "none" /\ accts[k].sub = j.sub}
    IN  IF \/ accts[j.key].state # "none" \/ Renames(j)
           \/ j.sub = Nobody \/ twins = {}
        THEN j.key ELSE CHOOSE k \in twins : TRUE

AccountsFound(j) ==
    [k \in Key |->
        CASE k = Canonical(j) ->
                [state |-> "shown",
                 sub |-> Or(j.sub, IF Renames(j) THEN accts[Locator].sub
                                                 ELSE accts[k].sub)]
          [] k # Canonical(j) /\ k = Locator /\ Renames(j) -> NoAcct
          [] OTHER -> Hidden(accts[k])]

(* Mutation: a hidden row keeps its stale flag.                            *)
HiddenRowAsItWas(r) == [r EXCEPT !.shown = FALSE]

HiddenRow(r) == [r EXCEPT !.shown = FALSE, !.stale = @ \/ r.at # 0]

(* The row kept under the file before its account was known.               *)
Legacy(j) ==
    /\ j.listed /\ Canonical(j) # Locator
    /\ rows[chan.eprev][Locator].here
    /\ Compatible(rows[chan.eprev][Locator].sub, j.sub)

(* A row shown until now, of the same file but of another account.         *)
Replaces(j) ==
    \E g \in Gen : \E k \in Key :
        LET r == rows[g][k]
            byFile == /\ g = chan.eprev /\ k = Locator
                      /\ j.listed /\ Canonical(j) # Locator
        IN  /\ r.shown /\ (r.loc \/ byFile)
            /\ IF byFile THEN ~Compatible(r.sub, j.sub) ELSE k # Canonical(j)

(* Its row: its own; or the one kept under the file; or a new one, with a  *)
(* barrier if it replaces another account.                                 *)
RowFound(j) ==
    LET own == rows[chan.eprev][Canonical(j)]
        base == CASE own.here /\ ~Replaces(j) -> HiddenRow(own)
                  [] ~(own.here /\ ~Replaces(j)) /\ Legacy(j) ->
                        HiddenRow(rows[chan.eprev][Locator])
                  [] OTHER -> [NoRow EXCEPT !.floor =
                                    IF Replaces(j) THEN now ELSE 0]
    IN  [base EXCEPT !.here = TRUE, !.shown = TRUE, !.loc = TRUE,
                     !.sub = Or(j.sub, @)]

RowsFound(j) ==
    [g \in Gen |-> [k \in Key |->
        CASE g = chan.eprev /\ k = Canonical(j) -> RowFound(j)
          [] g = chan.eprev /\ k # Canonical(j) /\ k = Locator /\ Legacy(j) -> NoRow
          [] OTHER -> HiddenRow(rows[g][k])]]

(* Everything is hidden, and what was found is shown again.  Then: its     *)
(* signals or headers are stored, or it is asked for.                      *)
Prepare(c) ==
    /\ pc[c] = "prepare" /\ Guarded(c)
    /\ IF job[c].key = Nobody
       THEN /\ accts' = HideAccounts
            /\ rows' = [g \in Gen |-> [k \in Key |-> HiddenRow(rows[g][k])]]
            /\ found' = Nobody
            /\ Goto(c, "attempt")
       ELSE /\ accts' = AccountsFound(job[c])
            /\ rows' = RowsFound(job[c])
            /\ found' = Canonical(job[c])
            /\ Goto(c, IF job[c].t = 0 THEN "querying"
                       ELSE IF job[c].listed THEN "answered" ELSE "screen")
    /\ since' = {}
    /\ UNCHANGED <<holder, upstream, chan, job>>

-------------------------------------------------------------------------------
(* A reading is written: record_cpamp_quota_snapshot, which looks at the   *)
(* row in a transaction of its own and then writes in a guarded one.       *)

(* Mutation: the barrier is not looked at.                                 *)
RefusedIfOlder(r, t) == r.here /\ r.at # 0 /\ t < r.at

Refused(r, t) == r.here /\ (t < r.floor \/ (r.at # 0 /\ t < r.at))

(* Mutation: a refused reading counts as a fresh one.                      *)
ScreenCounted(c) ==
    /\ pc[c] = "screen" /\ holder = c
    /\ IF job[c].t # 0 /\ Refused(rows[chan.eprev][job[c].key], job[c].t)
       THEN Goto(c, "attempt") /\ Last(c, ~job[c].old)
       ELSE Goto(c, "store") /\ job' = [job EXCEPT ![c].gen = chan.eprev]
    /\ UNCHANGED <<holder, upstream, tables, history>>

(* A refused reading is discarded; the batch has succeeded nevertheless.   *)
Screen(c) ==
    /\ pc[c] = "screen" /\ holder = c
    /\ IF job[c].t # 0 /\ Refused(rows[chan.eprev][job[c].key], job[c].t)
       THEN Goto(c, "attempt") /\ Last(c, FALSE)
       ELSE Goto(c, "store") /\ job' = [job EXCEPT ![c].gen = chan.eprev]
    /\ UNCHANGED <<holder, upstream, tables, history>>

(* record_cpa_quota_snapshot for a success: an equal observation keeps the *)
(* windows and says how fresh they are; a newer one replaces them.         *)
RowRead(r, j) ==
    IF Refused(r, j.t) THEN r
    ELSE IF r.here /\ r.at = j.t
         THEN [r EXCEPT !.shown = TRUE, !.stale = j.old]
         ELSE [r EXCEPT !.here = TRUE, !.shown = TRUE, !.at = j.t,
                        !.stale = j.old, !.from = j.ep]

(* ... and for a failure: the windows stay and are stale.                  *)
RowFailed(r) ==
    [r EXCEPT !.here = TRUE, !.shown = TRUE, !.stale = r.at # 0]

(* The row is shown again in either case, and its account is.              *)
Store(c) ==
    /\ pc[c] = "store" /\ Guarded(c)
    /\ LET j == job[c]
           r == rows[j.gen][j.key]
           ok == j.t # 0
       IN  /\ accts' = [accts EXCEPT ![j.key] =
                            [state |-> "shown", sub |-> accts[j.key].sub]]
           /\ rows' = [rows EXCEPT ![j.gen] =
                [rows[j.gen] EXCEPT ![j.key] =
                    IF ok THEN RowRead(r, j) ELSE RowFailed(r)]]
           /\ since' = IF ok /\ ~j.old THEN since \cup {<<j.gen, j.key>>} ELSE since
           /\ Last(c, ok /\ ~j.old)
           /\ Goto(c, IF ok THEN "attempt" ELSE "failing")
    /\ UNCHANGED <<holder, upstream, chan, found>>

AllOutdated ==
    [g \in Gen |-> [k \in Key |->
        [rows[g][k] EXCEPT !.stale = rows[g][k].at # 0]]]

(* record_cpamp_channel_attempt: nothing fresh was written, so the channel *)
(* and all its rows are stale.                                             *)
Attempt(c) ==
    /\ pc[c] = "attempt" /\ Guarded(c)
    /\ chan' = [chan EXCEPT !.fresh = IF job[c].fresh THEN "fresh" ELSE "stale"]
    /\ IF job[c].fresh THEN UNCHANGED <<rows, since>>
                       ELSE rows' = AllOutdated /\ since' = {}
    /\ Goto(c, "releasing") /\ Last(c, FALSE)
    /\ UNCHANGED <<holder, upstream, accts, found>>

FailAttempt(c) ==
    /\ pc[c] = "failed" /\ Guarded(c)
    /\ chan' = [chan EXCEPT !.fresh = Outdated(@)]
    /\ rows' = AllOutdated /\ since' = {}
    /\ Goto(c, "releasing")
    /\ UNCHANGED <<holder, upstream, accts, job, found>>

(* CollectionGuardRejected.                                                *)
Rejected(c) ==
    /\ pc[c] \in Writing \ {"screen"}
    /\ ~SourceUnchanged(c) \/ holder # c
    /\ Goto(c, "releasing") /\ Last(c, FALSE)
    /\ UNCHANGED <<holder, upstream, tables, history>>

(* The database is locked: the attempt has failed, or cannot say so.       *)
WriteError(c) ==
    /\ Faults /\ pc[c] \in Writing
    /\ Goto(c, IF pc[c] = "failed" THEN "releasing" ELSE "failing")
    /\ Last(c, FALSE)
    /\ UNCHANGED <<holder, upstream, tables, history>>

Release(c) ==
    /\ pc[c] = "releasing"
    /\ \/ holder' = IF holder = c THEN NoOwner ELSE holder
       \/ Faults /\ UNCHANGED holder
    /\ job' = [job EXCEPT ![c] = NoJob]
    /\ Goto(c, "idle")
    /\ UNCHANGED <<upstream, tables, history>>

Crash(c) ==
    /\ c \in Mortal /\ pc[c] # "dead"
    /\ job' = [job EXCEPT ![c] = NoJob]
    /\ Goto(c, "dead")
    /\ UNCHANGED <<holder, upstream, tables, history>>

Expire ==
    /\ holder # NoOwner
    /\ Faults \/ pc[holder] \in {"idle", "dead"}
    /\ holder' = NoOwner
    /\ UNCHANGED <<upstream, tables, pc, job, history>>

-------------------------------------------------------------------------------
Administer == Update \/ SetSource \/ Mark \/ Delete

Collect(c) ==
    \/ Start(c) \/ LeaseLost(c) \/ Discovered(c) \/ DiscoveryFails(c)
    \/ RequestFails(c) \/ Recheck(c) \/ Queried(c) \/ Headers(c)
    \/ Prepare(c) \/ Screen(c) \/ Store(c) \/ Attempt(c) \/ FailAttempt(c)
    \/ Rejected(c) \/ WriteError(c) \/ Release(c) \/ Crash(c)

Next ==
    \/ Tick \/ Administer \/ Expire
    \/ \E c \in Owner : Collect(c)

Spec == Init /\ [][Next]_vars

-------------------------------------------------------------------------------
(* The rows are a SnapshotStore: observation times of a key only grow, no  *)
(* reading is older than the barrier, and only the generation of the       *)
(* present endpoint is written, however the endpoint, the source and the   *)
(* lease change between the look at the row and the write.                 *)
Cells == [g \in Gen |-> [k \in Key |->
            [at |-> rows[g][k].at, floor |-> rows[g][k].floor]]]
Snapshots == INSTANCE SnapshotStore WITH cur <- chan.eprev, seen <- Cells
Forwards == Snapshots!StoreSpec

(* Windows of a generation were asked for at the endpoint it belongs to:   *)
(* a reading of the former endpoint never appears under the new one.       *)
GenerationIsPure ==
    \A g \in Gen : \A k \in Key : rows[g][k].at # 0 => rows[g][k].from = g

(* Windows that claim to be fresh were written since the last discovery:   *)
(* a discovery that is interrupted, or does not find the account, or finds *)
(* it without a reading, leaves nothing fresh behind.                      *)
FreshSinceDiscovery ==
    \A g \in Gen : \A k \in Key :
        rows[g][k].at # 0 /\ ~rows[g][k].stale => <<g, k>> \in since

(* Of the accounts with an identity only the one of the last discovery is  *)
(* shown: a collector that has lost its lease does not bring back the      *)
(* account that a later discovery has replaced.                            *)
ShownWereFound ==
    \A k \in Identity : accts[k].state = "shown" => k = found

(* A channel that becomes fresh has fresh windows to show for it.          *)
FreshChannelHasFreshRow ==
    [][chan.fresh # "fresh" /\ chan'.fresh = "fresh"
          => \E k \in Key : LET r == rows'[chan.eprev][k]
                            IN  r.shown /\ r.at # 0 /\ ~r.stale]_vars
===============================================================================
