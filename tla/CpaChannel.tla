------------------------------ MODULE CpaChannel ------------------------------
(***************************************************************************)
(* One CPA channel: its row in cpa_channels with the two endpoints, the    *)
(* selected quota source and the confirmation of the exclusive usage queue *)
(* (db.py, main.py); account discovery by the background cycle and by a    *)
(* manual refresh (quota_sync.py); and the consumer of the usage queue     *)
(* (cpa_queue.py), whose pops cannot be undone.  Discovery writes under a  *)
(* lease and the collection revision, the consumer under neither: it       *)
(* relies on what it reads before each request, and on storing a batch     *)
(* under the endpoint revision it was popped with.                         *)
(*                                                                         *)
(* Account rows and snapshots are kept as the endpoints they were read     *)
(* from.  Two database transactions of one process are two steps, and so   *)
(* are a read and the transaction after it.                                *)
(***************************************************************************)
EXTENDS Naturals, FiniteSets

CONSTANTS
    Endpoint,   \* CPA endpoints: URL and management key
    Cpamp,      \* CPAMP endpoints
    NoEndpoint,
    Worker, Consumer, Refresher,    \* the sessions: two loops, one request
    NoOwner, Ghost,  \* nobody, and an owner whose process has died
    Process, Home,   \* the process each session runs in
    Mortal,     \* the processes that may die
    Admin,      \* administrators' requests
    MaxEp, MaxCol,   \* bounds on the endpoint and collection revisions
    MayFail     \* upstream, database and mark may fail

Session == Worker \cup Consumer \cup Refresher
Discoverer == Worker \cup Refresher

ASSUME ChannelAssumption ==
    /\ NoEndpoint \notin Endpoint \cup Cpamp
    /\ NoOwner # Ghost /\ NoOwner \notin Session /\ Ghost \notin Session
    /\ Worker \cap Consumer = {} /\ Worker \cap Refresher = {}
    /\ Consumer \cap Refresher = {}
    /\ Home \in [Session -> Process] /\ Mortal \subseteq Process
    /\ MaxEp \in Nat /\ MaxCol \in Nat /\ MayFail \in BOOLEAN

VARIABLES
    chan,       \* the row of cpa_channels
    shown,      \* where the visible rows of cpa_accounts were read from
    snaps,      \* where each generation's native windows were read from
    epAt,       \* history: the endpoint of each endpoint revision
    at, prev,   \* an administrator's request: its step and the row it read
    unmarked,   \* history: a mark was lost in a crash
    holder,     \* of the two scheduler leases (module Lease)
    pc, row,    \* each session's step, and the row it works for
    asked,      \* the endpoint a consumer's request went to
    cache,      \* _account_cache of each process: a mapping and its revision
    mapped,     \* the consumer has refreshed the mapping in this cycle
    known,      \* the endpoint its mapping of accounts comes from
    batch       \* the endpoint its unsaved events were popped from

rowVars == <<chan, shown, snaps, epAt>>
adminVars == <<at, prev, unmarked>>
workVars == <<asked, cache, mapped, known, batch>>
vars == <<rowVars, adminVars, holder, pc, row, workVars>>

CpaSource == {"none", "native"}
Source == CpaSource \cup {"cpamp"}
Endpoints == Endpoint \cup {NoEndpoint}
Cpamps == Cpamp \cup {NoEndpoint}
Leases == {"quota", "queue"}

(* The row; attempt is last_attempt_at as the set of the collection        *)
(* revision it was made for, empty for NULL.                               *)
Channel == [state : {"new", "live", "deleted"}, enabled : BOOLEAN,
            source : Source, ep : Endpoints, amp : Cpamps,
            eprev : 0..MaxEp, colrev : 0..MaxCol, confirmed : BOOLEAN,
            queue : {"disabled", "awaiting", "polled"},
            attempt : SUBSET (0..MaxCol)]

(* What a session and a handler use of the row they have read.             *)
Job == [ep : Endpoints, eprev : 0..MaxEp, colrev : 0..MaxCol, source : Source]
JobOf(c) == [ep |-> c.ep, eprev |-> c.eprev, colrev |-> c.colrev,
             source |-> c.source]
Old == [ep : Endpoints, amp : Cpamps, enabled : BOOLEAN, source : Source]
OldOf(c) == [ep |-> c.ep, amp |-> c.amp, enabled |-> c.enabled,
             source |-> c.source]

DiscoverPc == {"next", "pacing", "opening", "discovering", "answered",
               "discover", "discovered", "attempt", "failing", "failed"}
ConsumePc == {"listed", "loading", "loaded", "mapping", "stats", "ready",
              "popping", "popped", "refreshing", "persist", "state", "giveup"}
Pc == {"idle", "listing", "releasing"} \cup DiscoverPc \cup ConsumePc

NoChannel == [state |-> "new", enabled |-> FALSE, source |-> "none",
              ep |-> NoEndpoint, amp |-> NoEndpoint, eprev |-> 0, colrev |-> 0,
              confirmed |-> FALSE, queue |-> "disabled", attempt |-> {}]
NoMapping == [rev |-> 0, ep |-> NoEndpoint]

TypeOK ==
    /\ chan \in Channel
    /\ shown \subseteq Endpoint
    /\ snaps \in [0..MaxEp -> SUBSET Endpoint]
    /\ epAt \in [0..MaxEp -> Endpoints]
    /\ at \in [Admin -> {"idle", "read", "marking"}]
    /\ prev \in [Admin -> Old]
    /\ unmarked \in BOOLEAN
    /\ holder \in [Leases -> Session \cup {NoOwner, Ghost}]
    /\ pc \in [Session -> Pc]
    /\ row \in [Session -> Job]
    /\ asked \in [Consumer -> Endpoints]
    /\ cache \in [Process -> [rev : 0..MaxEp, ep : Endpoints]]
    /\ mapped \in [Consumer -> BOOLEAN]
    /\ known \in [Consumer -> Endpoints]
    /\ batch \in [Consumer -> Endpoints]

Init ==
    /\ chan = NoChannel
    /\ shown = {}
    /\ snaps = [r \in 0..MaxEp |-> {}]
    /\ epAt = [r \in 0..MaxEp |-> NoEndpoint]
    /\ at = [p \in Admin |-> "idle"]
    /\ prev = [p \in Admin |-> OldOf(NoChannel)]
    /\ unmarked = FALSE
    /\ holder = [l \in Leases |-> NoOwner]
    /\ pc = [s \in Session |-> "idle"]
    /\ row = [s \in Session |-> JobOf(NoChannel)]
    /\ asked = [q \in Consumer |-> NoEndpoint]
    /\ cache = [h \in Process |-> NoMapping]
    /\ mapped = [q \in Consumer |-> FALSE]
    /\ known = [q \in Consumer |-> NoEndpoint]
    /\ batch = [q \in Consumer |-> NoEndpoint]

Live == chan.state = "live"
Enabled == Live /\ chan.enabled

(* What the selected source needs.                                         *)
Configured(c, source) ==
    IF source = "cpamp" THEN c.amp # NoEndpoint ELSE c.ep # NoEndpoint

(* The endpoint whose accounts the API may show.                           *)
Showable == IF Live /\ chan.source \in CpaSource THEN {chan.ep} ELSE {}

-------------------------------------------------------------------------------
(* The administrator.                                                      *)

(* create_cpa_channel: the queue is active only when it is selected,       *)
(* enabled and confirmed.                                                  *)
Create ==
    /\ chan.state = "new"
    /\ \E source \in Source, ep \in Endpoints, amp \in Cpamps,
          en \in BOOLEAN, confirm \in BOOLEAN :
        LET active == source = "native" /\ en /\ confirm
            c == [chan EXCEPT !.state = "live", !.enabled = en, !.ep = ep,
                              !.amp = amp, !.source = source,
                              !.confirmed = active,
                              !.queue = IF active THEN "polled" ELSE "disabled"]
        IN  /\ Configured(c, source)
            /\ source = "native" /\ en => confirm
            /\ chan' = c
            /\ epAt' = [epAt EXCEPT ![0] = ep]
    /\ UNCHANGED <<shown, snaps, adminVars, holder, pc, row, workVars>>

(* A handler reads the row before it validates and writes.                 *)
Read(p) ==
    /\ at[p] = "idle" /\ Live
    /\ at' = [at EXCEPT ![p] = "read"]
    /\ prev' = [prev EXCEPT ![p] = OldOf(chan)]
    /\ UNCHANGED <<rowVars, unmarked, holder, pc, row, workVars>>

Answered(p) ==
    /\ at' = [at EXCEPT ![p] = "idle"]
    /\ prev' = [prev EXCEPT ![p] = OldOf(NoChannel)]

(* The request is refused (400), or the channel has gone (404).            *)
Refused(p) ==
    /\ at[p] = "read"
    /\ Answered(p)
    /\ UNCHANGED <<rowVars, unmarked, holder, pc, row, workVars>>

(* After the write the handler compares what it reads with what it read.   *)
MarkWanted(p, c) ==
    LET old == prev[p]
    IN  /\ c.enabled
        /\ \/ ~old.enabled
           \/ c.source \in CpaSource /\ c.ep # old.ep
           \/ c.source = "cpamp" /\ c.amp # old.amp
Decide(p, marks) ==
    /\ IF marks THEN at' = [at EXCEPT ![p] = "marking"] /\ UNCHANGED prev
                ELSE Answered(p)
    /\ UNCHANGED <<unmarked, holder, pc, row, workVars>>

(* What update_cpa_channel writes: a new endpoint or an enabling resets    *)
(* the queue; the collection revision counts what concerns the source.     *)
UpdateRow(ep, amp, en) ==
    LET moved == ep # chan.ep
        selected == \/ moved /\ chan.source \in CpaSource
                    \/ amp # chan.amp /\ chan.source = "cpamp"
        reset == moved \/ en # chan.enabled
        revised == selected \/ en # chan.enabled
    IN  /\ chan' = [chan EXCEPT
                !.ep = ep, !.amp = amp, !.enabled = en,
                !.eprev = IF moved THEN @ + 1 ELSE @,
                !.colrev = IF revised THEN @ + 1 ELSE @,
                !.confirmed = @ /\ ~reset,
                !.queue = IF ~reset THEN @
                          ELSE IF en /\ chan.source = "native"
                               THEN "awaiting" ELSE "disabled"]
        /\ chan'.eprev <= MaxEp /\ chan'.colrev <= MaxCol
        /\ shown' = IF selected THEN {} ELSE shown
        /\ epAt' = IF moved THEN [epAt EXCEPT ![chan'.eprev] = ep] ELSE epAt
        /\ UNCHANGED snaps

(* update_cpa_channel: the endpoint of the selected source may be replaced *)
(* but not removed; this is checked against the row read before.  Fields   *)
(* equal to that row are not sent.                                         *)
Update(p) ==
    /\ at[p] = "read" /\ Live
    /\ \E ep \in Endpoints, amp \in Cpamps, en \in BOOLEAN :
        LET old == prev[p]
        IN  /\ Configured([old EXCEPT !.ep = ep, !.amp = amp], old.source)
            /\ UpdateRow(IF ep = old.ep THEN chan.ep ELSE ep,
                         IF amp = old.amp THEN chan.amp ELSE amp,
                         IF en = old.enabled THEN chan.enabled ELSE en)
    /\ Decide(p, MarkWanted(p, chan'))

(* set_cpa_quota_source validates against the row in its transaction, and  *)
(* a change of source makes the channel due in the same transaction.       *)
SetSource(p) ==
    /\ at[p] = "read" /\ Live
    /\ \E source \in Source, confirm \in BOOLEAN :
        LET changed == source # chan.source
            active == source = "native" /\ chan.enabled /\ confirm
            c == [chan EXCEPT
                    !.source = source, !.colrev = @ + (IF changed THEN 1 ELSE 0),
                    !.confirmed = active,
                    !.queue = IF active THEN "polled" ELSE "disabled",
                    !.attempt = IF changed THEN {} ELSE @]
        IN  /\ Configured(chan, source)
            /\ source = "native" /\ chan.enabled => confirm
            /\ c.colrev <= MaxCol
            /\ chan' = c
            /\ shown' = IF changed THEN {} ELSE shown
            /\ Decide(p, c.enabled /\ source # prev[p].source)
    /\ UNCHANGED <<snaps, epAt>>

(* mark_cpa_channel_due; then the cache of the handler's own process goes. *)
Mark(p) ==
    /\ at[p] = "marking"
    /\ chan' = [chan EXCEPT !.attempt = {}]
    /\ \E h \in Process : cache' = [cache EXCEPT ![h] = NoMapping]
    /\ Answered(p)
    /\ unmarked' = FALSE
    /\ UNCHANGED <<shown, snaps, epAt, holder, pc, row, asked, mapped,
                   known, batch>>

MarkFails(p) ==
    /\ MayFail /\ at[p] = "marking"
    /\ Answered(p)
    /\ unmarked' = TRUE
    /\ UNCHANGED <<rowVars, holder, pc, row, workVars>>

Delete ==
    /\ Live
    /\ chan' = [NoChannel EXCEPT !.state = "deleted"]
    /\ shown' = {}
    /\ snaps' = [r \in 0..MaxEp |-> {}]
    /\ \E h \in Process : cache' = [cache EXCEPT ![h] = NoMapping]
    /\ UNCHANGED <<epAt, adminVars, holder, pc, row, asked, mapped, known, batch>>

-------------------------------------------------------------------------------
(* Sessions.  The background cycle works under the quota lease and the     *)
(* consumer under the queue lease; a manual refresh takes the one or the   *)
(* other.                                                                  *)

IsValid(s) == \E l \in Leases : holder[l] = s

Goto(s, label) == pc' = [pc EXCEPT ![s] = label]
Ask(q, ep) == asked' = [asked EXCEPT ![q] = ep]
Remember(s, ep) ==
    cache' = [cache EXCEPT ![Home[s]] = [rev |-> row[s].eprev, ep |-> ep]]

(* What the sessions in S forget when their turn ends.                     *)
Forget(S) ==
    /\ pc' = [s \in Session |-> IF s \in S THEN "idle" ELSE pc[s]]
    /\ row' = [s \in Session |-> IF s \in S THEN JobOf(NoChannel) ELSE row[s]]
    /\ asked' = [q \in Consumer |-> IF q \in S THEN NoEndpoint ELSE asked[q]]
    /\ mapped' = [q \in Consumer |-> q \notin S /\ mapped[q]]
    /\ known' = [q \in Consumer |-> IF q \in S THEN NoEndpoint ELSE known[q]]
    /\ batch' = [q \in Consumer |-> IF q \in S THEN NoEndpoint ELSE batch[q]]

Acquire(s) ==
    /\ s \notin Refresher /\ pc[s] = "idle"
    /\ LET l == IF s \in Worker THEN "quota" ELSE "queue"
       IN  /\ holder[l] \in {NoOwner, s}
           /\ holder' = [holder EXCEPT ![l] = s]
    /\ Goto(s, "listing")
    /\ UNCHANGED <<rowVars, adminVars, row, workVars>>

(* At any check the session may find its lease lost: the row is another's, *)
(* has expired, or the heartbeat has failed.                               *)
LeaseLost(s) ==
    /\ pc[s] \in {"next", "pacing", "opening", "answered", "discovered",
                  "failing", "listed", "loaded", "ready"}
    /\ Goto(s, "releasing")
    /\ UNCHANGED <<rowVars, adminVars, holder, row, workVars>>

Release(s) ==
    /\ pc[s] = "releasing"
    /\ holder' = [l \in Leases |-> IF holder[l] = s THEN NoOwner ELSE holder[l]]
    /\ Forget({s})
    /\ UNCHANGED <<rowVars, adminVars, cache>>

Expire(l) ==
    /\ holder[l] # NoOwner
    /\ holder' = [holder EXCEPT ![l] = NoOwner]
    /\ UNCHANGED <<rowVars, adminVars, pc, row, workVars>>

(* The process dies and starts again as another owner; its leases stay     *)
(* behind until they expire.                                               *)
Crash(h) ==
    /\ h \in Mortal
    /\ LET lost == {s \in Session : Home[s] = h}
       IN  /\ \E s \in lost : pc[s] # "idle"
           /\ holder' = [l \in Leases |->
                            IF holder[l] \in lost THEN Ghost ELSE holder[l]]
           /\ Forget(lost)
    /\ cache' = [cache EXCEPT ![h] = NoMapping]
    /\ UNCHANGED <<rowVars, adminVars>>

-------------------------------------------------------------------------------
(* Discovery.                                                              *)

(* _current_cpa_channel                                                    *)
Current(r) ==
    /\ Enabled /\ chan.source = r.source /\ chan.source \in CpaSource
    /\ chan.eprev = r.eprev /\ chan.ep = r.ep

(* Mutation: the guard looks at enabled only.                              *)
GuardEnabled(d) == Enabled /\ IsValid(d)

(* _validate_collection_guard                                              *)
Guard(d) == Enabled /\ chan.colrev = row[d].colrev /\ IsValid(d)

List(d) ==
    /\ d \in Worker /\ pc[d] = "listing"
    /\ \/ /\ Enabled /\ chan.source \in CpaSource
          /\ row' = [row EXCEPT ![d] = JobOf(chan)]
          /\ Goto(d, "next")
       \/ /\ ~(Enabled /\ chan.source \in CpaSource /\ chan.attempt = {})
          /\ Goto(d, "releasing")
          /\ UNCHANGED row
    /\ UNCHANGED <<rowVars, adminVars, holder, workVars>>

(* The job becomes the row as it is now; a paced job waits before its      *)
(* request, and only the lease is looked at afterwards.                    *)
PickChannel(d) ==
    /\ pc[d] = "next" /\ IsValid(d)
    /\ IF Current(row[d])
       THEN /\ row' = [row EXCEPT ![d] = JobOf(chan)]
            /\ Goto(d, "discovering") \/ Goto(d, "pacing")
       ELSE Goto(d, "releasing") /\ UNCHANGED row
    /\ UNCHANGED <<rowVars, adminVars, holder, workVars>>

Paced(d) ==
    /\ pc[d] = "pacing" /\ IsValid(d)
    /\ Goto(d, "discovering")
    /\ UNCHANGED <<rowVars, adminVars, holder, row, workVars>>

(* refresh_cpa_channel: the source decides which lease is taken; then the  *)
(* row is read again, with no look at enabled or at the source.            *)
Refresh(r) ==
    /\ pc[r] = "idle" /\ Live
    /\ chan.source = "native" => chan.confirmed
    /\ chan.source # "cpamp"
    /\ LET l == IF chan.source = "native" THEN "queue" ELSE "quota"
       IN  /\ holder[l] = NoOwner
           /\ holder' = [holder EXCEPT ![l] = r]
    /\ Goto(r, "opening")
    /\ UNCHANGED <<rowVars, adminVars, row, workVars>>

Open(r) ==
    /\ r \in Refresher /\ pc[r] = "opening" /\ IsValid(r)
    /\ IF Live THEN Goto(r, "discovering") /\ row' = [row EXCEPT ![r] = JobOf(chan)]
               ELSE Goto(r, "releasing") /\ UNCHANGED row
    /\ UNCHANGED <<rowVars, adminVars, holder, workVars>>

Answer(d) ==
    /\ pc[d] = "discovering"
    /\ \/ row[d].ep # NoEndpoint /\ Goto(d, "answered")
       \/ (MayFail \/ row[d].ep = NoEndpoint) /\ Goto(d, "failing")
    /\ UNCHANGED <<rowVars, adminVars, holder, row, workVars>>

(* _require_lease and _current_cpa_channel before each guarded write.      *)
Recheck(d) ==
    /\ pc[d] \in {"answered", "discovered", "failing"} /\ IsValid(d)
    /\ Goto(d, IF ~Current(row[d]) THEN "releasing"
               ELSE CASE pc[d] = "answered" -> "discover"
                      [] pc[d] = "discovered" -> "attempt"
                      [] pc[d] = "failing" -> "failed")
    /\ UNCHANGED <<rowVars, adminVars, holder, row, workVars>>

(* prepare_cpa_channel_discovery: what is found replaces what is shown.    *)
Discovered(ep) == shown' = {} \/ shown' = {ep}

Discover(d) ==
    /\ pc[d] = "discover" /\ Guard(d)
    /\ Discovered(row[d].ep)
    /\ Remember(d, row[d].ep)
    /\ Goto(d, "discovered")
    /\ UNCHANGED <<chan, snaps, epAt, adminVars, holder, row, asked, mapped,
                   known, batch>>

(* Mutation: the attempt counts for the revision to come.                  *)
AttemptNextRevision(d) ==
    /\ pc[d] \in {"attempt", "failed"} /\ Guard(d)
    /\ chan' = [chan EXCEPT !.attempt = {row[d].colrev + 1}]
    /\ unmarked' = FALSE
    /\ Goto(d, "releasing")
    /\ UNCHANGED <<shown, snaps, epAt, at, prev, holder, row, workVars>>

(* record_cpa_channel_attempt, for a success or a failure.                 *)
Attempt(d) ==
    /\ pc[d] \in {"attempt", "failed"} /\ Guard(d)
    /\ chan' = [chan EXCEPT !.attempt = {row[d].colrev}]
    /\ unmarked' = FALSE
    /\ Goto(d, "releasing")
    /\ UNCHANGED <<shown, snaps, epAt, at, prev, holder, row, workVars>>

Rejected(d) ==
    /\ pc[d] \in {"discover", "attempt", "failed"} /\ ~Guard(d)
    /\ Goto(d, "releasing")
    /\ UNCHANGED <<rowVars, adminVars, holder, row, workVars>>

WriteError(d) ==
    /\ MayFail /\ pc[d] \in {"discover", "attempt", "failed"}
    /\ Goto(d, IF pc[d] = "failed" THEN "releasing" ELSE "failing")
    /\ UNCHANGED <<rowVars, adminVars, holder, row, workVars>>

-------------------------------------------------------------------------------
(* The usage queue.                                                        *)

(* Mutation: the endpoint is not compared.                                 *)
CurrentQueueAnyEndpoint(q) == Enabled /\ chan.source = "native" /\ chan.confirmed

(* _current_queue_channel: not the collection revision.                    *)
CurrentQueue(q) ==
    /\ Enabled /\ chan.source = "native" /\ chan.confirmed
    /\ chan.eprev = row[q].eprev /\ chan.ep = row[q].ep

ListQueue(q) ==
    /\ pc[q] = "listing"
    /\ IF Enabled /\ chan.source = "native" /\ chan.confirmed
       THEN row' = [row EXCEPT ![q] = JobOf(chan)] /\ Goto(q, "listed")
       ELSE UNCHANGED row /\ Goto(q, "releasing")
    /\ UNCHANGED <<rowVars, adminVars, holder, workVars>>

(* _load_accounts: a cached mapping of this revision may still be young    *)
(* enough; otherwise auth-files are asked for.                             *)
LoadCached(q) ==
    /\ pc[q] = "listed" /\ IsValid(q)
    /\ cache[Home[q]].ep # NoEndpoint /\ cache[Home[q]].rev = row[q].eprev
    /\ known' = [known EXCEPT ![q] = cache[Home[q]].ep]
    /\ Goto(q, "loaded")
    /\ UNCHANGED <<rowVars, adminVars, holder, row, asked, cache, mapped, batch>>

Load(q) ==
    /\ pc[q] = "listed" /\ IsValid(q)
    /\ Ask(q, row[q].ep)
    /\ Goto(q, "loading")
    /\ UNCHANGED <<rowVars, adminVars, holder, row, cache, mapped, known, batch>>

Loaded(q) ==
    /\ pc[q] \in {"loading", "refreshing"} /\ asked[q] # NoEndpoint
    /\ Remember(q, asked[q])
    /\ known' = [known EXCEPT ![q] = asked[q]]
    /\ Ask(q, NoEndpoint)
    /\ mapped' = [mapped EXCEPT ![q] = TRUE]
    /\ Goto(q, IF pc[q] = "loading" THEN "loaded" ELSE "mapping")
    /\ UNCHANGED <<rowVars, adminVars, holder, row, batch>>

CheckLoaded(q) ==
    /\ pc[q] = "loaded" /\ IsValid(q)
    /\ Goto(q, IF ~CurrentQueue(q) THEN "releasing"
               ELSE IF mapped[q] THEN "mapping" ELSE "stats")
    /\ UNCHANGED <<rowVars, adminVars, holder, row, workVars>>

(* _prepare_account_mapping gives no expected revision and no lease.       *)
Map(q) ==
    /\ pc[q] = "mapping" /\ Live
    /\ Discovered(known[q])
    /\ Goto(q, IF batch[q] = NoEndpoint THEN "stats" ELSE "persist")
    /\ UNCHANGED <<chan, snaps, epAt, adminVars, holder, row, workVars>>

Deleted(q) ==
    /\ pc[q] \in {"mapping", "persist"} /\ ~Live
    /\ batch' = [batch EXCEPT ![q] = NoEndpoint]
    /\ Goto(q, "releasing")
    /\ UNCHANGED <<rowVars, adminVars, holder, row, asked, cache, mapped, known>>

(* Statistics are on and there are accounts, or the state is recorded and  *)
(* the channel is left.                                                    *)
Stats(q) ==
    /\ pc[q] = "stats"
    /\ Goto(q, "ready") \/ Goto(q, "giveup")
    /\ UNCHANGED <<rowVars, adminVars, holder, row, workVars>>

(* The check and the request: nothing of this process comes in between.    *)
Pop(q) ==
    /\ pc[q] = "ready" /\ IsValid(q)
    /\ IF CurrentQueue(q)
       THEN Goto(q, "popping") /\ Ask(q, chan.ep)
       ELSE Goto(q, "releasing") /\ UNCHANGED asked
    /\ UNCHANGED <<rowVars, adminVars, holder, row, cache, mapped, known, batch>>

(* The events have left the upstream queue.  A batch is one that has an    *)
(* event of a mapped account; any other is as good as empty.               *)
Popped(q) ==
    /\ pc[q] = "popping" /\ asked[q] # NoEndpoint
    /\ Ask(q, NoEndpoint)
    /\ \/ Goto(q, "popped") /\ batch' = [batch EXCEPT ![q] = asked[q]]
       \/ Goto(q, "state") /\ UNCHANGED batch
    /\ UNCHANGED <<rowVars, adminVars, holder, row, cache, mapped, known>>

(* A batch read with a cached mapping gets a new one, if the channel is    *)
(* still the same; the lease is not looked at.                             *)
RefreshMapping(q) ==
    /\ pc[q] = "popped"
    /\ IF ~mapped[q] /\ CurrentQueue(q)
       THEN Goto(q, "refreshing") /\ Ask(q, chan.ep)
       ELSE Goto(q, "persist") /\ UNCHANGED asked
    /\ UNCHANGED <<rowVars, adminVars, holder, row, cache, mapped, known, batch>>

(* Mutation: the write is guarded like a discovery, and else dropped.      *)
PersistGuarded(q) ==
    /\ pc[q] = "persist" /\ Live
    /\ IF Enabled /\ chan.colrev = row[q].colrev
       THEN snaps' = [snaps EXCEPT ![row[q].eprev] = @ \cup {batch[q], known[q]}]
       ELSE UNCHANGED snaps
    /\ shown' = IF chan.source = "native" /\ chan.eprev = row[q].eprev
                THEN shown \cup {known[q]} ELSE shown
    /\ batch' = [batch EXCEPT ![q] = NoEndpoint]
    /\ Goto(q, "state")
    /\ UNCHANGED <<chan, epAt, adminVars, holder, row, asked, cache, mapped, known>>

(* Mutation: the accounts are shown whatever the source is now.            *)
PersistVisible(q) ==
    /\ pc[q] = "persist" /\ Live
    /\ snaps' = [snaps EXCEPT ![row[q].eprev] = @ \cup {batch[q], known[q]}]
    /\ shown' = shown \cup {known[q]}
    /\ batch' = [batch EXCEPT ![q] = NoEndpoint]
    /\ Goto(q, "state")
    /\ UNCHANGED <<chan, epAt, adminVars, holder, row, asked, cache, mapped, known>>

(* record_cpa_quota_batch: under the revision the batch was popped with,   *)
(* shown only if that is the current one and its source is selected.       *)
Persist(q) ==
    /\ pc[q] = "persist" /\ Live
    /\ snaps' = [snaps EXCEPT ![row[q].eprev] = @ \cup {batch[q], known[q]}]
    /\ shown' = IF chan.source = "native" /\ chan.eprev = row[q].eprev
                THEN shown \cup {known[q]} ELSE shown
    /\ batch' = [batch EXCEPT ![q] = NoEndpoint]
    /\ Goto(q, "state")
    /\ UNCHANGED <<chan, epAt, adminVars, holder, row, asked, cache, mapped, known>>

(* A request (one without an endpoint always), the new mapping or every    *)
(* attempt to write a batch fails: a batch is given up, and the state      *)
(* records it.                                                             *)
ConsumeFails(q) ==
    /\ pc[q] \in {"loading", "stats", "popping", "refreshing", "mapping", "persist"}
    /\ \/ MayFail
       \/ asked[q] = NoEndpoint /\ pc[q] \in {"loading", "popping", "refreshing"}
    /\ batch' = [batch EXCEPT ![q] = NoEndpoint]
    /\ Ask(q, NoEndpoint)
    /\ Goto(q, "giveup")
    /\ UNCHANGED <<rowVars, adminVars, holder, row, cache, mapped, known>>

(* Mutation: the state is recorded whatever has become of the channel.     *)
RecordStateUnguarded(q) ==
    /\ pc[q] \in {"state", "giveup"}
    /\ chan' = [chan EXCEPT !.queue = IF Live THEN "polled" ELSE @]
    /\ Goto(q, "releasing") \/ (pc[q] = "state" /\ Goto(q, "ready"))
    /\ UNCHANGED <<shown, snaps, epAt, adminVars, holder, row, workVars>>

(* record_cpa_queue_state: a changed source rejects it and ends the        *)
(* channel's turn; a full batch is followed by the next pop.               *)
RecordState(q) ==
    /\ pc[q] \in {"state", "giveup"}
    /\ LET same == Enabled /\ chan.colrev = row[q].colrev
       IN  /\ chan' = [chan EXCEPT !.queue =
                            IF same /\ chan.confirmed THEN "polled" ELSE @]
           /\ \/ Goto(q, "releasing")
              \/ pc[q] = "state" /\ same /\ Goto(q, "ready")
    /\ UNCHANGED <<shown, snaps, epAt, adminVars, holder, row, workVars>>

-------------------------------------------------------------------------------
Administer ==
    \/ Create \/ Delete
    \/ \E p \in Admin :
          \/ Read(p) \/ Refused(p) \/ Update(p) \/ SetSource(p)
          \/ Mark(p) \/ MarkFails(p)

Discovery(d) ==
    \/ List(d) \/ PickChannel(d) \/ Paced(d) \/ Open(d) \/ Answer(d) \/ Recheck(d)
    \/ Discover(d) \/ Attempt(d) \/ Rejected(d) \/ WriteError(d)

Consume(q) ==
    \/ ListQueue(q) \/ LoadCached(q) \/ Load(q) \/ Loaded(q) \/ CheckLoaded(q)
    \/ Map(q) \/ Deleted(q) \/ Stats(q) \/ Pop(q) \/ Popped(q)
    \/ RefreshMapping(q) \/ Persist(q) \/ ConsumeFails(q) \/ RecordState(q)

Next ==
    \/ Administer
    \/ \E d \in Discoverer : Discovery(d)
    \/ \E q \in Consumer : Consume(q)
    \/ \E r \in Refresher : Refresh(r)
    \/ \E s \in Session : Acquire(s) \/ LeaseLost(s) \/ Release(s)
    \/ \E l \in Leases : Expire(l)
    \/ \E h \in Process : Crash(h)

Spec == Init /\ [][Next]_vars

-------------------------------------------------------------------------------
(* Windows stored for an endpoint revision, and the accounts they are      *)
(* stored for, were read from the endpoint of that revision, however late  *)
(* the batch is written and whatever the cached mapping was.               *)
GenerationIsPure == \A r \in 0..MaxEp : snaps[r] \subseteq {epAt[r]}

(* Apart from the consumer's new mapping, nothing makes accounts visible   *)
(* that were not read from the endpoint of the source now selected: not a  *)
(* discovery that ends after a switch, not a batch of an older revision.   *)
ShowsOnlyCurrent ==
    [][(\A q \in Consumer : pc[q] # "mapping" \/ pc'[q] = "mapping")
          => shown' \ shown \subseteq Showable']_vars

(* The queue's status tells whether it is consumed: a consumer that is     *)
(* still at work does not overwrite what a switch, a new endpoint or a     *)
(* disabling has set.                                                      *)
QueueStatusConsistent ==
    chan.state = "live" =>
        /\ chan.confirmed => chan.enabled /\ chan.source = "native"
        /\ chan.queue = IF chan.confirmed THEN "polled"
                        ELSE IF chan.enabled /\ chan.source = "native"
                             THEN "awaiting" ELSE "disabled"

(* README: a batch that has been popped is still stored when the lease is  *)
(* lost, and also when the channel is disabled, revised or switched        *)
(* meanwhile; it is given up only for an error, a deletion or a crash.     *)
PoppedIsKept ==
    [][\A q \in Consumer :
          batch[q] # NoEndpoint /\ batch'[q] = NoEndpoint
            => \/ batch[q] \in snaps'[row[q].eprev]
               \/ ~Live \/ pc'[q] \in {"giveup", "idle"}]_vars

(* A channel whose endpoint, source or enabling has changed since its last *)
(* attempt is due, about to be marked due, or its mark was lost.           *)
ChangeIsQueued ==
    Enabled /\ chan.source \in CpaSource
      /\ ~(chan.attempt \subseteq {chan.colrev})
        => unmarked \/ \E p \in Admin : at[p] = "marking"
===============================================================================
