---------------------------- MODULE CpampSyncProofs ----------------------------
(***************************************************************************)
(* Proofs about CpampSync, for any number of collectors, identities,       *)
(* moments and revisions, with leases that lapse under live sessions.      *)
(***************************************************************************)
EXTENDS CpampSync, TLAPS

USE CpampAssumption

(* A session that asks for an account or writes one has its key.           *)
Keyed(c) ==
    /\ job[c].t # 0 => job[c].key # Nobody
    /\ pc[c] \in {"querying", "screen", "store"} => job[c].key # Nobody
    /\ pc[c] = "headers" /\ job[c].listed => job[c].key # Nobody

Typed == TypeOK /\ \A c \in Owner : Keyed(c)

(* A session whose source is unchanged has, once it was rechecked, the     *)
(* channel's endpoint, and writes under its revision.                      *)
Past == {"prepare", "querying", "headers", "answered", "screen", "store",
         "attempt", "failed"}
Sourced(c) ==
    /\ job[c].rev <= chan.colrev
    /\ SourceUnchanged(c) /\ pc[c] \in Past =>
            /\ chan.selected /\ job[c].ep = chan.eprev
            /\ pc[c] = "store" => job[c].gen = chan.eprev

(* The key that a session works for and the subject it has for it.         *)
Named(c) ==
    LET j == job[c]
    IN  /\ j.listed /\ j.key # Nobody => j.key \in Identity /\ j.sub = j.key
        /\ j.key \in Identity => j.sub \in {j.key, Nobody}
        /\ pc[c] = "discovering" => ~j.listed
        /\ ~j.listed /\ j.key \in Identity /\ chan.live =>
                accts[j.key].state # "none"

(* While the lease and the source are its own, what a session prepared is  *)
(* the last discovery.                                                     *)
Prepared(c) ==
    \/ pc[c] \in {"querying", "screen", "store"}
    \/ pc[c] \in {"headers", "answered"} /\ job[c].listed
FoundBy(c) ==
    Guarded(c) /\ Prepared(c) /\ job[c].key \in Identity => found = job[c].key

(* ... and what it has screened is not refused, nor what it has stored     *)
(* fresh made stale.                                                       *)
FreshRow(r) == r.shown /\ r.at # 0 /\ ~r.stale
FreshBy(c) ==
    /\ job[c].fresh => pc[c] = "attempt"
    /\ Guarded(c) /\ pc[c] = "store" /\ job[c].t # 0 =>
            ~Refused(rows[job[c].gen][job[c].key], job[c].t)
    /\ Guarded(c) /\ job[c].fresh =>
            \E k \in Key : FreshRow(rows[chan.eprev][k])

Session(c) == Keyed(c) /\ Sourced(c) /\ Named(c) /\ FoundBy(c) /\ FreshBy(c)

(* A row that is not there is blank; a row or an account under an identity *)
(* is of that identity, and has an account.                                *)
RowSound(g, k) ==
    LET r == rows[g][k]
    IN  /\ r.shown => r.here
        /\ ~r.here => r.at = 0 /\ r.floor = 0
        /\ r.at # 0 => r.from = g
        /\ k \in Identity => /\ r.sub \in {k, Nobody}
                             /\ r.here => accts[k].state # "none"
AcctSound(k) ==
    k \in Identity => /\ accts[k].sub \in {k, Nobody}
                      /\ accts[k].state = "shown" => k = found
TablesSound ==
    /\ \A g \in Gen : \A k \in Key : RowSound(g, k)
    /\ \A k \in Key : AcctSound(k)

IInv == TypeOK /\ (\A c \in Owner : Session(c)) /\ TablesSound /\ FreshSinceDiscovery

-------------------------------------------------------------------------------
LEMMA Constants ==
    /\ Locator \in Key /\ Identity \subseteq Key /\ Nobody \notin Key
    /\ 0 \in Time /\ 1 \in 1..MaxTime /\ 1 \in Gen /\ 0 \in 0..MaxCol
    /\ \A t \in 1..MaxTime : t \in Time
    /\ NoOwner \notin Owner
    /\ Subject \subseteq Key \cup {Nobody}
BY DEF Key, Time, Gen, Owner, Subject

LEMMA Blanks == NoRow \in Row /\ NoAcct \in Acct /\ NoJob \in Job
BY Constants DEF NoRow, NoAcct, NoJob, Row, Acct, Job, Subject

LEMMA HiddenRowType == ASSUME NEW r \in Row PROVE HiddenRow(r) \in Row
<1>1. (r.stale \/ r.at # 0) \in BOOLEAN
  OBVIOUS
<1> QED BY <1>1, Zenon DEF HiddenRow, Row

LEMMA StoredRowTypes ==
    ASSUME NEW r \in Row, NEW j \in Job
    PROVE  RowFailed(r) \in Row /\ RowRead(r, j) \in Row
<1>1. RowFailed(r) \in Row
  <2>1. (r.at # 0) \in BOOLEAN
    OBVIOUS
  <2> QED BY <2>1 DEF RowFailed, Row
<1>2. RowRead(r, j) \in Row
  <2>1. j.ep \in 0..MaxEp /\ j.t \in Time /\ j.old \in BOOLEAN
    BY DEF Job, Gen
  <2>2. [r EXCEPT !.shown = TRUE, !.stale = j.old] \in Row
    BY <2>1 DEF Row
  <2>3. [r EXCEPT !.here = TRUE, !.shown = TRUE, !.at = j.t,
                  !.stale = j.old, !.from = j.ep] \in Row
    BY <2>1 DEF Row
  <2> QED BY <2>2, <2>3 DEF RowRead
<1> QED BY <1>1, <1>2

LEMMA OutdatedTypes ==
    ASSUME rows \in [Gen -> [Key -> Row]]
    PROVE  AllOutdated \in [Gen -> [Key -> Row]]
<1>1. ASSUME NEW r \in Row PROVE [r EXCEPT !.stale = r.at # 0] \in Row
  <2>1. (r.at # 0) \in BOOLEAN
    OBVIOUS
  <2> QED BY <2>1 DEF Row
<1>2. ASSUME NEW g \in Gen, NEW k \in Key
      PROVE  [rows[g][k] EXCEPT !.stale = rows[g][k].at # 0] \in Row
  BY <1>1
<1> QED BY <1>2, Zenon DEF AllOutdated

LEMMA HiddenTypes ==
    ASSUME accts \in [Key -> Acct]
    PROVE  /\ HideAccounts \in [Key -> Acct]
           /\ \A k \in Key : Hidden(accts[k]) \in Acct
BY DEF HideAccounts, Hidden, Acct

(* What a discovery makes of the accounts and rows.                        *)
LEMMA CanonicalKey ==
    ASSUME NEW j \in Job, j.key # Nobody
    PROVE  Canonical(j) \in Key
BY DEF Canonical, Job

(* RowsFound, by cases: the row of what was found, the row that it was     *)
(* made from, and all others.                                              *)
LEMMA FoundRows ==
    ASSUME NEW j, NEW g \in Gen, NEW k \in Key
    PROVE  /\ g = chan.eprev /\ k = Canonical(j) => RowsFound(j)[g][k] = RowFound(j)
           /\ g # chan.eprev \/ k # Canonical(j) =>
                RowsFound(j)[g][k] \in {NoRow, HiddenRow(rows[g][k])}
           /\ g # chan.eprev => RowsFound(j)[g][k] = HiddenRow(rows[g][k])
<1>1. RowsFound(j)[g][k] =
        CASE g = chan.eprev /\ k = Canonical(j) -> RowFound(j)
          [] g = chan.eprev /\ k # Canonical(j) /\ k = Locator /\ Legacy(j) -> NoRow
          [] OTHER -> HiddenRow(rows[g][k])
  BY Zenon DEF RowsFound
<1>2. CASE g = chan.eprev /\ k = Canonical(j)
  BY <1>1, <1>2, Zenon
<1>3. CASE g = chan.eprev /\ k # Canonical(j)
  BY <1>1, <1>3, Zenon
<1>4. CASE g # chan.eprev
  BY <1>1, <1>4, Zenon
<1> QED BY <1>2, <1>3, <1>4

(* What the row of an account that was found starts from.                  *)
LEMMA FoundBase ==
    ASSUME NEW j
    PROVE  \E base : /\ \/ base = HiddenRow(rows[chan.eprev][Canonical(j)])
                           /\ rows[chan.eprev][Canonical(j)].here
                        \/ base = HiddenRow(rows[chan.eprev][Locator]) /\ Legacy(j)
                        \/ base = [NoRow EXCEPT !.floor = now]
                        \/ base = [NoRow EXCEPT !.floor = 0]
                     /\ RowFound(j) = [base EXCEPT !.here = TRUE, !.shown = TRUE,
                                                   !.loc = TRUE, !.sub = Or(j.sub, @)]
<1> DEFINE own == rows[chan.eprev][Canonical(j)]
           base == CASE own.here /\ ~Replaces(j) -> HiddenRow(own)
                     [] ~(own.here /\ ~Replaces(j)) /\ Legacy(j) ->
                           HiddenRow(rows[chan.eprev][Locator])
                     [] OTHER -> [NoRow EXCEPT !.floor =
                                       IF Replaces(j) THEN now ELSE 0]
<1>1. RowFound(j) = [base EXCEPT !.here = TRUE, !.shown = TRUE, !.loc = TRUE,
                                 !.sub = Or(j.sub, @)]
  BY DEF RowFound
<1>2. CASE own.here /\ ~Replaces(j)
  <2>1. base = HiddenRow(own)
    BY <1>2, Zenon
  <2> QED BY <1>1, <1>2, <2>1
<1>3. CASE ~(own.here /\ ~Replaces(j)) /\ Legacy(j)
  <2>1. base = HiddenRow(rows[chan.eprev][Locator])
    BY <1>3, Zenon
  <2> QED BY <1>1, <1>3, <2>1
<1>4. CASE ~(own.here /\ ~Replaces(j)) /\ ~Legacy(j)
  <2>1. base = [NoRow EXCEPT !.floor = IF Replaces(j) THEN now ELSE 0]
    BY <1>4, Zenon
  <2>2. base \in {[NoRow EXCEPT !.floor = now], [NoRow EXCEPT !.floor = 0]}
    BY <2>1
  <2> HIDE DEF base
  <2> QED BY <1>1, <2>2
<1> QED BY <1>2, <1>3, <1>4

LEMMA FoundTypes ==
    ASSUME TypeOK, NEW j \in Job, j.key # Nobody
    PROVE  AccountsFound(j) \in [Key -> Acct] /\ RowsFound(j) \in [Gen -> [Key -> Row]]
<1> USE DEF TypeOK
<1>1. Canonical(j) \in Key
  BY CanonicalKey
<1>2. AccountsFound(j) \in [Key -> Acct]
  <2>1. ASSUME NEW k \in Key PROVE AccountsFound(j)[k] \in Acct
    BY <1>1, Constants, Blanks, HiddenTypes DEF AccountsFound, Or, Acct, Job
  <2> QED BY <2>1 DEF AccountsFound
<1>3. RowFound(j) \in Row
  <2>1. chan.eprev \in Gen
    BY DEF Channel
  <2>2. now \in Time
    BY Constants
  <2>3. /\ rows[chan.eprev][Canonical(j)] \in Row /\ rows[chan.eprev][Locator] \in Row
    BY <1>1, <2>1, Constants
  <2>4. [NoRow EXCEPT !.floor = now] \in Row /\ [NoRow EXCEPT !.floor = 0] \in Row
    BY <2>2, Blanks, Constants DEF Row
  <2>5. PICK base \in Row :
            RowFound(j) = [base EXCEPT !.here = TRUE, !.shown = TRUE,
                                       !.loc = TRUE, !.sub = Or(j.sub, @)]
    BY <2>3, <2>4, FoundBase, HiddenRowType
  <2> QED BY <2>5 DEF Row, Or, Job
<1>4. ASSUME NEW g \in Gen, NEW k \in Key PROVE RowsFound(j)[g][k] \in Row
  <2>1. rows[g][k] \in Row
    OBVIOUS
  <2>2. RowsFound(j)[g][k] \in {RowFound(j), NoRow, HiddenRow(rows[g][k])}
    BY FoundRows
  <2> QED BY <1>3, <2>1, <2>2, Blanks, HiddenRowType
<1>5. ASSUME NEW g \in Gen PROVE RowsFound(j)[g] \in [Key -> Row]
  BY <1>4 DEF RowsFound
<1>6. RowsFound(j) = [g \in Gen |-> RowsFound(j)[g]]
  BY Zenon DEF RowsFound
<1>7. RowsFound(j) \in [Gen -> [Key -> Row]]
  BY <1>5, <1>6
<1> QED BY <1>2, <1>7

LEMMA InitTyped == Init => Typed
<1> SUFFICES ASSUME Init PROVE Typed
  OBVIOUS
<1>1. TypeOK
  BY Constants, Blanks DEF Init, TypeOK, Channel, Gen, Pc
<1>2. \A c \in Owner : Keyed(c)
  BY DEF Init, Keyed, NoJob
<1> QED BY <1>1, <1>2 DEF Typed

(* A step of a session: it moves its own label and job.                    *)
LEMMA Stepped ==
    ASSUME TypeOK, NEW c \in Owner, NEW l \in Pc, NEW j \in Job,
           pc' = [pc EXCEPT ![c] = l], job' = [job EXCEPT ![c] = j]
    PROVE  /\ pc' \in [Owner -> Pc] /\ job' \in [Owner -> Job]
           /\ pc'[c] = l /\ job'[c] = j
           /\ \A d \in Owner \ {c} : pc'[d] = pc[d] /\ job'[d] = job[d]
BY DEF TypeOK

LEMMA LastJob ==
    ASSUME TypeOK, NEW c \in Owner, NEW f \in BOOLEAN, Last(c, f)
    PROVE  \E j \in Job : /\ job' = [job EXCEPT ![c] = j]
                          /\ j = [NoJob EXCEPT !.rev = job[c].rev, !.ep = job[c].ep,
                                               !.fresh = f]
                          /\ j.t = 0 /\ ~j.listed /\ j.key = Nobody /\ j.fresh = f
                          /\ j.rev = job[c].rev /\ j.ep = job[c].ep
<1> DEFINE j == [NoJob EXCEPT !.rev = job[c].rev, !.ep = job[c].ep, !.fresh = f]
<1>1. j \in Job
  BY Blanks DEF TypeOK, Job
<1>2. /\ j.t = 0 /\ ~j.listed /\ j.key = Nobody /\ j.fresh = f
      /\ j.rev = job[c].rev /\ j.ep = job[c].ep
  BY DEF NoJob
<1> QED BY <1>1, <1>2 DEF Last

-------------------------------------------------------------------------------
(* Most steps of a session write nothing: they move it, give it another    *)
(* job, and may take or leave the lease.                                   *)
Quietly(c, l, j) ==
    /\ pc' = [pc EXCEPT ![c] = l] /\ job' = [job EXCEPT ![c] = j]
    /\ UNCHANGED <<upstream, tables, history>>
    /\ holder' \in {holder, c, NoOwner}
    /\ holder' = c => holder = c \/ l = "discovering"

Writes(c) == Prepare(c) \/ Store(c) \/ Attempt(c) \/ FailAttempt(c)

LEMMA Labels ==
    /\ Asking \subseteq Pc /\ Writing \subseteq Pc
    /\ {"idle", "found", "answered", "failing", "releasing", "dead", "discovering",
        "querying", "headers", "prepare", "screen", "store", "attempt", "failed"} = Pc
BY DEF Pc, Asking, Writing

LEMMA QuietSteps ==
    ASSUME Typed, NEW c \in Owner, Collect(c), ~Writes(c)
    PROVE  \E l \in Pc, j \in Job : Quietly(c, l, j)
<1> USE DEF Typed, TypeOK, Quietly, Goto
<1>1. job[c] \in Job /\ (job' = job => job' = [job EXCEPT ![c] = job[c]])
  OBVIOUS
<1>2. CASE Start(c)
  <2>1. [NoJob EXCEPT !.rev = chan.colrev, !.ep = chan.eprev] \in Job
    BY Blanks DEF Job, Channel
  <2> QED BY <1>2, <2>1, Labels DEF Start
<1>3. CASE LeaseLost(c) \/ RequestFails(c) \/ Rejected(c) \/ WriteError(c)
  <2>1. Last(c, FALSE) /\ UNCHANGED <<upstream, tables, history, holder>>
    BY <1>3 DEF LeaseLost, RequestFails, Rejected, WriteError
  <2>2. \E l \in {"releasing", "failing"} : pc' = [pc EXCEPT ![c] = l]
    BY <1>3 DEF LeaseLost, RequestFails, Rejected, WriteError
  <2>3. \E j \in Job : job' = [job EXCEPT ![c] = j]
    BY <2>1, LastJob
  <2> QED BY <2>1, <2>2, <2>3, Labels
<1>4. CASE Discovered(c)
  <2>1. past[now] \in Subject
    OBVIOUS
  <2>2. ASSUME NEW t \in {0} \cup 1..now
        PROVE  [job[c] EXCEPT !.listed = TRUE, !.key = past[now], !.sub = past[now],
                              !.t = t, !.old = t # 0 /\ now > t + MaxAge] \in Job
    <3>1. t \in Time /\ (t # 0 /\ now > t + MaxAge) \in BOOLEAN
      BY DEF Time
    <3>2. past[now] \in Key \cup {Nobody}
      BY <2>1, Constants
    <3> QED BY <1>1, <2>1, <3>1, <3>2, Zenon DEF Job
  <2> QED BY <1>4, <2>2, Labels DEF Discovered
<1>5. CASE DiscoveryFails(c)
  <2>1. ASSUME NEW k \in Stored
        PROVE  [job[c] EXCEPT !.key = k, !.sub = rows[chan.eprev][k].sub] \in Job
    <3>1. k \in Key /\ rows[chan.eprev][k] \in Row
      BY DEF Stored, Channel
    <3> QED BY <1>1, <3>1 DEF Job, Row
  <2> QED BY <1>1, <1>5, <2>1, Labels DEF DiscoveryFails
<1>6. CASE Recheck(c)
  <2>1. \E l \in Pc : pc' = [pc EXCEPT ![c] = l]
    <3>1. pc[c] \in {"found", "answered", "failing"}
      BY <1>6 DEF Recheck
    <3>2. \E l : pc' = [pc EXCEPT ![c] = l] /\ l \in {"releasing", "failed", "prepare",
                    "headers", "screen", "attempt", "failing"}
      BY <1>6, <3>1 DEF Recheck
    <3> QED BY <3>2, Labels
  <2>2. job' = job /\ UNCHANGED <<upstream, tables, history, holder>>
    BY <1>6 DEF Recheck
  <2> QED BY <1>1, <2>1, <2>2
<1>7. CASE Queried(c) \/ Headers(c)
  <2>1. \E l \in {"answered", "headers", "screen"} : pc' = [pc EXCEPT ![c] = l]
    BY <1>7 DEF Queried, Headers
  <2>2. \E j \in Job : job' = [job EXCEPT ![c] = j]
    <3>1. ASSUME NEW key \in Key, NEW sub \in Subject, NEW t \in 1..now, NEW old \in BOOLEAN
          PROVE  [job[c] EXCEPT !.key = key, !.sub = sub, !.t = t, !.old = old] \in Job
      <4>1. t \in Time
        BY DEF Time
      <4> QED BY <1>1, <4>1 DEF Job
    <3>2. job[c].key \in Key \cup {Nobody} /\ job[c].sub \in Subject
      BY <1>1 DEF Job
    <3>3. CASE Queried(c)
      <4>1. pc[c] = "querying"
        BY <3>3 DEF Queried
      <4>2. job[c].key \in Key
        BY <3>2, <4>1 DEF Keyed
      <4> QED BY <1>1, <3>1, <3>2, <3>3, <4>2 DEF Queried, Reading
    <3>4. CASE Headers(c)
      <4>1. CASE UNCHANGED job
        BY <1>1, <4>1
      <4>2. CASE ~UNCHANGED job
        <5>1. PICK t \in 1..now, old \in BOOLEAN, named \in BOOLEAN :
                \/ /\ job[c].key # Nobody
                   /\ Reading(c, job[c].key, job[c].sub, t, old)
                \/ Reading(c, Locator, IF named THEN past[t] ELSE Nobody, t, old)
          BY <3>4, <4>2 DEF Headers
        <5>2. (IF named THEN past[t] ELSE Nobody) \in Subject
          BY DEF Subject
        <5> QED BY <3>1, <3>2, <5>1, <5>2, Constants DEF Reading
      <4> QED BY <4>1, <4>2
    <3> QED BY <1>7, <3>3, <3>4
  <2>3. UNCHANGED <<upstream, tables, history, holder>>
    BY <1>7 DEF Queried, Headers
  <2> QED BY <2>1, <2>2, <2>3, Labels
<1>8. CASE Screen(c)
  <2>1. \E l \in {"attempt", "store"} : pc' = [pc EXCEPT ![c] = l]
    BY <1>8 DEF Screen
  <2>2. \E j \in Job : job' = [job EXCEPT ![c] = j]
    <3>1. CASE Last(c, FALSE)
      BY <3>1, LastJob
    <3>2. CASE job' = [job EXCEPT ![c].gen = chan.eprev]
      <4>1. [job[c] EXCEPT !.gen = chan.eprev] \in Job
        BY <1>1 DEF Job, Channel
      <4> QED BY <3>2, <4>1
    <3> QED BY <1>8, <3>1, <3>2 DEF Screen
  <2> QED BY <1>8, <2>1, <2>2, Labels DEF Screen
<1>9. CASE Release(c) \/ Crash(c)
  BY <1>9, Blanks, Labels DEF Release, Crash
<1> QED BY <1>2, <1>3, <1>4, <1>5, <1>6, <1>7, <1>8, <1>9 DEF Collect, Writes

(* The types and Keyed, step by step.                                      *)
LEMMA QuietTyped ==
    ASSUME TypeOK, NEW c \in Owner, NEW l \in Pc, NEW j \in Job, Quietly(c, l, j)
    PROVE  TypeOK'
BY DEF TypeOK, Quietly, upstream, tables, history

LEMMA WriteTyped == ASSUME Typed, NEW c \in Owner, Writes(c) PROVE TypeOK'
<1> USE DEF Typed, TypeOK, Goto
<1>0. job[c] \in Job /\ chan.eprev \in Gen
  BY DEF Channel
<1>1. CASE Prepare(c)
  <2>1. UNCHANGED <<holder, upstream, chan, job>> /\ since' = {}
    BY <1>1 DEF Prepare
  <2>2. \E l \in {"attempt", "querying", "answered", "screen"} : pc' = [pc EXCEPT ![c] = l]
    BY <1>1 DEF Prepare
  <2>3. CASE job[c].key = Nobody
    <3>1. /\ accts' = HideAccounts /\ found' = Nobody
          /\ rows' = [g \in Gen |-> [k \in Key |-> HiddenRow(rows[g][k])]]
      BY <1>1, <2>3 DEF Prepare
    <3>2. \A g \in Gen : \A k \in Key : HiddenRow(rows[g][k]) \in Row
      BY HiddenRowType
    <3>3. rows' \in [Gen -> [Key -> Row]]
      BY <3>1, <3>2
    <3> QED BY <2>1, <2>2, <3>1, <3>3, HiddenTypes, Labels DEF upstream
  <2>4. CASE job[c].key # Nobody
    <3>1. /\ accts' = AccountsFound(job[c]) /\ found' = Canonical(job[c])
          /\ rows' = RowsFound(job[c])
      BY <1>1, <2>4 DEF Prepare
    <3>2. /\ accts' \in [Key -> Acct] /\ found' \in Key
          /\ rows' \in [Gen -> [Key -> Row]]
      BY <1>0, <2>4, <3>1, FoundTypes, CanonicalKey
    <3> QED BY <2>1, <2>2, <3>2, Labels DEF upstream
  <2> QED BY <2>3, <2>4
<1>2. CASE Store(c)
  <2> DEFINE j == job[c]
             r == rows[j.gen][j.key]
             s == IF j.t # 0 THEN RowRead(r, j) ELSE RowFailed(r)
  <2>1. pc[c] = "store" /\ j.key \in Key /\ j.gen \in Gen
    <3>1. pc[c] = "store"
      BY <1>2 DEF Store
    <3> QED BY <1>0, <3>1 DEF Keyed, Job
  <2>2. /\ accts' = [accts EXCEPT ![j.key] = [state |-> "shown", sub |-> accts[j.key].sub]]
        /\ rows' = [rows EXCEPT ![j.gen] = [rows[j.gen] EXCEPT ![j.key] = s]]
        /\ since' \in {since, since \cup {<<j.gen, j.key>>}}
        /\ UNCHANGED <<holder, upstream, chan, found>>
    BY <1>2 DEF Store
  <2>3. \E l \in {"attempt", "failing"} : pc' = [pc EXCEPT ![c] = l]
    BY <1>2 DEF Store
  <2>4. job' \in [Owner -> Job]
    <3>1. Last(c, TRUE) \/ Last(c, FALSE)
      <4>1. Last(c, j.t # 0 /\ ~j.old)
        BY <1>2 DEF Store
      <4>2. (j.t # 0 /\ ~j.old) \in {TRUE, FALSE}
        OBVIOUS
      <4> QED BY <4>1, <4>2, Zenon
    <3>2. \E i \in Job : job' = [job EXCEPT ![c] = i]
      BY <3>1, LastJob
    <3> QED BY <3>2
  <2>5. s \in Row
    <3>1. r \in Row
      BY <2>1
    <3> QED BY <1>0, <3>1, StoredRowTypes
  <2>6. rows' \in [Gen -> [Key -> Row]]
    BY <2>1, <2>2, <2>5
  <2>7. accts' \in [Key -> Acct]
    <3>1. [state |-> "shown", sub |-> accts[j.key].sub] \in Acct
      BY <2>1 DEF Acct
    <3> QED BY <2>2, <3>1
  <2>8. since' \subseteq Gen \X Key
    BY <2>1, <2>2
  <2>9. pc' \in [Owner -> Pc]
    BY <2>3, Labels
  <2> QED BY <2>2, <2>4, <2>6, <2>7, <2>8, <2>9 DEF upstream
<1>3. CASE Attempt(c) \/ FailAttempt(c)
  <2>1. UNCHANGED <<holder, upstream, accts, found>>
    BY <1>3 DEF Attempt, FailAttempt
  <2>2. pc' = [pc EXCEPT ![c] = "releasing"]
    BY <1>3 DEF Attempt, FailAttempt
  <2>3. \E f \in {"never", "fresh", "stale"} : chan' = [chan EXCEPT !.fresh = f]
    BY <1>3 DEF Attempt, FailAttempt, Outdated
  <2>4. job' \in [Owner -> Job]
    <3>1. job' = job \/ Last(c, FALSE)
      BY <1>3 DEF Attempt, FailAttempt
    <3>2. job' = job \/ \E i \in Job : job' = [job EXCEPT ![c] = i]
      BY <3>1, LastJob
    <3> QED BY <3>2
  <2>5. rows' \in [Gen -> [Key -> Row]] /\ since' \in {{}, since}
    <3>1. UNCHANGED <<rows, since>> \/ (rows' = AllOutdated /\ since' = {})
      BY <1>3 DEF Attempt, FailAttempt
    <3> QED BY <3>1, OutdatedTypes
  <2> QED BY <2>1, <2>2, <2>3, <2>4, <2>5, Labels DEF upstream, Channel
<1> QED BY <1>1, <1>2, <1>3 DEF Writes

LEMMA OtherTyped ==
    ASSUME TypeOK, Administer \/ Tick \/ Expire \/ UNCHANGED vars
    PROVE  TypeOK'
<1> USE Constants DEF TypeOK
<1>1. CASE UNCHANGED vars
  BY <1>1 DEF vars, upstream, tables, history
<1>2. CASE Tick
  <2>1. now' \in 1..MaxTime /\ UNCHANGED <<holder, tables, pc, job, history>>
    BY <1>2 DEF Tick
  <2>2. past' \in [1..MaxTime -> Subject]
    BY <1>2 DEF Tick
  <2> QED BY <2>1, <2>2 DEF tables, history
<1>3. CASE Expire
  BY <1>3 DEF Expire, upstream, tables, history
<1>4. CASE Update
  <2>1. PICK moved \in BOOLEAN, en \in BOOLEAN :
            /\ chan' = [chan EXCEPT !.enabled = en,
                    !.eprev = IF moved THEN @ + 1 ELSE @,
                    !.colrev = IF (moved /\ chan.selected) \/ en # chan.enabled
                               THEN @ + 1 ELSE @]
            /\ chan'.eprev <= MaxEp /\ chan'.colrev <= MaxCol
    BY <1>4 DEF Update
  <2>2. accts' \in {HideAccounts, accts} /\ found' \in {Nobody, found}
    BY <1>4 DEF Update
  <2>3. chan'.eprev \in Gen /\ chan'.colrev \in 0..MaxCol
    BY <2>1 DEF Channel, Gen
  <2>4. chan' \in Channel
    BY <2>1, <2>3 DEF Channel
  <2> QED BY <1>4, <2>2, <2>4, HiddenTypes DEF Update, upstream
<1>5. CASE SetSource
  <2>1. chan' \in Channel
    <3>1. chan' = [chan EXCEPT !.selected = ~chan.selected, !.colrev = chan.colrev + 1]
      BY <1>5 DEF SetSource
    <3>2. (~chan.selected) \in BOOLEAN /\ chan.colrev + 1 \in 0..MaxCol
      BY <1>5 DEF SetSource, Channel
    <3> QED BY <3>1, <3>2, Zenon DEF Channel
  <2> QED BY <1>5, <2>1, HiddenTypes DEF SetSource, upstream
<1>6. CASE Mark
  BY <1>6 DEF Mark, upstream, history, Channel, Outdated
<1>7. CASE Delete
  BY <1>7, Blanks DEF Delete, upstream, Channel
<1> QED BY <1>1, <1>2, <1>3, <1>4, <1>5, <1>6, <1>7 DEF Administer

LEMMA NextTypeOK == ASSUME Typed, [Next]_vars PROVE TypeOK'
<1>1. ASSUME NEW c \in Owner, Collect(c) PROVE TypeOK'
  BY <1>1, QuietSteps, QuietTyped, WriteTyped DEF Typed
<1> QED BY <1>1, OtherTyped DEF Next, Typed

-------------------------------------------------------------------------------
LEMMA InvTyped == IInv => Typed
BY DEF IInv, Typed, Session

LEMMA InitInv == Init => IInv
<1> SUFFICES ASSUME Init PROVE IInv
  OBVIOUS
<1>1. TypeOK /\ \A c \in Owner : Keyed(c)
  BY InitTyped DEF Typed
<1>2. ASSUME NEW c \in Owner PROVE Session(c)
  <2>1. pc[c] = "idle" /\ job[c] = NoJob /\ chan.colrev = 0
    BY DEF Init
  <2> QED BY <1>1, <2>1, Constants DEF Session, Sourced, Past, Named, FoundBy, Prepared,
      FreshBy, NoJob, Key
<1>3. TablesSound
  BY DEF Init, TablesSound, RowSound, AcctSound, NoRow, NoAcct
<1>4. FreshSinceDiscovery
  BY DEF Init, FreshSinceDiscovery, NoRow
<1> QED BY <1>1, <1>2, <1>3, <1>4 DEF IInv

(* A session keeps its part of the invariant while the tables stay as they *)
(* are and it is not given the lease.                                      *)
LEMMA Unmoved ==
    ASSUME NEW d \in Owner, Session(d), UNCHANGED <<tables, history>>,
           pc'[d] = pc[d], job'[d] = job[d], holder' = d => holder = d
    PROVE  Session(d)'
BY DEF tables, history, Session, Keyed, Sourced, Named, FoundBy, Prepared, FreshBy,
   Guarded, SourceUnchanged, Refused, FreshRow

LEMMA OtherSessions ==
    ASSUME IInv, NEW c \in Owner, Collect(c), ~Writes(c), NEW d \in Owner, d # c
    PROVE  Session(d)'
<1>1. PICK l \in Pc, j \in Job : Quietly(c, l, j)
  BY InvTyped, QuietSteps
<1>2. pc'[d] = pc[d] /\ job'[d] = job[d]
  BY <1>1, Stepped DEF IInv, Quietly
<1>3. UNCHANGED <<tables, history>> /\ (holder' = d => holder = d)
  BY <1>1, Constants DEF Quietly
<1> QED BY <1>2, <1>3, Unmoved DEF IInv

(* A session that ends, or that fails, forgets what it had.                *)
LEMMA Leaving ==
    ASSUME IInv, NEW c \in Owner, UNCHANGED <<tables, history>>,
           NEW j \in Job, job'[c] = j, j.rev <= chan.colrev, j.t = 0, ~j.listed,
           j.key = Nobody, ~j.fresh,
           pc'[c] \in {"idle", "dead", "releasing", "failing", "discovering"}
    PROVE  Session(c)'
BY Constants DEF tables, history, Session, Keyed, Sourced, Named, FoundBy, Prepared,
   FreshBy, Past

LEMMA OwnSession ==
    ASSUME IInv, NEW c \in Owner, Collect(c), ~Writes(c)
    PROVE  Session(c)'
<1> USE Constants DEF Goto
<1>1. /\ TypeOK /\ Session(c) /\ job[c] \in Job /\ chan \in Channel
      /\ job[c].rev <= chan.colrev /\ chan.colrev \in Nat
  BY DEF IInv, TypeOK, Session, Sourced, Channel
<1>2. UNCHANGED <<tables, history, upstream>>
  BY InvTyped, QuietSteps DEF Quietly
<1>3. \A l, j : /\ pc' = [pc EXCEPT ![c] = l] => pc'[c] = l
                /\ job' = [job EXCEPT ![c] = j] => job'[c] = j
  BY <1>1 DEF TypeOK
<1>4. SUFFICES ASSUME UNCHANGED <<chan, accts, rows, since, found>>
               PROVE  Session(c)'
  BY <1>2 DEF tables, history
<1>5. ASSUME LeaseLost(c) \/ RequestFails(c) \/ Rejected(c) \/ WriteError(c)
      PROVE  Session(c)'
  <2>1. pc'[c] \in {"releasing", "failing"} /\ Last(c, FALSE)
    BY <1>3, <1>5 DEF LeaseLost, RequestFails, Rejected, WriteError
  <2>2. PICK j \in Job : /\ job' = [job EXCEPT ![c] = j] /\ j.t = 0 /\ ~j.listed
                         /\ j.key = Nobody /\ ~j.fresh /\ j.rev = job[c].rev
    BY <1>1, <2>1, LastJob
  <2>3. job'[c] = j
    BY <1>3, <2>2
  <2> QED BY <1>1, <1>2, <2>1, <2>2, <2>3, Leaving
<1>6. ASSUME Start(c) PROVE Session(c)'
  <2> DEFINE j == [NoJob EXCEPT !.rev = chan.colrev, !.ep = chan.eprev]
  <2>1. pc'[c] = "discovering" /\ job'[c] = j
    BY <1>3, <1>6 DEF Start
  <2>2. j \in Job
    BY <1>1, Blanks DEF Job, Channel
  <2>3. j.t = 0 /\ ~j.listed /\ j.key = Nobody /\ ~j.fresh /\ j.rev <= chan.colrev
    BY <1>1 DEF NoJob
  <2> HIDE DEF j
  <2> QED BY <1>2, <2>1, <2>2, <2>3, Leaving
<1>7. ASSUME Release(c) \/ Crash(c) PROVE Session(c)'
  <2>1. pc'[c] \in {"idle", "dead"} /\ job'[c] = NoJob
    BY <1>3, <1>7 DEF Release, Crash
  <2>2. /\ NoJob \in Job /\ NoJob.t = 0 /\ ~NoJob.listed /\ NoJob.key = Nobody
        /\ ~NoJob.fresh /\ NoJob.rev <= chan.colrev
    BY <1>1, Blanks DEF NoJob
  <2> QED BY <1>2, <2>1, <2>2, Leaving
<1>8. ASSUME Discovered(c) PROVE Session(c)'
  <2>1. PICK t \in {0} \cup {t \in 1..now : past[t] = past[now] /\ past[now] # Nobody} :
            job' = [job EXCEPT ![c] =
                    [@ EXCEPT !.listed = TRUE, !.key = past[now], !.sub = past[now],
                              !.t = t, !.old = t # 0 /\ now > t + MaxAge]]
    BY <1>8 DEF Discovered
  <2>2. /\ job'[c].listed /\ job'[c].key = past[now] /\ job'[c].sub = past[now]
        /\ job'[c].t = t /\ job'[c].rev = job[c].rev /\ job'[c].fresh = job[c].fresh
    BY <1>1, <1>3, <2>1 DEF TypeOK, Job
  <2>3. pc[c] = "discovering" /\ pc'[c] = "found"
    BY <1>3, <1>8 DEF Discovered
  <2>4. past[now] \in Subject
    BY <1>1 DEF TypeOK
  <2> QED BY <1>1, <1>4, <2>1, <2>2, <2>3, <2>4 DEF Session, Keyed, Sourced, Past, Named,
      FoundBy, Prepared, FreshBy, Subject
<1>9. ASSUME DiscoveryFails(c) PROVE Session(c)'
  <2>1. pc[c] = "discovering" /\ pc'[c] = "found"
    BY <1>3, <1>9 DEF DiscoveryFails
  <2>2. CASE UNCHANGED job
    BY <1>1, <1>4, <2>1, <2>2 DEF Session, Keyed, Sourced, Past, Named, FoundBy,
       Prepared, FreshBy
  <2>3. ASSUME NEW k \in Stored,
               job' = [job EXCEPT ![c] =
                    [@ EXCEPT !.key = k, !.sub = rows[chan.eprev][k].sub]]
        PROVE  Session(c)'
    <3>1. /\ job'[c].key = k /\ job'[c].sub = rows[chan.eprev][k].sub
          /\ job'[c].listed = job[c].listed
          /\ job'[c].t = job[c].t /\ job'[c].rev = job[c].rev
          /\ job'[c].fresh = job[c].fresh
      BY <1>1, <1>3, <2>3 DEF TypeOK, Job
    <3>2. k \in Key /\ rows[chan.eprev][k].shown /\ RowSound(chan.eprev, k)
      BY <1>1 DEF Stored, IInv, TablesSound, Channel
    <3> QED BY <1>1, <1>4, <2>1, <3>1, <3>2 DEF Session, Keyed, Sourced, Past, Named,
        FoundBy, Prepared, FreshBy, RowSound
  <2> QED BY <1>9, <2>2, <2>3 DEF DiscoveryFails
<1>10. ASSUME Recheck(c) PROVE Session(c)'
  <2>1. job' = job /\ holder' = holder /\ pc[c] \in {"found", "answered", "failing"}
    BY <1>10 DEF Recheck
  <2>2. \/ pc'[c] = "releasing"
        \/ /\ Current(c)
           /\ \/ pc'[c] \in {"failed", "prepare", "attempt", "failing"}
              \/ pc'[c] = "headers" /\ ~job[c].listed
              \/ pc'[c] = "screen" /\ pc[c] = "answered" /\ job[c].listed /\ job[c].t # 0
    <3>1. CASE ~Current(c)
      BY <1>3, <1>10, <3>1 DEF Recheck
    <3>2. CASE Current(c) /\ pc[c] = "failing"
      BY <1>3, <1>10, <3>2 DEF Recheck
    <3>3. CASE Current(c) /\ pc[c] = "found"
      BY <1>3, <1>10, <3>3 DEF Recheck
    <3>4. CASE Current(c) /\ pc[c] = "answered"
      BY <1>3, <1>10, <3>4 DEF Recheck
    <3> QED BY <2>1, <3>1, <3>2, <3>3, <3>4
  <2> QED BY <1>1, <1>4, <2>1, <2>2 DEF Session, Keyed, Sourced, Past, Named, FoundBy,
      Prepared, FreshBy, Current, Guarded, SourceUnchanged
<1>11. ASSUME Queried(c) PROVE Session(c)'
  <2>1. /\ pc[c] = "querying" /\ holder' = holder
        /\ pc'[c] \in {"answered", "headers", "screen"}
    BY <1>3, <1>11 DEF Queried
  <2> DEFINE Kept == /\ job'[c].key = job[c].key /\ job'[c].sub = job[c].sub
                     /\ job'[c].listed = job[c].listed /\ job'[c].rev = job[c].rev
                     /\ job'[c].ep = job[c].ep /\ job'[c].fresh = job[c].fresh
  <2>2. Kept
    <3>1. CASE UNCHANGED job
      BY <3>1
    <3>2. ASSUME NEW t, NEW old, Reading(c, job[c].key, job[c].sub, t, old)
          PROVE  Kept
      BY <1>1, <1>3, <3>2 DEF Reading, TypeOK, Job
    <3> HIDE DEF Kept
    <3> QED BY <1>11, <3>1, <3>2 DEF Queried
  <2> QED BY <1>1, <1>4, <2>1, <2>2 DEF Session, Keyed, Sourced, Past, Named, FoundBy,
      Prepared, FreshBy, Guarded, SourceUnchanged
<1>12. ASSUME Headers(c) PROVE Session(c)'
  <2>1. pc[c] = "headers" /\ holder' = holder /\ pc'[c] = "answered"
    BY <1>3, <1>12 DEF Headers
  <2> DEFINE Kept ==
        /\ job'[c].listed = job[c].listed /\ job'[c].rev = job[c].rev
        /\ job'[c].ep = job[c].ep /\ job'[c].fresh = job[c].fresh
        /\ \/ /\ job'[c].key = job[c].key /\ job'[c].sub = job[c].sub
              /\ job'[c].t = job[c].t \/ job[c].key # Nobody
           \/ job'[c].key = Locator /\ job[c].key = Nobody
  <2>2. Kept
    <3>1. CASE UNCHANGED job
      BY <3>1
    <3>2. ASSUME NEW t, NEW old, job[c].key # Nobody,
                 Reading(c, job[c].key, job[c].sub, t, old)
          PROVE  Kept
      BY <1>1, <1>3, <3>2 DEF Reading, TypeOK, Job
    <3>3. ASSUME NEW t, NEW old, NEW who, job[c].key = Nobody,
                 Reading(c, Locator, who, t, old)
          PROVE  Kept
      BY <1>1, <1>3, <3>3 DEF Reading, TypeOK, Job
    <3> HIDE DEF Kept
    <3> QED BY <1>12, <3>1, <3>2, <3>3 DEF Headers
  <2> QED BY <1>1, <1>4, <2>1, <2>2 DEF Session, Keyed, Sourced, Past, Named, FoundBy,
      Prepared, FreshBy, Guarded, SourceUnchanged
<1>13. ASSUME Screen(c) PROVE Session(c)'
  <2>1. pc[c] = "screen" /\ holder = c /\ holder' = holder
    BY <1>13 DEF Screen
  <2>2. CASE pc'[c] = "attempt" /\ Last(c, FALSE)
    <3>1. PICK j \in Job : /\ job' = [job EXCEPT ![c] = j] /\ j.t = 0 /\ ~j.listed
                           /\ j.key = Nobody /\ ~j.fresh /\ j.rev = job[c].rev
                           /\ j.ep = job[c].ep
      BY <1>1, <2>2, LastJob
    <3>2. job'[c] = j
      BY <1>3, <3>1
    <3> QED BY <1>1, <1>4, <2>1, <2>2, <3>1, <3>2 DEF Session, Keyed, Sourced, Past, Named,
        FoundBy, Prepared, FreshBy, SourceUnchanged
  <2>3. CASE /\ ~(job[c].t # 0 /\ Refused(rows[chan.eprev][job[c].key], job[c].t))
             /\ pc'[c] = "store" /\ job' = [job EXCEPT ![c].gen = chan.eprev]
    <3>1. /\ job'[c].gen = chan.eprev /\ job'[c].listed = job[c].listed
          /\ job'[c].rev = job[c].rev /\ job'[c].ep = job[c].ep
          /\ job'[c].key = job[c].key /\ job'[c].sub = job[c].sub
          /\ job'[c].t = job[c].t /\ job'[c].fresh = job[c].fresh
      BY <1>1, <2>3 DEF TypeOK, Job
    <3> QED BY <1>1, <1>4, <2>1, <2>3, <3>1 DEF Session, Keyed, Sourced, Past, Named,
        FoundBy, Prepared, FreshBy, Guarded, SourceUnchanged, Refused
  <2> QED BY <1>3, <1>13, <2>2, <2>3 DEF Screen
<1> QED BY <1>5, <1>6, <1>7, <1>8, <1>9, <1>10, <1>11, <1>12, <1>13 DEF Collect, Writes

-------------------------------------------------------------------------------
(* What the writing steps do to a session, to the tables and to all others.*)

(* An account that was listed, or known under its identity, is canonical.  *)
LEMMA CanonicalName ==
    ASSUME IInv, NEW c \in Owner, job[c].key # Nobody, chan.live
    PROVE  LET j == job[c]
           IN  /\ j.key \in Identity => Canonical(j) = j.key
               /\ Canonical(j) \in Identity => j.sub \in {Canonical(j), Nobody}
               /\ j.listed => Canonical(j) = j.key /\ j.sub = j.key
<1> DEFINE j == job[c]
           twins == {k \in Key : accts[k].state # "none" /\ accts[k].sub = j.sub}
           own == accts[j.key].state # "none" \/ Renames(j) \/ j.sub = Nobody \/ twins = {}
<1>1. Named(c) /\ \A k \in Key : AcctSound(k)
  BY DEF IInv, Session, TablesSound
<1>2. CASE own
  <2>1. Canonical(j) = j.key
    BY <1>2 DEF Canonical
  <2> QED BY <1>1, <2>1 DEF Named
<1>3. CASE ~own
  <2>1. Canonical(j) \in twins
    <3>1. Canonical(j) = CHOOSE k \in twins : TRUE
      BY <1>3 DEF Canonical
    <3>2. twins # {}
      BY <1>3
    <3> HIDE DEF twins
    <3> QED BY <3>1, <3>2
  <2>2. CASE j.listed
    <3>1. Canonical(j) # Locator
      BY <1>3, <2>1, <2>2 DEF Renames, Compatible
    <3>2. Canonical(j) \in Identity
      BY <2>1, <3>1 DEF Key
    <3> QED BY <1>1, <1>3, <2>1, <2>2, <3>2 DEF Named, AcctSound
  <2>3. CASE ~j.listed
    <3>1. j.key \notin Identity
      BY <1>1, <1>3, <2>3 DEF Named
    <3> QED BY <1>1, <1>3, <2>1, <2>3, <3>1 DEF AcctSound
  <2> QED BY <2>2, <2>3
<1> QED BY <1>2, <1>3

(* Accounts under an identity remain, until the channel is deleted.        *)
LEMMA AccountsFoundSound ==
    ASSUME IInv, NEW c \in Owner, job[c].key # Nobody, chan.live, NEW k \in Key
    PROVE  LET a == AccountsFound(job[c])[k]
           IN  /\ k \in Identity /\ accts[k].state # "none" => a.state # "none"
               /\ k = Canonical(job[c]) => a.state = "shown"
               /\ k # Canonical(job[c]) => a.state # "shown"
               /\ k \in Identity => a.sub \in {k, Nobody}
<1> DEFINE j == job[c]
           a == AccountsFound(j)[k]
<1>0. job[c] \in Job /\ accts[k] \in Acct /\ AcctSound(k) /\ Named(c)
  BY DEF IInv, TypeOK, TablesSound, Session
<1>1. a = CASE k = Canonical(j) ->
                [state |-> "shown",
                 sub |-> Or(j.sub, IF Renames(j) THEN accts[Locator].sub
                                                 ELSE accts[k].sub)]
            [] k # Canonical(j) /\ k = Locator /\ Renames(j) -> NoAcct
            [] OTHER -> Hidden(accts[k])
  BY Zenon DEF AccountsFound
<1>2. CASE k = Canonical(j)
  <2>1. a = [state |-> "shown",
             sub |-> Or(j.sub, IF Renames(j) THEN accts[Locator].sub ELSE accts[k].sub)]
    BY <1>1, <1>2, Zenon
  <2>2. ASSUME k \in Identity PROVE a.sub \in {k, Nobody}
    <3>1. j.sub \in {k, Nobody} /\ (Renames(j) => j.sub = k)
      BY <1>2, <2>2, CanonicalName DEF Renames
    <3>2. accts[k].sub \in {k, Nobody}
      BY <1>0, <2>2 DEF AcctSound
    <3> QED BY <2>1, <2>2, <3>1, <3>2, Constants DEF Or
  <2> QED BY <1>2, <2>1, <2>2
<1>3. CASE k # Canonical(j) /\ k = Locator /\ Renames(j)
  <2>1. a = NoAcct
    BY <1>1, <1>3, Zenon
  <2> QED BY <1>3, <2>1 DEF NoAcct
<1>4. CASE k # Canonical(j) /\ ~(k = Locator /\ Renames(j))
  <2>1. a = Hidden(accts[k])
    BY <1>1, <1>4, Zenon
  <2> QED BY <1>0, <1>4, <2>1 DEF Hidden, AcctSound
<1> QED BY <1>2, <1>3, <1>4

LEMMA HiddenRowIs ==
    ASSUME NEW r \in Row
    PROVE  LET h == HiddenRow(r)
           IN  /\ h.here = r.here /\ ~h.shown /\ h.at = r.at /\ h.floor = r.floor
               /\ h.sub = r.sub /\ h.from = r.from
               /\ h.at # 0 => h.stale
<1>1. HiddenRow(r) = [r EXCEPT !.shown = FALSE, !.stale = (r.stale \/ r.at # 0)]
  BY DEF HiddenRow
<1>2. (r.stale \/ r.at # 0) = TRUE \/ r.at = 0
  OBVIOUS
<1>3. PICK old \in BOOLEAN : /\ HiddenRow(r) = [r EXCEPT !.shown = FALSE, !.stale = old]
                             /\ old \/ r.at = 0
  <2>1. (r.stale \/ r.at # 0) \in BOOLEAN
    OBVIOUS
  <2> QED BY <1>1, <1>2, <2>1, Zenon
<1> QED BY <1>3 DEF Row

(* Discovery moves rows about and hides them; none is fresh after it.      *)
LEMMA RowsFoundSound ==
    ASSUME IInv, NEW c \in Owner, job[c].key # Nobody, chan.live,
           NEW g \in Gen, NEW k \in Key
    PROVE  LET r == RowsFound(job[c])[g][k]
           IN  /\ r.shown => r.here
               /\ ~r.here => r.at = 0 /\ r.floor = 0
               /\ r.at # 0 => r.from = g /\ r.stale
               /\ k \in Identity => /\ r.sub \in {k, Nobody}
                                    /\ r.here => rows[g][k].here \/ k = Canonical(job[c])
<1> DEFINE j == job[c]
           r == RowsFound(j)[g][k]
<1>0. /\ job[c] \in Job /\ rows[g][k] \in Row /\ RowSound(g, k)
      /\ rows[g][Locator] \in Row /\ RowSound(g, Locator)
  BY Constants DEF IInv, TypeOK, TablesSound
<1>1. CASE g = chan.eprev /\ k = Canonical(j)
  <2>1. r = RowFound(j)
    BY <1>1, FoundRows
  <2>2. PICK base : /\ \/ base = HiddenRow(rows[g][k])
                       \/ base = HiddenRow(rows[g][Locator]) /\ Legacy(j)
                       \/ base = [NoRow EXCEPT !.floor = now]
                       \/ base = [NoRow EXCEPT !.floor = 0]
                    /\ r = [base EXCEPT !.here = TRUE, !.shown = TRUE,
                                        !.loc = TRUE, !.sub = Or(j.sub, @)]
    BY <1>1, <2>1, FoundBase
  <2>3. ASSUME k \in Identity
        PROVE  j.sub \in {k, Nobody} /\ (Legacy(j) => j.sub = k)
    BY <1>1, <2>3, CanonicalName DEF Legacy
  <2>4. CASE base = HiddenRow(rows[g][k])
    <3>1. base \in Row
      BY <1>0, <2>4, HiddenRowType
    <3>2. r.here /\ r.shown /\ r.at = base.at /\ r.from = base.from /\ r.stale = base.stale
          /\ r.sub = Or(j.sub, base.sub)
      BY <2>2, <3>1 DEF Row
    <3>3. /\ base.at # 0 => base.from = g /\ base.stale
          /\ k \in Identity => base.sub \in {k, Nobody}
      BY <1>0, <2>4, HiddenRowIs DEF RowSound
    <3> QED BY <1>1, <2>3, <3>2, <3>3 DEF Or
  <2>5. CASE base = HiddenRow(rows[g][Locator]) /\ Legacy(j)
    <3>1. base \in Row
      BY <1>0, <2>5, HiddenRowType
    <3>2. r.here /\ r.shown /\ r.at = base.at /\ r.from = base.from /\ r.stale = base.stale
          /\ r.sub = Or(j.sub, base.sub)
      BY <2>2, <3>1 DEF Row
    <3>3. base.at # 0 => base.from = g /\ base.stale
      BY <1>0, <2>5, HiddenRowIs DEF RowSound
    <3> QED BY <1>1, <2>3, <2>5, <3>2, <3>3, Constants DEF Or
  <2>6. CASE base = [NoRow EXCEPT !.floor = now] \/ base = [NoRow EXCEPT !.floor = 0]
    <3>1. r.here /\ r.shown /\ r.at = 0 /\ r.sub = Or(j.sub, Nobody)
      BY <2>2, <2>6 DEF NoRow
    <3> QED BY <1>1, <2>3, <3>1 DEF Or
  <2> QED BY <2>2, <2>4, <2>5, <2>6
<1>2. CASE g # chan.eprev \/ k # Canonical(j)
  <2>1. r \in {NoRow, HiddenRow(rows[g][k])}
    BY <1>2, FoundRows
  <2>2. CASE r = NoRow
    BY <2>2 DEF NoRow
  <2>3. CASE r = HiddenRow(rows[g][k])
    BY <1>0, <2>3, HiddenRowIs DEF RowSound
  <2> QED BY <2>1, <2>2, <2>3
<1> QED BY <1>1, <1>2

(* What a session that may store is about to write.                        *)
LEMMA Storing ==
    ASSUME IInv, NEW c \in Owner, Store(c)
    PROVE  /\ job[c] \in Job /\ job[c].key \in Key /\ job[c].gen = chan.eprev
           /\ job[c].gen \in Gen /\ job[c].ep = job[c].gen /\ chan.selected
           /\ job[c].key \in Identity => found = job[c].key
           /\ job[c].t # 0 => ~Refused(rows[job[c].gen][job[c].key], job[c].t)
           /\ rows[job[c].gen][job[c].key] \in Row
           /\ RowSound(job[c].gen, job[c].key)
<1>1. pc[c] = "store" /\ Guarded(c) /\ Session(c) /\ TypeOK
  BY DEF Store, IInv
<1>2. job[c] \in Job /\ job[c].key \in Key
  BY <1>1 DEF TypeOK, Job, Session, Keyed
<1>3. job[c].gen = chan.eprev /\ job[c].ep = job[c].gen /\ chan.selected
  BY <1>1 DEF Session, Sourced, Past, Guarded
<1>4. job[c].gen \in Gen
  BY <1>2 DEF Job
<1>5. job[c].key \in Identity => found = job[c].key
  BY <1>1 DEF Session, FoundBy, Prepared
<1>6. job[c].t # 0 => ~Refused(rows[job[c].gen][job[c].key], job[c].t)
  BY <1>1 DEF Session, FreshBy
<1> QED BY <1>1, <1>2, <1>3, <1>4, <1>5, <1>6 DEF IInv, TypeOK, TablesSound

(* ... and the row it leaves: a failure keeps the windows, a reading is    *)
(* shown, and either has replaced them or has the same moment.             *)
LEMMA StoredRow ==
    ASSUME NEW r \in Row, NEW j \in Job
    PROVE  /\ LET s == RowFailed(r)
              IN  /\ s.here /\ s.at = r.at /\ s.floor = r.floor /\ s.sub = r.sub
                  /\ s.from = r.from /\ (s.at # 0 => s.stale)
           /\ ~Refused(r, j.t) =>
                LET s == RowRead(r, j)
                IN  /\ s.here /\ s.shown /\ s.at = j.t /\ s.floor = r.floor
                    /\ s.sub = r.sub /\ s.stale = j.old
                    /\ s.from = j.ep \/ (r.here /\ r.at = j.t /\ s.from = r.from)
<1>1. PICK old \in BOOLEAN : /\ RowFailed(r) = [r EXCEPT !.here = TRUE, !.shown = TRUE,
                                                        !.stale = old]
                             /\ old \/ r.at = 0
  <2>1. (r.at # 0) \in BOOLEAN /\ ((r.at # 0) \/ r.at = 0)
    OBVIOUS
  <2> QED BY <2>1, Zenon DEF RowFailed
<1>2. LET s == RowFailed(r)
      IN  /\ s.here /\ s.at = r.at /\ s.floor = r.floor /\ s.sub = r.sub
          /\ s.from = r.from /\ (s.at # 0 => s.stale)
  BY <1>1 DEF Row
<1>3. ASSUME ~Refused(r, j.t)
      PROVE  LET s == RowRead(r, j)
             IN  /\ s.here /\ s.shown /\ s.at = j.t /\ s.floor = r.floor
                 /\ s.sub = r.sub /\ s.stale = j.old
                 /\ s.from = j.ep \/ (r.here /\ r.at = j.t /\ s.from = r.from)
  <2>1. CASE r.here /\ r.at = j.t
    <3>1. RowRead(r, j) = [r EXCEPT !.shown = TRUE, !.stale = j.old]
      BY <1>3, <2>1 DEF RowRead
    <3> QED BY <2>1, <3>1 DEF Row
  <2>2. CASE ~(r.here /\ r.at = j.t)
    <3>1. RowRead(r, j) = [r EXCEPT !.here = TRUE, !.shown = TRUE, !.at = j.t,
                                    !.stale = j.old, !.from = j.ep]
      BY <1>3, <2>2 DEF RowRead
    <3> QED BY <3>1 DEF Row
  <2> QED BY <2>1, <2>2
<1> QED BY <1>2, <1>3

(* The effect of a stored answer, in the terms that the rest needs.        *)
LEMMA StoreEffect ==
    ASSUME IInv, NEW c \in Owner, Store(c)
    PROVE  LET j == job[c]
               r == rows[j.gen][j.key]
               s == rows'[j.gen][j.key]
           IN  /\ rows' \in [Gen -> [Key -> Row]]
               /\ \A g \in Gen : \A k \in Key :
                    g # j.gen \/ k # j.key => rows'[g][k] = rows[g][k]
               /\ s.here /\ s.floor = r.floor /\ s.sub = r.sub
               /\ s.at # 0 => s.from = j.gen
               /\ \/ /\ j.t = 0 /\ s.at = r.at /\ (s.at # 0 => s.stale) /\ since' = since
                     /\ pc'[c] = "failing" /\ Last(c, FALSE)
                  \/ /\ j.t # 0 /\ s.shown /\ s.at = j.t /\ s.stale = j.old
                     /\ since' = (IF j.old THEN since ELSE since \cup {<<j.gen, j.key>>})
                     /\ pc'[c] = "attempt" /\ Last(c, ~j.old)
<1> DEFINE j == job[c]
           r == rows[j.gen][j.key]
           s == rows'[j.gen][j.key]
<1>1. /\ j \in Job /\ j.key \in Key /\ j.gen \in Gen /\ j.ep = j.gen /\ r \in Row
      /\ j.t # 0 => ~Refused(r, j.t)
      /\ r.at # 0 => r.from = j.gen
  BY Storing DEF RowSound
<1>2. TypeOK /\ TypeOK'
  BY InvTyped, WriteTyped DEF IInv, Writes
<1>3. rows' = [rows EXCEPT ![j.gen] = [rows[j.gen] EXCEPT ![j.key] =
                    IF j.t # 0 THEN RowRead(r, j) ELSE RowFailed(r)]]
  BY DEF Store
<1>4. s = IF j.t # 0 THEN RowRead(r, j) ELSE RowFailed(r)
  BY <1>1, <1>2, <1>3 DEF TypeOK
<1>5. \A g \in Gen : \A k \in Key : g # j.gen \/ k # j.key => rows'[g][k] = rows[g][k]
  BY <1>1, <1>2, <1>3 DEF TypeOK
<1>6. CASE j.t = 0
  <2>1. s = RowFailed(r)
    BY <1>4, <1>6
  <2>2. since' = since
    BY <1>6 DEF Store
  <2>3. pc'[c] = "failing"
    BY <1>2, <1>6 DEF Store, Goto, TypeOK
  <2>4. Last(c, FALSE)
    <3>1. Last(c, j.t # 0 /\ ~j.old)
      BY DEF Store
    <3>2. (j.t # 0 /\ ~j.old) = FALSE
      BY <1>6
    <3> QED BY <3>1, <3>2, Zenon
  <2>5. /\ s.here /\ s.at = r.at /\ s.floor = r.floor /\ s.sub = r.sub
        /\ s.from = r.from /\ (s.at # 0 => s.stale)
    <3> HIDE DEF j, r, s
    <3> QED BY <1>1, <2>1, StoredRow
  <2>6. rows' \in [Gen -> [Key -> Row]]
    BY <1>2 DEF TypeOK
  <2> QED BY <1>1, <1>5, <1>6, <2>2, <2>3, <2>4, <2>5, <2>6
<1>7. CASE j.t # 0
  <2>1. s = RowRead(r, j) /\ ~Refused(r, j.t)
    BY <1>1, <1>4, <1>7
  <2>2. since' = IF j.old THEN since ELSE since \cup {<<j.gen, j.key>>}
    BY <1>7 DEF Store
  <2>3. pc'[c] = "attempt"
    BY <1>2, <1>7 DEF Store, Goto, TypeOK
  <2>4. Last(c, ~j.old)
    <3>1. Last(c, j.t # 0 /\ ~j.old)
      BY DEF Store
    <3>2. (j.t # 0 /\ ~j.old) = ~j.old
      BY <1>7
    <3> QED BY <3>1, <3>2, Zenon
  <2>5. /\ s.here /\ s.shown /\ s.at = j.t /\ s.floor = r.floor /\ s.sub = r.sub
        /\ s.stale = j.old /\ s.from = j.gen
    <3> HIDE DEF j, r, s
    <3> QED BY <1>1, <1>7, <2>1, StoredRow
  <2>6. rows' \in [Gen -> [Key -> Row]]
    BY <1>2 DEF TypeOK
  <2> QED BY <1>5, <1>7, <2>2, <2>3, <2>4, <2>5, <2>6
<1> QED BY <1>1, <1>6, <1>7 DEF Job, Time

(* Everything is outdated: windows stay and are stale.                     *)
LEMMA OutdatedRows ==
    ASSUME rows \in [Gen -> [Key -> Row]], NEW g \in Gen, NEW k \in Key
    PROVE  LET s == AllOutdated[g][k]
               r == rows[g][k]
           IN  /\ s.here = r.here /\ s.shown = r.shown /\ s.at = r.at
               /\ s.floor = r.floor /\ s.sub = r.sub /\ s.from = r.from
               /\ s.at # 0 => s.stale
<1> DEFINE r == rows[g][k]
<1>1. AllOutdated[g][k] = [r EXCEPT !.stale = r.at # 0]
  BY DEF AllOutdated
<1>2. PICK old \in BOOLEAN : /\ AllOutdated[g][k] = [r EXCEPT !.stale = old]
                             /\ old \/ r.at = 0
  <2>1. (r.at # 0) \in BOOLEAN /\ ((r.at # 0) \/ r.at = 0)
    OBVIOUS
  <2> QED BY <1>1, <2>1, Zenon
<1>3. r \in Row
  OBVIOUS
<1> QED BY <1>2, <1>3 DEF Row

LEMMA WriteTables ==
    ASSUME IInv, NEW c \in Owner, Writes(c)
    PROVE  TablesSound' /\ FreshSinceDiscovery'
<1>0. /\ rows \in [Gen -> [Key -> Row]] /\ accts \in [Key -> Acct]
      /\ TablesSound /\ FreshSinceDiscovery /\ job[c] \in Job
  BY DEF IInv, TypeOK
<1>1. ASSUME Prepare(c), job[c].key = Nobody PROVE TablesSound' /\ FreshSinceDiscovery'
  <2>1. /\ accts' = HideAccounts
        /\ rows' = [g \in Gen |-> [k \in Key |-> HiddenRow(rows[g][k])]]
    BY <1>1 DEF Prepare
  <2>2. ASSUME NEW g \in Gen, NEW k \in Key
        PROVE  rows'[g][k] = HiddenRow(rows[g][k]) /\ accts'[k] = Hidden(accts[k])
    BY <2>1 DEF HideAccounts
  <2>3. ASSUME NEW k \in Key
        PROVE  AcctSound(k)' /\ (accts[k].state # "none" => accts'[k].state # "none")
    BY <1>0, <2>1 DEF HideAccounts, Hidden, TablesSound, AcctSound
  <2>4. ASSUME NEW g \in Gen, NEW k \in Key
        PROVE  RowSound(g, k)' /\ (rows'[g][k].at # 0 => rows'[g][k].stale)
    <3>1. rows[g][k] \in Row /\ RowSound(g, k)
      BY <1>0 DEF TablesSound
    <3> QED BY <2>2, <2>3, <3>1, HiddenRowIs DEF RowSound
  <2> QED BY <2>3, <2>4 DEF TablesSound, FreshSinceDiscovery
<1>2. ASSUME Prepare(c), job[c].key # Nobody PROVE TablesSound' /\ FreshSinceDiscovery'
  <2>1. /\ accts' = AccountsFound(job[c]) /\ rows' = RowsFound(job[c])
        /\ found' = Canonical(job[c]) /\ chan.live
    BY <1>2 DEF Prepare, Guarded, SourceUnchanged
  <2>2. ASSUME NEW k \in Key
        PROVE  /\ AcctSound(k)'
               /\ k \in Identity /\ (accts[k].state # "none" \/ k = Canonical(job[c])) =>
                    accts'[k].state # "none"
    BY <1>2, <2>1, AccountsFoundSound DEF AcctSound
  <2>3. ASSUME NEW g \in Gen, NEW k \in Key
        PROVE  RowSound(g, k)' /\ (rows'[g][k].at # 0 => rows'[g][k].stale)
    <3>1. RowSound(g, k)
      BY <1>0 DEF TablesSound
    <3> QED BY <1>2, <2>1, <2>2, <3>1, RowsFoundSound DEF RowSound
  <2> QED BY <2>2, <2>3 DEF TablesSound, FreshSinceDiscovery
<1>3. ASSUME Store(c) PROVE TablesSound' /\ FreshSinceDiscovery'
  <2> DEFINE j == job[c]
  <2>1. /\ j.key \in Key /\ j.gen \in Gen /\ RowSound(j.gen, j.key)
        /\ j.key \in Identity => found = j.key
    BY <1>3, Storing
  <2>2. /\ accts' = [accts EXCEPT ![j.key] = [state |-> "shown", sub |-> accts[j.key].sub]]
        /\ found' = found
    BY <1>3 DEF Store
  <2>3. ASSUME NEW k \in Key
        PROVE AcctSound(k)' /\ (accts[k].state # "none" \/ k = j.key => accts'[k].state # "none")
    BY <1>0, <2>1, <2>2 DEF TablesSound, AcctSound
  <2>4. /\ \A g \in Gen : \A k \in Key :
                g # j.gen \/ k # j.key => rows'[g][k] = rows[g][k]
        /\ since \subseteq since'
        /\ LET r == rows[j.gen][j.key]
               s == rows'[j.gen][j.key]
           IN  /\ s.here /\ s.sub = r.sub /\ (s.at # 0 => s.from = j.gen)
               /\ s.at # 0 /\ ~s.stale => <<j.gen, j.key>> \in since'
    BY <1>3, StoreEffect
  <2> HIDE DEF j
  <2>5. ASSUME NEW g \in Gen, NEW k \in Key
        PROVE  /\ RowSound(g, k)'
               /\ rows'[g][k].at # 0 /\ ~rows'[g][k].stale => <<g, k>> \in since'
    <3>1. CASE g = j.gen /\ k = j.key
      <4>1. /\ rows'[g][k].here /\ rows'[g][k].sub = rows[g][k].sub
            /\ rows'[g][k].at # 0 => rows'[g][k].from = g
            /\ rows'[g][k].at # 0 /\ ~rows'[g][k].stale => <<g, k>> \in since'
        BY <1>3, <3>1, <2>4
      <4> QED BY <2>1, <2>3, <3>1, <4>1 DEF RowSound
    <3>2. CASE g # j.gen \/ k # j.key
      <4>1. rows'[g][k] = rows[g][k] /\ since \subseteq since'
        BY <1>3, <3>2, <2>4
      <4>2. RowSound(g, k) /\ (rows[g][k].at # 0 /\ ~rows[g][k].stale => <<g, k>> \in since)
        BY <1>0 DEF TablesSound, FreshSinceDiscovery
      <4> QED BY <2>3, <4>1, <4>2 DEF RowSound
    <3> QED BY <3>1, <3>2
  <2> QED BY <2>3, <2>5 DEF TablesSound, FreshSinceDiscovery
<1>4. ASSUME Attempt(c) \/ FailAttempt(c) PROVE TablesSound' /\ FreshSinceDiscovery'
  <2>1. UNCHANGED <<accts, found>>
    BY <1>4 DEF Attempt, FailAttempt
  <2>2. CASE UNCHANGED <<rows, since>>
    BY <1>0, <2>1, <2>2 DEF TablesSound, RowSound, AcctSound, FreshSinceDiscovery
  <2>3. CASE rows' = AllOutdated
    <3>1. ASSUME NEW g \in Gen, NEW k \in Key
          PROVE  RowSound(g, k)' /\ (rows'[g][k].at # 0 => rows'[g][k].stale)
      <4>1. RowSound(g, k)
        BY <1>0 DEF TablesSound
      <4> QED BY <1>0, <2>1, <2>3, <4>1, OutdatedRows DEF RowSound
    <3>2. \A k \in Key : AcctSound(k)'
      BY <1>0, <2>1 DEF TablesSound, AcctSound
    <3> QED BY <3>1, <3>2 DEF TablesSound, FreshSinceDiscovery
  <2> QED BY <1>4, <2>2, <2>3 DEF Attempt, FailAttempt
<1> QED BY <1>1, <1>2, <1>3, <1>4 DEF Writes

(* Of the lease, the channel and the other sessions a writer leaves all,   *)
(* but for the channel's own status, and of the identities every account.  *)
LEMMA WriteFrame ==
    ASSUME IInv, NEW c \in Owner, Writes(c)
    PROVE  /\ Guarded(c) /\ holder' = holder
           /\ chan'.live = chan.live /\ chan'.enabled = chan.enabled
           /\ chan'.selected = chan.selected /\ chan'.eprev = chan.eprev
           /\ chan'.colrev = chan.colrev
           /\ \A d \in Owner \ {c} : pc'[d] = pc[d] /\ job'[d] = job[d]
           /\ \A k \in Identity : accts[k].state # "none" => accts'[k].state # "none"
<1>1. TypeOK /\ chan \in Channel /\ accts \in [Key -> Acct]
  BY DEF IInv, TypeOK
<1>2. Guarded(c) /\ holder' = holder
  BY DEF Writes, Prepare, Store, Attempt, FailAttempt
<1>3. chan' = chan \/ \E f : chan' = [chan EXCEPT !.fresh = f]
  BY DEF Writes, Prepare, Store, Attempt, FailAttempt
<1>4. ASSUME NEW d \in Owner \ {c} PROVE pc'[d] = pc[d] /\ job'[d] = job[d]
  <2>1. \E l : pc' = [pc EXCEPT ![c] = l]
    BY DEF Writes, Prepare, Store, Attempt, FailAttempt, Goto
  <2>2. job' = job \/ \E j : job' = [job EXCEPT ![c] = j]
    BY DEF Writes, Prepare, Store, Attempt, FailAttempt, Last
  <2> QED BY <1>1, <2>1, <2>2 DEF TypeOK
<1>5. ASSUME NEW k \in Identity, accts[k].state # "none"
      PROVE  accts'[k].state # "none"
  <2>1. k \in Key
    BY Constants
  <2>2. CASE Prepare(c) /\ job[c].key = Nobody
    <3>1. accts'[k] = Hidden(accts[k])
      BY <2>1, <2>2 DEF Prepare, HideAccounts
    <3> QED BY <1>5, <3>1 DEF Hidden
  <2>3. CASE Prepare(c) /\ job[c].key # Nobody
    <3>1. accts'[k] = AccountsFound(job[c])[k] /\ chan.live
      BY <2>3 DEF Prepare, Guarded, SourceUnchanged
    <3> QED BY <1>5, <2>1, <2>3, <3>1, AccountsFoundSound
  <2>4. CASE Store(c)
    <3>1. accts' = [accts EXCEPT ![job[c].key] =
                        [state |-> "shown", sub |-> accts[job[c].key].sub]]
      BY <2>4 DEF Store
    <3> QED BY <1>1, <1>5, <2>1, <3>1
  <2>5. CASE Attempt(c) \/ FailAttempt(c)
    BY <1>5, <2>5 DEF Attempt, FailAttempt
  <2> QED BY <2>2, <2>3, <2>4, <2>5 DEF Writes
<1> QED BY <1>1, <1>2, <1>3, <1>4, <1>5 DEF Channel

LEMMA WriteOthers ==
    ASSUME IInv, NEW c \in Owner, Writes(c), NEW d \in Owner, d # c
    PROVE  Session(d)'
<1>1. Session(d)
  BY DEF IInv
<1>2. /\ ~Guarded(d)' /\ (SourceUnchanged(d)' <=> SourceUnchanged(d))
      /\ pc'[d] = pc[d] /\ job'[d] = job[d]
  BY WriteFrame DEF Guarded, SourceUnchanged
<1>3. Keyed(d)' /\ Named(d)'
  BY <1>1, <1>2, WriteFrame DEF Session, Keyed, Named
<1>4. Sourced(d)'
  BY <1>1, <1>2, WriteFrame DEF Session, Sourced
<1>5. FoundBy(d)' /\ FreshBy(d)'
  BY <1>1, <1>2 DEF Session, FoundBy, FreshBy
<1> QED BY <1>3, <1>4, <1>5 DEF Session

LEMMA WriteOwn ==
    ASSUME IInv, NEW c \in Owner, Writes(c)
    PROVE  Session(c)'
<1> USE DEF Goto
<1>1. TypeOK /\ Session(c) /\ job[c] \in Job /\ job[c].rev <= chan.colrev
  BY DEF IInv, TypeOK, Session, Sourced
<1>2. \A l, j : /\ pc' = [pc EXCEPT ![c] = l] => pc'[c] = l
                /\ job' = [job EXCEPT ![c] = j] => job'[c] = j
  BY <1>1 DEF TypeOK
<1>3. ASSUME Prepare(c) PROVE Session(c)'
  <2>1. /\ pc[c] = "prepare" /\ job' = job /\ chan' = chan /\ Guarded(c)
        /\ job[c].key = Nobody => pc'[c] = "attempt"
        /\ job[c].key # Nobody => /\ found' = Canonical(job[c])
                                  /\ pc'[c] \in {"querying", "answered", "screen"}
    BY <1>2, <1>3 DEF Prepare
  <2>2. ~job[c].fresh
    BY <1>1, <2>1 DEF Session, FreshBy
  <2>3. job[c].key \in Identity => found' = job[c].key
    BY <2>1, CanonicalName, Constants DEF Guarded, SourceUnchanged
  <2>4. Keyed(c)' /\ Sourced(c)'
    BY <1>1, <2>1, Constants DEF Session, Keyed, Sourced, Past, SourceUnchanged
  <2>5. Named(c)'
    BY <1>1, <1>3, <2>1, WriteFrame DEF Session, Named, Writes
  <2>6. FoundBy(c)' /\ FreshBy(c)'
    BY <2>1, <2>2, <2>3, Constants DEF FoundBy, FreshBy, Prepared
  <2> QED BY <2>4, <2>5, <2>6 DEF Session
<1>4. ASSUME Store(c) PROVE Session(c)'
  <2> DEFINE j == job[c]
  <2>1. /\ j.gen = chan.eprev /\ j.gen \in Gen /\ j.key \in Key /\ j.ep = j.gen
        /\ chan.selected /\ chan' = chan
    BY <1>4, Storing DEF Store
  <2>2. /\ pc'[c] \in {"failing", "attempt"}
        /\ \/ pc'[c] = "failing" /\ Last(c, FALSE)
           \/ /\ FreshRow(rows'[j.gen][j.key]) \/ j.old
              /\ pc'[c] = "attempt" /\ Last(c, ~j.old)
    BY <1>4, StoreEffect DEF FreshRow
  <2>3. PICK i \in Job :
            /\ job'[c] = i /\ i.t = 0 /\ ~i.listed /\ i.key = Nobody
            /\ i.rev = j.rev /\ i.ep = j.ep
            /\ i.fresh => pc'[c] = "attempt" /\ FreshRow(rows'[j.gen][j.key])
    <3>1. ASSUME Last(c, FALSE)
          PROVE  \E i \in Job : /\ job'[c] = i /\ i.t = 0 /\ ~i.listed /\ i.key = Nobody
                                /\ ~i.fresh /\ i.rev = j.rev /\ i.ep = j.ep
      BY <1>1, <1>2, <3>1, LastJob, ZenonT(60)
    <3>2. ASSUME Last(c, TRUE)
          PROVE  \E i \in Job : /\ job'[c] = i /\ i.t = 0 /\ ~i.listed /\ i.key = Nobody
                                /\ i.rev = j.rev /\ i.ep = j.ep
      BY <1>1, <1>2, <3>2, LastJob, ZenonT(60)
    <3>3. CASE Last(c, FALSE)
      BY <3>1, <3>3
    <3>4. CASE ~Last(c, FALSE)
      <4>1. ~j.old
        <5>1. j.old => Last(c, ~j.old) /\ (~j.old) = FALSE
          BY <2>2, <3>4
        <5> QED BY <3>4, <5>1, Zenon
      <4>2. Last(c, TRUE)
        <5>1. Last(c, ~j.old) /\ (~j.old) = TRUE
          BY <2>2, <3>4, <4>1
        <5> QED BY <5>1, Zenon
      <4> QED BY <2>2, <3>2, <3>4, <4>1, <4>2
    <3> QED BY <3>3, <3>4
  <2>4. Keyed(c)' /\ Sourced(c)' /\ Named(c)'
    BY <1>1, <2>1, <2>2, <2>3, Constants DEF Keyed, Sourced, Past, Named, SourceUnchanged
  <2>5. FoundBy(c)' /\ FreshBy(c)'
    BY <2>1, <2>2, <2>3, Constants DEF FoundBy, FreshBy, Prepared
  <2> QED BY <2>4, <2>5 DEF Session
<1>5. ASSUME Attempt(c) \/ FailAttempt(c) PROVE Session(c)'
  <2>1. pc'[c] = "releasing" /\ chan'.colrev = chan.colrev
    BY <1>1, <1>2, <1>5, WriteFrame DEF Attempt, FailAttempt, Writes
  <2>2. CASE Attempt(c)
    <3>1. PICK j \in Job : /\ job'[c] = j /\ j.t = 0 /\ ~j.listed
                           /\ j.key = Nobody /\ ~j.fresh /\ j.rev = job[c].rev
      BY <1>1, <1>2, <2>2, LastJob DEF Attempt
    <3> QED BY <1>1, <2>1, <3>1, Constants DEF Session, Keyed, Sourced, Past, Named,
        FoundBy, Prepared, FreshBy
  <2>3. CASE FailAttempt(c)
    <3>1. job' = job /\ pc[c] = "failed"
      BY <2>3 DEF FailAttempt
    <3>2. Named(c)'
      BY <1>1, <1>5, <2>1, <3>1, WriteFrame DEF Session, Named, Writes
    <3> QED BY <1>1, <2>1, <3>1, <3>2 DEF Session, Keyed, Sourced, Past, FoundBy,
        Prepared, FreshBy
  <2> QED BY <1>5, <2>2, <2>3
<1> QED BY <1>3, <1>4, <1>5 DEF Writes

-------------------------------------------------------------------------------
(* The administrator: what is not deleted or counted as a change of the    *)
(* collection leaves the tables, and moves no endpoint that is collected.  *)
LEMMA AdminEffect ==
    ASSUME TypeOK, Administer
    PROVE  /\ UNCHANGED <<holder, pc, job>> /\ chan.colrev <= chan'.colrev
           /\ \/ /\ chan'.live = chan.live /\ chan'.enabled = chan.enabled
                 /\ chan'.selected = chan.selected /\ chan'.colrev = chan.colrev
                 /\ chan'.eprev = chan.eprev \/ ~chan.selected
                 /\ UNCHANGED <<accts, rows, since, found>>
              \/ /\ chan'.colrev # chan.colrev /\ chan'.live = chan.live
                 /\ UNCHANGED <<rows, since>>
                 /\ \/ UNCHANGED <<accts, found>>
                    \/ accts' = HideAccounts /\ found' = Nobody
              \/ /\ ~chan'.live /\ since' = {} /\ found' = Nobody
                 /\ accts' = [k \in Key |-> NoAcct]
                 /\ rows' = [g \in Gen |-> [k \in Key |-> NoRow]]
<1>1. chan \in Channel /\ chan.colrev \in Nat
  BY DEF TypeOK, Channel
<1>2. CASE Update
  <2>1. PICK moved \in BOOLEAN, en \in BOOLEAN :
            /\ chan' = [chan EXCEPT !.enabled = en,
                    !.eprev = IF moved THEN @ + 1 ELSE @,
                    !.colrev = IF (moved /\ chan.selected) \/ en # chan.enabled
                               THEN @ + 1 ELSE @]
            /\ accts' = IF moved /\ chan.selected THEN HideAccounts ELSE accts
            /\ found' = IF moved /\ chan.selected THEN Nobody ELSE found
    BY <1>2 DEF Update
  <2>2. UNCHANGED <<holder, rows, pc, job, since>>
    BY <1>2 DEF Update
  <2>3. CASE (moved /\ chan.selected) \/ en # chan.enabled
    BY <1>1, <2>1, <2>2, <2>3 DEF Channel
  <2>4. CASE ~((moved /\ chan.selected) \/ en # chan.enabled)
    BY <1>1, <2>1, <2>2, <2>4 DEF Channel
  <2> QED BY <2>3, <2>4
<1>3. CASE SetSource
  <2>1. chan' = [chan EXCEPT !.selected = ~chan.selected, !.colrev = chan.colrev + 1]
    BY <1>3 DEF SetSource
  <2>2. chan'.colrev = chan.colrev + 1 /\ chan'.live = chan.live
    BY <1>1, <2>1 DEF Channel
  <2>3. /\ accts' = HideAccounts /\ found' = Nobody
        /\ UNCHANGED <<holder, rows, pc, job, since>>
    BY <1>3 DEF SetSource
  <2>4. chan.colrev <= chan'.colrev /\ chan'.colrev # chan.colrev
    BY <1>1, <2>2
  <2> QED BY <2>2, <2>3, <2>4
<1>4. CASE Mark
  <2>1. chan' = [chan EXCEPT !.fresh = Outdated(chan.fresh)]
    BY <1>4 DEF Mark
  <2>2. /\ chan'.live = chan.live /\ chan'.enabled = chan.enabled
        /\ chan'.selected = chan.selected /\ chan'.colrev = chan.colrev
        /\ chan'.eprev = chan.eprev
    BY <1>1, <2>1 DEF Channel
  <2>3. UNCHANGED <<holder, accts, rows, pc, job, since, found>>
    BY <1>4 DEF Mark, history
  <2>4. chan.colrev <= chan'.colrev
    BY <1>1, <2>2
  <2> QED BY <2>2, <2>3, <2>4
<1>5. CASE Delete
  BY <1>1, <1>5 DEF Delete, Channel
<1> QED BY <1>2, <1>3, <1>4, <1>5 DEF Administer

LEMMA AdminSessions ==
    ASSUME IInv, Administer, NEW d \in Owner
    PROVE  Session(d)'
<1>1. /\ TypeOK /\ Session(d) /\ UNCHANGED <<holder, pc, job>>
      /\ job[d].rev \in Nat /\ chan.colrev \in Nat /\ chan'.colrev \in Nat
  <2>1. TypeOK /\ Session(d)
    BY DEF IInv
  <2>2. TypeOK'
    BY <2>1, OtherTyped
  <2>3. UNCHANGED <<holder, pc, job>>
    BY <2>1, AdminEffect
  <2>4. job[d] \in Job /\ chan \in Channel /\ chan' \in Channel
    BY <2>1, <2>2 DEF TypeOK
  <2> QED BY <2>1, <2>3, <2>4 DEF Channel, Job
<1>2. Keyed(d)'
  BY <1>1 DEF Session, Keyed
<1>3. CASE /\ chan'.live = chan.live /\ chan'.enabled = chan.enabled
           /\ chan'.selected = chan.selected /\ chan'.colrev = chan.colrev
           /\ chan'.eprev = chan.eprev \/ ~chan.selected
           /\ UNCHANGED <<accts, rows, since, found>>
  <2>1. SourceUnchanged(d)' <=> SourceUnchanged(d)
    BY <1>1, <1>3 DEF SourceUnchanged
  <2>2. SourceUnchanged(d) /\ pc[d] \in Past => chan'.eprev = chan.eprev
    BY <1>1, <1>3 DEF Session, Sourced
  <2>3. Sourced(d)'
    BY <1>1, <1>3, <2>1, <2>2 DEF Session, Sourced
  <2>4. Named(d)'
    BY <1>1, <1>3 DEF Session, Named
  <2>5. Guarded(d)' <=> Guarded(d)
    BY <1>1, <2>1 DEF Guarded
  <2>6. FoundBy(d)'
    BY <1>1, <1>3, <2>5 DEF Session, FoundBy, Prepared
  <2>7. Guarded(d) /\ job[d].fresh => chan'.eprev = chan.eprev
    BY <1>1, <2>2 DEF Session, FreshBy, Guarded, Past
  <2>8. FreshBy(d)'
    BY <1>1, <1>3, <2>5, <2>7 DEF Session, FreshBy, Refused, FreshRow
  <2> QED BY <1>2, <2>3, <2>4, <2>6, <2>8 DEF Session
<1>4. CASE /\ chan'.colrev # chan.colrev /\ chan'.live = chan.live
           /\ UNCHANGED accts \/ accts' = HideAccounts
  <2>1. ~SourceUnchanged(d)' /\ chan.colrev < chan'.colrev
    BY <1>1, <1>4, AdminEffect DEF SourceUnchanged, Session, Sourced
  <2>2. \A k \in Identity : accts[k].state # "none" => accts'[k].state # "none"
    BY <1>4, Constants DEF HideAccounts, Hidden
  <2>3. Sourced(d)'
    BY <1>1, <2>1 DEF Session, Sourced
  <2>4. Named(d)'
    BY <1>1, <1>4, <2>2 DEF Session, Named
  <2>5. FoundBy(d)' /\ FreshBy(d)'
    BY <1>1, <2>1 DEF Session, FoundBy, FreshBy, Guarded
  <2> QED BY <1>2, <2>3, <2>4, <2>5 DEF Session
<1>5. CASE ~chan'.live
  <2>1. ~SourceUnchanged(d)'
    BY <1>5 DEF SourceUnchanged
  <2>2. Sourced(d)'
    BY <1>1, <2>1, AdminEffect DEF Session, Sourced
  <2>3. Named(d)'
    BY <1>1, <1>5 DEF Session, Named
  <2>4. FoundBy(d)' /\ FreshBy(d)'
    BY <1>1, <2>1 DEF Session, FoundBy, FreshBy, Guarded
  <2> QED BY <1>2, <2>2, <2>3, <2>4 DEF Session
<1> QED BY <1>1, <1>3, <1>4, <1>5, AdminEffect

LEMMA AdminTables ==
    ASSUME IInv, Administer
    PROVE  TablesSound' /\ FreshSinceDiscovery'
<1>1. TypeOK /\ TablesSound /\ FreshSinceDiscovery
  BY DEF IInv
<1>2. CASE UNCHANGED <<accts, rows, since, found>>
  BY <1>1, <1>2 DEF TablesSound, RowSound, AcctSound, FreshSinceDiscovery
<1>3. CASE accts' = HideAccounts /\ UNCHANGED <<rows, since>>
  <2>1. \A k \in Key : /\ accts'[k].state # "shown" /\ accts'[k].sub = accts[k].sub
                       /\ accts[k].state # "none" => accts'[k].state # "none"
    BY <1>3 DEF HideAccounts, Hidden
  <2> QED BY <1>1, <1>3, <2>1 DEF TablesSound, RowSound, AcctSound, FreshSinceDiscovery
<1>4. CASE /\ accts' = [k \in Key |-> NoAcct]
           /\ rows' = [g \in Gen |-> [k \in Key |-> NoRow]]
  <2>1. \A g \in Gen : \A k \in Key : accts'[k] = NoAcct /\ rows'[g][k] = NoRow
    BY <1>4
  <2>2. \A g \in Gen : \A k \in Key : RowSound(g, k)' /\ rows'[g][k].at = 0
    BY <2>1 DEF RowSound, NoRow
  <2>3. \A k \in Key : AcctSound(k)'
    BY <1>4 DEF AcctSound, NoAcct
  <2> QED BY <2>2, <2>3 DEF TablesSound, FreshSinceDiscovery
<1> QED BY <1>1, <1>2, <1>3, <1>4, AdminEffect

LEMMA NextInv == IInv /\ [Next]_vars => IInv'
<1> SUFFICES ASSUME IInv, [Next]_vars PROVE IInv'
  OBVIOUS
<1>1. TypeOK'
  BY InvTyped, NextTypeOK
<1>2. ASSUME NEW c \in Owner, Writes(c) PROVE IInv'
  BY <1>1, <1>2, WriteOthers, WriteOwn, WriteTables DEF IInv
<1>3. ASSUME NEW c \in Owner, Collect(c), ~Writes(c) PROVE IInv'
  <2>1. UNCHANGED <<tables, history>>
    BY <1>3, InvTyped, QuietSteps DEF Quietly
  <2>2. TablesSound' /\ FreshSinceDiscovery'
    BY <2>1 DEF IInv, tables, history, TablesSound, RowSound, AcctSound, FreshSinceDiscovery
  <2> QED BY <1>1, <1>3, <2>2, OwnSession, OtherSessions DEF IInv
<1>4. ASSUME Administer PROVE IInv'
  BY <1>1, <1>4, AdminSessions, AdminTables DEF IInv
<1>5. ASSUME Tick \/ Expire \/ UNCHANGED vars PROVE IInv'
  <2>1. UNCHANGED <<tables, history, pc, job>> /\ holder' \in {holder, NoOwner}
    BY <1>5 DEF Tick, Expire, vars
  <2>2. \A d \in Owner : Session(d)'
    BY <2>1, Constants, Unmoved DEF IInv
  <2>3. TablesSound' /\ FreshSinceDiscovery'
    BY <2>1 DEF IInv, tables, history, TablesSound, RowSound, AcctSound, FreshSinceDiscovery
  <2> QED BY <1>1, <2>2, <2>3 DEF IInv
<1> QED BY <1>2, <1>3, <1>4, <1>5 DEF Next

LEMMA InvHolds == Spec => []IInv
BY InitInv, NextInv, PTL DEF Spec

-------------------------------------------------------------------------------
(* The tables, the sessions and the channel's row are what the code can    *)
(* write, under all interleavings of collectors and administrator.         *)
THEOREM TypeCorrect == Spec => []TypeOK
BY InvHolds, PTL DEF IInv

(* A reading that was asked for at a former endpoint never appears under   *)
(* the present one, whenever the endpoint moves during a collection.       *)
THEOREM GenerationsPure == Spec => []GenerationIsPure
<1>1. IInv => GenerationIsPure
  BY DEF IInv, TablesSound, RowSound, GenerationIsPure
<1> QED BY <1>1, InvHolds, PTL

(* Windows that claim to be fresh were written since the last discovery.   *)
THEOREM FreshAfterDiscovery == Spec => []FreshSinceDiscovery
<1>1. IInv => FreshSinceDiscovery
  BY DEF IInv
<1> QED BY <1>1, InvHolds, PTL

(* Of the identities none but the one of the last discovery is shown: a    *)
(* collector without its lease brings no replaced account back.            *)
THEOREM OnlyFoundShown == Spec => []ShownWereFound
<1>1. IInv => ShownWereFound
  BY Constants DEF IInv, TablesSound, AcctSound, ShownWereFound
<1> QED BY <1>1, InvHolds, PTL

(* A channel becomes fresh only with fresh windows to show for it.         *)
THEOREM FreshHasFreshRow == Spec => FreshChannelHasFreshRow
<1> DEFINE Becomes == chan.fresh # "fresh" /\ chan'.fresh = "fresh"
           Shows == \E k \in Key : LET r == rows'[chan.eprev][k]
                                   IN  r.shown /\ r.at # 0 /\ ~r.stale
<1>1. ASSUME IInv, Next, Becomes PROVE Shows
  <2>1. chan' # chan /\ chan \in Channel
    BY <1>1 DEF IInv, TypeOK
  <2>2. ~Administer
    <3>1. CASE Update
      <4>1. chan'.fresh = chan.fresh
        BY <2>1, <3>1 DEF Update, Channel
      <4> QED BY <1>1, <4>1
    <3>2. CASE SetSource
      <4>1. chan'.fresh = chan.fresh
        BY <2>1, <3>2 DEF SetSource, Channel
      <4> QED BY <1>1, <4>1
    <3>3. CASE Mark
      BY <1>1, <2>1, <3>3 DEF Mark, Outdated, Channel
    <3>4. CASE Delete
      <4>1. chan'.fresh = chan.fresh
        BY <2>1, <3>4 DEF Delete, Channel
      <4> QED BY <1>1, <4>1
    <3> QED BY <3>1, <3>2, <3>3, <3>4 DEF Administer
  <2>3. PICK c \in Owner : Collect(c)
    BY <1>1, <2>1, <2>2 DEF Next, Tick, Expire, tables
  <2>4. Writes(c)
    <3>1. CASE ~Writes(c)
      <4>1. UNCHANGED tables
        BY <1>1, <2>3, <3>1, InvTyped, QuietSteps DEF Quietly
      <4> QED BY <2>1, <4>1 DEF tables
    <3> QED BY <3>1
  <2>5. Attempt(c) /\ job[c].fresh
    <3>1. ~Prepare(c) /\ ~Store(c)
      BY <2>1 DEF Prepare, Store
    <3>2. ~FailAttempt(c)
      BY <1>1, <2>1 DEF FailAttempt, Outdated, Channel
    <3>3. Attempt(c) => job[c].fresh
      BY <1>1, <2>1 DEF Attempt, Channel
    <3> QED BY <2>4, <3>1, <3>2, <3>3 DEF Writes
  <2>6. rows' = rows /\ Guarded(c)
    BY <2>5 DEF Attempt
  <2> QED BY <1>1, <2>5, <2>6 DEF IInv, Session, FreshBy, FreshRow
<1>2. IInv /\ [Next]_vars => [Becomes => Shows]_vars
  BY <1>1
<1> QED BY <1>2, InvHolds, PTL DEF Spec, FreshChannelHasFreshRow

-------------------------------------------------------------------------------
(* The refinement, step by step.                                           *)
LEMMA SameCells ==
    ASSUME \A g \in Gen : \A k \in Key :
                rows'[g][k].at = rows[g][k].at /\ rows'[g][k].floor = rows[g][k].floor
    PROVE  Cells' = Cells
BY DEF Cells

LEMMA AdminForwards ==
    ASSUME IInv, Administer
    PROVE  [Snapshots!StoreNext]_Snapshots!storeVars
<1> USE DEF Snapshots!storeVars
<1>1. chan \in Channel
  BY DEF IInv, TypeOK
<1>2. CASE Update
  <2>1. PICK moved \in BOOLEAN :
            chan'.eprev = (IF moved THEN chan.eprev + 1 ELSE chan.eprev) /\ chan'.eprev <= MaxEp
    BY <1>1, <1>2 DEF Update, Channel
  <2>2. Cells' = Cells
    BY <1>2, SameCells DEF Update
  <2>3. CASE moved
    <3>1. chan'.eprev \in {g \in Gen : g > chan.eprev}
      BY <1>1, <2>1, <2>3 DEF Channel, Gen
    <3> QED BY <2>2, <3>1 DEF Snapshots!StoreNext, Snapshots!MoveOn
  <2>4. CASE ~moved
    BY <2>1, <2>2, <2>4
  <2> QED BY <2>3, <2>4
<1>3. CASE SetSource \/ Mark
  <2>1. rows' = rows /\ chan'.eprev = chan.eprev
    BY <1>1, <1>3 DEF SetSource, Mark, Channel
  <2> QED BY <2>1, SameCells
<1>4. CASE Delete
  <2>1. chan'.eprev = chan.eprev
    BY <1>1, <1>4 DEF Delete, Channel
  <2>2. Cells' = [g \in Gen |-> [k \in Key |-> Snapshots!Blank]]
    BY <1>4 DEF Delete, Cells, NoRow, Snapshots!Blank
  <2> QED BY <2>1, <2>2 DEF Snapshots!StoreNext, Snapshots!Clear
<1> QED BY <1>2, <1>3, <1>4 DEF Administer

LEMMA PrepareForwards ==
    ASSUME IInv, NEW c \in Owner, Prepare(c)
    PROVE  Snapshots!Rearrange
<1>1. /\ TypeOK /\ job[c] \in Job /\ chan' = chan /\ chan.eprev \in Gen /\ now \in Time
      /\ \A g \in Gen : \A k \in Key : rows[g][k] \in Row
  BY Constants DEF IInv, TypeOK, Prepare, Channel
<1>2. Cells' \in [Gen -> [Key -> Snapshots!Cell]]
  <2>1. TypeOK'
    BY InvTyped, WriteTyped DEF Writes
  <2> QED BY <2>1 DEF TypeOK, Cells, Row, Snapshots!Cell
<1>3. ASSUME NEW g \in Gen, NEW k \in Key
      PROVE  HiddenRow(rows[g][k]).at = rows[g][k].at
             /\ HiddenRow(rows[g][k]).floor = rows[g][k].floor
  BY <1>1, HiddenRowIs
<1>4. CASE job[c].key = Nobody
  <2>1. Cells' = Cells
    <3>1. \A g \in Gen : \A k \in Key : rows'[g][k] = HiddenRow(rows[g][k])
      BY <1>4 DEF Prepare
    <3> QED BY <1>3, <3>1, SameCells
  <2> QED BY <1>1, <1>2, <2>1 DEF Snapshots!Rearrange, Snapshots!Contents
<1>5. CASE job[c].key # Nobody
  <2> DEFINE j == job[c]
             gen == chan.eprev
  <2>1. rows' = RowsFound(j) /\ Canonical(j) \in Key
    BY <1>1, <1>5, CanonicalKey DEF Prepare
  <2>2. ASSUME NEW g \in Gen \ {gen} PROVE Cells'[g] = Cells[g]
    <3>1. \A k \in Key : rows'[g][k] = HiddenRow(rows[g][k])
      BY <2>1, <2>2, FoundRows
    <3> QED BY <1>3, <3>1 DEF Cells
  <2>3. ASSUME NEW k \in Key PROVE Cells'[gen][k] \in Snapshots!Contents(Cells[gen])
    <3> DEFINE s == rows'[gen][k]
    <3>1. Cells'[gen][k] = [at |-> s.at, floor |-> s.floor]
      BY <1>1 DEF Cells
    <3>2. \A i \in Key : Cells[gen][i] = [at |-> rows[gen][i].at, floor |-> rows[gen][i].floor]
      BY <1>1 DEF Cells
    <3>3. \/ \E i \in Key : s.at = rows[gen][i].at /\ s.floor = rows[gen][i].floor
          \/ s.at = 0 /\ s.floor \in Time
      <4>1. CASE k = Canonical(j)
        <5>1. s = RowFound(j)
          BY <1>1, <2>1, <4>1, FoundRows
        <5>2. PICK base : /\ \/ base = HiddenRow(rows[gen][k])
                             \/ base = HiddenRow(rows[gen][Locator])
                             \/ base = [NoRow EXCEPT !.floor = now]
                             \/ base = [NoRow EXCEPT !.floor = 0]
                          /\ s = [base EXCEPT !.here = TRUE, !.shown = TRUE,
                                              !.loc = TRUE, !.sub = Or(j.sub, @)]
          BY <4>1, <5>1, FoundBase
        <5>3. base \in Row => s.at = base.at /\ s.floor = base.floor
          BY <5>2 DEF Row
        <5>4. base \in Row
          BY <1>1, <5>2, Blanks, Constants, HiddenRowType DEF Row
        <5>5. CASE base = HiddenRow(rows[gen][k])
          BY <1>1, <1>3, <5>3, <5>4, <5>5
        <5>6. CASE base = HiddenRow(rows[gen][Locator])
          BY <1>1, <1>3, <5>3, <5>4, <5>6, Constants
        <5>7. CASE base = [NoRow EXCEPT !.floor = now] \/ base = [NoRow EXCEPT !.floor = 0]
          BY <1>1, <5>3, <5>4, <5>7, Constants DEF NoRow
        <5> QED BY <5>2, <5>5, <5>6, <5>7
      <4>2. CASE k # Canonical(j)
        <5>1. s \in {NoRow, HiddenRow(rows[gen][k])}
          BY <1>1, <2>1, <4>2, FoundRows
        <5>2. NoRow.at = 0 /\ NoRow.floor \in Time
          BY Constants DEF NoRow
        <5> QED BY <1>1, <1>3, <5>1, <5>2
      <4> QED BY <4>1, <4>2
    <3> QED BY <3>1, <3>2, <3>3 DEF Snapshots!Contents
  <2> QED BY <1>1, <1>2, <2>2, <2>3 DEF Snapshots!Rearrange
<1> QED BY <1>4, <1>5

(* Two tables that differ in one cell.                                     *)
LEMMA Updated ==
    ASSUME NEW G, NEW K, NEW C, NEW f \in [G -> [K -> C]], NEW h \in [G -> [K -> C]],
           NEW a \in G, NEW b \in K, NEW v \in C, h[a][b] = v,
           \A g \in G : \A k \in K : g # a \/ k # b => h[g][k] = f[g][k]
    PROVE  h = [f EXCEPT ![a] = [f[a] EXCEPT ![b] = v]]
<1> DEFINE e == [f EXCEPT ![a] = [f[a] EXCEPT ![b] = v]]
<1>1. e \in [G -> [K -> C]]
  OBVIOUS
<1>2. ASSUME NEW g \in G PROVE h[g] = e[g]
  <2>1. h[g] \in [K -> C] /\ e[g] \in [K -> C]
    BY <1>1
  <2>2. \A k \in K : h[g][k] = e[g][k]
    OBVIOUS
  <2> HIDE DEF e
  <2> QED BY <2>1, <2>2
<1> HIDE DEF e
<1>3. h = e
  BY <1>1, <1>2
<1> QED BY <1>3 DEF e

LEMMA StoreForwards ==
    ASSUME IInv, NEW c \in Owner, Store(c)
    PROVE  [Snapshots!StoreNext]_Snapshots!storeVars
<1> DEFINE j == job[c]
           r == rows[j.gen][j.key]
           s == rows'[j.gen][j.key]
<1>1. /\ j.key \in Key /\ j.gen \in Gen /\ j.gen = chan.eprev /\ j.t \in Time
      /\ r \in Row /\ RowSound(j.gen, j.key) /\ (j.t # 0 => ~Refused(r, j.t))
  BY Storing DEF Job
<1>2. chan' = chan
  BY DEF Store
<1>3. /\ \A g \in Gen : \A k \in Key : g # j.gen \/ k # j.key => rows'[g][k] = rows[g][k]
      /\ s.floor = r.floor
      /\ (j.t = 0 /\ s.at = r.at) \/ (j.t # 0 /\ s.at = j.t)
  BY StoreEffect
<1>4. CASE s.at = r.at
  <2>1. Cells' = Cells
    BY <1>3, <1>4, SameCells
  <2> QED BY <1>2, <2>1 DEF Snapshots!storeVars
<1>5. CASE s.at # r.at
  <2>1. j.t # 0 /\ s.at = j.t /\ r.at < j.t /\ r.floor <= j.t
    <3>1. r.at \in Nat /\ r.floor \in Nat /\ j.t \in Nat
      BY <1>1 DEF Row, Time
    <3>2. j.t # 0 /\ s.at = j.t
      BY <1>3, <1>5, Zenon
    <3>3. j.t >= r.floor /\ (r.at = 0 \/ j.t >= r.at)
      <4>1. CASE r.here
        BY <1>1, <3>1, <3>2, <4>1 DEF Refused
      <4>2. CASE ~r.here
        <5>1. r.at = 0 /\ r.floor = 0
          BY <1>1, <4>2 DEF RowSound
        <5> QED BY <3>1, <5>1
      <4> QED BY <4>1, <4>2
    <3> HIDE DEF r, s, j
    <3> QED BY <1>5, <3>1, <3>2, <3>3
  <2>2. /\ Cells[chan.eprev][j.key].at = r.at /\ Cells[chan.eprev][j.key].floor = r.floor
    BY <1>1 DEF Cells
  <2>3. Cells' = [Cells EXCEPT ![chan.eprev] = [Cells[chan.eprev] EXCEPT ![j.key] =
                        [at |-> j.t, floor |-> Cells[chan.eprev][j.key].floor]]]
    <3> DEFINE new == [at |-> j.t, floor |-> Cells[chan.eprev][j.key].floor]
    <3>1. new \in Snapshots!Cell
      BY <1>1, <2>2 DEF Row, Snapshots!Cell
    <3>2. Cells'[chan.eprev][j.key] = new
      BY <1>1, <1>3, <2>1, <2>2 DEF Cells
    <3>3. \A g \in Gen : \A k \in Key :
            g # chan.eprev \/ k # j.key => Cells'[g][k] = Cells[g][k]
      BY <1>1, <1>3 DEF Cells
    <3>4. Cells \in [Gen -> [Key -> Snapshots!Cell]] /\ Cells' \in [Gen -> [Key -> Snapshots!Cell]]
      <4>1. TypeOK /\ TypeOK'
        BY InvTyped, WriteTyped DEF IInv, Writes
      <4> QED BY <4>1 DEF TypeOK, Cells, Row, Snapshots!Cell
    <3> HIDE DEF new
    <3>5. Cells' = [Cells EXCEPT ![chan.eprev] = [Cells[chan.eprev] EXCEPT ![j.key] = new]]
      BY <1>1, <3>1, <3>2, <3>3, <3>4, Updated
    <3> QED BY <3>5 DEF new
  <2>4. Snapshots!Observe(j.key, j.t)
    BY <1>2, <2>1, <2>2, <2>3 DEF Snapshots!Observe
  <2> QED BY <1>1, <2>4 DEF Snapshots!StoreNext
<1> QED BY <1>4, <1>5

LEMMA StepForwards == IInv /\ [Next]_vars => [Snapshots!StoreNext]_Snapshots!storeVars
<1> SUFFICES ASSUME IInv, [Next]_vars PROVE [Snapshots!StoreNext]_Snapshots!storeVars
  OBVIOUS
<1>1. TypeOK
  BY DEF IInv
<1>2. CASE UNCHANGED tables
  BY <1>2, SameCells DEF tables, Snapshots!storeVars
<1>3. ASSUME NEW c \in Owner, Attempt(c) \/ FailAttempt(c)
      PROVE  UNCHANGED Snapshots!storeVars
  <2>1. chan'.eprev = chan.eprev
    BY <1>1, <1>3, WriteFrame DEF Writes
  <2>2. rows' = rows \/ rows' = AllOutdated
    BY <1>3 DEF Attempt, FailAttempt
  <2>3. \A g \in Gen : \A k \in Key :
            rows'[g][k].at = rows[g][k].at /\ rows'[g][k].floor = rows[g][k].floor
    BY <1>1, <2>2, OutdatedRows DEF TypeOK
  <2> QED BY <2>1, <2>3, SameCells DEF Snapshots!storeVars
<1>4. ASSUME NEW c \in Owner, Writes(c)
      PROVE  [Snapshots!StoreNext]_Snapshots!storeVars
  BY <1>3, <1>4, PrepareForwards, StoreForwards DEF Writes, Snapshots!StoreNext
<1>5. ASSUME NEW c \in Owner, Collect(c), ~Writes(c) PROVE UNCHANGED tables
  BY <1>5, InvTyped, QuietSteps DEF Quietly
<1>6. CASE Tick \/ Expire \/ UNCHANGED vars
  BY <1>2, <1>6 DEF Tick, Expire, vars
<1> QED BY <1>2, <1>4, <1>5, <1>6, AdminForwards DEF Next

(* The rows implement SnapshotStore: the observation times of a key only   *)
(* grow, none is older than its barrier, and only the generation of the    *)
(* present endpoint is written.                                            *)
THEOREM Refinement == Spec => Forwards
<1>1. Init => Snapshots!StoreInit
  BY DEF Init, Snapshots!StoreInit, Cells, NoRow, Snapshots!Blank, Gen
<1> QED BY <1>1, StepForwards, InvHolds, PTL DEF Spec, Forwards, Snapshots!StoreSpec
===============================================================================
