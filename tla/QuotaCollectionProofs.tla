------------------------ MODULE QuotaCollectionProofs ------------------------
(***************************************************************************)
(* Proofs about QuotaCollection for any accounts, credentials, workers,    *)
(* refreshes and administrators, with and without Faults.                  *)
(***************************************************************************)
EXTENDS QuotaCollection, TLAPS

USE NoOwnerAssumption, CollectorAssumption

Accounts == [Account -> [state : {"new", "live", "deleted"},
                         enabled : BOOLEAN, cred : Cred, rev : 0..MaxRev]]
Snapshots == [Account -> [attempted : BOOLEAN,
                          status : {"never", "success", "error"},
                          stale : BOOLEAN, windows : Cred \cup {NoCred},
                          rev : 0..MaxRev]]

(* The administrator's steps keep the rows well typed.                     *)
LEMMA AdministerTyped == TypeOK /\ Administer => TypeOK'
<1> SUFFICES ASSUME TypeOK, Administer PROVE TypeOK'
  OBVIOUS
<1>0. acct \in Accounts /\ snap \in Snapshots
  BY DEF TypeOK, Accounts, Snapshots
<1>a. EmptySnapshot \in [attempted : BOOLEAN,
                         status : {"never", "success", "error"},
                         stale : BOOLEAN, windows : Cred \cup {NoCred},
                         rev : 0..MaxRev]
  BY DEF EmptySnapshot
<1>1. ASSUME NEW a \in Account, Create(a) PROVE TypeOK'
  <2>1. acct' \in Accounts
    <3>1. PICK en \in BOOLEAN :
            acct' = [acct EXCEPT ![a] = [@ EXCEPT !.state = "live", !.enabled = en]]
      BY <1>1 DEF Create
    <3> QED BY <1>0, <3>1 DEF Accounts
  <2>2. snap' \in Snapshots
    BY <1>0, <1>a, <1>1 DEF Create, Snapshots
  <2> QED BY <1>1, <2>1, <2>2
          DEF Create, TypeOK, LeaseTypeOK, leaseVars, marks, sessionVars,
              history, Accounts, Snapshots
<1>2. ASSUME NEW a \in Account, Delete(a) PROVE TypeOK'
  <2>1. acct' \in Accounts
    BY <1>0, <1>2 DEF Delete, Accounts
  <2>2. snap' \in Snapshots
    BY <1>0, <1>a, <1>2 DEF Delete, Snapshots
  <2> QED BY <1>2, <2>1, <2>2
          DEF Delete, TypeOK, LeaseTypeOK, leaseVars, marks, sessionVars,
              history, Accounts, Snapshots
<1>3. ASSUME NEW p \in Admin, MarkDue(p) PROVE TypeOK'
  <2>1. snap' \in Snapshots
    <3> DEFINE s == snap[admin[p]].windows # NoCred
               Snap == [attempted : BOOLEAN, status : {"never", "success", "error"},
                        stale : BOOLEAN, windows : Cred \cup {NoCred},
                        rev : 0..MaxRev]
    <3>1. admin[p] \in Account
      BY <1>3 DEF MarkDue, TypeOK
    <3>2. snap' = [snap EXCEPT ![admin[p]] =
                        [@ EXCEPT !.attempted = FALSE, !.stale = s]]
      BY <1>3 DEF MarkDue
    <3>3. s \in BOOLEAN
      OBVIOUS
    <3> HIDE DEF s
    <3>4. ASSUME NEW r \in Snap
          PROVE  [r EXCEPT !.attempted = FALSE, !.stale = s] \in Snap
      BY <3>3, Zenon
    <3>5. snap \in [Account -> Snap]
      BY <1>0 DEF Snapshots
    <3> HIDE DEF Snap
    <3>6. snap' \in [Account -> Snap]
      BY <3>1, <3>2, <3>4, <3>5
    <3> QED BY <3>6 DEF Snapshots, Snap
  <2>2. admin' \in [Admin -> Account \cup {NoAccount}]
    BY <1>3 DEF MarkDue, TypeOK
  <2> QED BY <1>3, <2>1, <2>2
          DEF MarkDue, TypeOK, LeaseTypeOK, leaseVars, sessionVars, history,
              Snapshots
<1>4. ASSUME NEW p \in Admin, UpdateCrash(p) PROVE TypeOK'
  BY <1>4 DEF UpdateCrash, TypeOK, LeaseTypeOK, leaseVars, sessionVars, history
<1>5. ASSUME NEW p \in Admin, NEW a \in Account, Update(p, a) PROVE TypeOK'
  <2>1. PICK cred \in Cred, en \in BOOLEAN :
            LET changed == cred # acct[a].cred \/ en # acct[a].enabled
            IN  /\ changed => acct[a].rev < MaxRev
                /\ acct' = [acct EXCEPT ![a] =
                        [@ EXCEPT !.cred = cred, !.enabled = en,
                                  !.rev = acct[a].rev + (IF changed THEN 1 ELSE 0)]]
                /\ admin' = [admin EXCEPT ![p] =
                        IF en /\ changed THEN a ELSE NoAccount]
    BY <1>5 DEF Update
  <2>2. acct' \in Accounts
    <3> DEFINE changed == cred # acct[a].cred \/ en # acct[a].enabled
               r == acct[a].rev + (IF changed THEN 1 ELSE 0)
    <3>1. r \in 0..MaxRev
      BY <1>0, <2>1 DEF Accounts
    <3>2. acct' = [acct EXCEPT ![a] = [@ EXCEPT !.cred = cred, !.enabled = en,
                                                !.rev = r]]
      BY <2>1
    <3> HIDE DEF r
    <3> QED BY <1>0, <3>1, <3>2 DEF Accounts
  <2>3. admin' \in [Admin -> Account \cup {NoAccount}]
    BY <2>1 DEF TypeOK
  <2> QED BY <1>5, <2>2, <2>3
          DEF Update, TypeOK, LeaseTypeOK, leaseVars, sessionVars, history,
              Accounts
<1> QED BY <1>1, <1>2, <1>3, <1>4, <1>5 DEF Administer

(* A collector's bookkeeping.                                              *)
Sessions ==
    /\ pc \in [Owner -> Pc]
    /\ jobs \in [Owner -> SUBSET Job]
    /\ job \in [Owner -> Job \cup {NoJob}]
    /\ paced \in [Owner -> BOOLEAN]
    /\ answer \in [Owner -> {"none", "success", "failure", "error"}]
    /\ lost \in [Owner -> BOOLEAN]
Histories ==
    /\ earlier \in [Owner -> SUBSET Owner]
    /\ outdated \subseteq Owner

Rows ==
    /\ acct \in Accounts /\ snap \in Snapshots
    /\ admin \in [Admin -> Account \cup {NoAccount}]
    /\ unmarked \subseteq Account

(* The type invariant in parts, which a step changes or leaves alone.      *)
LEMMA TypeParts ==
    /\ TypeOK <=> LeaseTypeOK /\ Rows /\ Sessions /\ Histories
    /\ TypeOK' <=> LeaseTypeOK' /\ Rows' /\ Sessions' /\ Histories'
BY DEF TypeOK, Rows, Accounts, Snapshots, Sessions, Histories

(* The job of an account that exists.                                      *)
LEMMA JobTyped ==
    ASSUME acct \in Accounts, NEW a \in Account
    PROVE  JobOf(a) \in Job
BY DEF Accounts, JobOf, Job

LEMMA SendTyped ==
    ASSUME Sessions, Histories, NEW c \in Owner, NEW j \in Job \cup {NoJob},
           Send(c, j)
    PROVE  /\ pc' \in [Owner -> Pc] /\ job' \in [Owner -> Job \cup {NoJob}]
           /\ Histories'
BY DEF Send, Sessions, Histories, Pc, Waiting

LEMMA NextJobTyped ==
    ASSUME Sessions, Histories, NEW c \in Owner, NextJob(c)
    PROVE  /\ pc' \in [Owner -> Pc] /\ job' \in [Owner -> Job \cup {NoJob}]
           /\ answer' \in [Owner -> {"none", "success", "failure", "error"}]
           /\ earlier' \in [Owner -> SUBSET Owner]
BY DEF NextJob, Goto, Sessions, Histories, Pc, Waiting

LEMMA ForgetTyped ==
    ASSUME Sessions, Histories, NEW c \in Owner, NEW label \in Pc,
           Goto(c, label), Forget(c)
    PROVE  Sessions' /\ Histories'
BY DEF Forget, Goto, Sessions, Histories, Pc, Waiting

(* The steps of a session that only move its program counter, and those    *)
(* that start or drop a job.                                               *)
LEMMA CollectTyped ==
    ASSUME TypeOK, NEW c \in Owner, Collect(c)
    PROVE  TypeOK'
<1>0. /\ LeaseTypeOK /\ acct \in Accounts /\ snap \in Snapshots
      /\ admin \in [Admin -> Account \cup {NoAccount}]
      /\ unmarked \subseteq Account /\ Sessions /\ Histories
  BY TypeParts DEF Rows
<1>r. acct' = acct /\ snap' = snap /\ admin' = admin /\ unmarked' = unmarked => Rows'
  BY <1>0 DEF Rows, Accounts, Snapshots
<1>1. CASE Start(c)
  <2>1. LeaseTypeOK'
    BY <1>0, <1>1 DEF Start, Grant, LeaseTypeOK
  <2>2. Sessions' /\ Histories'
    BY <1>0, <1>1 DEF Start, Goto, Sessions, Histories, history, Pc
  <2> QED BY <1>r, <1>1, <2>1, <2>2, TypeParts DEF Start, marks
<1>2. CASE ListJobs(c)
  <2>1. jobs' \in [Owner -> SUBSET Job]
    BY <1>0, <1>2, JobTyped DEF ListJobs, Sessions
  <2>2. Sessions' /\ Histories' /\ LeaseTypeOK'
    BY <1>0, <1>2, <2>1
       DEF ListJobs, Goto, Sessions, Histories, history, Pc, LeaseTypeOK, leaseVars
  <2> QED BY <1>r, <1>2, <2>2, TypeParts DEF ListJobs, marks
<1>3. CASE Skip(c)
  <2>1. Sessions' /\ Histories' /\ LeaseTypeOK'
    BY <1>0, <1>3 DEF Skip, Sessions, Histories, history, LeaseTypeOK, leaseVars
  <2> QED BY <1>r, <1>3, <2>1, TypeParts DEF Skip, marks
<1>4. CASE PickFirst(c)
  <2>1. PICK j \in jobs[c] : jobs' = [jobs EXCEPT ![c] = @ \ {j}] /\ Send(c, j)
    BY <1>4 DEF PickFirst
  <2>2. j \in Job
    BY <1>0, <2>1 DEF Sessions
  <2>3. /\ pc' \in [Owner -> Pc] /\ job' \in [Owner -> Job \cup {NoJob}]
        /\ Histories'
    BY <1>0, <2>1, <2>2, SendTyped
  <2>4. Sessions' /\ LeaseTypeOK'
    BY <1>0, <1>4, <2>1, <2>3 DEF PickFirst, Sessions, LeaseTypeOK, leaseVars
  <2> QED BY <1>r, <1>4, <2>3, <2>4, TypeParts DEF PickFirst, marks
<1>5. CASE PickNext(c)
  <2>1. Sessions' /\ Histories' /\ LeaseTypeOK'
    BY <1>0, <1>5
       DEF PickNext, Goto, Sessions, Histories, history, Pc, LeaseTypeOK, leaseVars
  <2> QED BY <1>r, <1>5, <2>1, TypeParts DEF PickNext, marks
<1>6. CASE SendPaced(c)
  <2>1. job[c] \in Job \cup {NoJob} /\ Send(c, job[c])
    BY <1>0, <1>6 DEF SendPaced, Sessions
  <2>2. /\ pc' \in [Owner -> Pc] /\ job' \in [Owner -> Job \cup {NoJob}]
        /\ Histories'
    BY <1>0, <2>1, SendTyped
  <2>3. Sessions' /\ LeaseTypeOK'
    BY <1>0, <1>6, <2>2 DEF SendPaced, Sessions, LeaseTypeOK, leaseVars
  <2> QED BY <1>r, <1>6, <2>2, <2>3, TypeParts DEF SendPaced, marks
<1>7. CASE Answer(c)
  <2>1. Sessions' /\ Histories' /\ LeaseTypeOK'
    BY <1>0, <1>7
       DEF Answer, Goto, Sessions, Histories, history, Pc, Waiting, LeaseTypeOK,
           leaseVars
  <2> QED BY <1>r, <1>7, <2>1, TypeParts DEF Answer, marks
<1>8. CASE Recheck(c)
  <2>1. CASE Goto(c, "checked") /\ UNCHANGED <<job, answer, earlier>>
    <3>1. Sessions' /\ Histories' /\ LeaseTypeOK'
      BY <1>0, <1>8, <2>1
         DEF Recheck, Goto, Sessions, Histories, Pc, Waiting, LeaseTypeOK, leaseVars
    <3> QED BY <1>r, <1>8, <3>1, TypeParts DEF Recheck, marks
  <2>2. CASE NextJob(c)
    <3>1. Sessions' /\ Histories' /\ LeaseTypeOK'
      BY <1>0, <1>8, <2>2, NextJobTyped
         DEF Recheck, Sessions, Histories, LeaseTypeOK, leaseVars
    <3> QED BY <1>r, <1>8, <3>1, TypeParts DEF Recheck, marks
  <2> QED BY <1>8, <2>1, <2>2 DEF Recheck
<1>9. CASE LeaseLost(c)
  <2>1. Sessions' /\ Histories' /\ LeaseTypeOK'
    BY <1>0, <1>9
       DEF LeaseLost, Interrupted, Goto, Sessions, Histories, history, Pc,
           LeaseTypeOK, leaseVars
  <2> QED BY <1>r, <1>9, <2>1, TypeParts DEF LeaseLost, marks
<1>10. CASE Accept(c)
  <2>1. Sessions' /\ Histories'
    BY <1>0, <1>10, NextJobTyped DEF Accept, Sessions, Histories
  <2>2. LeaseTypeOK'
    BY <1>0, <1>10 DEF Accept, Commit, LeaseTypeOK
  <2>3. snap' \in Snapshots
    <3> DEFINE r == Recorded(snap[job[c].id], job[c], answer[c])
    <3>1. snap' = [snap EXCEPT ![job[c].id] = r]
      BY <1>10 DEF Accept
    <3>2. CASE job[c].id \in Account
      <4>1. job[c] \in Job
        BY <1>0, <3>2 DEF Sessions, NoJob
      <4>2. snap[job[c].id] \in [attempted : BOOLEAN,
                                 status : {"never", "success", "error"},
                                 stale : BOOLEAN, windows : Cred \cup {NoCred},
                                 rev : 0..MaxRev]
        BY <1>0, <3>2 DEF Snapshots
      <4>3. r \in [attempted : BOOLEAN,
                   status : {"never", "success", "error"},
                   stale : BOOLEAN, windows : Cred \cup {NoCred},
                   rev : 0..MaxRev]
        BY <4>1, <4>2 DEF Recorded, Job
      <4> HIDE DEF r
      <4> QED BY <1>0, <3>1, <3>2, <4>3 DEF Snapshots
    <3>3. CASE job[c].id \notin Account
      BY <1>0, <3>1, <3>3 DEF Snapshots
    <3> QED BY <3>2, <3>3
  <2>4. Rows'
    BY <1>0, <1>10, <2>3 DEF Accept, Rows, Accounts
  <2> QED BY <2>1, <2>2, <2>4, TypeParts
<1>11. CASE Reject(c)
  <2>1. CASE NextJob(c)
    <3>1. Sessions' /\ Histories' /\ LeaseTypeOK'
      BY <1>0, <1>11, <2>1, NextJobTyped
         DEF Reject, Sessions, Histories, LeaseTypeOK, leaseVars
    <3> QED BY <1>r, <1>11, <3>1, TypeParts DEF Reject, marks
  <2>2. CASE Goto(c, "releasing") /\ UNCHANGED <<job, answer, earlier>>
    <3>1. Sessions' /\ Histories' /\ LeaseTypeOK'
      BY <1>0, <1>11, <2>2
         DEF Reject, Goto, Sessions, Histories, Pc, LeaseTypeOK, leaseVars
    <3> QED BY <1>r, <1>11, <3>1, TypeParts DEF Reject, marks
  <2> QED BY <1>11, <2>1, <2>2 DEF Reject
<1>12. CASE Done(c)
  <2>1. Sessions' /\ Histories' /\ LeaseTypeOK'
    BY <1>0, <1>12
       DEF Done, Goto, Sessions, Histories, history, Pc, LeaseTypeOK, leaseVars
  <2> QED BY <1>r, <1>12, <2>1, TypeParts DEF Done, marks
<1>13. CASE Release(c)
  <2>1. LeaseTypeOK'
    BY <1>0, <1>13 DEF Release, Leave, LeaseTypeOK
  <2>2. Sessions' /\ Histories'
    BY <1>0, <1>13, ForgetTyped DEF Release, Pc
  <2> QED BY <1>r, <1>13, <2>1, <2>2, TypeParts DEF Release, marks
<1> QED
  BY <1>1, <1>2, <1>3, <1>4, <1>5, <1>6, <1>7, <1>8, <1>9, <1>10, <1>11, <1>12,
     <1>13 DEF Collect

LEMMA OthersTyped ==
    ASSUME TypeOK, NEW c \in Owner,
           WriteError(c) \/ Abort(c) \/ HeartbeatStops(c) \/ Crash(c)
    PROVE  TypeOK'
<1>0. LeaseTypeOK /\ Rows /\ Sessions /\ Histories
  BY TypeParts
<1>r. acct' = acct /\ snap' = snap /\ admin' = admin /\ unmarked' = unmarked => Rows'
  BY <1>0 DEF Rows, Accounts, Snapshots
<1>1. CASE WriteError(c)
  <2>1. CASE NextJob(c)
    <3>1. Sessions' /\ Histories' /\ LeaseTypeOK'
      BY <1>0, <1>1, <2>1, NextJobTyped
         DEF WriteError, Sessions, Histories, LeaseTypeOK, leaseVars
    <3> QED BY <1>r, <1>1, <3>1, TypeParts DEF WriteError, marks
  <2>2. CASE /\ answer' = [answer EXCEPT ![c] = "error"]
             /\ Goto(c, "answered") /\ UNCHANGED <<job, earlier>>
    <3>1. Sessions' /\ Histories' /\ LeaseTypeOK'
      BY <1>0, <1>1, <2>2
         DEF WriteError, Goto, Sessions, Histories, Pc, Waiting, LeaseTypeOK,
             leaseVars
    <3> QED BY <1>r, <1>1, <3>1, TypeParts DEF WriteError, marks
  <2> QED BY <1>1, <2>1, <2>2 DEF WriteError
<1>2. CASE Abort(c)
  <2>1. Sessions' /\ Histories' /\ LeaseTypeOK'
    BY <1>0, <1>2
       DEF Abort, Goto, Sessions, Histories, history, Pc, LeaseTypeOK, leaseVars
  <2> QED BY <1>r, <1>2, <2>1, TypeParts DEF Abort, marks
<1>3. CASE HeartbeatStops(c)
  <2>1. Sessions' /\ Histories' /\ LeaseTypeOK'
    BY <1>0, <1>3
       DEF HeartbeatStops, Sessions, Histories, history, LeaseTypeOK, leaseVars
  <2> QED BY <1>r, <1>3, <2>1, TypeParts DEF HeartbeatStops, marks
<1>4. CASE Crash(c)
  <2>1. LeaseTypeOK'
    BY <1>0, <1>4 DEF Crash, LeaseTypeOK
  <2>2. Sessions' /\ Histories'
    BY <1>0, <1>4, ForgetTyped DEF Crash, Pc
  <2> QED BY <1>r, <1>4, <2>1, <2>2, TypeParts DEF Crash, marks
<1> QED BY <1>1, <1>2, <1>3, <1>4

LEMMA RefreshTyped ==
    ASSUME TypeOK, NEW r \in Refresher, NEW a \in Account, Refresh(r, a)
    PROVE  TypeOK'
<1>0. LeaseTypeOK /\ Rows /\ Sessions /\ Histories /\ r \in Owner
  BY TypeParts
<1>1. Send(r, JobOf(a)) /\ JobOf(a) \in Job
  BY <1>0, JobTyped DEF Refresh, Rows
<1>2. /\ pc' \in [Owner -> Pc] /\ job' \in [Owner -> Job \cup {NoJob}]
      /\ Histories'
  BY <1>0, <1>1, SendTyped
<1>3. Sessions'
  BY <1>0, <1>2 DEF Refresh, Sessions
<1>4. LeaseTypeOK'
  BY <1>0 DEF Refresh, Grant, LeaseTypeOK
<1>5. Rows'
  BY <1>0 DEF Refresh, marks, Rows, Accounts, Snapshots
<1> QED BY <1>2, <1>3, <1>4, <1>5, TypeParts

LEMMA TypeStep == TypeOK /\ [Next]_vars => TypeOK'
<1> SUFFICES ASSUME TypeOK, [Next]_vars PROVE TypeOK'
  OBVIOUS
<1>1. CASE Administer
  BY <1>1, AdministerTyped
<1>2. CASE \E c \in Owner : Collect(c)
  BY <1>2, CollectTyped
<1>3. CASE \E c \in Owner :
              WriteError(c) \/ Abort(c) \/ HeartbeatStops(c) \/ Crash(c)
  BY <1>3, OthersTyped
<1>4. CASE \E r \in Refresher, a \in Account : Refresh(r, a)
  BY <1>4, RefreshTyped
<1>5. CASE Expire
  BY <1>5 DEF Expire, Lapse, TypeOK, LeaseTypeOK, marks, sessionVars, history
<1>6. CASE UNCHANGED vars
  BY <1>6 DEF vars, leaseVars, marks, sessionVars, history, TypeOK, LeaseTypeOK
<1> QED BY <1>1, <1>2, <1>3, <1>4, <1>5, <1>6 DEF Next

LEMMA TypeInit == Init => TypeOK
<1> SUFFICES ASSUME Init PROVE TypeOK
  OBVIOUS
<1>1. acct \in Accounts
  <2> DEFINE New == {[state |-> "new", enabled |-> FALSE, cred |-> k, rev |-> 0] :
                        k \in Cred}
             Row == [state : {"new", "live", "deleted"}, enabled : BOOLEAN,
                     cred : Cred, rev : 0..MaxRev]
  <2>1. acct \in [Account -> New]
    BY DEF Init
  <2>2. New \subseteq Row
    <3>1. ASSUME NEW k \in Cred
          PROVE  [state |-> "new", enabled |-> FALSE, cred |-> k, rev |-> 0] \in Row
      <4>1. 0 \in 0..MaxRev
        OBVIOUS
      <4> QED BY <4>1
    <3> HIDE DEF Row
    <3> QED BY <3>1
  <2> HIDE DEF New, Row
  <2>3. acct \in [Account -> Row]
    BY <2>1, <2>2
  <2> QED BY <2>3 DEF Accounts, Row
<1>2. snap \in Snapshots
  BY DEF Init, EmptySnapshot, Snapshots
<1>3. LeaseTypeOK
  BY DEF Init, LeaseInit, LeaseTypeOK
<1>4. Sessions /\ Histories
  BY DEF Init, Sessions, Histories, Pc
<1> QED BY <1>1, <1>2, <1>3, <1>4, TypeParts DEF Rows, Init

(* Every reachable state is well typed: in particular no session, row or   *)
(* history of the collection ever names an owner, an account or a          *)
(* revision that does not exist.                                           *)
THEOREM TypeCorrect == Spec => []TypeOK
BY TypeInit, TypeStep, PTL DEF Spec

-------------------------------------------------------------------------------
(***************************************************************************)
(* The safety of quota collection, proved from the type invariant: what    *)
(* the guarded write protects, for any number of processes, manual         *)
(* refreshes, accounts and administrators, with leases that lapse under    *)
(* live sessions and with crashes.                                         *)
(***************************************************************************)

(* The rows change only by the administrator and by an accepted write.     *)
RowsKept == /\ acct' = acct /\ snap' = snap
            /\ admin' = admin /\ unmarked' = unmarked

LEMMA RowSteps ==
    ASSUME [Next]_vars
    PROVE  RowsKept \/ Administer \/ \E c \in Owner : Accept(c)
<1>1. ASSUME NEW c \in Owner, Collect(c) PROVE RowsKept \/ Accept(c)
  BY <1>1 DEF Collect, RowsKept, marks, Start, ListJobs, Skip, PickFirst,
     PickNext, SendPaced, Answer, Recheck, LeaseLost, Reject, Done, Release
<1>2. ASSUME NEW c \in Owner,
             WriteError(c) \/ Abort(c) \/ HeartbeatStops(c) \/ Crash(c)
      PROVE  RowsKept
  BY <1>2 DEF RowsKept, marks, WriteError, Abort, HeartbeatStops, Crash
<1>3. ASSUME NEW r \in Refresher, NEW a \in Account, Refresh(r, a) PROVE RowsKept
  BY <1>3 DEF RowsKept, marks, Refresh
<1>4. CASE Expire
  BY <1>4 DEF RowsKept, marks, Expire
<1>5. CASE UNCHANGED vars
  BY <1>5 DEF RowsKept, marks, vars
<1> QED BY <1>1, <1>2, <1>3, <1>4, <1>5 DEF Next

(* What an accepted write does to the rows, and under which conditions.    *)
LEMMA AcceptEffect ==
    ASSUME TypeOK, NEW c \in Owner, Accept(c)
    PROVE  /\ acct' = acct /\ admin' = admin
           /\ unmarked' = unmarked \ {job[c].id}
           /\ \A a \in Account : a # job[c].id => snap'[a] = snap[a]
           /\ job[c].id \in Account =>
                /\ job[c] \in Job
                /\ job[c].rev = acct[job[c].id].rev
                /\ snap'[job[c].id] =
                     Recorded(snap[job[c].id], job[c], answer[c])
<1> DEFINE r == Recorded(snap[job[c].id], job[c], answer[c])
<1>1. snap' = [snap EXCEPT ![job[c].id] = r]
  BY DEF Accept
<1>2. job[c].id \in Account => job[c] \in Job
  <2>1. job[c] \in Job \cup {NoJob}
    BY DEF TypeOK
  <2>2. NoJob.id \notin Account
    BY DEF NoJob
  <2> QED BY <2>1, <2>2
<1>3. job[c].rev = acct[job[c].id].rev
  BY DEF Accept, SourceUnchanged
<1>4. acct' = acct /\ admin' = admin /\ unmarked' = unmarked \ {job[c].id}
  BY DEF Accept
<1>5. snap \in Snapshots
  BY DEF TypeOK, Snapshots
<1> HIDE DEF r
<1>6. /\ \A a \in Account : a # job[c].id => snap'[a] = snap[a]
      /\ job[c].id \in Account => snap'[job[c].id] = r
  BY <1>1, <1>5 DEF Snapshots
<1> QED BY <1>2, <1>3, <1>4, <1>6 DEF r

(* What is recorded: a success replaces the windows, anything else keeps   *)
(* them and calls them stale.                                              *)
LEMMA AcceptFields ==
    ASSUME TypeOK, NEW c \in Owner, Accept(c), NEW a \in Account, a = job[c].id
    PROVE  /\ snap'[a].rev = job[c].rev
           /\ \/ snap'[a].status = "success" /\ snap'[a].windows = job[c].cred
              \/ /\ snap'[a].status = "error"
                 /\ snap'[a].windows = snap[a].windows
                 /\ snap[a].windows # NoCred => snap'[a].stale
<1> DEFINE v == snap[a].windows # NoCred
           s == snap'[a]
<1>1. snap[a] \in [attempted : BOOLEAN, status : {"never", "success", "error"},
                   stale : BOOLEAN, windows : Cred \cup {NoCred},
                   rev : 0..MaxRev]
  BY DEF TypeOK
<1>2. s = IF answer[c] = "success"
          THEN [attempted |-> TRUE, status |-> "success", stale |-> FALSE,
                windows |-> job[c].cred, rev |-> job[c].rev]
          ELSE [snap[a] EXCEPT !.attempted = TRUE, !.status = "error",
                               !.stale = v, !.rev = job[c].rev]
  BY AcceptEffect DEF Recorded
<1> HIDE DEF v, s
<1>3. /\ s.rev = job[c].rev
      /\ \/ s.status = "success" /\ s.windows = job[c].cred
         \/ s.status = "error" /\ s.windows = snap[a].windows /\ s.stale = v
  BY <1>1, <1>2
<1> QED BY <1>3 DEF v, s

-------------------------------------------------------------------------------
(* The revision of a row only grows, and tells its credentials apart.      *)
LEMMA RevisionGrows ==
    ASSUME TypeOK, [Next]_vars, NEW a \in Account
    PROVE  /\ acct'[a].rev >= acct[a].rev
           /\ acct'[a].rev = acct[a].rev => acct'[a].cred = acct[a].cred
<1>t. acct[a].rev \in Nat /\ acct \in Accounts
  BY DEF TypeOK, Accounts
<1>1. CASE acct' = acct
  BY <1>1, <1>t
<1>2. ASSUME NEW b \in Account, Create(b) \/ Delete(b)
      PROVE  acct'[a].rev = acct[a].rev /\ acct'[a].cred = acct[a].cred
  <2>1. CASE Delete(b)
    BY <2>1, <1>t DEF Delete, Accounts
  <2>2. CASE Create(b)
    <3>1. PICK en \in BOOLEAN :
            acct' = [acct EXCEPT ![b] = [@ EXCEPT !.state = "live", !.enabled = en]]
      BY <2>2 DEF Create
    <3> QED BY <3>1, <1>t DEF Accounts
  <2> QED BY <1>2, <2>1, <2>2
<1>3. ASSUME NEW p \in Admin, NEW b \in Account, Update(p, b)
      PROVE  /\ acct'[a].rev >= acct[a].rev
             /\ acct'[a].rev = acct[a].rev => acct'[a].cred = acct[a].cred
  <2>1. PICK cred \in Cred, en \in BOOLEAN :
            acct' = [acct EXCEPT ![b] =
                [@ EXCEPT !.cred = cred, !.enabled = en,
                          !.rev = acct[b].rev +
                             (IF cred # acct[b].cred \/ en # acct[b].enabled
                              THEN 1 ELSE 0)]]
    BY <1>3 DEF Update
  <2>2. CASE a = b /\ (cred # acct[b].cred \/ en # acct[b].enabled)
    <3>1. acct'[a].rev = acct[a].rev + 1
      BY <2>1, <2>2, <1>t DEF Accounts
    <3> QED BY <3>1, <1>t
  <2>3. CASE a = b /\ ~(cred # acct[b].cred \/ en # acct[b].enabled)
    <3>1. acct'[a].rev = acct[a].rev + 0 /\ acct'[a].cred = acct[a].cred
      BY <2>1, <2>3, <1>t DEF Accounts
    <3> QED BY <3>1, <1>t
  <2>4. CASE a # b
    <3>1. acct'[a] = acct[a]
      BY <2>1, <2>4, <1>t DEF Accounts
    <3> QED BY <3>1, <1>t
  <2> QED BY <2>2, <2>3, <2>4
<1>4. CASE Administer
  <2>1. ASSUME NEW p \in Admin, MarkDue(p) \/ UpdateCrash(p) PROVE acct' = acct
    BY <2>1 DEF MarkDue, UpdateCrash
  <2> QED BY <1>1, <1>2, <1>3, <1>4, <1>t, <2>1 DEF Administer
<1>5. CASE RowsKept \/ \E c \in Owner : Accept(c)
  BY <1>1, <1>5 DEF RowsKept, Accept
<1> QED BY <1>4, <1>5, RowSteps

(* Where the jobs of a session come from.                                  *)
Jobs(c) == jobs[c] \cup {job[c]}
JobsListed(c) ==
    \A j \in Jobs(c)' :
        \/ j \in Jobs(c) \cup {NoJob}
        \/ acct' = acct /\ \E a \in Account : j = JobOf(a)

LEMMA JobOrigin ==
    ASSUME TypeOK, [Next]_vars, NEW c \in Owner
    PROVE  JobsListed(c)
<1> USE DEF JobsListed, Jobs
<1>t. jobs \in [Owner -> SUBSET Job] /\ job \in [Owner -> Job \cup {NoJob}]
  BY DEF TypeOK
<1>0. CASE jobs' = jobs /\ job' = job
  BY <1>0
<1>1. ASSUME NEW d \in Owner, Collect(d) PROVE JobsListed(c)
  <2>1. CASE Start(d) \/ Answer(d) \/ LeaseLost(d) \/ Done(d)
    BY <1>0, <2>1 DEF Start, Answer, LeaseLost, Done
  <2>2. CASE ListJobs(d)
    BY <2>2, <1>t DEF ListJobs
  <2>3. CASE Skip(d)
    BY <2>3, <1>t DEF Skip
  <2>4. CASE PickFirst(d)
    BY <2>4, <1>t DEF PickFirst, Send
  <2>5. CASE PickNext(d)
    BY <2>5, <1>t DEF PickNext
  <2>6. CASE SendPaced(d)
    BY <2>6, <1>t DEF SendPaced, Send
  <2>7. CASE Recheck(d)
    BY <2>7, <1>t DEF Recheck, NextJob
  <2>8. CASE Accept(d)
    BY <2>8, <1>t DEF Accept, NextJob
  <2>9. CASE Reject(d)
    BY <2>9, <1>t DEF Reject, NextJob
  <2>10. CASE Release(d)
    BY <2>10, <1>t DEF Release, Forget
  <2> QED BY <1>1, <2>1, <2>2, <2>3, <2>4, <2>5, <2>6, <2>7, <2>8, <2>9, <2>10
          DEF Collect
<1>2. ASSUME NEW d \in Owner, WriteError(d) PROVE JobsListed(c)
  BY <1>2, <1>t DEF WriteError, NextJob
<1>3. ASSUME NEW d \in Owner, Abort(d) \/ HeartbeatStops(d) PROVE JobsListed(c)
  BY <1>0, <1>3 DEF Abort, HeartbeatStops
<1>4. ASSUME NEW d \in Owner, Crash(d) PROVE JobsListed(c)
  BY <1>4, <1>t DEF Crash, Forget
<1>5. ASSUME NEW r \in Refresher, NEW a \in Account, Refresh(r, a)
      PROVE  JobsListed(c)
  BY <1>5, <1>t DEF Refresh, Send
<1>6. CASE Administer
  BY <1>0, <1>6 DEF Administer, Create, Delete, MarkDue, UpdateCrash, Update,
                    sessionVars
<1>7. CASE Expire \/ UNCHANGED vars
  BY <1>0, <1>7 DEF Expire, vars, sessionVars
<1> QED BY <1>1, <1>2, <1>3, <1>4, <1>5, <1>6, <1>7 DEF Next

(* A job that has the revision of its account has its credential, so that  *)
(* the guarded write, which compares revisions only, never stores what was *)
(* read with another credential.                                           *)
THEOREM JobsMatch == Spec => []JobsMatchRevision
<1>1. Init => JobsMatchRevision
  BY DEF Init, JobsMatchRevision
<1>2. TypeOK /\ JobsMatchRevision /\ [Next]_vars => JobsMatchRevision'
  <2> SUFFICES ASSUME TypeOK, JobsMatchRevision, [Next]_vars,
                      NEW c \in Owner, NEW j \in Jobs(c)', j # NoJob
               PROVE  /\ j.rev <= acct'[j.id].rev
                      /\ j.rev = acct'[j.id].rev => j.cred = acct'[j.id].cred
    BY DEF JobsMatchRevision, Jobs
  <2>1. CASE acct' = acct /\ \E a \in Account : j = JobOf(a)
    BY <2>1 DEF JobOf, TypeOK
  <2>2. CASE j \in Jobs(c)
    <3>1. j \in Job
      BY <2>2 DEF Jobs, TypeOK
    <3>2. /\ j.rev \in Nat /\ j.id \in Account
          /\ acct[j.id].rev \in Nat /\ acct'[j.id].rev \in Nat
      BY <3>1, TypeStep DEF Job, TypeOK
    <3>3. /\ j.rev <= acct[j.id].rev
          /\ j.rev = acct[j.id].rev => j.cred = acct[j.id].cred
      BY <2>2 DEF JobsMatchRevision, Jobs
    <3>4. /\ acct'[j.id].rev >= acct[j.id].rev
          /\ acct'[j.id].rev = acct[j.id].rev => acct'[j.id].cred = acct[j.id].cred
      BY <3>2, RevisionGrows
    <3> QED BY <3>2, <3>3, <3>4
  <2> QED BY <2>1, <2>2, JobOrigin DEF JobsListed
<1> QED BY <1>1, <1>2, TypeCorrect, PTL DEF Spec

-------------------------------------------------------------------------------
(* A mark that a step leaves pending is pending after it.                  *)
LEMMA MarksKept ==
    ASSUME TypeOK, NEW a \in Account, PendingMark(a) \/ a \in unmarked,
           NEW p \in Admin,
           \/ MarkDue(p) /\ admin[p] # a
           \/ UpdateCrash(p)
           \/ \E b \in Account : Update(p, b)
    PROVE  (PendingMark(a) \/ a \in unmarked)'
<1>t. admin \in [Admin -> Account \cup {NoAccount}] /\ a # NoAccount
  BY DEF TypeOK
<1>1. CASE MarkDue(p) /\ admin[p] # a
  BY <1>1, <1>t DEF MarkDue, PendingMark
<1>2. CASE UpdateCrash(p)
  BY <1>2, <1>t DEF UpdateCrash, PendingMark
<1>3. CASE \E b \in Account : Update(p, b)
  <2>1. /\ admin[p] = NoAccount /\ unmarked' = unmarked
        /\ \E v : admin' = [admin EXCEPT ![p] = v]
    BY <1>3 DEF Update
  <2> QED BY <2>1, <1>t DEF PendingMark
<1> QED BY <1>1, <1>2, <1>3

(* What Update does to the account and its mark.                           *)
LEMMA UpdateEffect ==
    ASSUME TypeOK, NEW p \in Admin, NEW b \in Account, Update(p, b),
           NEW a \in Account
    PROVE  /\ snap' = snap /\ acct'[a].state = acct[a].state
           /\ \/ acct'[a] = acct[a]
              \/ a = b /\ ~acct'[a].enabled
              \/ PendingMark(a)'
<1>t. admin \in [Admin -> Account \cup {NoAccount}] /\ acct \in Accounts
  BY DEF TypeOK, Accounts
<1>1. PICK cred \in Cred, en \in BOOLEAN :
        LET changed == cred # acct[b].cred \/ en # acct[b].enabled
        IN  /\ acct' = [acct EXCEPT ![b] =
                    [@ EXCEPT !.cred = cred, !.enabled = en,
                              !.rev = acct[b].rev + (IF changed THEN 1 ELSE 0)]]
            /\ admin' = [admin EXCEPT ![p] =
                    IF en /\ changed THEN b ELSE NoAccount]
  BY DEF Update
<1>2. snap' = snap
  BY DEF Update
<1>3. CASE a # b
  BY <1>1, <1>2, <1>3, <1>t DEF Accounts
<1>4. CASE a = b
  <2>1. acct'[a].state = acct[a].state /\ acct'[a].enabled = en
    BY <1>1, <1>4, <1>t DEF Accounts
  <2>2. CASE cred # acct[b].cred \/ en # acct[b].enabled
    <3>1. CASE en
      <4>1. admin'[p] = b
        BY <1>1, <2>2, <3>1, <1>t
      <4> QED BY <4>1, <1>2, <1>4, <2>1 DEF PendingMark
    <3>2. CASE ~en
      BY <3>2, <1>2, <1>4, <2>1
    <3> QED BY <3>1, <3>2
  <2>3. CASE cred = acct[b].cred /\ en = acct[b].enabled
    <3> DEFINE r == acct[b].rev + 0
    <3>1. acct' = [acct EXCEPT ![b] =
                      [@ EXCEPT !.cred = cred, !.enabled = en, !.rev = r]]
      BY <1>1, <2>3
    <3>2. r = acct[b].rev
      BY <1>t DEF Accounts
    <3> HIDE DEF r
    <3>3. acct'[a] = acct[a]
      BY <3>1, <3>2, <1>4, <1>t, <2>3 DEF Accounts
    <3> QED BY <3>3, <1>2
  <2> QED BY <2>2, <2>3
<1> QED BY <1>3, <1>4

LEMMA MarkDueEffect ==
    ASSUME TypeOK, NEW p \in Admin, MarkDue(p)
    PROVE  /\ acct' = acct /\ admin[p] \in Account
           /\ snap' = [snap EXCEPT ![admin[p]] =
                          [@ EXCEPT !.attempted = FALSE,
                                    !.stale = snap[admin[p]].windows # NoCred]]
           /\ \A a \in Account : a # admin[p] => snap'[a] = snap[a]
           /\ ~snap'[admin[p]].attempted
           /\ snap'[admin[p]].status = snap[admin[p]].status
           /\ snap'[admin[p]].windows = snap[admin[p]].windows
           /\ snap[admin[p]].windows # NoCred => snap'[admin[p]].stale
           /\ snap[admin[p]] = EmptySnapshot => snap'[admin[p]] = EmptySnapshot
<1> DEFINE s == snap[admin[p]].windows # NoCred
<1>1. acct' = acct /\ admin[p] \in Account
  BY DEF MarkDue, TypeOK
<1>2. snap' = [snap EXCEPT ![admin[p]] = [@ EXCEPT !.attempted = FALSE, !.stale = s]]
  BY DEF MarkDue
<1>3. snap \in Snapshots
  BY DEF TypeOK, Snapshots
<1>4. /\ \A a \in Account : a # admin[p] => snap'[a] = snap[a]
      /\ ~snap'[admin[p]].attempted
      /\ snap'[admin[p]].status = snap[admin[p]].status
      /\ snap'[admin[p]].windows = snap[admin[p]].windows
      /\ snap'[admin[p]].stale = s
  <2> HIDE DEF s
  <2> QED BY <1>1, <1>2, <1>3 DEF Snapshots
<1>5. ASSUME snap[admin[p]] = EmptySnapshot
      PROVE  snap'[admin[p]] = EmptySnapshot
  <2>1. s = FALSE
    BY <1>5 DEF EmptySnapshot
  <2> HIDE DEF s
  <2>2. snap'[admin[p]] = [EmptySnapshot EXCEPT !.attempted = FALSE, !.stale = FALSE]
    BY <1>1, <1>2, <1>3, <1>5, <2>1 DEF Snapshots
  <2> QED BY <2>2 DEF EmptySnapshot
<1> QED BY <1>1, <1>2, <1>4, <1>5

(* A row that a request creates or deletes starts from nothing.            *)
LEMMA RowReset ==
    ASSUME TypeOK, NEW b \in Account, Create(b) \/ Delete(b), NEW a \in Account
    PROVE  /\ a # b => acct'[a] = acct[a] /\ snap'[a] = snap[a]
           /\ snap'[b] = EmptySnapshot /\ acct'[b].state # "new"
           /\ Delete(b) => acct'[b].state = "deleted"
           /\ Create(b) => acct[b].state = "new"
           /\ admin' = admin /\ unmarked' = unmarked
<1>t. acct \in Accounts /\ snap \in Snapshots
  BY DEF TypeOK, Accounts, Snapshots
<1>1. CASE Delete(b)
  BY <1>1, <1>t DEF Delete, Live, Create, Accounts, Snapshots, marks
<1>2. CASE Create(b)
  <2>1. PICK en \in BOOLEAN :
          acct' = [acct EXCEPT ![b] = [@ EXCEPT !.state = "live", !.enabled = en]]
    BY <1>2 DEF Create
  <2>2. /\ snap' = [snap EXCEPT ![b] = EmptySnapshot] /\ acct[b].state = "new"
        /\ admin' = admin /\ unmarked' = unmarked
    BY <1>2 DEF Create, marks
  <2>3. ~Delete(b)
    BY <2>2 DEF Delete, Live
  <2> QED BY <2>1, <2>2, <2>3, <1>t DEF Accounts, Snapshots
<1> QED BY <1>1, <1>2

(* A changed account is queued, or its request is about to queue it, or    *)
(* the mark was lost in a crash.                                           *)
THEOREM ChangesQueued == Spec => []ChangeIsQueued
<1>1. Init => ChangeIsQueued
  BY DEF Init, ChangeIsQueued, EmptySnapshot
<1>2. TypeOK /\ ChangeIsQueued /\ [Next]_vars => ChangeIsQueued'
  <2> SUFFICES ASSUME TypeOK, ChangeIsQueued, [Next]_vars, NEW a \in Account,
                      Enabled(a)', snap'[a].attempted,
                      snap'[a].rev # acct'[a].rev
               PROVE  (PendingMark(a) \/ a \in unmarked)'
    BY DEF ChangeIsQueued
  <2>0. /\ acct'[a] = acct[a] /\ snap'[a] = snap[a]
        => PendingMark(a) \/ a \in unmarked
    BY DEF ChangeIsQueued, Enabled, Live
  <2>1. CASE RowsKept
    BY <2>0, <2>1 DEF RowsKept, PendingMark
  <2>2. ASSUME NEW c \in Owner, Accept(c)
        PROVE  (PendingMark(a) \/ a \in unmarked)'
    <3>1. CASE a = job[c].id
      <4>1. snap'[a].rev = job[c].rev /\ acct'[a].rev = job[c].rev
        BY <2>2, <3>1, AcceptEffect, AcceptFields
      <4> QED BY <4>1
    <3>2. CASE a # job[c].id
      BY <2>0, <2>2, <3>2, AcceptEffect DEF PendingMark
    <3> QED BY <3>1, <3>2
  <2>3. ASSUME NEW b \in Account, Create(b) \/ Delete(b)
        PROVE  (PendingMark(a) \/ a \in unmarked)'
    BY <2>0, <2>3, RowReset DEF EmptySnapshot, PendingMark
  <2>4. ASSUME NEW p \in Admin, MarkDue(p)
        PROVE  (PendingMark(a) \/ a \in unmarked)'
    <3>1. a # admin[p] /\ acct'[a] = acct[a] /\ snap'[a] = snap[a]
      BY <2>4, MarkDueEffect
    <3> QED BY <2>0, <2>4, <3>1, MarksKept
  <2>5. ASSUME NEW p \in Admin, UpdateCrash(p)
        PROVE  (PendingMark(a) \/ a \in unmarked)'
    BY <2>0, <2>5, MarksKept DEF UpdateCrash
  <2>6. ASSUME NEW p \in Admin, NEW b \in Account, Update(p, b)
        PROVE  (PendingMark(a) \/ a \in unmarked)'
    <3>1. (acct'[a] = acct[a] /\ snap'[a] = snap[a]) \/ PendingMark(a)'
      BY <2>6, UpdateEffect DEF Enabled
    <3> QED BY <2>0, <2>6, <3>1, MarksKept
  <2> QED BY <2>1, <2>2, <2>3, <2>4, <2>5, <2>6, RowSteps DEF Administer
<1> QED BY <1>1, <1>2, TypeCorrect, PTL DEF Spec

-------------------------------------------------------------------------------
(* Windows are there exactly when a collection has succeeded, windows that *)
(* the last attempt did not read are stale, and a new account has none.    *)
SnapshotsConsistent ==
    \A a \in Account :
        /\ snap[a].status = "success" => snap[a].windows \in Cred
        /\ snap[a].windows # NoCred /\ snap[a].status # "success" => snap[a].stale
        /\ acct[a].state = "new" => snap[a] = EmptySnapshot

LEMMA ConsistentStep ==
    TypeOK /\ SnapshotsConsistent /\ [Next]_vars => SnapshotsConsistent'
<1> SUFFICES ASSUME TypeOK, SnapshotsConsistent, [Next]_vars, NEW a \in Account
             PROVE  /\ snap'[a].status = "success" => snap'[a].windows \in Cred
                    /\ snap'[a].windows # NoCred /\ snap'[a].status # "success"
                         => snap'[a].stale
                    /\ acct'[a].state = "new" => snap'[a] = EmptySnapshot'
  BY DEF SnapshotsConsistent
<1> DEFINE Ok == /\ snap'[a].status = "success" => snap'[a].windows \in Cred
                 /\ snap'[a].windows # NoCred /\ snap'[a].status # "success"
                      => snap'[a].stale
                 /\ acct'[a].state = "new" => snap'[a] = EmptySnapshot
<1>0. acct'[a].state = acct[a].state /\ snap'[a] = snap[a] => Ok
  BY DEF SnapshotsConsistent
<1>1. CASE RowsKept
  BY <1>0, <1>1 DEF RowsKept
<1>2. ASSUME NEW c \in Owner, Accept(c) PROVE Ok
  <2>1. CASE a = job[c].id
    <3>1. job[c].cred \in Cred /\ acct' = acct
      BY <1>2, <2>1, AcceptEffect DEF Job
    <3>2. acct[a].state # "new"
      BY <1>2, <2>1 DEF Accept, SourceUnchanged, Enabled, Live
    <3> QED BY <1>2, <2>1, <3>1, <3>2, AcceptFields DEF SnapshotsConsistent
  <2>2. CASE a # job[c].id
    BY <1>0, <1>2, <2>2, AcceptEffect
  <2> QED BY <2>1, <2>2
<1>3. ASSUME NEW b \in Account, Create(b) \/ Delete(b) PROVE Ok
  BY <1>0, <1>3, RowReset DEF EmptySnapshot
<1>4. ASSUME NEW p \in Admin, MarkDue(p) PROVE Ok
  <2>1. CASE a = admin[p]
    <3>1. /\ snap'[a].status = snap[a].status /\ acct' = acct
          /\ snap'[a].windows = snap[a].windows
          /\ snap[a].windows # NoCred => snap'[a].stale
      BY <1>4, <2>1, MarkDueEffect
    <3>2. acct[a].state = "new" => snap'[a] = EmptySnapshot
      <4> SUFFICES ASSUME acct[a].state = "new" PROVE snap'[a] = EmptySnapshot
        OBVIOUS
      <4> QED BY <1>4, <2>1, MarkDueEffect DEF SnapshotsConsistent
    <3> QED BY <3>1, <3>2 DEF SnapshotsConsistent
  <2>2. CASE a # admin[p]
    BY <1>0, <1>4, <2>2, MarkDueEffect
  <2> QED BY <2>1, <2>2
<1>5. ASSUME NEW p \in Admin, UpdateCrash(p) PROVE Ok
  BY <1>0, <1>5 DEF UpdateCrash
<1>6. ASSUME NEW p \in Admin, NEW b \in Account, Update(p, b) PROVE Ok
  BY <1>0, <1>6, UpdateEffect
<1> QED BY <1>1, <1>2, <1>3, <1>4, <1>5, <1>6, RowSteps DEF Administer

LEMMA Consistent == Spec => []SnapshotsConsistent
<1>1. Init => SnapshotsConsistent
  BY DEF Init, SnapshotsConsistent, EmptySnapshot
<1> QED BY <1>1, ConsistentStep, TypeCorrect, PTL DEF Spec

(* Windows shown as fresh were read with the account's credential, or the  *)
(* mark that calls them stale is pending or was lost in a crash.           *)
THEOREM FreshIsCurrent == Spec => []FreshMatchesCredential
<1>1. Init => FreshMatchesCredential
  BY DEF Init, FreshMatchesCredential, EmptySnapshot
<1>2. TypeOK /\ JobsMatchRevision /\ SnapshotsConsistent
        /\ FreshMatchesCredential /\ [Next]_vars => FreshMatchesCredential'
  <2> SUFFICES ASSUME TypeOK, JobsMatchRevision, SnapshotsConsistent,
                      FreshMatchesCredential, [Next]_vars,
                      NEW a \in Account, Enabled(a)',
                      snap'[a].status = "success", ~snap'[a].stale
               PROVE  \/ snap'[a].windows = acct'[a].cred
                      \/ (PendingMark(a) \/ a \in unmarked)'
    BY DEF FreshMatchesCredential
  <2> DEFINE Ok == \/ snap'[a].windows = acct'[a].cred
                   \/ (PendingMark(a) \/ a \in unmarked)'
  <2>0. acct'[a] = acct[a] /\ snap'[a] = snap[a]
        => snap'[a].windows = acct'[a].cred \/ PendingMark(a) \/ a \in unmarked
    BY DEF FreshMatchesCredential, Enabled, Live
  <2>1. CASE RowsKept
    BY <2>0, <2>1 DEF RowsKept, PendingMark
  <2>2. ASSUME NEW c \in Owner, Accept(c) PROVE Ok
    <3>1. CASE a = job[c].id
      <4>1. /\ acct' = acct /\ job[c] # NoJob /\ job[c].rev = acct[a].rev
        BY <2>2, <3>1, AcceptEffect DEF NoJob
      <4>2. job[c].cred = acct[a].cred
        BY <3>1, <4>1 DEF JobsMatchRevision
      <4>3. snap'[a].windows = job[c].cred
        BY <2>2, <3>1, AcceptFields
      <4> QED BY <4>1, <4>2, <4>3
    <3>2. CASE a # job[c].id
      BY <2>0, <2>2, <3>2, AcceptEffect DEF PendingMark
    <3> QED BY <3>1, <3>2
  <2>3. ASSUME NEW b \in Account, Create(b) \/ Delete(b) PROVE Ok
    BY <2>0, <2>3, RowReset DEF EmptySnapshot, PendingMark
  <2>4. ASSUME NEW p \in Admin, MarkDue(p) PROVE Ok
    <3>1. a # admin[p]
      <4> SUFFICES ASSUME a = admin[p] PROVE FALSE
        OBVIOUS
      <4>1. /\ snap[a].status = "success"
            /\ snap[a].windows # NoCred => snap'[a].stale
        BY <2>4, MarkDueEffect
      <4> QED BY <4>1 DEF SnapshotsConsistent
    <3>2. acct'[a] = acct[a] /\ snap'[a] = snap[a]
      BY <2>4, <3>1, MarkDueEffect
    <3> QED BY <2>0, <2>4, <3>1, <3>2, MarksKept
  <2>5. ASSUME NEW p \in Admin, UpdateCrash(p) PROVE Ok
    BY <2>0, <2>5, MarksKept DEF UpdateCrash
  <2>6. ASSUME NEW p \in Admin, NEW b \in Account, Update(p, b) PROVE Ok
    <3>1. (acct'[a] = acct[a] /\ snap'[a] = snap[a]) \/ PendingMark(a)'
      BY <2>6, UpdateEffect DEF Enabled
    <3> QED BY <2>0, <2>6, <3>1, MarksKept
  <2> QED BY <2>1, <2>2, <2>3, <2>4, <2>5, <2>6, RowSteps DEF Administer
<1> QED BY <1>1, <1>2, TypeCorrect, JobsMatch, Consistent, PTL DEF Spec

(* A failure, a mark or an update never loses the windows of the last      *)
(* success, and calls them stale.                                          *)
THEOREM WindowsKept == Spec => LastSuccessKept
<1>1. TypeOK /\ SnapshotsConsistent /\ SnapshotsConsistent' /\ [Next]_vars =>
        [\A a \in Account :
            /\ snap[a].windows # NoCred /\ Live(a)'
            /\ snap'[a].status # "success"
            => snap'[a].windows = snap[a].windows /\ snap'[a].stale]_vars
  <2> SUFFICES ASSUME TypeOK, SnapshotsConsistent, SnapshotsConsistent', [Next]_vars,
                      NEW a \in Account, snap[a].windows # NoCred, Live(a)',
                      snap'[a].status # "success"
               PROVE  snap'[a].windows = snap[a].windows /\ snap'[a].stale
    OBVIOUS
  <2>0. snap'[a].windows # NoCred => snap'[a].stale
    BY DEF SnapshotsConsistent
  <2> SUFFICES snap'[a].windows = snap[a].windows
    BY <2>0
  <2>1. CASE RowsKept
    BY <2>1 DEF RowsKept
  <2>2. ASSUME NEW c \in Owner, Accept(c) PROVE snap'[a].windows = snap[a].windows
    BY <2>2, AcceptEffect, AcceptFields
  <2>3. ASSUME NEW b \in Account, Create(b) \/ Delete(b)
        PROVE  snap'[a].windows = snap[a].windows
    <3>1. CASE Delete(b)
      BY <2>3, <3>1, RowReset DEF Live
    <3>2. CASE Create(b)
      BY <2>3, <3>2, RowReset DEF SnapshotsConsistent, EmptySnapshot
    <3> QED BY <2>3, <3>1, <3>2
  <2>4. ASSUME NEW p \in Admin, MarkDue(p) PROVE snap'[a].windows = snap[a].windows
    BY <2>4, MarkDueEffect
  <2>5. ASSUME NEW p \in Admin, UpdateCrash(p)
        PROVE  snap'[a].windows = snap[a].windows
    BY <2>5 DEF UpdateCrash
  <2>6. ASSUME NEW p \in Admin, NEW b \in Account, Update(p, b)
        PROVE  snap'[a].windows = snap[a].windows
    BY <2>6, UpdateEffect
  <2> QED BY <2>1, <2>2, <2>3, <2>4, <2>5, <2>6, RowSteps DEF Administer
<1> QED BY <1>1, TypeCorrect, Consistent, PTL DEF Spec, LastSuccessKept

-------------------------------------------------------------------------------
(* An owner whose answer has been overtaken does not hold the lease, and   *)
(* gets it back only with a session and a request of its own.              *)
HistoryOK(d) ==
    /\ d \notin earlier[d]
    /\ d \in outdated => holder # d
    /\ pc[d] = "idle" => d \notin outdated /\ \A c \in Owner : d \notin earlier[c]
OutdatedIsFenced == \A d \in Owner : HistoryOK(d)

(* A request only takes its own session out of the histories, and those it *)
(* overtakes are at work.                                                  *)
LEMMA SendHistory ==
    ASSUME TypeOK, OutdatedIsFenced, NEW c \in Owner, NEW j, Send(c, j),
           holder' \in {holder, c}, NEW d \in Owner
    PROVE  HistoryOK(d)'
<1>1. /\ pc'[c] = "inflight" /\ \A e \in Owner : e # c => pc'[e] = pc[e]
      /\ outdated' = outdated \ {c}
  BY DEF Send, TypeOK
<1>2. /\ \A e \in earlier'[c] : e # c /\ pc[e] \in Waiting
      /\ \A b \in Owner : b # c => earlier'[b] = earlier[b] \ {c}
  BY DEF Send
<1>3. d \notin earlier'[d]
  BY <1>2 DEF OutdatedIsFenced, HistoryOK
<1>4. d \in outdated' => holder' # d
  BY <1>1 DEF OutdatedIsFenced, HistoryOK
<1>5. ASSUME pc'[d] = "idle"
      PROVE  d \notin outdated' /\ \A b \in Owner : d \notin earlier'[b]
  <2>1. d # c /\ pc[d] = "idle"
    BY <1>1, <1>5
  <2>2. d \notin earlier'[c]
    BY <1>2, <2>1 DEF Waiting
  <2> QED BY <1>1, <1>2, <2>1, <2>2 DEF OutdatedIsFenced, HistoryOK
<1> QED BY <1>3, <1>4, <1>5 DEF HistoryOK

(* A session that ends is in no history any more.                          *)
LEMMA ForgetHistory ==
    ASSUME TypeOK, OutdatedIsFenced, NEW c \in Owner, Forget(c),
           NEW label, Goto(c, label), holder' \in {holder, NoOwner},
           NEW d \in Owner
    PROVE  HistoryOK(d)'
<1>1. /\ outdated' = outdated \ {c} /\ earlier'[c] = {}
      /\ \A b \in Owner : b # c => earlier'[b] = earlier[b] \ {c}
      /\ \A e \in Owner : e # c => pc'[e] = pc[e]
  BY DEF Forget, Goto, TypeOK
<1>2. \A b \in Owner : c \notin earlier'[b]
  BY <1>1
<1> QED BY <1>1, <1>2 DEF OutdatedIsFenced, HistoryOK

(* A job that ends, accepted or not.                                       *)
LEMMA NextJobHistory ==
    ASSUME TypeOK, OutdatedIsFenced, NEW c \in Owner, NextJob(c),
           outdated' = outdated \/
             (outdated' = outdated \cup earlier[c] /\ holder = c /\ pc[c] = "checked"),
           holder' = holder, NEW d \in Owner
    PROVE  HistoryOK(d)'
<1>1. /\ earlier'[c] = {} /\ \A b \in Owner : b # c => earlier'[b] = earlier[b]
      /\ pc'[c] = "next" /\ \A e \in Owner : e # c => pc'[e] = pc[e]
  BY DEF NextJob, Goto, TypeOK
<1>2. d \in outdated' => holder' # d
  BY DEF OutdatedIsFenced, HistoryOK
<1>3. pc'[d] = "idle" => d \notin outdated'
  BY <1>1 DEF OutdatedIsFenced, HistoryOK
<1> QED BY <1>1, <1>2, <1>3 DEF OutdatedIsFenced, HistoryOK

(* Any other step of a session moves its program counter, not to idle.     *)
LEMMA MoveHistory ==
    ASSUME TypeOK, OutdatedIsFenced, NEW c \in Owner, NEW label,
           label # "idle", Goto(c, label),
           earlier' = earlier, outdated' = outdated,
           holder' = holder \/ (holder' = c /\ pc[c] = "idle"), NEW d \in Owner
    PROVE  HistoryOK(d)'
<1>1. pc'[c] = label /\ \A e \in Owner : e # c => pc'[e] = pc[e]
  BY DEF Goto, TypeOK
<1> QED BY <1>1 DEF OutdatedIsFenced, HistoryOK

LEMMA StillHistory ==
    ASSUME OutdatedIsFenced, pc' = pc, earlier' = earlier, outdated' = outdated,
           holder' \in {holder, NoOwner}, NEW d \in Owner
    PROVE  HistoryOK(d)'
BY DEF OutdatedIsFenced, HistoryOK

LEMMA HistoryStep == TypeOK /\ OutdatedIsFenced /\ [Next]_vars => OutdatedIsFenced'
<1> SUFFICES ASSUME TypeOK, OutdatedIsFenced, [Next]_vars, NEW d \in Owner
             PROVE  HistoryOK(d)'
  BY DEF OutdatedIsFenced
<1>1. ASSUME NEW c \in Owner, Collect(c) PROVE HistoryOK(d)'
  <2>1. CASE Start(c)
    BY <2>1, MoveHistory DEF Start, Grant, history
  <2>2. CASE ListJobs(c)
    BY <2>2, MoveHistory DEF ListJobs, leaseVars, history
  <2>3. CASE Skip(c)
    BY <2>3, StillHistory DEF Skip, leaseVars, history
  <2>4. CASE PickFirst(c)
    BY <2>4, SendHistory DEF PickFirst, leaseVars
  <2>5. CASE PickNext(c)
    BY <2>5, MoveHistory DEF PickNext, leaseVars, history
  <2>6. CASE SendPaced(c)
    BY <2>6, SendHistory DEF SendPaced, leaseVars
  <2>7. CASE Answer(c)
    BY <2>7, MoveHistory DEF Answer, leaseVars, history
  <2>8. CASE Recheck(c)
    <3>1. CASE NextJob(c)
      BY <2>8, <3>1, NextJobHistory DEF Recheck, leaseVars
    <3>2. CASE Goto(c, "checked") /\ UNCHANGED <<job, answer, earlier>>
      BY <2>8, <3>2, MoveHistory DEF Recheck, leaseVars
    <3> QED BY <2>8, <3>1, <3>2 DEF Recheck
  <2>9. CASE LeaseLost(c)
    BY <2>9, MoveHistory DEF LeaseLost, Interrupted, leaseVars, history
  <2>10. CASE Accept(c)
    BY <2>10, NextJobHistory DEF Accept, Commit
  <2>11. CASE Reject(c)
    <3>1. CASE NextJob(c)
      BY <2>11, <3>1, NextJobHistory DEF Reject, leaseVars
    <3>2. CASE Goto(c, "releasing") /\ UNCHANGED <<job, answer, earlier>>
      BY <2>11, <3>2, MoveHistory DEF Reject, leaseVars
    <3> QED BY <2>11, <3>1, <3>2 DEF Reject
  <2>12. CASE Done(c)
    BY <2>12, MoveHistory DEF Done, leaseVars, history
  <2>13. CASE Release(c)
    BY <2>13, ForgetHistory DEF Release, Leave
  <2> QED BY <1>1, <2>1, <2>2, <2>3, <2>4, <2>5, <2>6, <2>7, <2>8, <2>9, <2>10,
             <2>11, <2>12, <2>13 DEF Collect
<1>2. ASSUME NEW c \in Owner, WriteError(c) PROVE HistoryOK(d)'
  <2>1. CASE NextJob(c)
    BY <1>2, <2>1, NextJobHistory DEF WriteError, leaseVars
  <2>2. CASE Goto(c, "answered") /\ UNCHANGED <<job, earlier>>
    BY <1>2, <2>2, MoveHistory DEF WriteError, leaseVars
  <2> QED BY <1>2, <2>1, <2>2 DEF WriteError
<1>3. ASSUME NEW c \in Owner, Abort(c) PROVE HistoryOK(d)'
  BY <1>3, MoveHistory DEF Abort, leaseVars, history
<1>4. ASSUME NEW c \in Owner, HeartbeatStops(c) PROVE HistoryOK(d)'
  BY <1>4, StillHistory DEF HeartbeatStops, leaseVars, history
<1>5. ASSUME NEW c \in Owner, Crash(c) PROVE HistoryOK(d)'
  BY <1>5, ForgetHistory DEF Crash
<1>6. ASSUME NEW r \in Refresher, NEW a \in Account, Refresh(r, a)
      PROVE  HistoryOK(d)'
  BY <1>6, SendHistory DEF Refresh, Grant
<1>7. CASE Administer
  BY <1>7, StillHistory DEF Administer, Create, Delete, MarkDue, UpdateCrash,
     Update, leaseVars, sessionVars, history
<1>8. CASE Expire
  BY <1>8, StillHistory DEF Expire, Lapse, sessionVars, history
<1>9. CASE UNCHANGED vars
  BY <1>9, StillHistory DEF vars, leaseVars, sessionVars, history
<1> QED BY <1>1, <1>2, <1>3, <1>4, <1>5, <1>6, <1>7, <1>8, <1>9 DEF Next

(* Only an accepted write takes a session from the check to its next job   *)
(* and changes the snapshot on the way.                                    *)
LEMMA OnlyAcceptWrites ==
    ASSUME TypeOK, [Next]_vars, NEW c \in Owner,
           pc[c] = "checked", pc'[c] = "next", snap' # snap
    PROVE  Accept(c)
<1>1. ASSUME NEW b \in Owner, Accept(b) PROVE b = c
  BY <1>1 DEF Accept, NextJob, Goto, TypeOK
<1>2. CASE RowsKept
  BY <1>2 DEF RowsKept
<1>3. CASE Administer
  BY <1>3 DEF Administer, Create, Delete, MarkDue, UpdateCrash, Update, sessionVars
<1> QED BY <1>1, <1>2, <1>3, RowSteps

(* An answer never replaces what a later request for the same account has  *)
(* already stored, whoever lost the lease in between.                      *)
THEOREM NeverStaleOverwrite == Spec => NoStaleOverwrite
<1>1. Init => OutdatedIsFenced
  BY DEF Init, OutdatedIsFenced, HistoryOK
<1>2. TypeOK /\ OutdatedIsFenced /\ [Next]_vars =>
        [\A c \in Owner :
            pc[c] = "checked" /\ snap'[job[c].id] # snap[job[c].id]
              /\ pc'[c] = "next" => c \notin outdated]_vars
  <2> SUFFICES ASSUME TypeOK, OutdatedIsFenced, [Next]_vars, NEW c \in Owner,
                      pc[c] = "checked", pc'[c] = "next",
                      snap'[job[c].id] # snap[job[c].id]
               PROVE  c \notin outdated
    OBVIOUS
  <2>1. Accept(c)
    BY OnlyAcceptWrites
  <2>2. holder = c
    BY <2>1 DEF Accept, Commit
  <2> QED BY <2>2 DEF OutdatedIsFenced, HistoryOK
<1>3. Spec => []OutdatedIsFenced
  BY <1>1, HistoryStep, TypeCorrect, PTL DEF Spec
<1> QED BY <1>2, <1>3, TypeCorrect, PTL DEF Spec, NoStaleOverwrite

-------------------------------------------------------------------------------
(* What a step of a session is to the lease.                               *)
LEMMA CollectsByLease ==
    ASSUME LeaseTypeOK, NEW c \in Owner,
           \/ Collect(c) \/ WriteError(c) \/ Abort(c) \/ HeartbeatStops(c) \/ Crash(c)
    PROVE  Grant(c) \/ Commit(c) \/ Leave(c) \/ UNCHANGED leaseVars
<1>1. CASE \/ Start(c) \/ ListJobs(c) \/ Skip(c) \/ PickFirst(c) \/ PickNext(c)
           \/ SendPaced(c) \/ Answer(c) \/ Recheck(c) \/ LeaseLost(c)
  BY <1>1 DEF Start, ListJobs, Skip, PickFirst, PickNext, SendPaced, Answer, Recheck,
              LeaseLost
<1>2. CASE Accept(c) \/ Reject(c) \/ Done(c) \/ Release(c)
  BY <1>2 DEF Accept, Reject, Done, Release
<1>3. CASE WriteError(c) \/ Abort(c) \/ HeartbeatStops(c)
  BY <1>3 DEF WriteError, Abort, HeartbeatStops
<1>4. CASE Crash(c)
  <2>1. CASE c \in inside
    BY <1>4, <2>1 DEF Crash, Leave
  <2>2. CASE c \notin inside
    BY <1>4, <2>2 DEF Crash, leaseVars, LeaseTypeOK
  <2> QED BY <2>1, <2>2
<1> QED BY <1>1, <1>2, <1>3, <1>4 DEF Collect

(* quota_sync.py: collection uses the lease as Lease allows.  With the     *)
(* refinement proved of SchedulerLease, what it relies on is what the      *)
(* table gives.                                                            *)
THEOREM KeepsTheLease == Spec => LeaseSpec
<1>1. Init => LeaseInit
  BY DEF Init
<1>2. TypeOK /\ [Next]_vars => [LeaseNext]_leaseVars
  <2> SUFFICES ASSUME TypeOK, [Next]_vars PROVE [LeaseNext]_leaseVars
    OBVIOUS
  <2>0. LeaseTypeOK
    BY DEF TypeOK
  <2>1. ASSUME NEW c \in Owner,
               \/ Collect(c) \/ WriteError(c) \/ Abort(c) \/ HeartbeatStops(c) \/ Crash(c)
        PROVE  [LeaseNext]_leaseVars
    BY <2>0, <2>1, CollectsByLease DEF LeaseNext
  <2>2. ASSUME NEW r \in Refresher, NEW a \in Account, Refresh(r, a)
        PROVE  [LeaseNext]_leaseVars
    BY <2>2, CollectorAssumption DEF Refresh, LeaseNext
  <2>3. CASE Administer
    <3>1. CASE \E a \in Account : Create(a) \/ Delete(a)
      BY <3>1 DEF Create, Delete
    <3>2. CASE \E p \in Admin : MarkDue(p) \/ UpdateCrash(p)
      BY <3>2 DEF MarkDue, UpdateCrash
    <3>3. ASSUME NEW p \in Admin, NEW a \in Account, Update(p, a)
          PROVE  UNCHANGED leaseVars
      BY <3>3 DEF Update
    <3> QED BY <2>3, <3>1, <3>2, <3>3 DEF Administer
  <2>4. CASE Expire
    BY <2>4 DEF Expire, LeaseNext
  <2>5. CASE UNCHANGED vars
    BY <2>5 DEF vars
  <2> QED BY <2>1, <2>2, <2>3, <2>4, <2>5 DEF Next
<1> QED BY <1>1, <1>2, TypeCorrect, PTL DEF Spec, LeaseSpec
===============================================================================
