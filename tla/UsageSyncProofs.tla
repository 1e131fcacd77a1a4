---------------------------- MODULE UsageSyncProofs ----------------------------
(***************************************************************************)
(* Proofs about UsageSync for any accounts, workspaces, loops, requests    *)
(* and processes, any page size and cap, with and without Faults.          *)
(***************************************************************************)
EXTENDS UsageSync, FiniteSetTheorems, TLAPS

Accounts == [Account -> [state : {"new", "live", "deleted"},
                         enabled : BOOLEAN, space : Space, rev : 0..MaxRev,
                         resolved : Space \cup {NoSpace}]]
Syncs == [Account -> [synced : BOOLEAN, deepest : Nat \cup {-1}, total : Nat]]

(* The type invariant in parts, which a step changes or leaves alone.      *)
Upstream == made \in [Space -> Nat] /\ \A s \in Space : made[s] <= Most[s]
Tables ==
    /\ acct \in Accounts
    /\ stored \in [Account -> SUBSET Record]
    /\ sync \in Syncs
    /\ walk \in [Account -> {"whole", "paging", "torn"}]
Sessions ==
    /\ pc \in [Owner -> Pc]
    /\ due \in [Owner -> SUBSET Account]
    /\ run \in [Owner -> Run]

LEMMA TypeParts ==
    /\ TypeOK <=> LeaseTypeOK /\ Upstream /\ Tables /\ Sessions
    /\ TypeOK' <=> LeaseTypeOK' /\ Upstream' /\ Tables' /\ Sessions'
BY DEF TypeOK, Upstream, Tables, Accounts, Syncs, Sessions

-------------------------------------------------------------------------------
(* The inductive invariant.  A session at label l with call n has a row as *)
(* long as it works for an account, pages left as long as it is in its     *)
(* loop, and records of its row's workspace only; the account's row is no  *)
(* older than the session's, and with the same revision it has the same    *)
(* workspace.                                                              *)
Busy == Writing \cup Checking \cup {"testing"}
Paging == {"resolving", "recording", "inflight", "checked", "marking"}

RowFits(w) ==
    /\ acct[w.id].state # "new" /\ w.rev <= acct[w.id].rev
    /\ w.rev = acct[w.id].rev => w.space = acct[w.id].space

Sound(l, n) ==
    /\ l \in Busy => n.row \in Row
    /\ l \in Paging => n.left > 0
    /\ IsFiniteSet(n.records)
    /\ \A r \in n.records : r[1] = n.row.space
    /\ n.row \in Row => RowFits(n.row)

AllSound == \A o \in Owner : Sound(pc[o], run[o])

StoredFinite == \A a \in Account : IsFiniteSet(stored[a])

(* What a step of session o leaves in it.                                  *)
Moves(o) ==
    \E l \in Pc, n \in Run :
        /\ pc' = [pc EXCEPT ![o] = l]
        /\ run' = [run EXCEPT ![o] = n]
        /\ Sound(l, n)

LEMMA RowTyped ==
    ASSUME Tables, NEW a \in Account, Live(a)
    PROVE  RowOf(a) \in Row /\ RowFits(RowOf(a))
BY DEF Tables, Accounts, RowOf, Row, RowFits, Live

LEMMA NoRowIsNoRow == NoRow \notin Row
BY SyncAssumption DEF NoRow, Row

LEMMA NoRunTyped ==
    /\ NoRun \in Run /\ NoRun.row = NoRow /\ NoRun.records = {}
    /\ NoRun.kind = "sync"
BY DEF NoRun, Run

(* A session that holds nothing is sound wherever nothing is asked of it.  *)
LEMMA IdleSound == ASSUME NEW l \in Pc \ Busy PROVE Sound(l, NoRun)
BY NoRunTyped, NoRowIsNoRow, FS_EmptySet DEF Sound, Busy, Paging, Writing, Checking

(* A page is finite and has the records of its workspace.                  *)
LEMMA PageTyped ==
    ASSUME Upstream, NEW s \in Space, NEW p \in Nat
    PROVE  /\ Page(s, p) \in SUBSET Record /\ IsFiniteSet(Page(s, p))
           /\ \A r \in Page(s, p) : r[1] = s
<1>1. IsFiniteSet({s} \X (1..made[s]))
  <2>1. made[s] \in Int /\ 1 \in Int
    BY DEF Upstream
  <2>2. IsFiniteSet(1..made[s])
    BY ONLY <2>1, FS_Interval
  <2>3. IsFiniteSet({s})
    BY FS_Singleton
  <2> QED BY <2>2, <2>3, FS_Product
<1>2. Page(s, p) \in SUBSET ({s} \X (1..made[s]))
  BY DEF Page
<1>3. ASSUME NEW r \in {s} \X (1..made[s]) PROVE r \in Record
  <2>1. r[1] = s /\ r[2] \in 1..made[s] /\ r \in Space \X Nat
    BY DEF Upstream
  <2>2. made[s] \in Nat /\ made[s] <= Most[s] /\ Most[s] \in Nat
    BY SyncAssumption DEF Upstream
  <2> QED BY <2>1, <2>2 DEF Record
<1> QED BY <1>1, <1>2, <1>3, FS_Subset

LEMMA RecordsFinite ==
    ASSUME NEW S, IsFiniteSet(S), NEW T, IsFiniteSet(T), NEW K
    PROVE  IsFiniteSet(S \cup (T \ K))
BY FS_Subset, FS_Union
-------------------------------------------------------------------------------
(* Where a call, a turn of a loop and the end of a call lead.              *)
LEMMA StartPageTyped ==
    ASSUME NEW d \in Nat \cup {-1}
    PROVE  StartPage(d) \in Nat /\ StartPage(d) > d
BY DEF StartPage

LEMMA EnterPagesMoves ==
    ASSUME Tables, NEW o \in Owner, NEW r \in Run, r.row \in Row,
           Sound("resolving", r), EnterPages(o, r)
    PROVE  Moves(o)
<1> DEFINE a == r.row.id
           n == IF r.kind = "sync" THEN [r EXCEPT !.before = stored[a]]
                ELSE [r EXCEPT !.page = StartPage(sync[a].deepest)]
<1>1. a \in Account
  BY DEF Row
<1>2. stored[a] \in SUBSET Record /\ sync[a].deepest \in Nat \cup {-1}
  BY <1>1 DEF Tables, Syncs
<1>3. StartPage(sync[a].deepest) \in Nat
  BY <1>2, StartPageTyped
<1>4. n \in Run /\ n.row = r.row /\ n.left = r.left /\ n.records = r.records
  BY <1>2, <1>3 DEF Run
<1>5. run' = [run EXCEPT ![o] = n] /\ pc' = [pc EXCEPT ![o] = "inflight"]
  BY DEF EnterPages, Goto
<1>6. Sound("inflight", n)
  BY <1>4 DEF Sound, Busy, Paging, Checking
<1>7. "inflight" \in Pc
  BY DEF Pc, Checking
<1> HIDE DEF n
<1> QED BY <1>4, <1>5, <1>6, <1>7 DEF Moves

LEMMA CallMoves ==
    ASSUME Tables, NEW o \in Owner, NEW a \in Account, Live(a),
           NEW kind \in {"sync", "backfill"}, NEW pages \in Nat \ {0},
           Call(o, a, kind, pages)
    PROVE  Moves(o)
<1> DEFINE r == [NoRun EXCEPT !.row = RowOf(a), !.kind = kind, !.left = pages]
<1>1. RowOf(a) \in Row /\ RowFits(RowOf(a))
  BY RowTyped
<1>2. r \in Run /\ r.row = RowOf(a) /\ r.left = pages /\ r.records = {}
  BY <1>1 DEF NoRun, Run
<1>3. Sound("resolving", r)
  BY <1>1, <1>2, FS_EmptySet DEF Sound
<1>4. \/ run' = [run EXCEPT ![o] = r] /\ pc' = [pc EXCEPT ![o] = "resolving"]
      \/ EnterPages(o, r)
  BY DEF Call, Goto
<1>5. "resolving" \in Pc
  BY DEF Pc, Checking
<1> HIDE DEF r
<1> QED BY <1>1, <1>2, <1>3, <1>4, <1>5, EnterPagesMoves DEF Moves

LEMMA EndCallMoves == ASSUME NEW o \in Owner, EndCall(o) PROVE Moves(o)
<1>1. PICK l \in {"next", "releasing"} :
        run' = [run EXCEPT ![o] = NoRun] /\ pc' = [pc EXCEPT ![o] = l]
  BY DEF EndCall, Goto
<1>2. l \in Pc \ Busy
  BY DEF Pc, Busy, Writing, Checking
<1> QED BY <1>1, <1>2, IdleSound, NoRunTyped DEF Moves

LEMMA StopMoves == ASSUME NEW o \in Owner, Stop(o) PROVE Moves(o)
<1>1. "releasing" \in Pc \ Busy
  BY DEF Pc, Busy, Writing, Checking
<1> QED BY <1>1, IdleSound, NoRunTyped DEF Moves, Stop, Goto

LEMMA TurnMoves ==
    ASSUME Sessions, AllSound, NEW o \in Owner, pc[o] \in {"checked", "marking"},
           NEW last \in BOOLEAN, Turn(o, last)
    PROVE  Moves(o)
<1> DEFINE r == run[o]
           out == [r EXCEPT !.left = 0, !.records = {}]
           on == [r EXCEPT !.page = r.page + 1, !.left = r.left - 1, !.records = {}]
<1>1. r \in Run /\ r.row \in Row /\ RowFits(r.row) /\ r.left > 0
  BY DEF Sessions, AllSound, Sound, Busy, Paging, Writing, Checking
<1>2. out \in Run /\ out.row = r.row /\ out.records = {}
  BY <1>1 DEF Run
<1>3. on \in Run /\ on.row = r.row /\ on.records = {} /\ (r.left # 1 => on.left > 0)
  <2>1. r.page + 1 \in Nat /\ r.left - 1 \in Nat /\ (r.left # 1 => r.left - 1 > 0)
    BY <1>1 DEF Run
  <2> DEFINE p == r.page + 1
             q == r.left - 1
  <2>2. p \in Nat /\ q \in Nat /\ (r.left # 1 => q > 0)
    BY <2>1
  <2>3. on = [r EXCEPT !.page = p, !.left = q, !.records = {}]
    OBVIOUS
  <2> HIDE DEF p, q, on
  <2>4. on \in Run /\ on.row = r.row /\ on.records = {} /\ on.left = q
    BY <1>1, <2>2, <2>3 DEF Run
  <2> QED BY <2>2, <2>4
<1>4. "counting" \in Pc /\ "inflight" \in Pc
  BY DEF Pc, Checking
<1>5. \/ pc' = [pc EXCEPT ![o] = "counting"] /\ run' = [run EXCEPT ![o] = out]
      \/ /\ r.left # 1
         /\ pc' = [pc EXCEPT ![o] = "inflight"] /\ run' = [run EXCEPT ![o] = on]
      \/ pc' = [pc EXCEPT ![o] = "counting"] /\ run' = [run EXCEPT ![o] = on]
  <2>1. CASE last
    BY <2>1 DEF Turn, Goto
  <2>2. CASE ~last
    <3>1. run' = [run EXCEPT ![o] = on]
      BY <2>2 DEF Turn
    <3>2. pc' = [pc EXCEPT ![o] = IF r.left = 1 THEN "counting" ELSE "inflight"]
      BY <2>2 DEF Turn, Goto
    <3> HIDE DEF on
    <3> QED BY <3>1, <3>2
  <2> QED BY <2>1, <2>2
<1> HIDE DEF out, on
<1>6. Sound("counting", out) /\ Sound("counting", on)
  BY <1>1, <1>2, <1>3, FS_EmptySet DEF Sound, Paging
<1>7. r.left # 1 => Sound("inflight", on)
  BY <1>1, <1>3, FS_EmptySet DEF Sound, Paging
<1> QED BY <1>2, <1>3, <1>4, <1>5, <1>6, <1>7 DEF Moves

(* A step that changes the label only.                                     *)
LEMMA GotoMoves ==
    ASSUME Sessions, AllSound, NEW o \in Owner, NEW l \in Pc, Goto(o, l),
           run' = run, l \in Busy => pc[o] \in Busy,
           l \in Paging => pc[o] \in Paging
    PROVE  Moves(o)
<1>1. run[o] \in Run /\ run' = [run EXCEPT ![o] = run[o]]
  BY DEF Sessions
<1>2. Sound(l, run[o])
  BY DEF AllSound, Sound
<1> QED BY <1>1, <1>2 DEF Moves, Goto
LEMMA StayMoves ==
    ASSUME Sessions, AllSound, NEW o \in Owner, UNCHANGED <<pc, run>>
    PROVE  Moves(o)
<1>1. pc[o] \in Pc /\ run[o] \in Run
  BY DEF Sessions
<1>2. pc' = [pc EXCEPT ![o] = pc[o]] /\ run' = [run EXCEPT ![o] = run[o]]
  BY DEF Sessions
<1> QED BY <1>1, <1>2 DEF AllSound, Moves

(* A call that keeps its row only.                                         *)
LEMMA RowOnlyTyped ==
    ASSUME NEW w \in Row \cup {NoRow}, NEW d \in Nat \cup {-1}
    PROVE  LET n == [NoRun EXCEPT !.row = w, !.deepest = d]
               m == [NoRun EXCEPT !.row = w]
           IN  /\ n \in Run /\ n.row = w /\ n.records = {}
               /\ m \in Run /\ m.row = w /\ m.records = {}
BY DEF NoRun, Run

LEMMA PassMoves ==
    ASSUME Upstream, Tables, Sessions, AllSound, NEW o \in Owner,
           \/ Start(o) \/ ListDue(o) \/ Pick(o) \/ Resolve(o)
           \/ RecordWorkspace(o) \/ Answer(o)
    PROVE  Moves(o)
<1>0. run[o] \in Run /\ Sound(pc[o], run[o])
  BY DEF Sessions, AllSound
<1>1. CASE Start(o)
  BY <1>1, GotoMoves DEF Start, Pc, Busy, Paging, Writing, Checking
<1>2. CASE ListDue(o)
  BY <1>2, GotoMoves DEF ListDue, Pc, Busy, Paging, Writing, Checking
<1>3. CASE Pick(o)
  <2>1. PICK a \in due[o] : IF Enabled(a) THEN Call(o, a, "sync", MaxPages)
                                         ELSE UNCHANGED <<pc, run>>
    BY <1>3 DEF Pick
  <2>2. a \in Account /\ MaxPages \in Nat \ {0}
    BY SyncAssumption DEF Sessions
  <2> QED BY <2>1, <2>2, CallMoves, StayMoves DEF Enabled
<1>4. CASE Resolve(o)
  <2>1. Sound("resolving", run[o]) /\ run[o].row \in Row
    BY <1>0, <1>4 DEF Resolve, Sound, Busy, Checking
  <2>2. \/ EndCall(o) \/ EnterPages(o, run[o])
        \/ Goto(o, "recording") /\ run' = run
    BY <1>4 DEF Resolve
  <2>3. "recording" \in Pc /\ pc[o] \in Busy \cap Paging
    BY <1>4 DEF Resolve, Pc, Busy, Paging, Writing, Checking
  <2> QED BY <1>0, <2>1, <2>2, <2>3, EndCallMoves, EnterPagesMoves, GotoMoves
<1>5. CASE RecordWorkspace(o)
  <2>1. Sound("resolving", run[o]) /\ run[o].row \in Row
    BY <1>0, <1>5 DEF RecordWorkspace, Sound, Busy, Paging, Writing, Checking
  <2> QED BY <1>0, <1>5, <2>1, EnterPagesMoves DEF RecordWorkspace
<1>6. CASE Answer(o)
  <2> DEFINE row == run[o].row
             records == Page(row.space, run[o].page)
             empty == [run[o] EXCEPT !.left = 0]
             full == [run[o] EXCEPT !.records = records, !.some = TRUE]
  <2>1. row \in Row /\ RowFits(row) /\ run[o].left > 0
    BY <1>0, <1>6 DEF Answer, Sound, Busy, Paging, Checking
  <2>2. row.space \in Space /\ run[o].page \in Nat
    BY <1>0, <2>1 DEF Row, Run
  <2>3. /\ records \in SUBSET Record /\ IsFiniteSet(records)
        /\ \A r \in records : r[1] = row.space
    BY <2>2, PageTyped
  <2>4. \/ EndCall(o)
        \/ pc' = [pc EXCEPT ![o] = "counting"] /\ run' = [run EXCEPT ![o] = empty]
        \/ pc' = [pc EXCEPT ![o] = "checked"] /\ run' = [run EXCEPT ![o] = full]
    BY <1>6 DEF Answer, Goto
  <2> HIDE DEF records
  <2>5. /\ empty \in Run /\ empty.row = row /\ empty.records = run[o].records
        /\ full \in Run /\ full.row = row /\ full.records = records
        /\ full.left = run[o].left
    BY <1>0, <2>3 DEF Run
  <2> HIDE DEF empty, full
  <2>6. Sound("counting", empty)
    BY <1>0, <2>1, <2>5 DEF Sound, Paging
  <2>7. Sound("checked", full)
    BY <2>1, <2>3, <2>5 DEF Sound
  <2>8. "counting" \in Pc /\ "checked" \in Pc
    BY DEF Pc, Writing
  <2> QED BY <2>4, <2>5, <2>6, <2>7, <2>8, EndCallMoves DEF Moves
<1> QED BY <1>1, <1>2, <1>3, <1>4, <1>5, <1>6
LEMMA WriteMoves ==
    ASSUME Tables, Sessions, AllSound, NEW o \in Owner,
           \/ InsertNewest(o) \/ InsertEarlier(o) \/ MarkPage(o)
           \/ CountFirst(o) \/ ReadState(o) \/ WriteOk(o) \/ CountAgain(o)
    PROVE  Moves(o)
<1>0. run[o] \in Run /\ Sound(pc[o], run[o])
  BY DEF Sessions, AllSound
<1>1. CASE InsertNewest(o)
  <2>1. Turn(o, ReachesKnown(o)) /\ pc[o] = "checked"
    BY <1>1 DEF InsertNewest, Store
  <2>2. ReachesKnown(o) \in BOOLEAN
    BY DEF ReachesKnown, Short
  <2> QED BY <2>1, <2>2, TurnMoves
<1>2. CASE InsertEarlier(o)
  BY <1>2, GotoMoves
     DEF InsertEarlier, Store, Pc, Busy, Paging, Writing, Checking
<1>3. CASE MarkPage(o)
  <2>1. Turn(o, Short(o)) /\ pc[o] = "marking"
    BY <1>3 DEF MarkPage
  <2>2. Short(o) \in BOOLEAN
    BY DEF Short
  <2> QED BY <2>1, <2>2, TurnMoves
<1>4. CASE CountFirst(o)
  <2> DEFINE m == [run[o] EXCEPT !.before = {}]
             n == [run[o] EXCEPT !.page = 0, !.some = FALSE]
  <2>1. \/ pc' = [pc EXCEPT ![o] = "reading"] /\ run' = [run EXCEPT ![o] = m]
        \/ pc' = [pc EXCEPT ![o] = "writing"] /\ run' = [run EXCEPT ![o] = n]
    BY <1>4 DEF CountFirst, Goto
  <2>2. /\ m \in Run /\ m.row = run[o].row /\ m.records = run[o].records
        /\ n \in Run /\ n.row = run[o].row /\ n.records = run[o].records
    BY <1>0 DEF Run
  <2> HIDE DEF m, n
  <2>3. run[o].row \in Row
    BY <1>0, <1>4 DEF CountFirst, Sound, Busy, Writing
  <2>4. Sound("reading", m) /\ Sound("writing", n)
    BY <1>0, <2>2, <2>3 DEF Sound, Paging
  <2>5. "reading" \in Pc /\ "writing" \in Pc
    BY DEF Pc, Writing, Checking
  <2> QED BY <2>1, <2>2, <2>4, <2>5 DEF Moves
<1>5. CASE ReadState(o)
  <2> DEFINE d == Watermark(run[o], sync[run[o].row.id].deepest)
             n == [NoRun EXCEPT !.row = run[o].row, !.deepest = d]
  <2>1. run[o].row \in Row /\ RowFits(run[o].row)
    BY <1>0, <1>5 DEF ReadState, Sound, Busy, Checking
  <2>2. sync[run[o].row.id].deepest \in Nat \cup {-1}
    BY <2>1 DEF Row, Tables, Syncs
  <2>3. d \in Nat \cup {-1}
    BY <1>0, <2>2 DEF Watermark, Run
  <2>4. pc' = [pc EXCEPT ![o] = "writing"] /\ run' = [run EXCEPT ![o] = n]
    BY <1>5 DEF ReadState, Goto
  <2> HIDE DEF d
  <2>5. n \in Run /\ n.row = run[o].row /\ n.records = {}
    BY <2>1, <2>3, RowOnlyTyped
  <2> HIDE DEF n
  <2>6. Sound("writing", n) /\ "writing" \in Pc
    BY <2>1, <2>5, FS_EmptySet DEF Sound, Paging, Pc, Writing
  <2> QED BY <2>4, <2>5, <2>6 DEF Moves
<1>6. CASE WriteOk(o)
  <2> DEFINE n == [run[o] EXCEPT !.deepest = -1]
  <2>1. \/ EndCall(o)
        \/ pc' = [pc EXCEPT ![o] = "recounting"] /\ run' = [run EXCEPT ![o] = n]
    BY <1>6 DEF WriteOk, Goto
  <2>2. n \in Run /\ n.row = run[o].row /\ n.records = run[o].records
    BY <1>0 DEF Run
  <2> HIDE DEF n
  <2>3. Sound("recounting", n) /\ "recounting" \in Pc
    BY <1>0, <1>6, <2>2 DEF WriteOk, Sound, Busy, Paging, Pc, Writing
  <2> QED BY <2>1, <2>2, <2>3, EndCallMoves DEF Moves
<1>7. CASE CountAgain(o)
  BY <1>7, EndCallMoves DEF CountAgain
<1> QED BY <1>1, <1>2, <1>3, <1>4, <1>5, <1>6, <1>7

LEMMA EndMoves ==
    ASSUME Sessions, AllSound, NEW o \in Owner,
           \/ NoteFailure(o) \/ Reject(o) \/ Interrupt(o) \/ Fail(o)
           \/ Cancel(o) \/ Done(o) \/ Release(o)
    PROVE  Moves(o)
<1>0. run[o] \in Run /\ Sound(pc[o], run[o])
  BY DEF Sessions, AllSound
<1>1. CASE NoteFailure(o) \/ Reject(o) \/ Interrupt(o) \/ Cancel(o) \/ Done(o)
  <2>1. EndCall(o) \/ Stop(o)
    BY <1>1 DEF NoteFailure, Reject, Interrupt, Cancel, Done
  <2> QED BY <2>1, EndCallMoves, StopMoves
<1>2. CASE Release(o)
  BY <1>2, GotoMoves DEF Release, Pc, Busy, Paging, Writing, Checking
<1>3. CASE Fail(o)
  <2> DEFINE n == [NoRun EXCEPT !.row = run[o].row]
  <2>1. CASE EndCall(o)
    BY <2>1, EndCallMoves
  <2>2. CASE /\ pc[o] \in Busy
             /\ Goto(o, "failing") /\ run' = [run EXCEPT ![o] = n]
    <3>1. run[o].row \in Row /\ RowFits(run[o].row)
      BY <1>0, <2>2 DEF Sound
    <3>2. n \in Run /\ n.row = run[o].row /\ n.records = {}
      BY <3>1, RowOnlyTyped
    <3> HIDE DEF n
    <3>3. Sound("failing", n) /\ "failing" \in Pc
      BY <3>1, <3>2, FS_EmptySet DEF Sound, Paging, Pc, Writing
    <3> QED BY <2>2, <3>2, <3>3 DEF Moves, Goto
  <2> QED BY <1>3, <2>1, <2>2 DEF Fail, Busy, Writing, Checking
<1> QED BY <1>1, <1>2, <1>3

LEMMA RequestMoves ==
    ASSUME Tables, Sessions, AllSound, NEW o \in Owner, NEW a \in Account,
           Ask(o, a) \/ Test(o, a)
    PROVE  Moves(o)
<1>1. CASE Ask(o, a)
  <2>1. "releasing" \in Pc \ (Busy \cup Paging)
    BY DEF Pc, Busy, Paging, Writing, Checking
  <2>2. MaxPages \in Nat \ {0} /\ 1..MaxBackfill \subseteq Nat \ {0}
    BY SyncAssumption
  <2>3. CASE Goto(o, "releasing") /\ UNCHANGED run
    BY <2>1, <2>3, GotoMoves
  <2>4. CASE Call(o, a, "sync", MaxPages)
    BY <1>1, <2>2, <2>4, CallMoves DEF Ask
  <2>5. CASE \E pages \in 1..MaxBackfill : Call(o, a, "backfill", pages)
    BY <1>1, <2>2, <2>5, CallMoves DEF Ask
  <2> QED BY <1>1, <2>3, <2>4, <2>5 DEF Ask
<1>2. CASE Test(o, a)
  <2> DEFINE n == [NoRun EXCEPT !.row = RowOf(a)]
  <2>1. RowOf(a) \in Row /\ RowFits(RowOf(a))
    BY <1>2, RowTyped DEF Test
  <2>2. n \in Run /\ n.row = RowOf(a) /\ n.records = {}
    BY <2>1, RowOnlyTyped
  <2>3. run' = [run EXCEPT ![o] = n] /\ pc' = [pc EXCEPT ![o] = "testing"]
    BY <1>2 DEF Test, Goto
  <2> HIDE DEF n
  <2>4. Sound("testing", n) /\ "testing" \in Pc
    BY <2>1, <2>2, FS_EmptySet DEF Sound, Paging, Pc
  <2> QED BY <2>2, <2>3, <2>4 DEF Moves
<1> QED BY <1>1, <1>2

LEMMA TestMoves ==
    ASSUME NEW o \in Owner, TestAnswer(o) PROVE Moves(o)
<1>1. "idle" \in Pc \ Busy
  BY DEF Pc, Busy, Writing, Checking
<1> QED BY <1>1, IdleSound, NoRunTyped DEF TestAnswer, Goto, Moves
-------------------------------------------------------------------------------
(* The account's row only moves forward: a revision is never used for two  *)
(* workspaces, and an account never becomes new again.                     *)
Forward ==
    /\ acct' \in Accounts
    /\ \A a \in Account :
          /\ acct[a].state # "new" => acct'[a].state # "new"
          /\ acct[a].rev <= acct'[a].rev
          /\ acct'[a].rev = acct[a].rev => acct'[a].space = acct[a].space

LEMMA RowFitsLater ==
    ASSUME Tables, Forward, NEW w \in Row, RowFits(w) PROVE RowFits(w)'
<1>1. w.id \in Account /\ w.rev \in Nat
  BY SyncAssumption DEF Row
<1>2. acct[w.id].rev \in Nat /\ acct'[w.id].rev \in Nat
  BY <1>1, SyncAssumption DEF Tables, Forward, Accounts
<1>3. /\ acct[w.id].state # "new" => acct'[w.id].state # "new"
      /\ acct[w.id].rev <= acct'[w.id].rev
      /\ acct'[w.id].rev = acct[w.id].rev => acct'[w.id].space = acct[w.id].space
  BY <1>1 DEF Forward
<1> QED BY <1>1, <1>2, <1>3 DEF RowFits

LEMMA SoundLater ==
    ASSUME Tables, Forward, NEW l, NEW n, Sound(l, n) PROVE Sound(l, n)'
BY RowFitsLater DEF Sound

(* A step of one session keeps the others sound.                           *)
LEMMA MovesSound ==
    ASSUME Tables, Sessions, AllSound, Forward, NEW o \in Owner, Moves(o)
    PROVE  pc' \in [Owner -> Pc] /\ run' \in [Owner -> Run] /\ AllSound'
<1>1. PICK l \in Pc, n \in Run :
        /\ pc' = [pc EXCEPT ![o] = l] /\ run' = [run EXCEPT ![o] = n]
        /\ Sound(l, n)
  BY DEF Moves
<1>2. pc' \in [Owner -> Pc] /\ run' \in [Owner -> Run]
  BY <1>1 DEF Sessions
<1>3. ASSUME NEW q \in Owner PROVE Sound(pc[q], run[q])'
  <2>1. CASE q = o
    <3>1. pc'[q] = l /\ run'[q] = n
      BY <1>1, <2>1 DEF Sessions
    <3>2. Sound(l, n)'
      BY <1>1, SoundLater
    <3> QED BY <3>1, <3>2
  <2>2. CASE q # o
    <3>1. pc'[q] = pc[q] /\ run'[q] = run[q]
      BY <1>1, <2>2 DEF Sessions
    <3> DEFINE k == pc[q]
               m == run[q]
    <3>2. Sound(k, m)
      BY DEF AllSound
    <3>3. pc'[q] = k /\ run'[q] = m
      BY <3>1
    <3> HIDE DEF k, m
    <3>4. PICK k0, m0 : k0 = k /\ m0 = m
      OBVIOUS
    <3>5. Sound(k0, m0)
      BY <3>2, <3>4
    <3>6. Sound(k0, m0)'
      BY <3>5, SoundLater
    <3> QED BY <3>3, <3>4, <3>6
  <2> QED BY <2>1, <2>2
<1> QED BY <1>2, <1>3 DEF AllSound
-------------------------------------------------------------------------------
IInv == TypeOK /\ AllSound /\ StoredFinite

(* What a step leaves in everything but the sessions.                      *)
Kept ==
    /\ LeaseTypeOK' /\ Upstream' /\ Tables' /\ StoredFinite' /\ Forward
    /\ due' \in [Owner -> SUBSET Account]

LEMMA RowsStay == ASSUME Tables, acct' = acct PROVE Forward
<1>1. \A a \in Account : acct[a].rev \in Nat
  BY SyncAssumption DEF Tables, Accounts
<1> QED BY <1>1 DEF Tables, Forward

(* Every guarded write has a row of an account.                            *)
LEMMA WriterHasRow ==
    ASSUME Sessions, AllSound, NEW o \in Owner, pc[o] \in Busy
    PROVE  /\ run[o] \in Run /\ run[o].row \in Row /\ run[o].row.id \in Account
           /\ run[o].row.space \in Space /\ RowFits(run[o].row)
BY DEF Sessions, AllSound, Sound, Row

LEMMA WorkspaceTyped ==
    ASSUME IInv, NEW o \in Owner, pc[o] \in Busy,
           acct' = [acct EXCEPT ![run[o].row.id].resolved = run[o].row.space]
    PROVE  Forward
<1>1. run[o].row.id \in Account /\ run[o].row.space \in Space
  BY WriterHasRow, TypeParts DEF IInv
<1>2. acct \in Accounts
  BY TypeParts DEF IInv, Tables
<1>3. acct' \in Accounts
  BY <1>1, <1>2 DEF Accounts
<1>4. \A a \in Account : acct[a].rev \in Nat
  BY <1>2, SyncAssumption DEF Accounts
<1>5. \A a \in Account : /\ acct'[a].state = acct[a].state
                         /\ acct'[a].rev = acct[a].rev
                         /\ acct'[a].space = acct[a].space
  BY <1>1, <1>2 DEF Accounts
<1>6. \A a \in Account : acct[a].rev <= acct'[a].rev
  <2>1. \A n \in Nat : n <= n
    OBVIOUS
  <2> QED BY <1>4, <1>5, <2>1, Zenon
<1> QED BY <1>3, <1>5, <1>6, Zenon DEF Forward

LEMMA PassKeeps ==
    ASSUME IInv, NEW o \in Owner,
           \/ Start(o) \/ ListDue(o) \/ Pick(o) \/ Resolve(o)
           \/ RecordWorkspace(o) \/ Answer(o)
    PROVE  Kept
<1>0. LeaseTypeOK /\ Upstream /\ Tables /\ Sessions /\ AllSound /\ StoredFinite
  BY TypeParts DEF IInv
<1>f. acct' = acct => Forward
  BY <1>0, RowsStay
<1>1. CASE Start(o)
  BY <1>0, <1>f, <1>1 DEF Start, Grant, Kept, LeaseTypeOK, Upstream, Tables,
                         Sessions, StoredFinite
<1>2. CASE ListDue(o)
  BY <1>0, <1>f, <1>2 DEF ListDue, Kept, leaseVars, LeaseTypeOK, Upstream, Tables,
                         Sessions, StoredFinite
<1>3. CASE Pick(o)
  BY <1>0, <1>f, <1>3 DEF Pick, Kept, leaseVars, LeaseTypeOK, Upstream, Tables,
                         Sessions, StoredFinite
<1>4. CASE Resolve(o)
  BY <1>0, <1>f, <1>4 DEF Resolve, Kept, leaseVars, LeaseTypeOK, Upstream, Tables,
                         Sessions, StoredFinite
<1>5. CASE RecordWorkspace(o)
  <2>1. Forward
    BY <1>5, WorkspaceTyped DEF RecordWorkspace, Busy, Writing
  <2> QED BY <1>0, <1>5, <2>1
          DEF RecordWorkspace, Commit, Kept, LeaseTypeOK, Upstream, Tables, Sessions,
              StoredFinite, Forward
<1>6. CASE Answer(o)
  <2>1. run[o].row.id \in Account
    BY <1>0, <1>6, WriterHasRow DEF Answer, Busy, Checking
  <2>2. walk' \in [Account -> {"whole", "paging", "torn"}]
    <3>1. \/ walk' = [walk EXCEPT ![run[o].row.id] = "whole"] \/ walk' = walk
      BY <1>0, <1>6, <2>1 DEF Answer, Tables
    <3> QED BY <1>0, <3>1 DEF Tables
  <2> QED BY <1>0, <1>f, <1>6, <2>2
          DEF Answer, Kept, leaseVars, LeaseTypeOK, Upstream, Tables, Sessions,
              StoredFinite
<1> QED BY <1>1, <1>2, <1>3, <1>4, <1>5, <1>6

LEMMA StoreKeeps ==
    ASSUME IInv, NEW o \in Owner, Store(o)
    PROVE  /\ stored' \in [Account -> SUBSET Record] /\ StoredFinite'
           /\ LeaseTypeOK'
<1>0. LeaseTypeOK /\ Tables /\ Sessions /\ AllSound /\ StoredFinite
  BY TypeParts DEF IInv
<1> DEFINE a == run[o].row.id
           new == stored[a] \cup (run[o].records \ Known)
<1>1. a \in Account /\ run[o] \in Run
  BY <1>0, WriterHasRow DEF Store, Busy, Writing
<1>2. run[o].records \in SUBSET Record /\ IsFiniteSet(run[o].records)
  BY <1>0, <1>1 DEF Run, AllSound, Sound
<1>3. IsFiniteSet(stored[a]) /\ stored[a] \in SUBSET Record
  BY <1>0, <1>1 DEF StoredFinite, Tables
<1>4. new \in SUBSET Record /\ IsFiniteSet(new)
  BY <1>2, <1>3, RecordsFinite
<1>5. stored' = [stored EXCEPT ![a] = new]
  BY DEF Store
<1> HIDE DEF a, new
<1>6. stored' \in [Account -> SUBSET Record] /\ StoredFinite'
  BY <1>0, <1>1, <1>4, <1>5 DEF Tables, StoredFinite
<1> QED BY <1>0, <1>6 DEF Store, Commit, LeaseTypeOK
(* The watermark and the totals.                                           *)
LEMMA CountKeeps ==
    ASSUME IInv, NEW o \in Owner, pc[o] \in Busy, Count(o)
    PROVE  sync' \in Syncs /\ LeaseTypeOK'
<1>0. LeaseTypeOK /\ Tables /\ Sessions /\ AllSound /\ StoredFinite
  BY TypeParts DEF IInv
<1> DEFINE a == run[o].row.id
           k == Cardinality(stored[a])
<1>1. a \in Account
  BY <1>0, WriterHasRow
<1>2. k \in Nat
  BY <1>0, <1>1, FS_CardinalityType DEF StoredFinite
<1>3. sync' = [sync EXCEPT ![a].total = k]
  BY DEF Count
<1> HIDE DEF a, k
<1> QED BY <1>0, <1>1, <1>2, <1>3, ZenonT(60) DEF Tables, Syncs, Count, Commit, LeaseTypeOK

LEMMA WriteKeeps ==
    ASSUME IInv, NEW o \in Owner,
           \/ InsertNewest(o) \/ InsertEarlier(o) \/ MarkPage(o)
           \/ CountFirst(o) \/ ReadState(o) \/ WriteOk(o) \/ CountAgain(o)
    PROVE  Kept
<1>0. LeaseTypeOK /\ Upstream /\ Tables /\ Sessions /\ AllSound /\ StoredFinite
  BY TypeParts DEF IInv
<1>f. acct' = acct => Forward
  BY <1>0, RowsStay
<1>b. pc[o] \in Busy
  BY DEF InsertNewest, InsertEarlier, Store, MarkPage, CountFirst, ReadState,
         WriteOk, CountAgain, Busy, Writing, Checking
<1>r. run[o] \in Run /\ run[o].row \in Row /\ run[o].row.id \in Account
  BY <1>0, <1>b, WriterHasRow
<1>1. CASE InsertNewest(o) \/ InsertEarlier(o)
  <2>1. Store(o)
    BY <1>1 DEF InsertNewest, InsertEarlier
  <2>2. walk' \in [Account -> {"whole", "paging", "torn"}]
    <3>1. CASE InsertNewest(o)
      <4>1. Walked(o) \in {"whole", "paging", "torn"}
        BY DEF Walked
      <4> QED BY <1>0, <3>1, <4>1 DEF InsertNewest, Tables
    <3>2. CASE InsertEarlier(o)
      <4>1. walk' = [walk EXCEPT ![run[o].row.id] = "torn"] \/ walk' = walk
        BY <1>0, <1>r, <3>2 DEF InsertEarlier, Tables
      <4> QED BY <1>0, <4>1 DEF Tables
    <3> QED BY <1>1, <3>1, <3>2
  <2>3. UNCHANGED <<made, acct, sync, due>>
    BY <1>1 DEF InsertNewest, InsertEarlier
  <2> QED BY <1>0, <1>f, <2>1, <2>2, <2>3, StoreKeeps
          DEF Kept, Upstream, Tables, Sessions
<1>2. CASE MarkPage(o)
  <2>1. run[o].page \in Nat
    BY <1>r DEF Run
  <2>2. sync' \in Syncs /\ LeaseTypeOK'
    BY <1>0, <1>2, <2>1 DEF MarkPage, Tables, Syncs, Commit, LeaseTypeOK
  <2> QED BY <1>0, <1>f, <1>2, <2>2
          DEF MarkPage, Kept, Upstream, Tables, Sessions, StoredFinite
<1>3. CASE CountFirst(o) \/ CountAgain(o)
  <2>1. Count(o) /\ UNCHANGED <<made, acct, stored, due, walk>>
    BY <1>3 DEF CountFirst, CountAgain, Count
  <2>2. sync' \in Syncs /\ LeaseTypeOK'
    BY <1>b, <2>1, CountKeeps
  <2> QED BY <1>0, <1>f, <2>1, <2>2
          DEF Kept, Upstream, Tables, Sessions, StoredFinite
<1>4. CASE ReadState(o)
  BY <1>0, <1>f, <1>4 DEF ReadState, Kept, leaseVars, LeaseTypeOK, Upstream,
                         Tables, Sessions, StoredFinite
<1>5. CASE WriteOk(o)
  <2> DEFINE a == run[o].row.id
             d == run[o].deepest
  <2>1. d \in Nat \cup {-1}
    BY <1>r DEF Run
  <2>2. \/ sync' = [sync EXCEPT ![a] = [@ EXCEPT !.synced = TRUE, !.deepest = d]]
        \/ sync' = [sync EXCEPT ![a] = [@ EXCEPT !.synced = TRUE]]
    BY <1>5 DEF WriteOk
  <2> HIDE DEF a, d
  <2>3. sync' \in Syncs
    <3> DEFINE SyncRow == [synced : BOOLEAN, deepest : Nat \cup {-1}, total : Nat]
    <3>1. ASSUME NEW r \in SyncRow
          PROVE  /\ [r EXCEPT !.synced = TRUE, !.deepest = d] \in SyncRow
                 /\ [r EXCEPT !.synced = TRUE] \in SyncRow
      BY <2>1, Zenon
    <3>2. sync \in [Account -> SyncRow]
      BY <1>0 DEF Tables, Syncs
    <3> HIDE DEF SyncRow
    <3>3. sync' \in [Account -> SyncRow]
      BY <2>2, <3>1, <3>2
    <3> QED BY <3>3 DEF SyncRow, Syncs
  <2>4. LeaseTypeOK'
    BY <1>0, <1>5 DEF WriteOk, Commit, LeaseTypeOK
  <2> QED BY <1>0, <1>f, <1>5, <2>3, <2>4
          DEF WriteOk, Kept, Upstream, Tables, Sessions, StoredFinite
<1> QED BY <1>1, <1>2, <1>3, <1>4, <1>5

LEMMA EndKeeps ==
    ASSUME IInv, NEW o \in Owner,
           \/ NoteFailure(o) \/ Reject(o) \/ Interrupt(o) \/ Fail(o)
           \/ Cancel(o) \/ Done(o) \/ Release(o)
    PROVE  Kept
<1>0. LeaseTypeOK /\ Upstream /\ Tables /\ Sessions /\ AllSound /\ StoredFinite
  BY TypeParts DEF IInv
<1>f. acct' = acct => Forward
  BY <1>0, RowsStay
<1>1. CASE NoteFailure(o)
  <2>1. sync' \in Syncs /\ LeaseTypeOK'
    BY <1>0, <1>1 DEF NoteFailure, Tables, Syncs, Commit, LeaseTypeOK
  <2> QED BY <1>0, <1>f, <1>1, <2>1
          DEF NoteFailure, Kept, Upstream, Tables, Sessions, StoredFinite
<1>2. CASE Reject(o) \/ Interrupt(o) \/ Fail(o) \/ Cancel(o) \/ Done(o)
  <2>1. due' \in [Owner -> SUBSET Account]
    BY <1>0, <1>2 DEF Reject, Interrupt, Fail, Cancel, Done, Stop, Sessions
  <2> QED BY <1>0, <1>f, <1>2, <2>1
          DEF Reject, Interrupt, Fail, Cancel, Done, Kept, leaseVars, LeaseTypeOK,
              Upstream, Tables, StoredFinite
<1>3. CASE Release(o)
  <2>1. LeaseTypeOK'
    BY <1>0, <1>3 DEF Release, Leave, LeaseTypeOK
  <2> QED BY <1>0, <1>f, <1>3, <2>1
          DEF Release, Kept, Upstream, Tables, Sessions, StoredFinite
<1> QED BY <1>1, <1>2, <1>3

LEMMA RequestKeeps ==
    ASSUME IInv, NEW o \in Owner, NEW a \in Account,
           Ask(o, a) \/ Test(o, a) \/ TestAnswer(o)
    PROVE  Kept
<1>0. LeaseTypeOK /\ Upstream /\ Tables /\ Sessions /\ AllSound /\ StoredFinite
  BY TypeParts DEF IInv
<1>f. acct' = acct => Forward
  BY <1>0, RowsStay
<1>1. CASE Ask(o, a)
  BY <1>0, <1>f, <1>1 DEF Ask, Grant, Kept, LeaseTypeOK, Upstream, Tables,
                         Sessions, StoredFinite
<1>2. CASE Test(o, a)
  BY <1>0, <1>f, <1>2 DEF Test, Kept, leaseVars, LeaseTypeOK, Upstream, Tables,
                         Sessions, StoredFinite
<1>3. CASE TestAnswer(o)
  <2>1. Forward
    BY <1>3, <1>f, WorkspaceTyped DEF TestAnswer, Busy
  <2> QED BY <1>0, <1>3, <2>1
          DEF TestAnswer, Kept, leaseVars, LeaseTypeOK, Upstream, Tables, Sessions,
              StoredFinite, Forward
<1> QED BY <1>1, <1>2, <1>3
(* Upstream, the administrator and the passing of a lease leave the        *)
(* sessions alone.                                                         *)
LEMMA OutsideKeeps ==
    ASSUME IInv,
           \/ \E s \in Space : Arrive(s)
           \/ \E a \in Account : Create(a) \/ Update(a) \/ Delete(a)
           \/ Expire
    PROVE  Kept /\ UNCHANGED <<pc, run>>
<1>0. LeaseTypeOK /\ Upstream /\ Tables /\ Sessions /\ AllSound /\ StoredFinite
  BY TypeParts DEF IInv
<1>f. acct' = acct => Forward
  BY <1>0, RowsStay
<1>r. \A b \in Account : acct[b].rev \in Nat
  BY <1>0, SyncAssumption DEF Tables, Accounts
<1>e. EmptySync \in [synced : BOOLEAN, deepest : Nat \cup {-1}, total : Nat]
  BY DEF EmptySync
<1>1. ASSUME NEW s \in Space, Arrive(s) PROVE Kept /\ UNCHANGED <<pc, run>>
  <2>1. \A t \in Space : made[t] \in Nat /\ made[t] <= Most[t] /\ Most[t] \in Nat
    BY <1>0, SyncAssumption DEF Upstream
  <2>2. made[s] < Most[s] /\ made' = [made EXCEPT ![s] = made[s] + 1]
    BY <1>1 DEF Arrive
  <2>3. made' \in [Space -> Nat]
    BY <1>0, <2>1, <2>2 DEF Upstream
  <2>4. ASSUME NEW t \in Space PROVE made'[t] <= Most[t]
    <3>1. made'[t] = IF t = s THEN made[s] + 1 ELSE made[t]
      BY <1>0, <2>2 DEF Upstream
    <3> QED BY <2>1, <2>2, <3>1
  <2>5. Upstream'
    BY <2>3, <2>4 DEF Upstream
  <2> QED BY <1>0, <1>f, <1>1, <2>5
          DEF Arrive, Kept, leaseVars, sessionVars, LeaseTypeOK, Tables, Sessions,
              StoredFinite
<1>2. ASSUME NEW a \in Account, Create(a) PROVE Kept /\ UNCHANGED <<pc, run>>
  <2>1. PICK en \in BOOLEAN :
          acct' = [acct EXCEPT ![a] = [@ EXCEPT !.state = "live", !.enabled = en]]
    BY <1>2 DEF Create
  <2>2. Forward
    <3>1. acct' \in Accounts
      BY <1>0, <2>1, ZenonT(60) DEF Tables, Accounts
    <3>2. \A b \in Account : /\ acct'[b].state = "new" => acct[b].state = "new"
                             /\ acct'[b].rev = acct[b].rev
                             /\ acct'[b].space = acct[b].space
      BY <1>0, <2>1 DEF Tables, Accounts
    <3> QED BY <1>r, <3>1, <3>2 DEF Forward
  <2>3. sync' \in Syncs
    BY <1>0, <1>e, <1>2 DEF Create, Tables, Syncs
  <2> QED BY <1>0, <1>2, <2>2, <2>3
          DEF Create, Kept, leaseVars, sessionVars, LeaseTypeOK, Upstream, Tables,
              Sessions, StoredFinite, Forward
<1>3. ASSUME NEW a \in Account, Update(a) PROVE Kept /\ UNCHANGED <<pc, run>>
  <2>1. PICK s \in Space, en \in BOOLEAN, cookie \in BOOLEAN :
          LET moved == cookie \/ s # acct[a].space
          IN  /\ moved \/ en # acct[a].enabled
              /\ acct' = [acct EXCEPT ![a] =
                    [@ EXCEPT !.space = s, !.enabled = en, !.rev = acct[a].rev + 1,
                              !.resolved = IF moved THEN NoSpace
                                           ELSE acct[a].resolved]]
              /\ walk' = [walk EXCEPT ![a] = IF s = acct[a].space THEN @ ELSE "torn"]
    BY <1>3 DEF Update
  <2> DEFINE x == IF cookie \/ s # acct[a].space THEN NoSpace ELSE acct[a].resolved
             v == acct[a].rev + 1
  <2>2. x \in Space \cup {NoSpace}
    BY <1>0 DEF Tables, Accounts
  <2>3. v \in 0..MaxRev /\ v > acct[a].rev
    <3>1. acct[a].rev < MaxRev
      BY <1>3 DEF Update
    <3>2. acct[a].rev \in Nat /\ MaxRev \in Nat
      BY <1>r, SyncAssumption
    <3> QED BY <3>1, <3>2
  <2>4. acct' = [acct EXCEPT ![a] =
                    [@ EXCEPT !.space = s, !.enabled = en, !.rev = v, !.resolved = x]]
    BY <2>1
  <2> HIDE DEF x, v
  <2>5. acct' \in Accounts
    <3> DEFINE AcctRow == [state : {"new", "live", "deleted"}, enabled : BOOLEAN,
                           space : Space, rev : 0..MaxRev,
                           resolved : Space \cup {NoSpace}]
    <3>1. ASSUME NEW r \in AcctRow
          PROVE  [r EXCEPT !.space = s, !.enabled = en, !.rev = v, !.resolved = x] \in AcctRow
      BY <2>2, <2>3, Zenon
    <3>2. acct \in [Account -> AcctRow]
      BY <1>0 DEF Tables, Accounts
    <3> HIDE DEF AcctRow
    <3>3. acct' \in [Account -> AcctRow]
      BY <2>4, <3>1, <3>2
    <3> QED BY <3>3 DEF AcctRow, Accounts
  <2>6. acct'[a].state = acct[a].state /\ acct'[a].rev = v
    BY <1>0, <2>4 DEF Tables, Accounts
  <2>7. \A b \in Account : b # a => acct'[b] = acct[b]
    BY <1>0, <2>4 DEF Tables, Accounts
  <2>8. Forward
    BY <1>r, <2>3, <2>5, <2>6, <2>7 DEF Forward, Accounts
  <2>9. walk' \in [Account -> {"whole", "paging", "torn"}]
    BY <1>0, <2>1 DEF Tables
  <2> QED BY <1>0, <1>3, <2>8, <2>9
          DEF Update, Kept, leaseVars, sessionVars, LeaseTypeOK, Upstream, Tables,
              Sessions, StoredFinite, Forward
<1>4. ASSUME NEW a \in Account, Delete(a) PROVE Kept /\ UNCHANGED <<pc, run>>
  <2>1. Forward
    <3>1. acct' = [acct EXCEPT ![a] = [@ EXCEPT !.state = "deleted",
                                !.enabled = FALSE, !.resolved = NoSpace]]
      BY <1>4 DEF Delete
    <3>2. acct' \in Accounts
      BY <1>0, <3>1 DEF Tables, Accounts
    <3>3. \A b \in Account : /\ acct'[b].state = "new" => acct[b].state = "new"
                             /\ acct'[b].rev = acct[b].rev
                             /\ acct'[b].space = acct[b].space
      BY <1>0, <3>1 DEF Tables, Accounts
    <3> QED BY <1>r, <3>2, <3>3 DEF Forward
  <2>2. sync' \in Syncs
    BY <1>0, <1>e, <1>4 DEF Delete, Tables, Syncs
  <2>3. stored' \in [Account -> SUBSET Record] /\ StoredFinite'
    BY <1>0, <1>4, FS_EmptySet DEF Delete, Tables, StoredFinite
  <2> QED BY <1>0, <1>4, <2>1, <2>2, <2>3
          DEF Delete, Kept, leaseVars, sessionVars, LeaseTypeOK, Upstream, Tables,
              Sessions, Forward
<1>5. CASE Expire
  BY <1>0, <1>f, <1>5
     DEF Expire, Lapse, Kept, sessionVars, LeaseTypeOK, Upstream, Tables, Sessions,
         StoredFinite
<1> QED BY <1>1, <1>2, <1>3, <1>4, <1>5

LEMMA CrashKeeps ==
    ASSUME IInv, NEW h \in Process, Crash(h)
    PROVE  Kept /\ Sessions' /\ AllSound'
<1>0. LeaseTypeOK /\ Upstream /\ Tables /\ Sessions /\ AllSound /\ StoredFinite
  BY TypeParts DEF IInv
<1>f. acct' = acct => Forward
  BY <1>0, RowsStay
<1> DEFINE gone == {o \in Owner : Home[o] = h}
<1>1. /\ pc' = [o \in Owner |-> IF o \in gone THEN "dead" ELSE pc[o]]
      /\ run' = [o \in Owner |-> IF o \in gone THEN NoRun ELSE run[o]]
      /\ due' = [o \in Owner |-> IF o \in gone THEN {} ELSE due[o]]
      /\ inside' = inside \ gone /\ committed' = committed \ gone
      /\ UNCHANGED <<holder, made, acct, stored, sync, walk>>
  BY DEF Crash
<1> HIDE DEF gone
<1>2. "dead" \in Pc \ Busy
  BY DEF Pc, Busy, Writing, Checking
<1>3. Sessions'
  BY <1>0, <1>1, <1>2, NoRunTyped DEF Sessions
<1>4. Kept
  BY <1>0, <1>f, <1>1, <1>3
     DEF Kept, LeaseTypeOK, Upstream, Tables, Sessions, StoredFinite
<1>5. ASSUME NEW q \in Owner PROVE Sound(pc[q], run[q])'
  <2>1. CASE q \in gone
    <3>1. pc'[q] = "dead" /\ run'[q] = NoRun
      BY <1>1, <2>1
    <3>2. Sound("dead", NoRun)
      BY <1>2, IdleSound
    <3>3. Sound("dead", NoRun)'
      BY <1>0, <1>4, <3>2, SoundLater DEF Kept
    <3> QED BY <3>1, <3>3
  <2>2. CASE q \notin gone
    <3> DEFINE k == pc[q]
               m == run[q]
    <3>1. pc'[q] = k /\ run'[q] = m
      BY <1>1, <2>2
    <3>2. Sound(k, m)
      BY <1>0 DEF AllSound
    <3> HIDE DEF k, m
    <3>3. PICK k0, m0 : k0 = k /\ m0 = m
      OBVIOUS
    <3>4. Sound(k0, m0)
      BY <3>2, <3>3
    <3>5. Sound(k0, m0)'
      BY <1>0, <1>4, <3>4, SoundLater DEF Kept
    <3> QED BY <3>1, <3>3, <3>5
  <2> QED BY <2>1, <2>2
<1> QED BY <1>3, <1>4, <1>5 DEF AllSound

-------------------------------------------------------------------------------
LEMMA InitIInv == Init => IInv
<1> SUFFICES ASSUME Init PROVE IInv
  OBVIOUS
<1>1. LeaseTypeOK
  BY NoOwnerAssumption DEF Init, LeaseInit, LeaseTypeOK
<1>2. Upstream
  BY SyncAssumption DEF Init, Upstream
<1>3. Tables
  <2>1. acct \in [Account -> {[state |-> "new", enabled |-> FALSE, space |-> s,
                              rev |-> 0, resolved |-> NoSpace] : s \in Space}]
    BY DEF Init
  <2>2. 0 \in 0..MaxRev
    BY SyncAssumption
  <2>3. acct \in Accounts
    <3> DEFINE new == {[state |-> "new", enabled |-> FALSE, space |-> s,
                        rev |-> 0, resolved |-> NoSpace] : s \in Space}
               row == [state : {"new", "live", "deleted"}, enabled : BOOLEAN,
                       space : Space, rev : 0..MaxRev,
                       resolved : Space \cup {NoSpace}]
    <3>0. \A s \in Space : [state |-> "new", enabled |-> FALSE, space |-> s,
                            rev |-> 0, resolved |-> NoSpace] \in row
      BY <2>2
    <3>1. \A x \in new : x \in row
      BY <3>0, Zenon
    <3>2. acct \in [Account -> new]
      BY <2>1
    <3> HIDE DEF new, row
    <3>3. acct \in [Account -> row]
      BY <3>1, <3>2
    <3> QED BY <3>3 DEF Accounts, row
  <2>4. sync \in Syncs
    BY DEF Init, Syncs, EmptySync
  <2> QED BY <2>3, <2>4 DEF Init, Tables
<1>4. Sessions
  BY NoRunTyped DEF Init, Sessions, Pc
<1>5. AllSound
  <2>1. "idle" \in Pc \ Busy
    BY DEF Pc, Busy, Writing, Checking
  <2>2. \A o \in Owner : pc[o] = "idle" /\ run[o] = NoRun
    BY DEF Init
  <2> QED BY <2>1, <2>2, IdleSound DEF AllSound
<1>6. StoredFinite
  BY FS_EmptySet DEF Init, StoredFinite
<1> QED BY <1>1, <1>2, <1>3, <1>4, <1>5, <1>6, TypeParts DEF IInv

(* A step of a session moves it and keeps everything else.                 *)
LEMMA SessionStep ==
    ASSUME IInv, NEW o \in Owner,
           Session(o) \/ TestAnswer(o) \/ \E a \in Account : Ask(o, a) \/ Test(o, a)
    PROVE  Kept /\ Moves(o)
<1>0. Upstream /\ Tables /\ Sessions /\ AllSound
  BY TypeParts DEF IInv
<1>1. CASE \/ Start(o) \/ ListDue(o) \/ Pick(o) \/ Resolve(o)
           \/ RecordWorkspace(o) \/ Answer(o)
  BY <1>0, <1>1, PassKeeps, PassMoves
<1>2. CASE \/ InsertNewest(o) \/ InsertEarlier(o) \/ MarkPage(o)
           \/ CountFirst(o) \/ ReadState(o) \/ WriteOk(o) \/ CountAgain(o)
  BY <1>0, <1>2, WriteKeeps, WriteMoves
<1>3. CASE \/ NoteFailure(o) \/ Reject(o) \/ Interrupt(o) \/ Fail(o)
           \/ Cancel(o) \/ Done(o) \/ Release(o)
  BY <1>0, <1>3, EndKeeps, EndMoves
<1>4. CASE \E a \in Account : Ask(o, a) \/ Test(o, a)
  BY <1>0, <1>4, RequestKeeps, RequestMoves
<1>5. CASE TestAnswer(o)
  <2>1. run[o].row.id \in Account
    BY <1>0, <1>5, WriterHasRow DEF TestAnswer, Busy
  <2> QED BY <1>5, <2>1, RequestKeeps, TestMoves
<1> QED BY <1>1, <1>2, <1>3, <1>4, <1>5 DEF Session

LEMMA StepIInv == IInv /\ [Next]_vars => IInv'
<1> SUFFICES ASSUME IInv, [Next]_vars PROVE IInv'
  OBVIOUS
<1>0. Tables /\ Sessions /\ AllSound
  BY TypeParts DEF IInv
<1>a. ASSUME Kept, Sessions', AllSound' PROVE IInv'
  BY <1>a, TypeParts DEF IInv, Kept
<1>b. ASSUME Kept, UNCHANGED <<pc, run>> PROVE IInv'
  <2>1. Sessions'
    BY <1>0, <1>b DEF Kept, Sessions
  <2>2. ASSUME NEW q \in Owner PROVE Sound(pc[q], run[q])'
    <3> DEFINE k == pc[q]
               m == run[q]
    <3>1. pc'[q] = k /\ run'[q] = m
      BY <1>b
    <3>2. Sound(k, m)
      BY <1>0 DEF AllSound
    <3> HIDE DEF k, m
    <3>3. PICK k0, m0 : k0 = k /\ m0 = m
      OBVIOUS
    <3>4. Sound(k0, m0)
      BY <3>2, <3>3
    <3>5. Sound(k0, m0)'
      BY <1>0, <1>b, <3>4, SoundLater DEF Kept
    <3> QED BY <3>1, <3>3, <3>5
  <2> QED BY <1>a, <1>b, <2>1, <2>2 DEF AllSound
<1>1. CASE \/ \E s \in Space : Arrive(s)
           \/ \E a \in Account : Create(a) \/ Update(a) \/ Delete(a)
           \/ Expire
  BY <1>1, <1>b, OutsideKeeps
<1>2. ASSUME NEW o \in Owner,
             Session(o) \/ TestAnswer(o) \/ \E a \in Account : Ask(o, a) \/ Test(o, a)
      PROVE  IInv'
  <2>1. Kept /\ Moves(o)
    BY <1>2, SessionStep
  <2>2. pc' \in [Owner -> Pc] /\ run' \in [Owner -> Run] /\ AllSound'
    BY <1>0, <2>1, MovesSound DEF Kept
  <2>3. Sessions'
    BY <2>1, <2>2 DEF Kept, Sessions
  <2> QED BY <1>a, <2>1, <2>2, <2>3
<1>3. CASE \E h \in Process : Crash(h)
  BY <1>3, <1>a, CrashKeeps
<1>4. CASE UNCHANGED vars
  <2>1. Kept /\ UNCHANGED <<pc, run>>
    <3>1. LeaseTypeOK /\ Upstream /\ StoredFinite
      BY TypeParts DEF IInv
    <3>2. Forward
      BY <1>0, <1>4, RowsStay DEF vars
    <3> QED BY <1>0, <1>4, <3>1, <3>2
            DEF vars, leaseVars, sessionVars, Kept, LeaseTypeOK, Upstream, Tables,
                Sessions, StoredFinite
  <2> QED BY <1>b, <2>1
<1> QED BY <1>1, <1>2, <1>3, <1>4 DEF Next

LEMMA Inductive == Spec => []IInv
BY InitIInv, StepIInv, PTL DEF Spec

(* The rows, records, watermarks and sessions of usage synchronization     *)
(* stay in their types.                                                    *)
THEOREM TypeCorrect == Spec => []TypeOK
<1>1. IInv => TypeOK
  BY DEF IInv
<1> QED BY <1>1, Inductive, PTL
-------------------------------------------------------------------------------
(* Which steps change the rows, the records and the watermarks.            *)
LEMMA RowsChangedBy ==
    ASSUME [Next]_vars
    PROVE  \/ acct' = acct
           \/ \E a \in Account : Create(a) \/ Update(a) \/ Delete(a)
           \/ \E o \in Owner : RecordWorkspace(o) \/ TestAnswer(o)
<1>1. ASSUME NEW o \in Owner, Session(o)
      PROVE  acct' = acct \/ RecordWorkspace(o)
  BY <1>1
     DEF Session, Start, ListDue, Pick, Resolve, Answer, InsertNewest, InsertEarlier,
         MarkPage, CountFirst, Count, ReadState, WriteOk, CountAgain, NoteFailure,
         Reject, Interrupt, Fail, Cancel, Done, Release
<1> QED BY <1>1 DEF Next, vars, Arrive, Ask, Test, Crash, Expire

LEMMA RecordsChangedBy ==
    ASSUME [Next]_vars
    PROVE  \/ stored' = stored
           \/ \E a \in Account : Delete(a)
           \/ \E o \in Owner : Store(o) /\ acct' = acct
<1>1. ASSUME NEW o \in Owner, Session(o)
      PROVE  stored' = stored \/ (Store(o) /\ acct' = acct)
  BY <1>1
     DEF Session, Start, ListDue, Pick, Resolve, Answer, InsertNewest, InsertEarlier,
         MarkPage, CountFirst, Count, ReadState, WriteOk, CountAgain, NoteFailure,
         Reject, Interrupt, Fail, Cancel, Done, Release, RecordWorkspace
<1> QED BY <1>1 DEF Next, vars, Arrive, Ask, Test, TestAnswer, Crash, Expire,
                    Create, Update

(* A workspace is recorded under the row's revision, so for its workspace. *)
LEMMA RecordedCurrent ==
    ASSUME IInv, NEW o \in Owner, RecordWorkspace(o) \/ TestAnswer(o), acct' # acct
    PROVE  LET a == run[o].row.id
           IN  /\ a \in Account
               /\ acct' = [acct EXCEPT ![a].resolved = acct[a].space]
<1>1. pc[o] \in Busy
  BY DEF RecordWorkspace, TestAnswer, Busy, Writing
<1>2. run[o].row.id \in Account /\ RowFits(run[o].row)
  BY <1>1, WriterHasRow, TypeParts DEF IInv
<1>3. /\ SourceUnchanged(run[o].row)
      /\ acct' = [acct EXCEPT ![run[o].row.id].resolved = run[o].row.space]
  BY DEF RecordWorkspace, TestAnswer
<1>4. run[o].row.space = acct[run[o].row.id].space
  BY <1>2, <1>3 DEF SourceUnchanged, RowFits
<1> QED BY <1>2, <1>3, <1>4

LEMMA StepResolved == IInv /\ ResolvedIsCurrent /\ [Next]_vars => ResolvedIsCurrent'
<1> SUFFICES ASSUME IInv, ResolvedIsCurrent, [Next]_vars PROVE ResolvedIsCurrent'
  OBVIOUS
<1>0. acct \in Accounts
  BY TypeParts DEF IInv, Tables
<1>1. CASE acct' = acct
  BY <1>1 DEF ResolvedIsCurrent
<1>2. ASSUME NEW a \in Account, Create(a) PROVE ResolvedIsCurrent'
  BY <1>0, <1>2 DEF Create, Accounts, ResolvedIsCurrent
<1>3. ASSUME NEW a \in Account, Update(a) PROVE ResolvedIsCurrent'
  <2>1. PICK s \in Space, en \in BOOLEAN, cookie \in BOOLEAN :
          acct' = [acct EXCEPT ![a] =
                    [@ EXCEPT !.space = s, !.enabled = en, !.rev = acct[a].rev + 1,
                              !.resolved = IF cookie \/ s # acct[a].space THEN NoSpace
                                           ELSE acct[a].resolved]]
    BY <1>3 DEF Update
  <2> DEFINE x == IF cookie \/ s # acct[a].space THEN NoSpace ELSE acct[a].resolved
             v == acct[a].rev + 1
  <2>2. x \in {NoSpace, s}
    BY DEF ResolvedIsCurrent
  <2>3. acct' = [acct EXCEPT ![a] =
                    [@ EXCEPT !.space = s, !.enabled = en, !.rev = v, !.resolved = x]]
    BY <2>1
  <2> HIDE DEF x, v
  <2>4. acct'[a].space = s /\ acct'[a].resolved = x
    BY <1>0, <2>3 DEF Accounts
  <2>5. \A b \in Account : b # a => acct'[b] = acct[b]
    BY <1>0, <2>3 DEF Accounts
  <2> QED BY <2>2, <2>4, <2>5 DEF ResolvedIsCurrent
<1>4. ASSUME NEW a \in Account, Delete(a) PROVE ResolvedIsCurrent'
  BY <1>0, <1>4 DEF Delete, Accounts, ResolvedIsCurrent
<1>5. ASSUME NEW o \in Owner, RecordWorkspace(o) \/ TestAnswer(o), acct' # acct
      PROVE  ResolvedIsCurrent'
  <2> DEFINE a == run[o].row.id
  <2>1. a \in Account /\ acct' = [acct EXCEPT ![a].resolved = acct[a].space]
    BY <1>5, RecordedCurrent
  <2> HIDE DEF a
  <2> QED BY <1>0, <2>1 DEF Accounts, ResolvedIsCurrent
<1> QED BY <1>1, <1>2, <1>3, <1>4, <1>5, RowsChangedBy

(* usage_sync.py 87-110, main.py 520-558: the workspace on record is the   *)
(* one the present credential leads to, whoever resolved it and however    *)
(* late the answer came.                                                   *)
THEOREM ResolvedCurrent == Spec => []ResolvedIsCurrent
<1>1. Init => ResolvedIsCurrent
  <2> SUFFICES ASSUME Init, NEW a \in Account PROVE acct[a].resolved = NoSpace
    BY DEF ResolvedIsCurrent
  <2>1. PICK s \in Space : acct[a] = [state |-> "new", enabled |-> FALSE, space |-> s,
                                      rev |-> 0, resolved |-> NoSpace]
    BY DEF Init
  <2> QED BY <2>1
<1> QED BY <1>1, Inductive, StepResolved, PTL DEF Spec

(* usage_sync.py 147-158, 276-288: a page is stored only for an enabled    *)
(* account, and its records are of the workspace the account is set to at  *)
(* that moment.                                                            *)
THEOREM RecordsConfigured == Spec => RecordsOfConfiguration
<1> DEFINE Stored == \A a \in Account : \A r \in stored'[a] \ stored[a] :
                        Enabled(a) /\ r[1] = acct[a].space
<1>1. IInv /\ [Next]_vars => Stored
  <2> SUFFICES ASSUME IInv, [Next]_vars PROVE Stored
    OBVIOUS
  <2>0. Tables /\ Sessions /\ AllSound
    BY TypeParts DEF IInv
  <2>1. CASE stored' = stored
    BY <2>1
  <2>2. ASSUME NEW a \in Account, Delete(a) PROVE Stored
    BY <2>0, <2>2 DEF Delete, Tables
  <2>3. ASSUME NEW o \in Owner, Store(o) PROVE Stored
    <3> DEFINE w == run[o].row
               k == run[o].records
    <3>1. w.id \in Account /\ RowFits(w)
      BY <2>0, <2>3, WriterHasRow DEF Store, Busy, Writing
    <3>2. Enabled(w.id) /\ w.space = acct[w.id].space
      BY <2>3, <3>1 DEF Store, SourceUnchanged, RowFits
    <3>3. \A r \in k : r[1] = w.space
      BY <2>0 DEF AllSound, Sound
    <3>4. stored' = [stored EXCEPT ![w.id] = stored[w.id] \cup (k \ Known)]
      BY <2>3 DEF Store
    <3> HIDE DEF w, k
    <3>5. \A a \in Account : a # w.id => stored'[a] = stored[a]
      BY <2>0, <3>4 DEF Tables
    <3>6. stored'[w.id] = stored[w.id] \cup (k \ Known)
      BY <2>0, <3>1, <3>4 DEF Tables
    <3> QED BY <3>2, <3>3, <3>5, <3>6
  <2> QED BY <2>1, <2>2, <2>3, RecordsChangedBy
<1>2. IInv /\ [Next]_vars => [Stored]_vars
  BY <1>1
<1> QED BY <1>2, Inductive, PTL DEF Spec, RecordsOfConfiguration
-------------------------------------------------------------------------------
(* What the session that holds the lease knows about the state of its      *)
(* account: nobody else can have written it since.                         *)
Walking == {"inflight", "checked", "marking"}

Knows(l, n) ==
    /\ l = "marking" => n.kind = "backfill"
    /\ l \in Walking /\ n.kind = "backfill"
          => n.page > sync[n.row.id].deepest
    /\ l = "writing" /\ n.kind = "sync"
          => n.deepest >= sync[n.row.id].deepest
    /\ l \in {"reading", "writing"} /\ SourceUnchanged(n.row)
          => sync[n.row.id].total = Cardinality(stored[n.row.id])

HolderKnows == \A o \in Owner : holder = o => Knows(pc[o], run[o])
NewIsEmpty == \A a \in Account : acct[a].state = "new" => sync[a].deepest = -1
WInv == IInv /\ HolderKnows /\ NewIsEmpty

LEMMA SilentKnows ==
    ASSUME NEW l, l \notin Walking \cup {"reading", "writing"}, NEW n
    PROVE  Knows(l, n)
BY DEF Knows, Walking

LEMMA EnterKnows ==
    ASSUME IInv, NEW o \in Owner, NEW r \in Run, r.row \in Row,
           EnterPages(o, r), sync' = sync
    PROVE  Knows(pc[o], run[o])'
<1> DEFINE d == sync[r.row.id].deepest
           n == [r EXCEPT !.page = StartPage(d)]
           m == [r EXCEPT !.before = stored[r.row.id]]
<1>0. Tables /\ Sessions
  BY TypeParts DEF IInv
<1>1. pc'[o] = "inflight"
  BY <1>0 DEF EnterPages, Goto, Sessions
<1>2. r.kind = "sync" => run'[o] = m
  BY <1>0 DEF EnterPages, Sessions
<1>3. r.kind # "sync" => run'[o] = n
  BY <1>0 DEF EnterPages, Sessions
<1>4. d \in Nat \cup {-1}
  BY <1>0 DEF Row, Tables, Syncs
<1>5. StartPage(d) > d
  BY <1>4, StartPageTyped
<1>6. m.kind = r.kind /\ n.row = r.row /\ n.page = StartPage(d)
  BY DEF Run
<1> HIDE DEF n, m
<1>7. CASE r.kind = "sync"
  BY <1>1, <1>2, <1>6, <1>7 DEF Knows
<1>8. CASE r.kind # "sync"
  <2>1. run'[o].page > sync'[run'[o].row.id].deepest
    BY <1>3, <1>5, <1>6, <1>8
  <2> QED BY <1>1, <2>1 DEF Knows
<1> QED BY <1>7, <1>8

LEMMA CallKnows ==
    ASSUME IInv, NEW o \in Owner, NEW a \in Account, Live(a),
           NEW kind \in {"sync", "backfill"}, NEW pages \in Nat \ {0},
           Call(o, a, kind, pages), sync' = sync
    PROVE  Knows(pc[o], run[o])'
<1> DEFINE r == [NoRun EXCEPT !.row = RowOf(a), !.kind = kind, !.left = pages]
<1>0. Tables /\ Sessions
  BY TypeParts DEF IInv
<1>1. RowOf(a) \in Row
  BY <1>0, RowTyped
<1>2. r \in Run /\ r.row = RowOf(a)
  BY <1>1 DEF NoRun, Run
<1>3. \/ pc' = [pc EXCEPT ![o] = "resolving"]
      \/ EnterPages(o, r)
  BY DEF Call, Goto
<1> HIDE DEF r
<1>4. CASE EnterPages(o, r)
  BY <1>1, <1>2, <1>4, EnterKnows
<1>5. CASE pc' = [pc EXCEPT ![o] = "resolving"]
  <2>1. pc'[o] = "resolving"
    BY <1>0, <1>5 DEF Sessions
  <2> QED BY <2>1 DEF Knows, Walking
<1> QED BY <1>3, <1>4, <1>5

(* After a step of its own, the holder knows it still.                     *)
LEMMA OwnPassKnows ==
    ASSUME IInv, HolderKnows, NEW o \in Owner, holder' = o,
           \/ Start(o) \/ ListDue(o) \/ Pick(o) \/ Resolve(o)
           \/ RecordWorkspace(o) \/ Answer(o)
           \/ \E a \in Account : Ask(o, a) \/ Test(o, a)
           \/ TestAnswer(o)
    PROVE  Knows(pc[o], run[o])'
<1>0. Tables /\ Sessions /\ AllSound
  BY TypeParts DEF IInv
<1>q. ASSUME NEW l \in Pc, pc' = [pc EXCEPT ![o] = l],
             l \notin Walking \cup {"reading", "writing"}
      PROVE  Knows(pc[o], run[o])'
  <2>1. pc'[o] = l
    BY <1>0, <1>q DEF Sessions
  <2> QED BY <1>q, <2>1 DEF Knows, Walking
<1>e. EndCall(o) => Knows(pc[o], run[o])'
  BY <1>q DEF EndCall, Goto, Pc, Walking
<1>1. CASE Start(o) \/ ListDue(o) \/ TestAnswer(o) \/ \E a \in Account : Test(o, a)
  BY <1>q, <1>1 DEF Start, ListDue, TestAnswer, Test, Goto, Pc, Walking
<1>2. CASE Pick(o)
  <2>1. PICK a \in due[o] : IF Enabled(a) THEN Call(o, a, "sync", MaxPages)
                                         ELSE UNCHANGED <<pc, run>>
    BY <1>2 DEF Pick
  <2>2. a \in Account /\ MaxPages \in Nat \ {0} /\ pc[o] = "next" /\ sync' = sync
    BY <1>0, <1>2, <2>1, SyncAssumption DEF Sessions, Pick
  <2>3. CASE Enabled(a)
    BY <2>1, <2>2, <2>3, CallKnows DEF Enabled
  <2>4. CASE ~Enabled(a)
    BY <2>1, <2>2, <2>4 DEF Knows, Walking
  <2> QED BY <2>3, <2>4
<1>3. CASE Resolve(o) \/ RecordWorkspace(o)
  <2>1. run[o] \in Run /\ run[o].row \in Row
    BY <1>0, <1>3, WriterHasRow
       DEF Resolve, RecordWorkspace, Busy, Writing, Checking
  <2>2. /\ sync' = sync
        /\ EnterPages(o, run[o]) \/ EndCall(o) \/ Goto(o, "recording")
    BY <1>3 DEF Resolve, RecordWorkspace
  <2>3. Goto(o, "recording") => Knows(pc[o], run[o])'
    BY <1>q DEF Goto, Pc, Writing, Walking
  <2> QED BY <1>e, <2>1, <2>2, <2>3, EnterKnows
<1>4. CASE Answer(o)
  <2> DEFINE records == Page(run[o].row.space, run[o].page)
             full == [run[o] EXCEPT !.records = records, !.some = TRUE]
  <2>1. run[o] \in Run /\ Knows("inflight", run[o])
    BY <1>0, <1>4 DEF Answer, Sessions, HolderKnows
  <2>2. \/ EndCall(o) \/ Goto(o, "counting")
        \/ Goto(o, "checked") /\ run' = [run EXCEPT ![o] = full]
    BY <1>4 DEF Answer
  <2> HIDE DEF records
  <2>3. /\ full.row = run[o].row /\ full.kind = run[o].kind
        /\ full.page = run[o].page
    BY <2>1 DEF Run
  <2> HIDE DEF full
  <2>4. Goto(o, "counting") => Knows(pc[o], run[o])'
    BY <1>q DEF Goto, Pc, Writing, Walking
  <2>5. CASE Goto(o, "checked") /\ run' = [run EXCEPT ![o] = full]
    <3>1. pc'[o] = "checked" /\ run'[o] = full /\ sync' = sync
      BY <1>0, <1>4, <2>5 DEF Goto, Sessions, Answer
    <3> QED BY <2>1, <2>3, <3>1 DEF Knows, Walking
  <2> QED BY <1>e, <2>2, <2>4, <2>5
<1>5. ASSUME NEW a \in Account, Ask(o, a) PROVE Knows(pc[o], run[o])'
  <2>1. MaxPages \in Nat \ {0} /\ 1..MaxBackfill \subseteq Nat \ {0}
    BY SyncAssumption
  <2>2. Live(a) /\ sync' = sync
    BY <1>5 DEF Ask
  <2>3. CASE Goto(o, "releasing") /\ UNCHANGED run
    BY <1>q, <2>3 DEF Goto, Pc, Walking
  <2>4. CASE Call(o, a, "sync", MaxPages)
    BY <2>1, <2>2, <2>4, CallKnows
  <2>5. CASE \E pages \in 1..MaxBackfill : Call(o, a, "backfill", pages)
    BY <2>1, <2>2, <2>5, CallKnows
  <2> QED BY <1>5, <2>3, <2>4, <2>5 DEF Ask
<1> QED BY <1>1, <1>2, <1>3, <1>4, <1>5
LEMMA OwnWriteKnows ==
    ASSUME IInv, HolderKnows, NEW o \in Owner, holder' = o,
           \/ InsertNewest(o) \/ InsertEarlier(o) \/ MarkPage(o)
           \/ CountFirst(o) \/ ReadState(o) \/ WriteOk(o) \/ CountAgain(o)
    PROVE  Knows(pc[o], run[o])'
<1>0. Tables /\ Sessions /\ AllSound
  BY TypeParts DEF IInv
<1>q. ASSUME NEW l \in Pc, pc' = [pc EXCEPT ![o] = l],
             l \notin Walking \cup {"reading", "writing"}
      PROVE  Knows(pc[o], run[o])'
  <2>1. pc'[o] = l
    BY <1>0, <1>q DEF Sessions
  <2> QED BY <1>q, <2>1 DEF Knows, Walking
<1>e. EndCall(o) => Knows(pc[o], run[o])'
  BY <1>q DEF EndCall, Goto, Pc, Walking
<1>r. run[o] \in Run /\ run[o].row \in Row /\ run[o].row.id \in Account
  BY <1>0, WriterHasRow
     DEF InsertNewest, InsertEarlier, Store, MarkPage, CountFirst, ReadState,
         WriteOk, CountAgain, Busy, Writing, Checking
<1> DEFINE a == run[o].row.id
<1>d. sync[a].deepest \in Nat \cup {-1} /\ run[o].page \in Nat
  BY <1>0, <1>r DEF Tables, Syncs, Run
<1>t. ASSUME NEW last \in BOOLEAN, Turn(o, last)
      PROVE  \/ pc'[o] = "counting"
             \/ /\ pc'[o] = "inflight" /\ run'[o].page = run[o].page + 1
                /\ run'[o].row = run[o].row /\ run'[o].kind = run[o].kind
  <2> DEFINE on == [run[o] EXCEPT !.page = run[o].page + 1,
                                  !.left = run[o].left - 1, !.records = {}]
  <2>1. CASE last \/ run[o].left = 1
    BY <1>0, <1>t, <2>1 DEF Turn, Goto, Sessions
  <2>2. CASE ~last /\ run[o].left # 1
    <3>1. pc'[o] = "inflight"
      BY <1>0, <1>t, <2>2 DEF Turn, Goto, Sessions
    <3>2. run' = [run EXCEPT ![o] = on]
      BY <1>t, <2>2 DEF Turn
    <3>3. run'[o] = on
      BY <1>0, <3>2 DEF Sessions
    <3>4. on.page = run[o].page + 1 /\ on.row = run[o].row /\ on.kind = run[o].kind
      BY <1>r DEF Run
    <3> QED BY <3>1, <3>3, <3>4
  <2> QED BY <2>1, <2>2
<1>1. CASE InsertNewest(o)
  <2>1. Turn(o, ReachesKnown(o)) /\ run[o].kind = "sync"
    BY <1>1 DEF InsertNewest
  <2>2. ReachesKnown(o) \in BOOLEAN
    BY DEF ReachesKnown, Short
  <2>3. \/ pc'[o] = "counting"
        \/ pc'[o] = "inflight" /\ run'[o].kind = "sync"
    BY <1>t, <2>1, <2>2
  <2> QED BY <2>3 DEF Knows, Walking
<1>2. CASE InsertEarlier(o)
  <2>1. pc[o] = "checked" /\ holder = o /\ run[o].kind = "backfill"
    BY <1>2 DEF InsertEarlier, Store, Commit
  <2>2. run[o].page > sync[a].deepest
    BY <2>1 DEF HolderKnows, Knows, Walking
  <2>3. pc'[o] = "marking" /\ run' = run /\ sync' = sync
    BY <1>0, <1>2 DEF InsertEarlier, Goto, Sessions
  <2> QED BY <2>1, <2>2, <2>3 DEF Knows, Walking
<1>3. CASE MarkPage(o)
  <2>1. Short(o) \in BOOLEAN /\ Turn(o, Short(o))
    BY <1>3 DEF Short, MarkPage
  <2>2. sync'[a].deepest = run[o].page
    BY <1>0, <1>r, <1>3 DEF MarkPage, Tables, Syncs
  <2>3. CASE pc'[o] = "counting"
    BY <2>3 DEF Knows, Walking
  <2>4. CASE /\ pc'[o] = "inflight" /\ run'[o].page = run[o].page + 1
             /\ run'[o].row = run[o].row
    <3>1. run'[o].page > sync'[run'[o].row.id].deepest
      BY <1>d, <2>2, <2>4
    <3> QED BY <2>4, <3>1 DEF Knows, Walking
  <2> QED BY <1>t, <2>1, <2>3, <2>4
<1>4. CASE CountFirst(o)
  <2> DEFINE m == [run[o] EXCEPT !.before = {}]
             n == [run[o] EXCEPT !.page = 0, !.some = FALSE]
             k == Cardinality(stored[a])
  <2>1. /\ m.row = run[o].row
        /\ n.row = run[o].row /\ n.kind = run[o].kind
    BY <1>r DEF Run
  <2>2. \/ pc' = [pc EXCEPT ![o] = "reading"] /\ run' = [run EXCEPT ![o] = m]
        \/ /\ run[o].kind # "sync"
           /\ pc' = [pc EXCEPT ![o] = "writing"] /\ run' = [run EXCEPT ![o] = n]
    BY <1>4 DEF CountFirst, Goto
  <2>3. sync' = [sync EXCEPT ![a].total = k] /\ stored' = stored
    BY <1>4 DEF CountFirst, Count
  <2> HIDE DEF m, n, k
  <2>4. \/ pc'[o] = "reading" /\ run'[o] = m
        \/ run[o].kind # "sync" /\ pc'[o] = "writing" /\ run'[o] = n
    BY <1>0, <2>2 DEF Sessions
  <2>5. sync'[a].total = k
    BY <1>0, <1>r, <2>3 DEF Tables, Syncs
  <2>6. sync'[a].total = Cardinality(stored'[a])
    BY <2>3, <2>5 DEF k
  <2>7. run'[o].row.id = a
    BY <2>1, <2>4
  <2>8. pc'[o] = "writing" => run'[o].kind # "sync"
    BY <2>1, <2>4
  <2>9. pc'[o] \in {"reading", "writing"}
    BY <2>4
  <2> QED BY <2>6, <2>7, <2>8, <2>9 DEF Knows, Walking
<1>5. CASE ReadState(o)
  <2> DEFINE d == Watermark(run[o], sync[a].deepest)
             n == [NoRun EXCEPT !.row = run[o].row, !.deepest = d]
  <2>1. d >= sync[a].deepest /\ d \in Nat \cup {-1}
    BY <1>d DEF Watermark
  <2>2. pc' = [pc EXCEPT ![o] = "writing"] /\ run' = [run EXCEPT ![o] = n]
    BY <1>5 DEF ReadState, Goto
  <2> HIDE DEF d
  <2>3. n.row = run[o].row /\ n.deepest = d
    BY <1>r, <2>1 DEF NoRun
  <2> HIDE DEF n
  <2>4. pc'[o] = "writing" /\ run'[o] = n
    BY <1>0, <2>2 DEF Sessions
  <2>5. SourceUnchanged(run[o].row) => sync[a].total = Cardinality(stored[a])
    BY <1>5 DEF ReadState, HolderKnows, Knows
  <2>6. acct' = acct /\ sync' = sync /\ stored' = stored
    BY <1>5 DEF ReadState
  <2>7. run'[o].row = run[o].row /\ run'[o].deepest = d
    BY <2>3, <2>4
  <2>8. SourceUnchanged(run[o].row)' => SourceUnchanged(run[o].row)
    BY <2>6, <2>7 DEF SourceUnchanged, Enabled, Live
  <2>9. SourceUnchanged(run[o].row)' => sync'[a].total = Cardinality(stored'[a])
    BY <2>5, <2>6, <2>8
  <2> QED BY <2>1, <2>4, <2>6, <2>7, <2>9 DEF Knows, Walking
<1>6. CASE WriteOk(o) \/ CountAgain(o)
  <2>1. EndCall(o) \/ Goto(o, "recounting")
    BY <1>6 DEF WriteOk, CountAgain
  <2> QED BY <1>e, <1>q, <2>1 DEF Goto, Pc, Writing, Walking
<1> QED BY <1>1, <1>2, <1>3, <1>4, <1>5, <1>6

LEMMA OwnEndKnows ==
    ASSUME IInv, NEW o \in Owner,
           \/ NoteFailure(o) \/ Reject(o) \/ Interrupt(o) \/ Fail(o)
           \/ Cancel(o) \/ Done(o) \/ Release(o)
    PROVE  Knows(pc[o], run[o])'
<1>0. Sessions
  BY TypeParts DEF IInv
<1>1. PICK l \in {"next", "releasing", "failing", "idle"} : Goto(o, l)
  BY DEF NoteFailure, Reject, Interrupt, Fail, Cancel, Done, Release, EndCall, Stop
<1>2. pc'[o] = l
  BY <1>0, <1>1 DEF Goto, Sessions
<1> QED BY <1>2 DEF Knows, Walking
(* A row that the guard refuses is never accepted again.                   *)
LEMMA NeverReopened ==
    ASSUME IInv, [Next]_vars, NEW w \in Row, RowFits(w), SourceUnchanged(w)'
    PROVE  SourceUnchanged(w)
<1>0. acct \in Accounts /\ w.id \in Account
  BY TypeParts DEF IInv, Tables, Row
<1>1. CASE acct' = acct
  BY <1>1 DEF SourceUnchanged, Enabled, Live
<1>2. ASSUME NEW a \in Account, Create(a) PROVE SourceUnchanged(w)
  <2>1. a # w.id
    BY <1>2 DEF Create, RowFits
  <2>2. acct'[w.id] = acct[w.id]
    BY <1>0, <1>2, <2>1 DEF Create, Accounts
  <2> QED BY <2>2 DEF SourceUnchanged, Enabled, Live
<1>3. ASSUME NEW a \in Account, Update(a) PROVE SourceUnchanged(w)
  <2>1. PICK s \in Space, en \in BOOLEAN, x \in {NoSpace, acct[a].resolved} :
          acct' = [acct EXCEPT ![a] =
                    [@ EXCEPT !.space = s, !.enabled = en, !.rev = acct[a].rev + 1,
                              !.resolved = x]]
    BY <1>3 DEF Update
  <2>2. CASE a = w.id
    <3> DEFINE v == acct[a].rev + 1
    <3>1. acct[a].rev \in Nat /\ w.rev <= acct[a].rev /\ w.rev \in Nat
      BY <1>0, <2>2, SyncAssumption DEF Accounts, RowFits, Row
    <3>2. w.rev # v
      BY <3>1
    <3>3. acct' = [acct EXCEPT ![a] =
                    [@ EXCEPT !.space = s, !.enabled = en, !.rev = v, !.resolved = x]]
      BY <2>1
    <3> HIDE DEF v
    <3>4. acct'[a].rev = v
      BY <1>0, <3>3 DEF Accounts
    <3> QED BY <2>2, <3>2, <3>4 DEF SourceUnchanged
  <2>3. CASE a # w.id
    <3>1. acct'[w.id] = acct[w.id]
      BY <1>0, <2>1, <2>3 DEF Accounts
    <3> QED BY <3>1 DEF SourceUnchanged, Enabled, Live
  <2> QED BY <2>2, <2>3
<1>4. ASSUME NEW a \in Account, Delete(a) PROVE SourceUnchanged(w)
  <2>1. a # w.id
    BY <1>0, <1>4 DEF Delete, Accounts, SourceUnchanged, Enabled, Live
  <2>2. acct'[w.id] = acct[w.id]
    BY <1>0, <1>4, <2>1 DEF Delete, Accounts
  <2> QED BY <2>2 DEF SourceUnchanged, Enabled, Live
<1>5. ASSUME NEW o \in Owner, RecordWorkspace(o) \/ TestAnswer(o), acct' # acct
      PROVE  SourceUnchanged(w)
  <2> DEFINE a == run[o].row.id
  <2>1. a \in Account /\ acct' = [acct EXCEPT ![a].resolved = acct[a].space]
    BY <1>5, RecordedCurrent
  <2> HIDE DEF a
  <2>2. /\ acct'[w.id].state = acct[w.id].state
        /\ acct'[w.id].enabled = acct[w.id].enabled
        /\ acct'[w.id].rev = acct[w.id].rev
    BY <1>0, <2>1 DEF Accounts
  <2> QED BY <2>2 DEF SourceUnchanged, Enabled, Live
<1> QED BY <1>1, <1>2, <1>3, <1>4, <1>5, RowsChangedBy

(* What a session knows stays true while nobody writes for its account, or *)
(* the account is new or gone and its watermark back at the beginning.     *)
LEMMA KnowsLater ==
    ASSUME IInv, [Next]_vars, NEW l \in Pc, NEW n \in Run, Sound(l, n), Knows(l, n),
           n.row \in Row =>
              \/ sync'[n.row.id] = sync[n.row.id] /\ stored'[n.row.id] = stored[n.row.id]
              \/ sync'[n.row.id].deepest = -1 /\ ~SourceUnchanged(n.row)'
    PROVE  Knows(l, n)'
<1>1. CASE l \notin Walking \cup {"reading", "writing"}
  BY <1>1 DEF Knows, Walking
<1>2. CASE l \in Walking \cup {"reading", "writing"}
  <2>1. n.row \in Row /\ RowFits(n.row)
    BY <1>2 DEF Sound, Busy, Writing, Checking, Walking
  <2>2. SourceUnchanged(n.row)' => SourceUnchanged(n.row)
    BY <2>1, NeverReopened
  <2>3. n.page \in Nat /\ n.deepest \in Nat \cup {-1}
    BY DEF Run
  <2>4. CASE sync'[n.row.id] = sync[n.row.id] /\ stored'[n.row.id] = stored[n.row.id]
    <3>1. SourceUnchanged(n.row)'
            => sync'[n.row.id].total = Cardinality(stored'[n.row.id])
               \/ l \notin {"reading", "writing"}
      BY <2>2, <2>4 DEF Knows
    <3> QED BY <2>4, <3>1 DEF Knows, Walking
  <2>5. CASE sync'[n.row.id].deepest = -1 /\ ~SourceUnchanged(n.row)'
    <3>1. n.page > -1 /\ n.deepest >= -1
      BY <2>3
    <3> QED BY <2>5, <3>1 DEF Knows, Walking
  <2> QED BY <2>1, <2>4, <2>5
<1> QED BY <1>1, <1>2

(* While a session holds the lease, no other writes.                       *)
LEMMA OthersWait ==
    ASSUME NEW o \in Owner, NEW q \in Owner, q # o, holder' = q,
           Session(o) \/ TestAnswer(o) \/ \E a \in Account : Ask(o, a) \/ Test(o, a)
    PROVE  holder = q /\ UNCHANGED <<sync, stored>>
<1>1. CASE \/ Start(o) \/ RecordWorkspace(o) \/ InsertNewest(o) \/ InsertEarlier(o)
           \/ MarkPage(o) \/ CountFirst(o) \/ WriteOk(o) \/ CountAgain(o)
           \/ NoteFailure(o) \/ \E a \in Account : Ask(o, a)
  <2>1. Grant(o) \/ Commit(o)
    BY <1>1 DEF Start, RecordWorkspace, InsertNewest, InsertEarlier, Store, MarkPage,
                CountFirst, WriteOk, CountAgain, Count, NoteFailure, Ask
  <2> QED BY <2>1 DEF Grant, Commit
<1>2. CASE Release(o)
  BY <1>2, NoOwnerAssumption DEF Release, Leave
<1>3. CASE \/ ListDue(o) \/ Pick(o) \/ Resolve(o) \/ Answer(o) \/ ReadState(o)
           \/ Reject(o) \/ Interrupt(o) \/ Fail(o) \/ Cancel(o) \/ Done(o)
           \/ TestAnswer(o) \/ \E a \in Account : Test(o, a)
  BY <1>3 DEF ListDue, Pick, Resolve, Answer, ReadState, Reject, Interrupt, Fail,
              Cancel, Done, TestAnswer, Test, leaseVars
<1> QED BY <1>1, <1>2, <1>3 DEF Session
LEMMA StepForward == ASSUME IInv, [Next]_vars PROVE Forward
<1>1. UNCHANGED vars => Forward
  BY RowsStay, TypeParts DEF IInv, vars
<1> QED BY <1>1, OutsideKeeps, SessionStep, CrashKeeps DEF Next, Kept

(* The watermark rises, and starts at the beginning.                       *)
LEMMA StepWatermark ==
    ASSUME WInv, [Next]_vars, NEW a \in Account
    PROVE  /\ Live(a)' => sync'[a].deepest >= sync[a].deepest
           /\ acct'[a].state = "new" => sync'[a].deepest = -1
<1>0. IInv /\ Tables /\ Sessions /\ AllSound
  BY TypeParts DEF WInv, IInv
<1>d. \A b \in Account : sync[b].deepest \in Nat \cup {-1}
  BY <1>0 DEF Tables, Syncs
<1>n. acct'[a].state = "new" => acct[a].state = "new"
  BY <1>0, StepForward DEF Forward
<1>u. ASSUME sync'[a].deepest = sync[a].deepest
      PROVE  /\ Live(a)' => sync'[a].deepest >= sync[a].deepest
             /\ acct'[a].state = "new" => sync'[a].deepest = -1
  <2>1. sync'[a].deepest >= sync[a].deepest
    BY <1>d, <1>u
  <2>2. acct[a].state = "new" => sync[a].deepest = -1
    BY DEF WInv, NewIsEmpty
  <2> QED BY <1>n, <1>u, <2>1, <2>2
<1>1. ASSUME NEW b \in Account, Create(b) \/ Delete(b)
      PROVE  /\ Live(a)' => sync'[a].deepest >= sync[a].deepest
             /\ acct'[a].state = "new" => sync'[a].deepest = -1
  <2>1. CASE a # b
    <3>1. sync'[a] = sync[a]
      BY <1>0, <1>1, <2>1 DEF Create, Delete, Tables, Syncs
    <3> QED BY <1>u, <3>1
  <2>2. CASE a = b
    <3>1. sync'[a].deepest = -1
      <4>1. sync' = [sync EXCEPT ![b] = EmptySync]
        BY <1>1 DEF Create, Delete
      <4>2. sync'[a] = EmptySync
        BY <1>0, <2>2, <4>1 DEF Tables, Syncs
      <4> QED BY <4>2 DEF EmptySync
    <3>2. CASE Create(b)
      <4>1. sync[a].deepest = -1
        BY <2>2, <3>2 DEF Create, WInv, NewIsEmpty
      <4> QED BY <3>1, <4>1
    <3>3. CASE Delete(b)
      <4>1. ~Live(a)'
        BY <1>0, <2>2, <3>3 DEF Delete, Live, Tables, Accounts
      <4> QED BY <3>1, <4>1
    <3> QED BY <1>1, <3>2, <3>3
  <2> QED BY <2>1, <2>2
<1>2. ASSUME NEW o \in Owner, \/ MarkPage(o) \/ CountFirst(o) \/ WriteOk(o)
                              \/ CountAgain(o) \/ NoteFailure(o)
      PROVE  /\ Live(a)' => sync'[a].deepest >= sync[a].deepest
             /\ acct'[a].state = "new" => sync'[a].deepest = -1
  <2> DEFINE b == run[o].row.id
  <2>1. run[o] \in Run /\ b \in Account /\ Knows(pc[o], run[o]) /\ Live(b)
    <3>1. pc[o] \in Busy
      BY <1>2 DEF MarkPage, CountFirst, WriteOk, CountAgain, NoteFailure, Busy, Writing
    <3>2. Commit(o) /\ SourceUnchanged(run[o].row)
      BY <1>2 DEF MarkPage, CountFirst, WriteOk, CountAgain, NoteFailure, Count
    <3> QED BY <1>0, <3>1, <3>2, WriterHasRow
            DEF WInv, HolderKnows, Commit, SourceUnchanged, Enabled
  <2>2. CASE a # b
    <3>1. sync'[a] = sync[a]
      BY <1>0, <1>2, <2>2
         DEF MarkPage, CountFirst, WriteOk, CountAgain, NoteFailure, Count, Tables,
             Syncs
    <3> QED BY <1>u, <3>1
  <2>3. CASE a = b
    <3>1. acct'[a].state # "new"
      BY <1>n, <2>1, <2>3 DEF Live
    <3>2. CASE CountFirst(o) \/ CountAgain(o) \/ NoteFailure(o)
      <4>1. sync'[a].deepest = sync[a].deepest
        BY <1>0, <2>1, <2>3, <3>2
           DEF CountFirst, CountAgain, Count, NoteFailure, Tables, Syncs
      <4> QED BY <1>u, <4>1
    <3>3. CASE MarkPage(o)
      <4>1. sync'[a].deepest = run[o].page
        BY <1>0, <2>1, <2>3, <3>3 DEF MarkPage, Tables, Syncs
      <4>2. run[o].page > sync[a].deepest
        BY <2>1, <2>3, <3>3 DEF MarkPage, Knows, Walking
      <4>3. run[o].page \in Nat
        BY <2>1 DEF Run
      <4> QED BY <1>d, <3>1, <4>1, <4>2, <4>3
    <3>4. CASE WriteOk(o)
      <4>1. CASE run[o].kind = "sync"
        <5> DEFINE d == run[o].deepest
        <5>1. d >= sync[a].deepest
          BY <2>1, <2>3, <3>4, <4>1 DEF WriteOk, Knows
        <5>2. sync' = [sync EXCEPT ![b] = [@ EXCEPT !.synced = TRUE, !.deepest = d]]
          BY <3>4, <4>1 DEF WriteOk
        <5> HIDE DEF d, b
        <5>3. sync'[a].deepest = d
          BY <1>0, <2>1, <2>3, <5>2 DEF Tables, Syncs
        <5> QED BY <3>1, <5>1, <5>3
      <4>2. CASE run[o].kind # "sync"
        <5>1. sync' = [sync EXCEPT ![b] = [@ EXCEPT !.synced = TRUE]]
          BY <3>4, <4>2 DEF WriteOk
        <5> HIDE DEF b
        <5>2. sync'[a].deepest = sync[a].deepest
          BY <1>0, <2>1, <2>3, <5>1 DEF Tables, Syncs
        <5> QED BY <1>u, <5>2
      <4> QED BY <4>1, <4>2
    <3> QED BY <1>2, <3>2, <3>3, <3>4
  <2> QED BY <2>2, <2>3
<1>3. \/ sync' = sync
      \/ \E b \in Account : Create(b) \/ Delete(b)
      \/ \E o \in Owner : \/ MarkPage(o) \/ CountFirst(o) \/ WriteOk(o)
                          \/ CountAgain(o) \/ NoteFailure(o)
  <2>1. ASSUME NEW o \in Owner, Session(o)
        PROVE  \/ sync' = sync \/ MarkPage(o) \/ CountFirst(o) \/ WriteOk(o)
               \/ CountAgain(o) \/ NoteFailure(o)
    BY <2>1
       DEF Session, Start, ListDue, Pick, Resolve, RecordWorkspace, Answer,
           InsertNewest, InsertEarlier, ReadState, Reject, Interrupt, Fail, Cancel,
           Done, Release
  <2> QED BY <2>1 DEF Next, vars, Arrive, Update, Ask, Test, TestAnswer, Crash, Expire
<1> QED BY <1>u, <1>1, <1>2, <1>3

LEMMA StepKnows == WInv /\ [Next]_vars => HolderKnows'
<1> SUFFICES ASSUME WInv, [Next]_vars, NEW q \in Owner, holder' = q
             PROVE  Knows(pc[q], run[q])'
  BY DEF HolderKnows
<1>0. IInv /\ Tables /\ Sessions /\ AllSound /\ HolderKnows
  BY TypeParts DEF WInv, IInv
<1>k. ASSUME holder = q, pc'[q] = pc[q], run'[q] = run[q],
             run[q].row \in Row =>
                LET b == run[q].row.id
                IN  \/ sync'[b] = sync[b] /\ stored'[b] = stored[b]
                    \/ sync'[b].deepest = -1 /\ ~SourceUnchanged(run[q].row)'
      PROVE  Knows(pc[q], run[q])'
  <2> DEFINE k == pc[q]
             m == run[q]
  <2>1. k \in Pc /\ m \in Run /\ Sound(k, m) /\ Knows(k, m)
    BY <1>0, <1>k DEF Sessions, AllSound, HolderKnows
  <2>2. m.row \in Row => \/ /\ sync'[m.row.id] = sync[m.row.id]
                            /\ stored'[m.row.id] = stored[m.row.id]
                         \/ /\ sync'[m.row.id].deepest = -1
                            /\ ~SourceUnchanged(run[q].row)'
    BY <1>k
  <2>3. pc'[q] = k /\ run'[q] = m
    BY <1>k
  <2> HIDE DEF k, m
  <2>4. PICK k0, m0 : k0 = k /\ m0 = m
    OBVIOUS
  <2>5. ~SourceUnchanged(run[q].row)' => ~SourceUnchanged(m0.row)'
    BY <2>3, <2>4 DEF SourceUnchanged, Enabled, Live
  <2>6. k0 \in Pc /\ m0 \in Run /\ Sound(k0, m0) /\ Knows(k0, m0)
    BY <2>1, <2>4
  <2>7. m0.row \in Row => \/ /\ sync'[m0.row.id] = sync[m0.row.id]
                             /\ stored'[m0.row.id] = stored[m0.row.id]
                          \/ /\ sync'[m0.row.id].deepest = -1
                             /\ ~SourceUnchanged(m0.row)'
    BY <2>2, <2>4, <2>5
  <2>8. Knows(k0, m0)'
    BY <1>0, <2>6, <2>7, KnowsLater
  <2> QED BY <2>3, <2>4, <2>8
<1>1. ASSUME NEW o \in Owner,
             Session(o) \/ TestAnswer(o) \/ \E a \in Account : Ask(o, a) \/ Test(o, a)
      PROVE  Knows(pc[q], run[q])'
  <2>1. CASE o = q
    BY <1>0, <1>1, <2>1, OwnPassKnows, OwnWriteKnows, OwnEndKnows DEF Session
  <2>2. CASE o # q
    <3>1. holder = q /\ UNCHANGED <<sync, stored>>
      BY <1>1, <2>2, OthersWait
    <3>2. PICK l \in Pc, n \in Run :
            pc' = [pc EXCEPT ![o] = l] /\ run' = [run EXCEPT ![o] = n]
      BY <1>0, <1>1, SessionStep DEF Moves
    <3>3. pc'[q] = pc[q] /\ run'[q] = run[q]
      BY <1>0, <2>2, <3>2 DEF Sessions
    <3> QED BY <1>k, <3>1, <3>3
  <2> QED BY <2>1, <2>2
<1>2. ASSUME NEW a \in Account, Create(a) \/ Delete(a) PROVE Knows(pc[q], run[q])'
  <2>1. holder = q /\ pc'[q] = pc[q] /\ run'[q] = run[q]
    BY <1>2 DEF Create, Delete, leaseVars, sessionVars
  <2>2. ASSUME NEW b \in Account, b # a
        PROVE  sync'[b] = sync[b] /\ stored'[b] = stored[b]
    BY <1>0, <1>2, <2>2 DEF Create, Delete, Tables, Syncs
  <2>3. ASSUME run[q].row \in Row, run[q].row.id = a
        PROVE  sync'[a].deepest = -1 /\ ~SourceUnchanged(run[q].row)'
    <3>1. sync'[a].deepest = -1
      <4>1. sync' = [sync EXCEPT ![a] = EmptySync]
        BY <1>2 DEF Create, Delete
      <4>2. sync'[a] = EmptySync
        BY <1>0, <4>1 DEF Tables, Syncs
      <4> QED BY <4>2 DEF EmptySync
    <3>2. CASE Create(a)
      BY <1>0, <2>3, <3>2 DEF Create, AllSound, Sound, RowFits
    <3>3. CASE Delete(a)
      <4>1. acct'[a].state = "deleted"
        BY <1>0, <3>3 DEF Delete, Tables, Accounts
      <4> QED BY <2>1, <2>3, <3>1, <4>1 DEF SourceUnchanged, Enabled, Live
    <3> QED BY <1>2, <3>2, <3>3
  <2>4. run[q].row \in Row => run[q].row.id \in Account
    BY DEF Row
  <2> QED BY <1>k, <2>1, <2>2, <2>3, <2>4
<1>3. CASE \/ \E s \in Space : Arrive(s)
           \/ \E a \in Account : Update(a)
           \/ UNCHANGED vars
  BY <1>k, <1>3 DEF Arrive, Update, leaseVars, sessionVars, vars
<1>4. CASE Expire
  BY <1>4, NoOwnerAssumption DEF Expire, Lapse
<1>5. ASSUME NEW h \in Process, Crash(h) PROVE Knows(pc[q], run[q])'
  <2>1. CASE Home[q] = h
    <3>1. pc'[q] = "dead"
      BY <1>5, <2>1 DEF Crash
    <3> QED BY <3>1 DEF Knows, Walking
  <2>2. CASE Home[q] # h
    <3>1. pc'[q] = pc[q] /\ run'[q] = run[q] /\ holder = q /\ UNCHANGED <<sync, stored>>
      BY <1>5, <2>2 DEF Crash
    <3> QED BY <1>k, <3>1
  <2> QED BY <2>1, <2>2
<1> QED BY <1>1, <1>2, <1>3, <1>4, <1>5 DEF Next

LEMMA WatermarkInductive == Spec => []WInv
<1>1. Init => WInv
  <2> SUFFICES ASSUME Init PROVE HolderKnows /\ NewIsEmpty
    BY InitIInv DEF WInv
  <2>1. HolderKnows
    BY NoOwnerAssumption DEF Init, LeaseInit, HolderKnows
  <2>2. NewIsEmpty
    BY DEF Init, EmptySync, NewIsEmpty
  <2> QED BY <2>1, <2>2
<1>2. WInv /\ [Next]_vars => WInv'
  <2> SUFFICES ASSUME WInv, [Next]_vars PROVE WInv'
    OBVIOUS
  <2>1. IInv'
    BY StepIInv DEF WInv
  <2>2. HolderKnows'
    BY StepKnows
  <2>3. NewIsEmpty'
    BY StepWatermark DEF NewIsEmpty
  <2> QED BY <2>1, <2>2, <2>3 DEF WInv
<1> QED BY <1>1, <1>2, PTL DEF Spec

(* usage_sync.py 180-198, 291-299: the watermark is read in one            *)
(* transaction and written in another, yet it never goes back.             *)
THEOREM WatermarkKept == Spec => WatermarkNeverFalls
<1> DEFINE Rises == \A a \in Account :
                        Live(a)' => sync'[a].deepest >= sync[a].deepest
<1>1. WInv /\ [Next]_vars => [Rises]_vars
  BY StepWatermark
<1> QED BY <1>1, WatermarkInductive, PTL DEF Spec, WatermarkNeverFalls

(* usage_sync.py 174-190, 305-320: from the count to the "ok" that vouches *)
(* for it, what was counted is what is stored.                             *)
THEOREM TotalsCounted == Spec => []TotalsCount
<1>1. WInv => TotalsCount
  BY DEF WInv, HolderKnows, Knows, TotalsCount
<1> QED BY <1>1, WatermarkInductive, PTL

-------------------------------------------------------------------------------
(* Sessions and their lease.  A session is engaged from the lock to the    *)
(* end of its finally block.                                               *)
Engaged == Pc \ {"idle", "testing", "dead"}

OneSessionPerProcess ==
    \A o, q \in Owner : pc[o] \in Engaged /\ pc[q] \in Engaged /\ Home[o] = Home[q]
        => o = q
InsideEngaged == \A o \in inside : pc[o] \in Engaged

LInv == OneSessionPerProcess /\ InsideEngaged

(* What a step of session o does to its label and to the lease.            *)
Enters(o) == LockFree(o) /\ pc'[o] \in Engaged /\ Grant(o)
Remains(o) ==
    /\ pc[o] \in Engaged /\ pc'[o] \in Engaged
    /\ Commit(o) \/ UNCHANGED leaseVars
Quits(o) == pc'[o] = "idle" /\ Leave(o)
Tests(o) ==
    /\ pc[o] \in {"idle", "testing"} /\ pc'[o] \in {"idle", "testing"}
    /\ UNCHANGED leaseVars
Conducts(o) ==
    /\ \A q \in Owner : q # o => pc'[q] = pc[q]
    /\ Enters(o) \/ Remains(o) \/ Quits(o) \/ Tests(o)

LEMMA MovesConducts ==
    ASSUME Sessions, NEW o \in Owner, NEW l, Goto(o, l)
    PROVE  pc'[o] = l /\ \A q \in Owner : q # o => pc'[q] = pc[q]
BY DEF Sessions, Goto

LEMMA SessionConducts ==
    ASSUME Sessions, NEW o \in Owner,
           Session(o) \/ TestAnswer(o) \/ \E a \in Account : Ask(o, a) \/ Test(o, a)
    PROVE  Conducts(o)
<1> USE DEF Engaged, Pc, Writing, Checking
<1>1. CASE Start(o) \/ \E a \in Account : Ask(o, a)
  <2>1. \E l \in {"listing", "resolving", "inflight", "releasing"} : Goto(o, l)
    <3>1. ASSUME NEW a, NEW kind, NEW pages, Call(o, a, kind, pages)
          PROVE  Goto(o, "resolving") \/ Goto(o, "inflight")
      BY <3>1 DEF Call, EnterPages
    <3>2. CASE Start(o)
      BY <3>2 DEF Start
    <3>3. ASSUME NEW a \in Account, Ask(o, a)
          PROVE  Goto(o, "resolving") \/ Goto(o, "inflight") \/ Goto(o, "releasing")
      BY <3>1, <3>3 DEF Ask
    <3> QED BY <1>1, <3>2, <3>3
  <2>2. LockFree(o) /\ Grant(o)
    BY <1>1 DEF Start, Ask
  <2> QED BY <2>1, <2>2, MovesConducts DEF Conducts, Enters
<1>2. CASE Release(o)
  BY <1>2, MovesConducts DEF Release, Conducts, Quits
<1>3. CASE TestAnswer(o) \/ \E a \in Account : Test(o, a)
  BY <1>3, MovesConducts DEF TestAnswer, Test, leaseVars, Conducts, Tests
<1>4. CASE Pick(o)
  <2>1. pc[o] = "next" /\ UNCHANGED leaseVars
    BY <1>4 DEF Pick
  <2>2. UNCHANGED pc \/ \E l \in {"resolving", "inflight"} : Goto(o, l)
    BY <1>4 DEF Pick, Call, EnterPages
  <2> QED BY <2>1, <2>2, MovesConducts DEF Conducts, Remains
<1>5. CASE \/ ListDue(o) \/ Resolve(o) \/ RecordWorkspace(o) \/ Answer(o)
           \/ Fail(o) \/ Cancel(o) \/ Done(o) \/ Reject(o) \/ Interrupt(o)
           \/ NoteFailure(o)
  <2>1. pc[o] \in Engaged
    BY <1>5 DEF ListDue, Resolve, RecordWorkspace, Answer, Fail, Cancel, Done, Reject,
                Interrupt, NoteFailure
  <2>2. \E l \in Engaged : Goto(o, l)
    BY <1>5 DEF ListDue, Resolve, RecordWorkspace, Answer, Fail, Cancel, Done, Reject,
                Interrupt, NoteFailure, EndCall, Stop, EnterPages
  <2>3. Commit(o) \/ UNCHANGED leaseVars
    BY <1>5 DEF ListDue, Resolve, RecordWorkspace, Answer, Fail, Cancel, Done, Reject,
                Interrupt, NoteFailure
  <2> QED BY <2>1, <2>2, <2>3, MovesConducts DEF Conducts, Remains
<1>6. CASE \/ InsertNewest(o) \/ InsertEarlier(o) \/ MarkPage(o) \/ CountFirst(o)
           \/ ReadState(o) \/ WriteOk(o) \/ CountAgain(o)
  <2>1. pc[o] \in Engaged
    BY <1>6 DEF InsertNewest, InsertEarlier, MarkPage, CountFirst, ReadState, WriteOk,
                CountAgain, Store
  <2>2. \E l \in Engaged : Goto(o, l)
    BY <1>6 DEF InsertNewest, InsertEarlier, MarkPage, CountFirst, ReadState, WriteOk,
                CountAgain, Turn, EndCall
  <2>3. Commit(o) \/ UNCHANGED leaseVars
    BY <1>6 DEF InsertNewest, InsertEarlier, MarkPage, CountFirst, ReadState, WriteOk,
                CountAgain, Store, Count
  <2> QED BY <2>1, <2>2, <2>3, MovesConducts DEF Conducts, Remains
<1> QED BY <1>1, <1>2, <1>3, <1>4, <1>5, <1>6 DEF Session

(* Whatever is outside the sessions leaves them and, but for a lapse, the  *)
(* lease alone.                                                            *)
LEMMA OutsideConducts ==
    ASSUME \/ \E s \in Space : Arrive(s)
           \/ \E a \in Account : Create(a) \/ Update(a) \/ Delete(a)
           \/ Expire \/ UNCHANGED vars
    PROVE  UNCHANGED pc /\ (Lapse \/ UNCHANGED leaseVars)
<1>1. ASSUME NEW s \in Space, Arrive(s) PROVE UNCHANGED <<pc, leaseVars>>
  BY <1>1 DEF Arrive, sessionVars
<1>2. ASSUME NEW a \in Account, Create(a) \/ Update(a) \/ Delete(a)
      PROVE  UNCHANGED <<pc, leaseVars>>
  <2>1. CASE Create(a) \/ Delete(a)
    BY <2>1 DEF Create, Delete, sessionVars
  <2>2. CASE Update(a)
    BY <2>2 DEF Update, sessionVars
  <2> QED BY <1>2, <2>1, <2>2
<1>3. CASE Expire
  BY <1>3 DEF Expire, sessionVars
<1>4. CASE UNCHANGED vars
  BY <1>4 DEF vars, sessionVars
<1> QED BY <1>1, <1>2, <1>3, <1>4

(* A process that dies had one session at most: the lease sees it leave,   *)
(* or sees nothing.                                                        *)
LEMMA CrashLeaves ==
    ASSUME LInv, LeaseTypeOK, NEW h \in Process, Crash(h)
    PROVE  (\E o \in Owner : Leave(o)) \/ UNCHANGED leaseVars
<1> DEFINE gone == {o \in Owner : Home[o] = h}
<1>1. inside' = inside \ gone /\ committed' = committed \ gone /\ holder' = holder
  BY DEF Crash
<1>2. CASE \E o \in inside : Home[o] = h
  <2>1. PICK o \in inside : Home[o] = h
    BY <1>2
  <2>2. o \in Owner /\ inside \cap gone = {o}
    BY <2>1 DEF LInv, OneSessionPerProcess, InsideEngaged, LeaseTypeOK
  <2>3. inside' = inside \ {o} /\ committed' = committed \ {o}
    BY <1>1, <2>2 DEF LeaseTypeOK
  <2> QED BY <1>1, <2>1, <2>2, <2>3 DEF Leave
<1>3. CASE ~\E o \in inside : Home[o] = h
  BY <1>1, <1>3 DEF LeaseTypeOK, leaseVars
<1> QED BY <1>2, <1>3

LEMMA StepLInv == IInv /\ LInv /\ [Next]_vars => LInv'
<1> SUFFICES ASSUME IInv, LInv, [Next]_vars PROVE LInv'
  OBVIOUS
<1>0. LeaseTypeOK /\ Sessions
  BY TypeParts DEF IInv
<1>1. ASSUME NEW o \in Owner, Conducts(o) PROVE LInv'
  <2>1. CASE Enters(o)
    <3>1. \A q \in Owner : q # o /\ Home[q] = Home[o] => pc'[q] \notin Engaged
      BY <1>1, <2>1 DEF Conducts, Enters, LockFree, Engaged
    <3>2. OneSessionPerProcess'
      BY <1>1, <3>1 DEF Conducts, LInv, OneSessionPerProcess
    <3>3. InsideEngaged'
      BY <1>0, <1>1, <2>1 DEF Conducts, Enters, Grant, LInv, InsideEngaged, LeaseTypeOK
    <3> QED BY <3>2, <3>3 DEF LInv
  <2>2. CASE Remains(o) \/ Quits(o) \/ Tests(o)
    <3>1. pc'[o] \in Engaged => pc[o] \in Engaged
      BY <2>2 DEF Remains, Quits, Tests, Engaged
    <3>2. OneSessionPerProcess'
      BY <1>1, <3>1 DEF Conducts, LInv, OneSessionPerProcess
    <3>3. InsideEngaged'
      BY <1>0, <1>1, <2>2 DEF Conducts, Remains, Quits, Tests, Commit, Leave, leaseVars,
                              LInv, InsideEngaged, LeaseTypeOK, Engaged
    <3> QED BY <3>2, <3>3 DEF LInv
  <2> QED BY <1>1, <2>1, <2>2 DEF Conducts
<1>2. CASE UNCHANGED pc /\ (Lapse \/ UNCHANGED leaseVars)
  BY <1>2 DEF Lapse, leaseVars, LInv, OneSessionPerProcess, InsideEngaged
<1>3. ASSUME NEW h \in Process, Crash(h) PROVE LInv'
  <2>1. \A o \in Owner : /\ Home[o] = h => pc'[o] \notin Engaged
                         /\ Home[o] # h => pc'[o] = pc[o]
    <3>1. \A o \in Owner : pc'[o] = IF Home[o] = h THEN "dead" ELSE pc[o]
      BY <1>3 DEF Crash
    <3>2. "dead" \notin Engaged
      BY DEF Engaged
    <3> QED BY <3>1, <3>2
  <2>2. \A o \in inside' : o \in inside /\ Home[o] # h
    <3>1. inside' = inside \ {o \in Owner : Home[o] = h}
      BY <1>3 DEF Crash
    <3> QED BY <1>0, <3>1 DEF LeaseTypeOK
  <2>3. OneSessionPerProcess'
    BY <2>1 DEF LInv, OneSessionPerProcess
  <2>4. InsideEngaged'
    BY <1>0, <2>1, <2>2 DEF LInv, InsideEngaged, LeaseTypeOK
  <2> QED BY <2>3, <2>4 DEF LInv
<1>4. ASSUME NEW o \in Owner,
             Session(o) \/ TestAnswer(o) \/ \E a \in Account : Ask(o, a) \/ Test(o, a)
      PROVE  LInv'
  BY <1>0, <1>1, <1>4, SessionConducts
<1>5. CASE \/ \E s \in Space : Arrive(s)
           \/ \E a \in Account : Create(a) \/ Update(a) \/ Delete(a)
           \/ Expire \/ UNCHANGED vars
  BY <1>2, <1>5, OutsideConducts
<1> QED BY <1>3, <1>4, <1>5 DEF Next

LEMMA LeaseInductive == Spec => [](IInv /\ LInv)
<1>1. Init => LInv
  BY DEF Init, LeaseInit, LInv, OneSessionPerProcess, InsideEngaged, Engaged
<1> QED BY <1>1, InitIInv, StepIInv, StepLInv, PTL DEF Spec

(* main.py 103-118, 608, 665: the loop of a process and the requests it    *)
(* serves never work at once, also while leases lapse under them.          *)
THEOREM OneAtATime == Spec => []OneSessionPerProcess
<1>1. LInv => OneSessionPerProcess
  BY DEF LInv
<1> QED BY <1>1, LeaseInductive, PTL

(* Synchronization uses the lease as Lease allows: with the refinement     *)
(* proved of SchedulerLease, what it relies on is what the table gives.    *)
THEOREM KeepsTheLease == Spec => LeaseSpec
<1>1. Init => LeaseInit
  BY DEF Init
<1>2. IInv /\ LInv /\ [Next]_vars => [LeaseNext]_leaseVars
  <2> SUFFICES ASSUME IInv, LInv, [Next]_vars PROVE [LeaseNext]_leaseVars
    OBVIOUS
  <2>0. LeaseTypeOK /\ Sessions
    BY TypeParts DEF IInv
  <2>1. ASSUME NEW o \in Owner, Conducts(o) PROVE [LeaseNext]_leaseVars
    BY <2>1 DEF Conducts, Enters, Remains, Quits, Tests, LeaseNext
  <2>2. CASE UNCHANGED pc /\ (Lapse \/ UNCHANGED leaseVars)
    BY <2>2 DEF LeaseNext
  <2>3. ASSUME NEW h \in Process, Crash(h) PROVE [LeaseNext]_leaseVars
    BY <2>0, <2>3, CrashLeaves DEF LeaseNext
  <2>4. ASSUME NEW o \in Owner,
               Session(o) \/ TestAnswer(o) \/ \E a \in Account : Ask(o, a) \/ Test(o, a)
        PROVE  [LeaseNext]_leaseVars
    BY <2>0, <2>1, <2>4, SessionConducts
  <2>5. CASE \/ \E s \in Space : Arrive(s)
             \/ \E a \in Account : Create(a) \/ Update(a) \/ Delete(a)
             \/ Expire \/ UNCHANGED vars
    BY <2>2, <2>5, OutsideConducts
  <2> QED BY <2>3, <2>4, <2>5 DEF Next
<1> QED BY <1>1, <1>2, LeaseInductive, PTL DEF Spec, LeaseSpec
===============================================================================
