---------------------------- MODULE UsageTaskProofs ----------------------------
(***************************************************************************)
(* Proofs about UsageTask for any processes, requests and settings: its    *)
(* types, one loop in a process, and a loop when the settings want one.    *)
(***************************************************************************)
EXTENDS UsageTask, WellFoundedInduction, TLAPS

USE TaskAssumption

(* A set of naturals that is not empty has a least element.                *)
LEMMA Least ==
    ASSUME NEW S \in SUBSET Nat, S # {}
    PROVE  \E x \in S : \A y \in S : x <= y
<1>1. PICK x \in S : \A y \in S : <<y, x>> \notin OpToRel(<, Nat)
  BY WFMin, NatLessThanWellFounded
<1>2. \A y \in S : ~(y < x)
  BY <1>1 DEF OpToRel
<1> QED BY <1>2

(* A loop that is created takes a place that is not in use.                *)
LEMMA FreshUnused ==
    ASSUME NEW p \in Proc, Unused(p) # {}
    PROVE  Fresh(p) \in Loop /\ loops[p][Fresh(p)] = "none"
<1>1. Unused(p) \in SUBSET Nat
  BY DEF Unused, Loop
<1>2. Fresh(p) \in Unused(p)
  <2>1. \E i \in Unused(p) : \A j \in Unused(p) : i <= j
    BY <1>1, Least
  <2> QED BY <2>1 DEF Fresh
<1> QED BY <1>2 DEF Unused

-------------------------------------------------------------------------------
(* Types.                                                                  *)

Loops == [Proc -> [Loop -> Task]]

(* A request is somewhere exactly while it is under way, in a process that *)
(* runs; a process that is down has no task and no request.                *)
Placed ==
    /\ \A r \in Request : req[r].pc = "idle" <=> req[r].at = Nobody
    /\ \A r \in Request : req[r].pc # "idle" => up[req[r].at] = "up"
    /\ \A p \in Proc : up[p] = "down" => handle[p] = 0 /\ ~doubled[p]

Typed == TypeOK /\ Placed

(* Where a request under way is.                                           *)
LEMMA At ==
    ASSUME Typed, NEW r \in Request, req[r].pc # "idle"
    PROVE  req[r].at \in Proc /\ up[req[r].at] = "up"
  BY DEF Typed, TypeOK, Placed, Req

LEMMA CancelTyped ==
    ASSUME loops \in Loops, NEW p \in Proc
    PROVE  /\ CancelLoop(p) \in Loops
           /\ \A q \in Proc, i \in Loop :
                 CancelLoop(p)[q][i] = IF q = p /\ i = handle[p]
                                       THEN Cancelled(loops[q][i]) ELSE loops[q][i]
<1>1. \A t \in Task : Cancelled(t) \in Task
  BY DEF Cancelled, Task
<1> QED BY <1>1 DEF CancelLoop, Loops

(* What CreateLoop does: no loop if the settings want none, or one more.   *)
LEMMA CreateEffect ==
    ASSUME loops \in Loops, handle \in [Proc -> 0..MaxLoop],
           NEW p \in Proc, CreateLoop(p)
    PROVE  /\ loops' \in Loops /\ handle' \in [Proc -> 0..MaxLoop]
           /\ \A q \in Proc : q # p => handle'[q] = handle[q]
           /\ \A q \in Proc, j \in Loop : q # p => loops'[q][j] = loops[q][j]
           /\ \/ /\ stored = Off /\ handle'[p] = 0
                 /\ loops' = loops
              \/ /\ stored # Off /\ handle'[p] \in Loop
                 /\ loops[p][handle'[p]] = "none"
                 /\ \A j \in Loop : loops'[p][j] =
                        IF j = handle'[p] THEN "runs" ELSE loops[p][j]
<1>1. CASE stored = Off
  <2>1. handle' = [handle EXCEPT ![p] = 0] /\ loops' = loops
    BY <1>1 DEF CreateLoop
  <2> QED BY <1>1, <2>1
<1>2. CASE stored # Off
  <2>1. /\ Unused(p) # {}
        /\ handle' = [handle EXCEPT ![p] = Fresh(p)]
        /\ loops' = [loops EXCEPT ![p][Fresh(p)] = "runs"]
    BY <1>2 DEF CreateLoop
  <2>2. Fresh(p) \in Loop /\ loops[p][Fresh(p)] = "none"
    BY <2>1, FreshUnused
  <2> DEFINE f == Fresh(p)
  <2>3. f \in Loop /\ f \in 0..MaxLoop /\ loops[p][f] = "none"
    BY <2>2 DEF Loop
  <2>4. handle' = [handle EXCEPT ![p] = f] /\ loops' = [loops EXCEPT ![p][f] = "runs"]
    BY <2>1
  <2> HIDE DEF f
  <2>5. /\ handle' \in [Proc -> 0..MaxLoop] /\ handle'[p] = f
        /\ \A q \in Proc : q # p => handle'[q] = handle[q]
    BY <2>3, <2>4
  <2>6. /\ loops' \in Loops
        /\ \A q \in Proc, j \in Loop :
              loops'[q][j] = IF q = p /\ j = f THEN "runs" ELSE loops[q][j]
    <3>1. "runs" \in Task
      BY DEF Task
    <3> QED BY <2>3, <2>4, <3>1 DEF Loops
  <2> QED BY <1>2, <2>3, <2>5, <2>6
<1> QED BY <1>1, <1>2

LEMMA RequestTyped ==
    /\ NoReq \in Req
    /\ \A q \in Req, pc \in {"idle", "waiting", "resuming"} \cup Sync :
          [q EXCEPT !.pc = pc] \in Req
    /\ \A p \in Proc, pc \in {"idle", "waiting", "resuming"} \cup Sync, l \in 0..MaxLoop :
          [NoReq EXCEPT !.pc = pc, !.at = p, !.loop = l] \in Req
    /\ \A p \in Proc, b \in Settings :
          [NoReq EXCEPT !.pc = "loading", !.at = p, !.before = b] \in Req
    /\ \A q \in Req, n \in Settings :
          /\ [q EXCEPT !.pc = "saving", !.next = n] \in Req
          /\ [q EXCEPT !.pc = "comparing", !.next = n] \in Req
<1>1. NoReq \in Req
  BY DEF NoReq, Req
<1>2. \A q \in Req, pc \in {"idle", "waiting", "resuming"} \cup Sync :
          [q EXCEPT !.pc = pc] \in Req
  BY DEF Req
<1>3. \A p \in Proc, pc \in {"idle", "waiting", "resuming"} \cup Sync, l \in 0..MaxLoop :
          [NoReq EXCEPT !.pc = pc, !.at = p, !.loop = l] \in Req
  BY <1>1 DEF Req
<1>4. \A p \in Proc, b \in Settings :
          [NoReq EXCEPT !.pc = "loading", !.at = p, !.before = b] \in Req
  BY <1>1 DEF Req, Sync
<1>5. \A q \in Req, n \in Settings :
          /\ [q EXCEPT !.pc = "saving", !.next = n] \in Req
          /\ [q EXCEPT !.pc = "comparing", !.next = n] \in Req
  BY DEF Req, Sync
<1> QED BY <1>1, <1>2, <1>3, <1>4, <1>5

LEMMA InitTyped == Init => Typed
<1> SUFFICES ASSUME Init PROVE Typed
  OBVIOUS
<1>1. req \in [Request -> Req]
  BY RequestTyped DEF Init
<1>2. TypeOK
  <2>1. loops \in Loops /\ handle \in [Proc -> 0..MaxLoop]
    BY DEF Init, Loops, Task
  <2>2. \A p \in Proc : \A i \in Loop : loops[p][i] = "none"
    BY DEF Init
  <2>3. /\ stored \in Settings /\ up \in [Proc -> {"down", "up", "stopping"}]
        /\ crossed \in BOOLEAN /\ doubled \in [Proc -> BOOLEAN]
    BY DEF Init
  <2> QED BY <1>1, <2>1, <2>2, <2>3 DEF TypeOK, Loops
<1>3. Placed
  BY DEF Init, Placed, NoReq
<1> QED BY <1>2, <1>3 DEF Typed

(* The end of a process.                                                   *)
LEMMA GoneTyped ==
    ASSUME Typed, NEW p \in Proc, Gone(p)
    PROVE  Typed'
<1>1. req' \in [Request -> Req]
  BY RequestTyped DEF Typed, TypeOK, Gone
<1>2. TypeOK'
  BY <1>1 DEF Typed, TypeOK, Gone, Task
<1>3. Placed'
  <2>1. ASSUME NEW r \in Request
        PROVE  /\ req'[r].pc = "idle" <=> req'[r].at = Nobody
               /\ req'[r].pc # "idle" => up'[req'[r].at] = "up"
    <3>1. CASE req[r].at = p
      <4>1. req'[r] = NoReq
        BY <3>1 DEF Gone
      <4> QED BY <4>1 DEF NoReq
    <3>2. CASE req[r].at # p
      <4>1. req'[r] = req[r]
        BY <3>2 DEF Gone
      <4>2. req[r].pc # "idle" => req[r].at \in Proc /\ up[req[r].at] = "up"
        BY At
      <4> QED BY <3>2, <4>1, <4>2 DEF Gone, Typed, TypeOK, Placed
    <3> QED BY <3>1, <3>2
  <2>2. \A q \in Proc : up'[q] = "down" => handle'[q] = 0 /\ ~doubled'[q]
    BY DEF Gone, Typed, TypeOK, Placed
  <2> QED BY <2>1, <2>2 DEF Placed
<1> QED BY <1>2, <1>3 DEF Typed

LEMMA ProcessTyped ==
    ASSUME Typed, NEW p \in Proc, Start(p) \/ Shutdown(p) \/ Stop(p) \/ Crash(p)
    PROVE  Typed'
<1>1. CASE Start(p)
  <2>0. loops \in Loops /\ handle \in [Proc -> 0..MaxLoop] /\ CreateLoop(p)
    BY <1>1 DEF Typed, TypeOK, Loops, Start
  <2>1. /\ loops' \in Loops /\ handle' \in [Proc -> 0..MaxLoop]
        /\ \A q \in Proc : q # p => handle'[q] = handle[q]
        /\ \A q \in Proc, j \in Loop : q # p => loops'[q][j] = loops[q][j]
    BY <2>0, CreateEffect
  <2>2. TypeOK'
    <3>1. /\ up' = [up EXCEPT ![p] = "up"]
          /\ UNCHANGED <<stored, req, crossed, doubled>>
      BY <1>1 DEF Start
    <3>2. /\ up' \in [Proc -> {"down", "up", "stopping"}]
          /\ \A q \in Proc : up'[q] = "down" => q # p /\ up[q] = "down"
      BY <3>1 DEF Typed, TypeOK
    <3>3. \A q \in Proc : up'[q] = "down" => \A i \in Loop : loops'[q][i] = "none"
      BY <2>1, <3>2 DEF Typed, TypeOK
    <3> QED BY <2>1, <3>1, <3>2, <3>3 DEF Typed, TypeOK, Loops
  <2>3. Placed'
    <3>1. /\ up' = [up EXCEPT ![p] = "up"] /\ up \in [Proc -> {"down", "up", "stopping"}]
          /\ req' = req /\ doubled' = doubled
      BY <1>1 DEF Start, Typed, TypeOK
    <3>2. \A r \in Request : req[r].pc # "idle" => up'[req[r].at] = "up"
      BY <3>1, At
    <3> QED BY <2>1, <3>1, <3>2 DEF Typed, Placed
  <2> QED BY <2>2, <2>3 DEF Typed
<1>2. CASE Shutdown(p)
  <2>0. loops \in Loops
    BY DEF Typed, TypeOK, Loops
  <2>1. /\ loops' \in Loops
        /\ \A q \in Proc : q # p => loops'[q] = loops[q]
    <3>1. loops' = CancelLoop(p)
      BY <1>2 DEF Shutdown
    <3>2. \A q \in Proc : q # p => CancelLoop(p)[q] = loops[q]
      BY <2>0 DEF CancelLoop, Loops
    <3> QED BY <2>0, <3>1, <3>2, CancelTyped
  <2>2. TypeOK'
    <3>1. /\ up' = [up EXCEPT ![p] = "stopping"]
          /\ UNCHANGED <<stored, handle, req, crossed, doubled>>
      BY <1>2 DEF Shutdown
    <3>2. /\ up' \in [Proc -> {"down", "up", "stopping"}]
          /\ \A q \in Proc : up'[q] = "down" => q # p /\ up[q] = "down"
      BY <3>1 DEF Typed, TypeOK
    <3>3. \A q \in Proc : up'[q] = "down" => \A i \in Loop : loops'[q][i] = "none"
      BY <2>1, <3>2 DEF Typed, TypeOK
    <3> QED BY <2>1, <3>1, <3>2, <3>3 DEF Typed, TypeOK, Loops
  <2>3. Placed'
    BY <1>2, At DEF Typed, TypeOK, Placed, Shutdown
  <2> QED BY <2>2, <2>3 DEF Typed
<1>3. CASE Stop(p) \/ Crash(p)
  BY <1>3, GoneTyped DEF Stop, Crash
<1> QED BY <1>1, <1>2, <1>3

LEMMA RequestsTyped ==
    ASSUME Typed, NEW r \in Request, Handle(r) \/ \E p \in Proc : Put(r, p)
    PROVE  Typed'
<1>0. /\ loops \in Loops /\ handle \in [Proc -> 0..MaxLoop]
      /\ req \in [Request -> Req] /\ stored \in Settings
      /\ up \in [Proc -> {"down", "up", "stopping"}]
      /\ doubled \in [Proc -> BOOLEAN] /\ crossed \in BOOLEAN
  BY DEF Typed, TypeOK, Loops
<1>a. ASSUME NEW q \in Req, req' = [req EXCEPT ![r] = q], up' = up,
             q.pc = "idle" => q.at = Nobody,
             q.pc # "idle" => q.at \in Proc /\ up[q.at] = "up",
             \A p \in Proc : up[p] = "down" => handle'[p] = 0 /\ ~doubled'[p]
      PROVE  req' \in [Request -> Req] /\ Placed'
  <2>1. req' \in [Request -> Req]
    BY <1>0, <1>a
  <2>2. ASSUME NEW s \in Request
        PROVE  /\ req'[s].pc = "idle" <=> req'[s].at = Nobody
               /\ req'[s].pc # "idle" => up'[req'[s].at] = "up"
    <3>1. CASE s = r
      BY <1>0, <1>a, <3>1
    <3>2. CASE s # r
      <4>1. req'[s] = req[s]
        BY <1>0, <1>a, <3>2
      <4> QED BY <1>a, <4>1 DEF Typed, Placed
    <3> QED BY <3>1, <3>2
  <2> QED BY <1>a, <2>1, <2>2 DEF Placed
<1>b. \A p \in Proc : up[p] = "down" => handle[p] = 0 /\ ~doubled[p]
  BY DEF Typed, Placed
<1>c. req[r] \in Req /\ (req[r].pc # "idle" => req[r].at \in Proc /\ up[req[r].at] = "up")
  BY <1>0, At
<1>1. ASSUME NEW p \in Proc, Put(r, p) PROVE Typed'
  <2> DEFINE q == [NoReq EXCEPT !.pc = "loading", !.at = p, !.before = stored]
  <2>1. q \in Req
    BY <1>0, RequestTyped
  <2>2. q.pc = "loading" /\ q.at = p
    BY DEF NoReq
  <2>3. /\ req' = [req EXCEPT ![r] = q] /\ up[p] = "up"
        /\ UNCHANGED <<stored, up, loops, handle, crossed, doubled>>
    BY <1>1 DEF Put
  <2> HIDE DEF q
  <2>4. req' \in [Request -> Req] /\ Placed'
    BY <1>a, <1>b, <2>1, <2>2, <2>3
  <2> QED BY <2>3, <2>4 DEF Typed, TypeOK
<1>2. CASE Load(r)
  <2>1. /\ req[r].pc = "loading"
        /\ UNCHANGED <<stored, up, loops, handle, crossed, doubled>>
    BY <1>2 DEF Load
  <2>2. PICK next \in Settings : req' = [req EXCEPT ![r] =
            IF next = stored THEN [@ EXCEPT !.pc = "comparing"]
                             ELSE [@ EXCEPT !.pc = "saving", !.next = next]]
    BY <1>2 DEF Load
  <2> DEFINE q == IF next = stored THEN [req[r] EXCEPT !.pc = "comparing"]
                                   ELSE [req[r] EXCEPT !.pc = "saving", !.next = next]
  <2>3. q \in Req
    BY <1>c, RequestTyped DEF Sync
  <2>4. q.pc # "idle" /\ q.at = req[r].at
    BY <1>c DEF Req
  <2>5. req' = [req EXCEPT ![r] = q]
    BY <1>0, <2>2
  <2> HIDE DEF q
  <2>6. req' \in [Request -> Req] /\ Placed'
    BY <1>a, <1>b, <1>c, <2>1, <2>3, <2>4, <2>5
  <2> QED BY <2>1, <2>6 DEF Typed, TypeOK
<1>3. CASE Save(r)
  <2> DEFINE q == [req[r] EXCEPT !.pc = "comparing", !.next = Off]
  <2>1. /\ req[r].pc = "saving" /\ stored' = req[r].next
        /\ req' = [req EXCEPT ![r] = q]
        /\ crossed' \in BOOLEAN
        /\ UNCHANGED <<up, loops, handle, doubled>>
    BY <1>3 DEF Save
  <2>2. stored' \in Settings
    BY <1>c, <2>1 DEF Req
  <2>3. q \in Req
    BY <1>c, RequestTyped
  <2>4. q.pc # "idle" /\ q.at = req[r].at
    BY <1>c DEF Req
  <2> HIDE DEF q
  <2>5. req' \in [Request -> Req] /\ Placed'
    BY <1>a, <1>b, <1>c, <2>1, <2>3, <2>4
  <2> QED BY <2>1, <2>2, <2>5 DEF Typed, TypeOK
<1>4. CASE Compare(r)
  <2>1. req[r].pc = "comparing" /\ UNCHANGED <<stored, up, handle, crossed, doubled>>
    BY <1>4 DEF Compare
  <2>2. CASE stored = req[r].before
    <3>1. req' = [req EXCEPT ![r] = NoReq] /\ loops' = loops
      BY <1>4, <2>2 DEF Compare
    <3>2. NoReq \in Req /\ NoReq.pc = "idle" /\ NoReq.at = Nobody
      BY RequestTyped DEF NoReq
    <3>3. req' \in [Request -> Req] /\ Placed'
      BY <1>a, <1>b, <2>1, <3>1, <3>2
    <3> QED BY <2>1, <3>1, <3>3 DEF Typed, TypeOK
  <2>3. CASE stored # req[r].before
    <3> DEFINE p == req[r].at
               w == IF Ended(p) THEN "creating" ELSE "waiting"
               q == [NoReq EXCEPT !.pc = w, !.at = p, !.loop = handle[p]]
    <3>1. req' = [req EXCEPT ![r] = q] /\ loops' = CancelLoop(p)
      BY <1>4, <2>3 DEF Compare, Moved
    <3>2. p \in Proc /\ up[p] = "up"
      BY <1>c, <2>1
    <3>3. q \in Req
      BY <1>0, <3>2, RequestTyped DEF Sync
    <3>4. q.pc # "idle" /\ q.at = p
      BY DEF NoReq
    <3> HIDE DEF q, p
    <3>5. req' \in [Request -> Req] /\ Placed'
      BY <1>a, <1>b, <2>1, <3>1, <3>2, <3>3, <3>4
    <3>6. loops' \in Loops /\ \A x \in Proc, i \in Loop :
              loops[x][i] = "none" => loops'[x][i] = "none"
      BY <1>0, <3>1, <3>2, CancelTyped DEF Cancelled
    <3> QED BY <2>1, <3>5, <3>6 DEF Typed, TypeOK, Loops
  <2> QED BY <2>2, <2>3
<1>5. CASE Create(r)
  <2> DEFINE p == req[r].at
  <2>1. /\ CreateLoop(p) /\ req[r].pc # "idle"
        /\ doubled' = [doubled EXCEPT ![p] = @ \/ (req[r].pc = "resuming" /\ ~Ended(p))]
        /\ req' = [req EXCEPT ![r] = NoReq] /\ UNCHANGED <<stored, up, crossed>>
    BY <1>5 DEF Create
  <2>2. p \in Proc /\ up[p] = "up"
    BY <1>c, <2>1
  <2> HIDE DEF p
  <2>3. /\ loops' \in Loops /\ handle' \in [Proc -> 0..MaxLoop]
        /\ \A q \in Proc : q # p => handle'[q] = handle[q]
        /\ \A q \in Proc, j \in Loop : q # p => loops'[q][j] = loops[q][j]
    BY <1>0, <2>1, <2>2, CreateEffect
  <2>4. doubled' \in [Proc -> BOOLEAN] /\ \A q \in Proc : q # p => doubled'[q] = doubled[q]
    BY <1>0, <2>1, Zenon
  <2>5. NoReq \in Req /\ NoReq.pc = "idle" /\ NoReq.at = Nobody
    BY RequestTyped DEF NoReq
  <2>6. \A q \in Proc : up[q] = "down" => handle'[q] = 0 /\ ~doubled'[q]
    BY <1>b, <2>2, <2>3, <2>4
  <2>7. req' \in [Request -> Req] /\ Placed'
    BY <1>a, <2>1, <2>5, <2>6
  <2>8. \A q \in Proc : up'[q] = "down" => \A i \in Loop : loops'[q][i] = "none"
    BY <2>1, <2>2, <2>3 DEF Typed, TypeOK
  <2> QED BY <1>0, <2>1, <2>3, <2>4, <2>7, <2>8 DEF Typed, TypeOK, Loops
<1> QED BY <1>1, <1>2, <1>3, <1>4, <1>5 DEF Handle

LEMMA LoopTyped ==
    ASSUME Typed, NEW p \in Proc, NEW i \in Loop, UsageLoop(p, i)
    PROVE  Typed'
<1>0. /\ loops \in Loops /\ req \in [Request -> Req] /\ up[p] # "down"
      /\ UNCHANGED <<stored, up, handle, crossed, doubled>>
  BY DEF Typed, TypeOK, Loops, UsageLoop, Free
<1>1. PICK t \in Task : loops' = [loops EXCEPT ![p][i] = t]
  BY DEF UsageLoop, EndCycle, Released, EndLoop, Become, Task
<1>2. loops' \in Loops /\ \A q \in Proc, j \in Loop : q # p => loops'[q][j] = loops[q][j]
  BY <1>0, <1>1 DEF Loops
<1>3. req' \in [Request -> Req] /\ Placed'
  <2>1. CASE req' = req
    BY <1>0, <2>1 DEF Typed, TypeOK, Placed
  <2>2. CASE EndLoop(p, i)
    <3>1. req' = [r \in Request |->
            IF req[r].pc = "waiting" /\ req[r].at = p /\ req[r].loop = i
            THEN [req[r] EXCEPT !.pc = "resuming"] ELSE req[r]]
      BY <2>2 DEF EndLoop
    <3>2. ASSUME NEW r \in Request
          PROVE  /\ req'[r] \in Req /\ req'[r].at = req[r].at
                 /\ req'[r].pc = "idle" <=> req[r].pc = "idle"
      <4>1. CASE req[r].pc = "waiting" /\ req[r].at = p /\ req[r].loop = i
        <5>1. req'[r] = [req[r] EXCEPT !.pc = "resuming"]
          BY <3>1, <4>1
        <5>2. req[r] \in Req
          BY <1>0
        <5>3. [req[r] EXCEPT !.pc = "resuming"] \in Req
          BY <5>2, RequestTyped
        <5>4. req'[r].pc = "resuming" /\ req'[r].at = req[r].at
          BY <5>1, <5>2 DEF Req
        <5> QED BY <4>1, <5>1, <5>3, <5>4
      <4>2. CASE ~(req[r].pc = "waiting" /\ req[r].at = p /\ req[r].loop = i)
        <5>1. req'[r] = req[r]
          BY <3>1, <4>2
        <5> QED BY <1>0, <5>1
      <4> QED BY <4>1, <4>2
    <3>3. req' \in [Request -> Req]
      BY <3>1, <3>2
    <3>4. Placed'
      BY <1>0, <3>2 DEF Typed, Placed
    <3> QED BY <3>3, <3>4
  <2> QED BY <2>1, <2>2 DEF UsageLoop, EndCycle, Released
<1>4. \A q \in Proc : up'[q] = "down" => \A j \in Loop : loops'[q][j] = "none"
  BY <1>0, <1>2 DEF Typed, TypeOK
<1> QED BY <1>0, <1>2, <1>3, <1>4 DEF Typed, TypeOK, Loops

LEMMA TypedStep == Typed /\ [Next]_vars => Typed'
<1> SUFFICES ASSUME Typed, [Next]_vars PROVE Typed'
  OBVIOUS
<1>1. ASSUME NEW p \in Proc, Start(p) \/ Shutdown(p) \/ Stop(p) \/ Crash(p) PROVE Typed'
  BY <1>1, ProcessTyped
<1>2. ASSUME NEW p \in Proc, NEW i \in Loop, UsageLoop(p, i) PROVE Typed'
  BY <1>2, LoopTyped
<1>3. ASSUME NEW r \in Request, Handle(r) \/ \E p \in Proc : Put(r, p) PROVE Typed'
  BY <1>3, RequestsTyped
<1>4. CASE UNCHANGED vars
  BY <1>4 DEF vars, Typed, TypeOK, Placed
<1> QED BY <1>1, <1>2, <1>3, <1>4 DEF Next

(* What is stored, the processes, their tasks and the requests under way   *)
(* keep their types; a process that is down has no task.                   *)
THEOREM TypeCorrect == Spec => []TypeOK
<1>1. Spec => []Typed
  BY InitTyped, TypedStep, PTL DEF Spec
<1> QED BY <1>1, PTL DEF Typed

-------------------------------------------------------------------------------
(* One loop in a process.                                                  *)

(* One request of a process at most is between two of its awaits.          *)
OneAtATime ==
    \A r, s \in Request :
        req[r].pc \in Sync /\ req[s].pc \in Sync /\ req[r].at = req[s].at => r = s

(* A process that no two restarts wait in has its _sync_task for a loop or *)
(* none, and that one has ended when a request creates the next.           *)
OnlyHandle(p) ==
    ~doubled[p] =>
        /\ \A i \in Loop : loops[p][i] # "none" => i = handle[p]
        /\ \A r \in Request : req[r].at = p /\ req[r].pc = "creating" => Ended(p)

(* A request waits for a task that has not ended yet.                      *)
Awaits(r) ==
    req[r].pc = "waiting" => /\ req[r].loop \in Loop
                             /\ loops[req[r].at][req[r].loop] # "none"

Single ==
    /\ OneAtATime
    /\ \A p \in Proc : OnlyHandle(p)
    /\ \A r \in Request : Awaits(r)

LEMMA ProcessSingle ==
    ASSUME Typed, Single, NEW p \in Proc,
           Start(p) \/ Shutdown(p) \/ Gone(p)
    PROVE  Single'
<1>0. /\ loops \in Loops /\ handle \in [Proc -> 0..MaxLoop]
      /\ req \in [Request -> Req] /\ up \in [Proc -> {"down", "up", "stopping"}]
      /\ doubled \in [Proc -> BOOLEAN]
  BY DEF Typed, TypeOK, Loops
<1>1. CASE Start(p)
  <2>0. CreateLoop(p) /\ UNCHANGED <<req, doubled>> /\ up[p] = "down"
    BY <1>1 DEF Start
  <2>1. /\ \A q \in Proc : q # p => handle'[q] = handle[q]
        /\ \A q \in Proc, j \in Loop : q # p => loops'[q][j] = loops[q][j]
    BY <1>0, <2>0, CreateEffect
  <2>2. \A r \in Request : req[r].pc # "idle" => req[r].at # p /\ req[r].at \in Proc
    BY <2>0, At
  <2>3. \A i \in Loop : loops[p][i] = "none"
    BY <2>0 DEF Typed, TypeOK
  <2>4. OnlyHandle(p)'
    <3>1. \A i \in Loop : loops'[p][i] # "none" => i = handle'[p]
      BY <1>0, <2>0, <2>3, CreateEffect
    <3> QED BY <2>0, <2>2, <3>1 DEF OnlyHandle
  <2>5. ASSUME NEW q \in Proc, q # p PROVE OnlyHandle(q)'
    BY <2>0, <2>1, <2>5 DEF Single, OnlyHandle, Ended
  <2>6. \A r \in Request : Awaits(r)'
    BY <2>0, <2>1, <2>2 DEF Single, Awaits
  <2> QED BY <2>0, <2>4, <2>5, <2>6 DEF Single, OneAtATime
<1>2. CASE Shutdown(p)
  <2>1. loops' = CancelLoop(p) /\ UNCHANGED <<handle, req, doubled>>
    BY <1>2 DEF Shutdown
  <2>2. \A q \in Proc, i \in Loop : loops'[q][i] = "none" <=> loops[q][i] = "none"
    BY <1>0, <2>1, CancelTyped DEF Cancelled
  <2>3. \A q \in Proc : OnlyHandle(q)'
    BY <2>1, <2>2 DEF Single, OnlyHandle, Ended
  <2>4. \A r \in Request : Awaits(r)'
    BY <2>1, <2>2, At DEF Single, Awaits
  <2> QED BY <2>1, <2>3, <2>4 DEF Single, OneAtATime
<1>3. CASE Gone(p)
  <2>1. /\ \A q \in Proc : q # p => /\ handle'[q] = handle[q] /\ doubled'[q] = doubled[q]
                                   /\ loops'[q] = loops[q]
        /\ handle'[p] = 0 /\ \A i \in Loop : loops'[p][i] = "none"
    BY <1>0, <1>3 DEF Gone, Loops
  <2>2. \A r \in Request : \/ req[r].at = p /\ req'[r].pc = "idle" /\ req'[r].at = Nobody
                           \/ req[r].at # p /\ req'[r] = req[r]
    BY <1>3 DEF Gone, NoReq
  <2>3. OneAtATime'
    BY <2>2 DEF Single, OneAtATime, Sync
  <2>4. ASSUME NEW q \in Proc PROVE OnlyHandle(q)'
    BY <2>1, <2>2 DEF Single, OnlyHandle, Ended
  <2>5. ASSUME NEW r \in Request PROVE Awaits(r)'
    BY <2>1, <2>2, At DEF Single, Awaits
  <2> QED BY <2>3, <2>4, <2>5 DEF Single
<1> QED BY <1>1, <1>2, <1>3

LEMMA RequestsSingle ==
    ASSUME Typed, Single, NEW r \in Request, Handle(r) \/ \E p \in Proc : Put(r, p)
    PROVE  Single'
<1>0. /\ loops \in Loops /\ handle \in [Proc -> 0..MaxLoop]
      /\ req \in [Request -> Req] /\ up \in [Proc -> {"down", "up", "stopping"}]
      /\ doubled \in [Proc -> BOOLEAN]
  BY DEF Typed, TypeOK, Loops
<1>a. \A s \in Request : s # r => req'[s] = req[s]
  BY <1>0 DEF Handle, Put, Load, Save, Compare, Moved, Create
<1>1. ASSUME NEW p \in Proc, Put(r, p) PROVE Single'
  <2>1. /\ \A s \in Request : req[s].at = p => req[s].pc \notin Sync
        /\ UNCHANGED <<loops, handle, doubled>>
    BY <1>1 DEF Put, Free
  <2>2. req'[r].pc = "loading" /\ req'[r].at = p
    BY <1>0, <1>1 DEF Put, NoReq
  <2>3. OneAtATime'
    BY <1>a, <2>1, <2>2 DEF Single, OneAtATime
  <2>4. \A q \in Proc : OnlyHandle(q)'
    BY <1>a, <2>1, <2>2 DEF Single, OnlyHandle, Ended
  <2>5. \A s \in Request : Awaits(s)'
    BY <1>a, <2>1, <2>2 DEF Single, Awaits
  <2> QED BY <2>3, <2>4, <2>5 DEF Single
<1>2. CASE Load(r) \/ Save(r)
  <2>1. req[r].pc \in {"loading", "saving"} /\ UNCHANGED <<loops, handle, doubled>>
    BY <1>2 DEF Load, Save
  <2>2. req'[r].pc \in {"comparing", "saving"} /\ req'[r].at = req[r].at
    <3>1. CASE Load(r)
      <4>1. PICK next \in Settings : req'[r] =
                IF next = stored THEN [req[r] EXCEPT !.pc = "comparing"]
                                 ELSE [req[r] EXCEPT !.pc = "saving", !.next = next]
        BY <1>0, <3>1 DEF Load
      <4>2. req[r] \in Req
        BY <1>0
      <4> QED BY <4>1, <4>2 DEF Req
    <3>2. CASE Save(r)
      <4>1. req'[r] = [req[r] EXCEPT !.pc = "comparing", !.next = Off]
        BY <1>0, <3>2 DEF Save
      <4>2. req[r] \in Req
        BY <1>0
      <4> QED BY <4>1, <4>2 DEF Req
    <3> QED BY <1>2, <3>1, <3>2
  <2>3. OneAtATime'
    BY <1>a, <2>1, <2>2 DEF Single, OneAtATime, Sync
  <2>4. \A q \in Proc : OnlyHandle(q)'
    BY <1>a, <2>1, <2>2 DEF Single, OnlyHandle, Ended
  <2>5. \A s \in Request : Awaits(s)'
    BY <1>a, <2>1, <2>2 DEF Single, Awaits
  <2> QED BY <2>3, <2>4, <2>5 DEF Single
<1>3. CASE Compare(r)
  <2> DEFINE p == req[r].at
  <2>1. req[r].pc = "comparing" /\ UNCHANGED <<handle, doubled>> /\ p \in Proc
    BY <1>3, At DEF Compare
  <2>2. \A q \in Proc, i \in Loop : loops'[q][i] = "none" <=> loops[q][i] = "none"
    BY <1>0, <1>3, <2>1, CancelTyped DEF Compare, Cancelled
  <2>3. \/ req'[r].pc = "idle" /\ req'[r].at = Nobody
        \/ /\ req'[r].at = p /\ req'[r].loop = handle[p]
           /\ \/ Ended(p) /\ req'[r].pc = "creating"
              \/ ~Ended(p) /\ req'[r].pc = "waiting"
    <3>1. CASE stored = req[r].before
      <4>1. req'[r] = NoReq
        BY <1>0, <1>3, <3>1 DEF Compare
      <4> QED BY <4>1 DEF NoReq
    <3>2. CASE stored # req[r].before
      <4>1. req'[r] = [NoReq EXCEPT !.pc = IF Ended(p) THEN "creating" ELSE "waiting",
                                    !.at = p, !.loop = handle[p]]
        BY <1>0, <1>3, <3>2 DEF Compare, Moved
      <4> HIDE DEF p
      <4> QED BY <4>1 DEF NoReq
    <3> QED BY <3>1, <3>2
  <2>4. OneAtATime'
    BY <1>a, <2>1, <2>3 DEF Single, OneAtATime, Sync
  <2>5. \A q \in Proc : OnlyHandle(q)'
    BY <1>a, <2>1, <2>2, <2>3 DEF Single, OnlyHandle, Ended
  <2>6. \A s \in Request : Awaits(s)'
    <3>1. Awaits(r)'
      BY <2>1, <2>2, <2>3 DEF Awaits, Ended
    <3>2. ASSUME NEW s \in Request, s # r PROVE Awaits(s)'
      BY <1>a, <2>2, <3>2, At DEF Single, Awaits
    <3> QED BY <3>1, <3>2
  <2> QED BY <2>4, <2>5, <2>6 DEF Single
<1>4. CASE Create(r)
  <2>0. req[r].at \in Proc
    BY <1>4, At DEF Create
  <2> PICK p \in Proc : p = req[r].at
    BY <2>0
  <2>1. /\ CreateLoop(p) /\ req'[r].pc = "idle"
        /\ doubled' = [doubled EXCEPT ![p] = @ \/ (req[r].pc = "resuming" /\ ~Ended(p))]
        /\ req[r].pc = "creating" \/ (req[r].pc = "resuming" /\ Free(p))
    BY <1>0, <1>4 DEF Create, NoReq
  <2>2. p \in Proc /\ p = req[r].at
    OBVIOUS
  <2>3. \A s \in Request : s # r /\ req[s].at = p => req[s].pc \notin Sync
    BY <2>1 DEF Single, OneAtATime, Sync, Free
  <2>4. /\ \A q \in Proc : q # p => handle'[q] = handle[q]
        /\ \A q \in Proc, j \in Loop : q # p => loops'[q][j] = loops[q][j]
        /\ \A j \in Loop : loops[p][j] # "none" => loops'[p][j] # "none"
    BY <1>0, <2>1, <2>2, CreateEffect
  <2>5. \A q \in Proc : q # p => doubled'[q] = doubled[q]
    BY <1>0, <2>1, <2>2
  <2>6. doubled'[p] <=> doubled[p] \/ (req[r].pc = "resuming" /\ ~Ended(p))
    BY <1>0, <2>1, <2>2, Zenon
  <2>7. OneAtATime'
    BY <1>a, <2>1 DEF Single, OneAtATime, Sync
  <2>8. OnlyHandle(p)'
    <3> SUFFICES ASSUME ~doubled'[p] PROVE OnlyHandle(p)'
      BY DEF OnlyHandle
    <3>1. ~doubled[p] /\ Ended(p)
      BY <2>1, <2>2, <2>6 DEF Single, OnlyHandle
    <3>2. \A i \in Loop : loops[p][i] = "none"
      BY <2>2, <3>1 DEF Single, OnlyHandle, Ended
    <3>3. \A i \in Loop : loops'[p][i] # "none" => i = handle'[p]
      BY <1>0, <2>1, <2>2, <3>2, CreateEffect
    <3>4. \A s \in Request : req'[s].at = p => req'[s].pc # "creating"
      BY <1>a, <2>1, <2>3 DEF Sync
    <3> QED BY <3>3, <3>4 DEF OnlyHandle
  <2>9. ASSUME NEW q \in Proc, q # p PROVE OnlyHandle(q)'
    BY <1>a, <2>1, <2>4, <2>5, <2>9 DEF Single, OnlyHandle, Ended
  <2>10. ASSUME NEW s \in Request PROVE Awaits(s)'
    BY <1>a, <2>1, <2>4, At DEF Single, Awaits
  <2> QED BY <2>7, <2>8, <2>9, <2>10 DEF Single
<1> QED BY <1>1, <1>2, <1>3, <1>4 DEF Handle

LEMMA LoopSingle ==
    ASSUME Typed, Single, NEW p \in Proc, NEW i \in Loop, UsageLoop(p, i)
    PROVE  Single'
<1>0. /\ loops \in Loops /\ req \in [Request -> Req] /\ loops[p][i] # "none"
      /\ UNCHANGED <<handle, doubled>>
      /\ \A s \in Request : req[s].at = p => req[s].pc \notin Sync
  BY DEF Typed, TypeOK, Loops, UsageLoop, EndCycle, Released, EndLoop, Free
<1>1. /\ \A q \in Proc, j \in Loop : q # p \/ j # i => loops'[q][j] = loops[q][j]
      /\ loops'[p][i] = "none" => EndLoop(p, i)
  BY <1>0 DEF UsageLoop, EndCycle, Released, EndLoop, Become, Loops
<1>2. \A s \in Request :
          \/ req'[s] = req[s] /\ (EndLoop(p, i) =>
                ~(req[s].pc = "waiting" /\ req[s].at = p /\ req[s].loop = i))
          \/ req[s].pc = "waiting" /\ req'[s].pc = "resuming" /\ req'[s].at = req[s].at
  BY <1>0 DEF UsageLoop, EndCycle, Released, EndLoop, Req
<1>3. OneAtATime'
  BY <1>2 DEF Single, OneAtATime, Sync
<1>4. ASSUME NEW q \in Proc PROVE OnlyHandle(q)'
  BY <1>0, <1>1, <1>2 DEF Single, OnlyHandle, Ended, Sync
<1>5. ASSUME NEW s \in Request PROVE Awaits(s)'
  BY <1>0, <1>1, <1>2, At DEF Single, Awaits
<1> QED BY <1>3, <1>4, <1>5 DEF Single

LEMMA SingleInit == Init => Single
  BY DEF Init, Single, OneAtATime, OnlyHandle, Awaits, NoReq, Sync

LEMMA SingleStep == Typed /\ Single /\ [Next]_vars => Single'
<1> SUFFICES ASSUME Typed, Single, [Next]_vars PROVE Single'
  OBVIOUS
<1>1. ASSUME NEW p \in Proc, Start(p) \/ Shutdown(p) \/ Stop(p) \/ Crash(p) PROVE Single'
  BY <1>1, ProcessSingle DEF Stop, Crash
<1>2. ASSUME NEW p \in Proc, NEW i \in Loop, UsageLoop(p, i) PROVE Single'
  BY <1>2, LoopSingle
<1>3. ASSUME NEW r \in Request, Handle(r) \/ \E p \in Proc : Put(r, p) PROVE Single'
  BY <1>3, RequestsSingle
<1>4. CASE UNCHANGED vars
  BY <1>4 DEF vars, Single, OneAtATime, OnlyHandle, Ended, Awaits
<1> QED BY <1>1, <1>2, <1>3, <1>4 DEF Next

LEMMA SingleAlways == Spec => [](Typed /\ Single)
  BY InitTyped, TypedStep, SingleInit, SingleStep, PTL DEF Spec

(* However processes start, stop and crash and whatever requests change    *)
(* the settings at once: a restarted loop does not run beside the one it   *)
(* replaces, unless two restarts waited for one loop.                      *)
THEOREM LoopAlone == Spec => []OneUsageLoop
<1>1. Single => OneUsageLoop
  BY DEF Single, OnlyHandle, OneUsageLoop
<1> QED BY <1>1, SingleAlways, PTL

(* A request that waits for a loop to end waits for one that is there.     *)
AwaitsATask ==
    \A r \in Request : req[r].pc = "waiting" =>
        /\ req[r].loop \in Loop
        /\ loops[req[r].at][req[r].loop] # "none"

(* main.py 75-93: restart_usage_sync_task never awaits a task that has     *)
(* ended already, whoever else restarts or stops the loop meanwhile.       *)
THEOREM WaitersAwaitATask == Spec => []AwaitsATask
<1>1. Single => AwaitsATask
  BY DEF Single, Awaits, AwaitsATask
<1> QED BY <1>1, SingleAlways, PTL

-------------------------------------------------------------------------------
(* A loop when the settings want one.                                      *)

(* Unless the settings were saved inside another's request, nobody changed *)
(* them since a request that will save them read them.                     *)
ReadLast ==
    ~crossed => \A r \in Request :
        /\ req[r].pc \in {"loading", "saving"} => req[r].before = stored
        /\ req[r].pc = "saving" => req[r].next # stored

(* p will have a loop when it runs and its requests have been answered: it *)
(* has one that was not cancelled, or a request has yet to create one, or  *)
(* p has yet to start.                                                     *)
WillRun(p) ==
    \/ up[p] # "up"
    \/ \E i \in Loop : loops[p][i] \in {"runs", "release"}
    \/ \E r \in Request :
        /\ req[r].at = p
        /\ \/ req[r].pc \in {"creating", "waiting", "resuming"}
           \/ req[r].pc = "comparing" /\ req[r].before # stored

Wanted == stored # Off /\ ~crossed => \E p \in Proc : WillRun(p)

LEMMA InitWanted == Init => ReadLast /\ Wanted
  BY DEF Init, ReadLast, Wanted, WillRun, NoReq

LEMMA ProcessWanted ==
    ASSUME Typed, Single, ReadLast, Wanted, NEW p \in Proc,
           Start(p) \/ Shutdown(p) \/ Gone(p)
    PROVE  (ReadLast /\ Wanted)'
<1>0. /\ loops \in Loops /\ handle \in [Proc -> 0..MaxLoop]
      /\ up \in [Proc -> {"down", "up", "stopping"}]
      /\ stored' = stored /\ crossed' = crossed
  BY DEF Typed, TypeOK, Loops, Start, Shutdown, Gone
<1>1. ReadLast'
  <2>1. \A r \in Request : req'[r] = req[r] \/ req'[r].pc = "idle"
    BY DEF Start, Shutdown, Gone, NoReq
  <2> QED BY <1>0, <2>1 DEF ReadLast
<1>2. ASSUME stored # Off, ~crossed PROVE \E q \in Proc : WillRun(q)'
  <2>1. CASE Start(p)
    <3>1. CreateLoop(p)
      BY <2>1 DEF Start
    <3>2. handle'[p] \in Loop /\ loops'[p][handle'[p]] = "runs"
      BY <1>0, <1>2, <3>1, CreateEffect
    <3> QED BY <3>2 DEF WillRun
  <2>2. CASE Shutdown(p) \/ Gone(p)
    <3>1. up'[p] # "up"
      BY <1>0, <2>2 DEF Shutdown, Gone
    <3> QED BY <3>1 DEF WillRun
  <2> QED BY <2>1, <2>2
<1> QED BY <1>0, <1>1, <1>2 DEF Wanted

LEMMA RequestsWanted ==
    ASSUME Typed, Single, ReadLast, Wanted, NEW r \in Request,
           Handle(r) \/ \E p \in Proc : Put(r, p)
    PROVE  (ReadLast /\ Wanted)'
<1>0. /\ loops \in Loops /\ handle \in [Proc -> 0..MaxLoop]
      /\ req \in [Request -> Req] /\ up' = up
  BY DEF Typed, TypeOK, Loops, Handle, Put, Load, Save, Compare, Create
<1>a. \A s \in Request : s # r => req'[s] = req[s]
  BY <1>0 DEF Handle, Put, Load, Save, Compare, Moved, Create
<1>1. ASSUME NEW p \in Proc, Put(r, p) PROVE (ReadLast /\ Wanted)'
  <2>1. req[r].pc = "idle" /\ UNCHANGED <<stored, loops, crossed>>
    BY <1>1 DEF Put
  <2>2. req'[r].pc = "loading" /\ req'[r].before = stored
    BY <1>0, <1>1 DEF Put, NoReq
  <2>3. ReadLast'
    BY <1>a, <2>1, <2>2 DEF ReadLast
  <2>4. \A q \in Proc : WillRun(q) => WillRun(q)'
    BY <1>0, <1>a, <2>1 DEF WillRun
  <2> QED BY <2>1, <2>3, <2>4 DEF Wanted
<1>2. CASE Load(r)
  <2>1. req[r].pc = "loading" /\ UNCHANGED <<stored, loops, crossed>>
    BY <1>2 DEF Load
  <2>2. /\ req'[r].pc \in {"comparing", "saving"} /\ req'[r].before = req[r].before
        /\ (req'[r].pc = "saving" => req'[r].next # stored)
    <3>1. PICK next \in Settings : req'[r] =
              IF next = stored THEN [req[r] EXCEPT !.pc = "comparing"]
                               ELSE [req[r] EXCEPT !.pc = "saving", !.next = next]
      BY <1>0, <1>2 DEF Load
    <3>2. req[r] \in Req
      BY <1>0
    <3> QED BY <3>1, <3>2 DEF Req
  <2>3. ReadLast'
    BY <1>a, <2>1, <2>2 DEF ReadLast
  <2>4. \A q \in Proc : WillRun(q) => WillRun(q)'
    BY <1>0, <1>a, <2>1 DEF WillRun
  <2> QED BY <2>1, <2>3, <2>4 DEF Wanted
<1>3. CASE Save(r)
  <2>1. /\ req[r].pc = "saving" /\ stored' = req[r].next
        /\ crossed' = (crossed \/ \E s \in Request \ {r} : req[s].pc \in Sync)
    BY <1>3 DEF Save
  <2>2. /\ req'[r].pc = "comparing" /\ req'[r].at = req[r].at
        /\ req'[r].before = req[r].before
    <3>1. req'[r] = [req[r] EXCEPT !.pc = "comparing", !.next = Off]
      BY <1>0, <1>3 DEF Save
    <3>2. req[r] \in Req
      BY <1>0
    <3> QED BY <3>1, <3>2 DEF Req
  <2> SUFFICES ASSUME ~crossed' PROVE (ReadLast /\ Wanted)'
    BY DEF ReadLast, Wanted
  <2>3. ~crossed /\ \A s \in Request : s # r => req[s].pc \notin Sync
    BY <2>1
  <2>4. req[r].at \in Proc
    BY <2>1, At
  <2>5. req'[r].before # stored'
    BY <2>1, <2>2, <2>3 DEF ReadLast
  <2>6. ReadLast'
    BY <1>a, <2>2, <2>3 DEF ReadLast, Sync
  <2>7. \E p \in Proc : WillRun(p)'
    <3>1. PICK p \in Proc : p = req[r].at
      BY <2>4
    <3> QED BY <2>2, <2>5, <3>1 DEF WillRun
  <2> QED BY <2>6, <2>7 DEF Wanted
<1>4. CASE Compare(r)
  <2>0. req[r].pc = "comparing" /\ UNCHANGED <<stored, crossed>> /\ req[r].at \in Proc
    BY <1>4, At DEF Compare
  <2> PICK p \in Proc : p = req[r].at
    BY <2>0
  <2>1. CASE stored = req[r].before
    <3>1. req'[r].pc = "idle" /\ loops' = loops
      BY <1>0, <1>4, <2>1 DEF Compare, NoReq
    <3>2. \A q \in Proc : WillRun(q) => WillRun(q)'
      BY <1>0, <1>a, <2>0, <2>1, <3>1 DEF WillRun
    <3> QED BY <1>a, <2>0, <3>1, <3>2 DEF ReadLast, Wanted
  <2>2. CASE stored # req[r].before
    <3>1. req'[r] = [NoReq EXCEPT !.pc = IF Ended(p) THEN "creating" ELSE "waiting",
                                  !.at = p, !.loop = handle[p]]
      BY <1>0, <1>4, <2>2 DEF Compare, Moved
    <3>2. req'[r].at = p /\ req'[r].pc \in {"creating", "waiting"}
      BY <3>1 DEF NoReq
    <3>3. WillRun(p)'
      BY <3>2 DEF WillRun
    <3> QED BY <1>a, <2>0, <3>2, <3>3 DEF ReadLast, Wanted
  <2> QED BY <2>1, <2>2
<1>5. CASE Create(r)
  <2>0. req[r].at \in Proc
    BY <1>5, At DEF Create
  <2> PICK p \in Proc : p = req[r].at
    BY <2>0
  <2>1. /\ CreateLoop(p) /\ req'[r].pc = "idle" /\ UNCHANGED <<stored, crossed>>
    BY <1>0, <1>5 DEF Create, NoReq
  <2>2. ReadLast'
    BY <1>a, <2>1 DEF ReadLast
  <2>3. ASSUME stored # Off PROVE WillRun(p)'
    <3>1. handle'[p] \in Loop /\ loops'[p][handle'[p]] = "runs"
      BY <1>0, <2>1, <2>3, CreateEffect
    <3> QED BY <3>1 DEF WillRun
  <2> QED BY <2>1, <2>2, <2>3 DEF Wanted
<1> QED BY <1>1, <1>2, <1>3, <1>4, <1>5 DEF Handle

LEMMA LoopWanted ==
    ASSUME Typed, Single, ReadLast, Wanted, NEW p \in Proc, NEW i \in Loop, UsageLoop(p, i)
    PROVE  (ReadLast /\ Wanted)'
<1>0. /\ loops \in Loops /\ req \in [Request -> Req]
      /\ UNCHANGED <<stored, up, crossed>>
  BY DEF Typed, TypeOK, Loops, UsageLoop
<1>1. \A q \in Proc, j \in Loop :
          loops[q][j] \in {"runs", "release"} => loops'[q][j] \in {"runs", "release"}
  <2>1. PICK t \in {"runs", "release", "none"} :
            /\ loops' = [loops EXCEPT ![p][i] = t]
            /\ t = "none" => loops[p][i] = "closing"
    BY DEF UsageLoop, EndCycle, Released, EndLoop, Become
  <2>2. \A q \in Proc, j \in Loop : loops'[q][j] =
            IF q = p /\ j = i THEN t ELSE loops[q][j]
    BY <1>0, <2>1 DEF Loops
  <2> QED BY <2>1, <2>2
<1>2. \A s \in Request :
          \/ req'[s] = req[s]
          \/ req[s].pc = "waiting" /\ req'[s].pc = "resuming" /\ req'[s].at = req[s].at
  BY <1>0 DEF UsageLoop, EndCycle, Released, EndLoop, Req
<1>3. ReadLast'
  BY <1>0, <1>2 DEF ReadLast
<1>4. \A q \in Proc : WillRun(q) => WillRun(q)'
  BY <1>0, <1>1, <1>2 DEF WillRun
<1> QED BY <1>0, <1>3, <1>4 DEF Wanted

LEMMA WantedStep ==
    Typed /\ Single /\ ReadLast /\ Wanted /\ [Next]_vars => (ReadLast /\ Wanted)'
<1> SUFFICES ASSUME Typed, Single, ReadLast, Wanted, [Next]_vars
             PROVE  (ReadLast /\ Wanted)'
  OBVIOUS
<1>1. ASSUME NEW p \in Proc, Start(p) \/ Shutdown(p) \/ Stop(p) \/ Crash(p)
      PROVE  (ReadLast /\ Wanted)'
  BY <1>1, ProcessWanted DEF Stop, Crash
<1>2. ASSUME NEW p \in Proc, NEW i \in Loop, UsageLoop(p, i)
      PROVE  (ReadLast /\ Wanted)'
  BY <1>2, LoopWanted
<1>3. ASSUME NEW r \in Request, Handle(r) \/ \E p \in Proc : Put(r, p)
      PROVE  (ReadLast /\ Wanted)'
  BY <1>3, RequestsWanted
<1>4. CASE UNCHANGED vars
  BY <1>4 DEF vars, ReadLast, Wanted, WillRun
<1> QED BY <1>1, <1>2, <1>3, <1>4 DEF Next

(* When the settings want usage to be synchronized, all processes run and  *)
(* no request is under way, some process has a loop for it, unless two     *)
(* requests changed the settings at once: the process of the last request  *)
(* that changed them, or one that was started since.                       *)
THEOREM SyncWhenOn == Spec => []SyncRunsWhenOn
<1>1. Wanted => SyncRunsWhenOn
  BY DEF Wanted, WillRun, SyncRunsWhenOn
<1> QED BY <1>1, InitTyped, TypedStep, SingleInit, SingleStep, InitWanted, WantedStep, PTL DEF Spec
===============================================================================
