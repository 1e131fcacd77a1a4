------------------------- MODULE SchedulerLeaseProofs -------------------------
(***************************************************************************)
(* Proofs about SchedulerLease for any set of owners, any Ttl and          *)
(* Heartbeat, and processes as late as MaxDelay lets each of them be.      *)
(***************************************************************************)
EXTENDS SchedulerLease, TLAPS

(* Every action keeps the state well typed: the row's remaining time never *)
(* leaves 0..Ttl and a heartbeat is never later than it may be.           *)
THEOREM TypeCorrect == Spec => []TypeOK
<1> USE OwnerAssumption, TimingAssumption
<1>0. /\ \A o \in Owner : Heartbeat \in (-MaxDelay[o])..Heartbeat
      /\ Heartbeat \in Int /\ Ttl \in 0..Ttl /\ 0 \in 0..Ttl
  OBVIOUS
<1>1. Init => TypeOK
  BY <1>0 DEF Init, TypeOK, Phase
<1>2. TypeOK /\ [Next]_vars => TypeOK'
  <2> SUFFICES ASSUME TypeOK, [Next]_vars PROVE TypeOK'
    OBVIOUS
  <2> USE DEF TypeOK, Phase
  <2>1. ASSUME NEW o \in Owner, Acquire(o) PROVE TypeOK'
    BY <1>0, <2>1 DEF Acquire
  <2>2. ASSUME NEW o \in Owner, StartRequest(o) \/ Recheck(o) PROVE TypeOK'
    <3>1. \/ lost' = lost
          \/ lost' = [lost EXCEPT ![o] = TRUE]
      BY <2>2 DEF StartRequest, Recheck, Valid, Invalid
    <3>3. \E to \in {"requesting", "checked", "stopping"} :
              phase' = [phase EXCEPT ![o] = to]
      BY <2>2 DEF StartRequest, Recheck
    <3>2. UNCHANGED <<row, beating, beat, committed, overtaken>>
      BY <2>2 DEF StartRequest, Recheck
    <3>4. lost' \in [Owner -> BOOLEAN]
      BY <3>1
    <3>5. phase' \in [Owner -> Phase]
      BY <3>3
    <3> QED BY <3>2, <3>4, <3>5
  <2>3. ASSUME NEW o \in Owner, Answer(o) \/ Finish(o) \/ WriteRejected(o)
        PROVE TypeOK'
    BY <2>3 DEF Answer, Finish, WriteRejected
  <2>4. ASSUME NEW o \in Owner, WriteAccepted(o) PROVE TypeOK'
    BY <2>4 DEF WriteAccepted
  <2>5. ASSUME NEW o \in Owner, Release(o) PROVE TypeOK'
    <3>1. row' \in [owner : Owner \cup {NoOwner}, left : 0..Ttl]
      BY <1>0, <2>5 DEF Release
    <3>2. /\ phase' \in [Owner -> Phase]
          /\ beating' \in [Owner -> BOOLEAN]
      BY <2>5 DEF Release
    <3>3. /\ beat' \in [Owner -> Int]
          /\ \A p \in Owner : beat'[p] \in (-MaxDelay[p])..Heartbeat
      BY <1>0, <2>5 DEF Release
    <3>4. committed' = committed \ {o} /\ UNCHANGED <<lost, overtaken>>
      BY <2>5 DEF Release
    <3> QED BY <3>1, <3>2, <3>3, <3>4
  <2>6. ASSUME NEW o \in Owner, Renew(o) PROVE TypeOK'
    BY <1>0, <2>6 DEF Renew
  <2>7. ASSUME NEW o \in Owner, HeartbeatStops(o) PROVE TypeOK'
    BY <1>0, <2>7 DEF HeartbeatStops
  <2>10. ASSUME NEW o \in Owner, Crash(o) PROVE TypeOK'
    BY <1>0, <2>10 DEF Crash
  <2>8. CASE Tick
    <3>1. row' \in [owner : Owner \cup {NoOwner}, left : 0..Ttl]
      BY <2>8 DEF Tick
    <3>2. /\ beat' \in [Owner -> Int]
          /\ \A o \in Owner : beat'[o] \in (-MaxDelay[o])..Heartbeat
      <4>1. beat' = [o \in Owner |-> IF beating[o] THEN beat[o] - 1 ELSE beat[o]]
        BY <2>8 DEF Tick
      <4>2. ASSUME NEW o \in Owner
            PROVE  beat'[o] \in (-MaxDelay[o])..Heartbeat
        <5>1. beating[o] => beat[o] > -MaxDelay[o]
          BY <2>8 DEF Tick
        <5>2. beat[o] \in (-MaxDelay[o])..Heartbeat
          OBVIOUS
        <5> QED BY <4>1, <5>1, <5>2
      <4> QED BY <4>1, <4>2
    <3> QED BY <2>8, <3>1, <3>2 DEF Tick
  <2>9. CASE UNCHANGED vars
    BY <2>9 DEF vars
  <2> QED
    BY <2>1, <2>2, <2>3, <2>4, <2>5, <2>6, <2>7, <2>8, <2>9, <2>10
       DEF Next, Session
<1> QED BY <1>1, <1>2, PTL DEF Spec

-------------------------------------------------------------------------------
(* The row of a timely owner has at least as much time left as its         *)
(* heartbeat has until it is due, plus what Ttl exceeds Heartbeat by.      *)
BeatBehindRow ==
    \A o \in Owner :
        Timely(o) /\ beating[o] =>
            row.owner = o /\ row.left >= beat[o] + (Ttl - Heartbeat)

(* A session that does not know its lease is lost has its heartbeat task.  *)
UnlostBeats ==
    \A o \in Owner : phase[o] \in Open /\ ~lost[o] => beating[o]

(* A timely heartbeat is never so late that the row could have expired.    *)
LEMMA TimelyHolds ==
    ASSUME TypeOK, BeatBehindRow, NEW o \in Owner, Timely(o), beating[o]
    PROVE  Holds(o)
<1>1. beat[o] \in (-MaxDelay[o])..Heartbeat /\ row.left \in 0..Ttl
  BY DEF TypeOK
<1>2. row.owner = o /\ row.left >= beat[o] + (Ttl - Heartbeat)
  BY DEF BeatBehindRow
<1>3. MaxDelay[o] \in Nat
  BY TimingAssumption
<1> QED BY <1>1, <1>2, <1>3, TimingAssumption DEF Timely, Holds

(* Nobody else can be granted the lease, renew it or free it meanwhile.    *)
LEMMA BeatStep ==
    ASSUME TypeOK, BeatBehindRow, [Next]_vars
    PROVE  BeatBehindRow'
<1> USE OwnerAssumption, TimingAssumption
<1> SUFFICES ASSUME NEW o \in Owner, Timely(o), beating'[o]
             PROVE  row'.owner = o /\ row'.left >= beat'[o] + (Ttl - Heartbeat)
  BY DEF BeatBehindRow, Timely
<1>0. /\ beat \in [Owner -> Int]
      /\ beating \in [Owner -> BOOLEAN]
      /\ row \in [owner : Owner \cup {NoOwner}, left : 0..Ttl]
  BY DEF TypeOK
<1>1. ASSUME NEW p \in Owner, Acquire(p)
      PROVE  row'.owner = o /\ row'.left >= beat'[o] + (Ttl - Heartbeat)
  <2>1. CASE p = o
    BY <1>0, <1>1, <2>1 DEF Acquire
  <2>2. CASE p # o
    <3>1. beating[o]
      BY <1>0, <1>1, <2>2 DEF Acquire
    <3>2. Holds(o)
      BY <3>1, TimelyHolds
    <3> QED BY <1>1, <2>2, <3>2, <1>0 DEF Acquire, MayTake, Holds
  <2> QED BY <2>1, <2>2
<1>2. ASSUME NEW p \in Owner,
             \/ StartRequest(p) \/ Answer(p) \/ Recheck(p) \/ Finish(p)
             \/ WriteAccepted(p) \/ WriteRejected(p)
      PROVE  row'.owner = o /\ row'.left >= beat'[o] + (Ttl - Heartbeat)
  <2>1. UNCHANGED <<row, beating, beat>>
    BY <1>2 DEF StartRequest, Answer, Recheck, Finish, WriteAccepted,
                WriteRejected
  <2> QED BY <2>1 DEF BeatBehindRow
<1>3. ASSUME NEW p \in Owner, Release(p)
      PROVE  row'.owner = o /\ row'.left >= beat'[o] + (Ttl - Heartbeat)
  <2>1. p # o /\ beating[o] /\ beat'[o] = beat[o]
    BY <1>0, <1>3 DEF Release
  <2>2. row.owner = o
    BY <2>1 DEF BeatBehindRow
  <2> QED BY <1>3, <2>1, <2>2 DEF Release, BeatBehindRow
<1>4. ASSUME NEW p \in Owner, Renew(p)
      PROVE  row'.owner = o /\ row'.left >= beat'[o] + (Ttl - Heartbeat)
  <2>1. beating[o] /\ row.owner = o /\ row.owner = p
    BY <1>4 DEF Renew, BeatBehindRow, Holds
  <2> QED BY <1>0, <1>4, <2>1 DEF Renew
<1>5. ASSUME NEW p \in Owner, HeartbeatStops(p) \/ Crash(p)
      PROVE  row'.owner = o /\ row'.left >= beat'[o] + (Ttl - Heartbeat)
  <2>1. p # o /\ beating[o] /\ beat'[o] = beat[o] /\ row' = row
    BY <1>0, <1>5 DEF HeartbeatStops, Crash
  <2> QED BY <2>1 DEF BeatBehindRow
<1>6. CASE Tick
  <2>1. beating[o] /\ beat'[o] = beat[o] - 1
    BY <1>0, <1>6 DEF Tick
  <2>2. Holds(o)
    BY <2>1, TimelyHolds
  <2>3. row'.owner = o /\ row'.left = row.left - 1
    BY <1>0, <1>6, <2>2 DEF Tick, Holds
  <2>4. row.left >= beat[o] + (Ttl - Heartbeat)
    BY <2>1 DEF BeatBehindRow
  <2>5. beat[o] \in Int /\ row.left \in Int
    BY <1>0
  <2> QED BY <2>1, <2>3, <2>4, <2>5
<1>7. CASE UNCHANGED vars
  BY <1>7 DEF vars, BeatBehindRow
<1> QED BY <1>1, <1>2, <1>3, <1>4, <1>5, <1>6, <1>7 DEF Next, Session

(* A lease cannot expire under a session whose heartbeat runs and whose    *)
(* process is never later than Ttl - Heartbeat (scheduler.py's constants:  *)
(* less than 90 seconds late), however late the others are.                *)
THEOREM LeaseKept == Spec => []HeartbeatKeepsLease
<1>1. Init => BeatBehindRow
  BY DEF Init, BeatBehindRow
<1>2. TypeOK /\ BeatBehindRow /\ [Next]_vars => BeatBehindRow'
  BY BeatStep
<1>3. TypeOK /\ BeatBehindRow => HeartbeatKeepsLease
  BY TimelyHolds DEF HeartbeatKeepsLease
<1> QED BY <1>1, <1>2, <1>3, TypeCorrect, PTL DEF Spec

(* Of two sessions open at once, one has lost its heartbeat.               *)
THEOREM SingleFlightHolds == Spec => []SingleFlight
<1>1. Init => UnlostBeats
  BY DEF Init, UnlostBeats, Open
<1>2. TypeOK /\ UnlostBeats /\ [Next]_vars => UnlostBeats'
  <2> SUFFICES ASSUME TypeOK, UnlostBeats, [Next]_vars,
                      NEW o \in Owner, phase'[o] \in Open, ~lost'[o]
               PROVE  beating'[o]
    BY DEF UnlostBeats
  <2> USE DEF TypeOK, UnlostBeats, Open, Phase
  <2>1. ASSUME NEW p \in Owner, Session(p) PROVE beating'[o]
    BY <2>1 DEF Session, Acquire, StartRequest, Answer, Recheck, Valid, Invalid,
                WriteAccepted, WriteRejected, Finish, Release
  <2>2. ASSUME NEW p \in Owner, Renew(p) \/ HeartbeatStops(p) \/ Crash(p)
        PROVE  beating'[o]
    BY <2>2 DEF Renew, HeartbeatStops, Crash
  <2>3. CASE Tick
    BY <2>3 DEF Tick
  <2>4. CASE UNCHANGED vars
    BY <2>4 DEF vars
  <2> QED BY <2>1, <2>2, <2>3, <2>4 DEF Next
<1>3. UnlostBeats /\ HeartbeatKeepsLease => SingleFlight
  BY DEF UnlostBeats, HeartbeatKeepsLease, SingleFlight, Holds
<1> QED BY <1>1, <1>2, <1>3, TypeCorrect, LeaseKept, PTL DEF Spec

-------------------------------------------------------------------------------
(* The row can only name an open session that nobody has overtaken.        *)
RowNotOvertaken ==
    \A o \in Owner : phase[o] \in Open /\ row.owner = o => ~overtaken[o]

(* The fence: no write is accepted from a session whose lease went to      *)
(* another owner, whatever the delays.                                     *)
THEOREM Fenced == Spec => NoCommitAfterTakeover
<1> USE DEF TypeOK, RowNotOvertaken, Open, Phase
<1>1. Init => RowNotOvertaken
  BY DEF Init
<1>2. TypeOK /\ RowNotOvertaken /\ [Next]_vars => RowNotOvertaken'
  <2> SUFFICES ASSUME TypeOK, RowNotOvertaken, [Next]_vars,
                      NEW o \in Owner, phase'[o] \in Open, row'.owner = o
               PROVE  ~overtaken'[o]
    OBVIOUS
  <2>1. ASSUME NEW p \in Owner, Acquire(p) PROVE ~overtaken'[o]
    BY <2>1 DEF Acquire
  <2>2. ASSUME NEW p \in Owner, Release(p) PROVE ~overtaken'[o]
    BY <2>2, OwnerAssumption DEF Release
  <2>3. ASSUME NEW p \in Owner,
               \/ StartRequest(p) \/ Answer(p) \/ Recheck(p) \/ Finish(p)
               \/ WriteAccepted(p) \/ WriteRejected(p)
        PROVE  ~overtaken'[o]
    BY <2>3 DEF StartRequest, Answer, Recheck, Finish, WriteAccepted,
                WriteRejected
  <2>4. ASSUME NEW p \in Owner, Renew(p) \/ HeartbeatStops(p) \/ Crash(p)
        PROVE  ~overtaken'[o]
    BY <2>4 DEF Renew, HeartbeatStops, Crash
  <2>5. CASE Tick
    BY <2>5 DEF Tick
  <2>6. CASE UNCHANGED vars
    BY <2>6 DEF vars
  <2> QED BY <2>1, <2>2, <2>3, <2>4, <2>5, <2>6 DEF Next, Session
<1>3. /\ TypeOK /\ RowNotOvertaken /\ [Next]_vars
      => [\A o \in Owner :
            phase[o] = "checked" /\ phase'[o] = "working" => ~overtaken[o]]_vars
  <2> SUFFICES ASSUME TypeOK, RowNotOvertaken, Next, NEW o \in Owner,
                      phase[o] = "checked", phase'[o] = "working"
               PROVE  ~overtaken[o]
    OBVIOUS
  <2>1. \E p \in Owner : Session(p)
    BY DEF Next, Renew, HeartbeatStops, Crash, Tick
  <2>2. PICK p \in Owner : Session(p)
    BY <2>1
  <2>3. WriteAccepted(o)
    BY <2>2 DEF Session, Acquire, StartRequest, Answer, Recheck, WriteAccepted,
                WriteRejected, Finish, Release
  <2> QED BY <2>3 DEF WriteAccepted, Holds
<1> QED BY <1>1, <1>2, <1>3, TypeCorrect, PTL DEF Spec, NoCommitAfterTakeover

-------------------------------------------------------------------------------
(* What a session committed is forgotten when it closes.                   *)
CommittedOpen == committed \subseteq {o \in Owner : phase[o] \in Open}

LEMMA CommitsAreOfOpenSessions == Spec => []CommittedOpen
<1> USE DEF TypeOK, CommittedOpen, Open, Phase
<1>1. Init => CommittedOpen
  BY DEF Init
<1>2. TypeOK /\ CommittedOpen /\ [Next]_vars => CommittedOpen'
  <2> SUFFICES ASSUME TypeOK, CommittedOpen, [Next]_vars,
                      NEW o \in committed'
               PROVE  o \in Owner /\ phase'[o] \in Open
    OBVIOUS
  <2>0. o \in Owner
    BY DEF Next, Session, Acquire, StartRequest, Answer, Recheck, WriteAccepted,
           WriteRejected, Finish, Release, Renew, HeartbeatStops, Crash, Tick, vars
  <2>1. ASSUME NEW p \in Owner, Session(p) PROVE phase'[o] \in Open
    BY <2>0, <2>1 DEF Session, Acquire, StartRequest, Answer, Recheck, WriteAccepted,
                WriteRejected, Finish, Release
  <2>2. ASSUME NEW p \in Owner, Renew(p) \/ HeartbeatStops(p) \/ Crash(p)
        PROVE  phase'[o] \in Open
    BY <2>0, <2>2 DEF Renew, HeartbeatStops, Crash
  <2>3. CASE Tick
    BY <2>0, <2>3 DEF Tick
  <2>4. CASE UNCHANGED vars
    BY <2>0, <2>4 DEF vars
  <2> QED BY <2>0, <2>1, <2>2, <2>3, <2>4 DEF Next
<1> QED BY <1>1, <1>2, TypeCorrect, PTL DEF Spec

(* The row with its timers implements the lease the collectors rely on: a  *)
(* tick that exhausts the row is a Lapse, a renewal is invisible, a crash  *)
(* is a Leave that gives nothing back.                                     *)
THEOREM Refinement == Spec => ImplementsLease
<1> DEFINE aholder == IF row.left > 0 THEN row.owner ELSE NoOwner
           ainside == {o \in Owner : phase[o] \in Open}
<1>1. Init => L!LeaseInit
  BY DEF Init, L!LeaseInit, Open
<1>2. TypeOK /\ CommittedOpen /\ [Next]_vars => [L!LeaseNext]_(L!leaseVars)
  <2> SUFFICES ASSUME TypeOK, CommittedOpen, [Next]_vars
               PROVE  L!LeaseNext \/ UNCHANGED <<aholder, ainside, committed>>
    BY DEF L!leaseVars
  <2> USE OwnerAssumption, TimingAssumption
  <2>0. /\ phase \in [Owner -> Phase]
        /\ row \in [owner : Owner \cup {NoOwner}, left : 0..Ttl]
    BY DEF TypeOK
  <2>1. ASSUME NEW o \in Owner, Acquire(o) PROVE L!Grant(o)
    <3>1. aholder' = o /\ aholder \in {NoOwner, o}
      BY <2>0, <2>1 DEF Acquire, MayTake
    <3>2. ainside' = ainside \cup {o} /\ o \notin ainside
      BY <2>0, <2>1 DEF Acquire, Open, Phase
    <3> QED BY <2>1, <3>1, <3>2 DEF Acquire, L!Grant
  <2>2. ASSUME NEW o \in Owner, WriteAccepted(o) PROVE L!Commit(o)
    <3>1. aholder = o /\ aholder' = aholder
      BY <2>2 DEF WriteAccepted, Holds
    <3>2. o \in ainside /\ ainside' = ainside
      BY <2>0, <2>2 DEF WriteAccepted, Open
    <3> QED BY <2>2, <3>1, <3>2 DEF WriteAccepted, L!Commit
  <2>3. ASSUME NEW o \in Owner,
               StartRequest(o) \/ Answer(o) \/ Recheck(o) \/ WriteRejected(o)
        PROVE  UNCHANGED <<aholder, ainside, committed>>
    <3>1. row' = row /\ committed' = committed
      BY <2>3 DEF StartRequest, Answer, Recheck, WriteRejected
    <3>2. ainside' = ainside
      BY <2>0, <2>3 DEF StartRequest, Answer, Recheck, WriteRejected, Open
    <3> QED BY <3>1, <3>2
  <2>4. ASSUME NEW o \in Owner, Finish(o)
        PROVE  UNCHANGED <<aholder, ainside, committed>>
    <3>1. ainside' = ainside
      BY <2>0, <2>4 DEF Finish, Open
    <3> QED BY <2>4, <3>1 DEF Finish
  <2>5. ASSUME NEW o \in Owner, Release(o) PROVE L!Leave(o)
    <3>1. ainside' = ainside \ {o} /\ o \in ainside
      BY <2>0, <2>5 DEF Release, Open, Phase
    <3>2. \/ aholder' = IF aholder = o THEN NoOwner ELSE aholder
          \/ aholder' = aholder
      BY <2>0, <2>5 DEF Release
    <3> QED BY <2>5, <3>1, <3>2 DEF Release, L!Leave
  <2>6. ASSUME NEW o \in Owner, Renew(o) \/ HeartbeatStops(o)
        PROVE  UNCHANGED <<aholder, ainside, committed>>
    <3>1. UNCHANGED <<phase, committed>>
      BY <2>6 DEF Renew, HeartbeatStops
    <3>2. aholder' = aholder
      BY <2>0, <2>6 DEF Renew, HeartbeatStops, Holds
    <3> QED BY <3>1, <3>2
  <2>7. ASSUME NEW o \in Owner, Crash(o)
        PROVE  L!Leave(o) \/ UNCHANGED <<aholder, ainside, committed>>
    <3>1. ainside' = ainside \ {o}
      BY <2>0, <2>7 DEF Crash, Open, Phase
    <3>2. CASE o \in ainside
      BY <2>7, <3>1, <3>2 DEF Crash, L!Leave
    <3>3. CASE o \notin ainside
      <4>1. o \notin committed
        BY <3>3 DEF CommittedOpen
      <4> QED BY <2>7, <3>1, <3>3, <4>1 DEF Crash
    <3> QED BY <3>2, <3>3
  <2>8. CASE Tick
    <3>1. UNCHANGED <<phase, committed>>
      BY <2>8 DEF Tick
    <3>2. CASE aholder' = aholder
      BY <3>1, <3>2
    <3>3. CASE aholder' # aholder
      <4>1. aholder # NoOwner /\ aholder' = NoOwner
        BY <2>0, <2>8, <3>3 DEF Tick
      <4> QED BY <3>1, <4>1 DEF L!LeaseNext, L!Lapse
    <3> QED BY <3>2, <3>3
  <2>9. CASE UNCHANGED vars
    BY <2>9 DEF vars
  <2> QED
    BY <2>1, <2>2, <2>3, <2>4, <2>5, <2>6, <2>7, <2>8, <2>9
       DEF Next, Session, L!LeaseNext
<1> QED
  BY <1>1, <1>2, TypeCorrect, CommitsAreOfOpenSessions, PTL
     DEF Spec, ImplementsLease, L!LeaseSpec
===============================================================================
