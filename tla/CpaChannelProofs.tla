--------------------------- MODULE CpaChannelProofs ---------------------------
(***************************************************************************)
(* Proofs about CpaChannel for any sessions, endpoints, administrators and *)
(* processes: types, the status of the queue, changes that stay queued and *)
(* popped events that are kept.                                            *)
(***************************************************************************)
EXTENDS CpaChannel, TLAPS

USE ChannelAssumption

(* A request that has been answered had an endpoint to go to.              *)
ConsumerPointed(q) ==
    /\ pc[q] \in {"loaded", "mapping", "stats", "ready", "popping", "popped",
                  "refreshing", "persist", "state"} => known[q] # NoEndpoint
    /\ pc[q] \in {"popped", "refreshing", "persist"} => batch[q] # NoEndpoint
DiscovererPointed(d) ==
    pc[d] \in {"answered", "discover"} => row[d].ep # NoEndpoint
Endpointed == /\ \A q \in Consumer : ConsumerPointed(q)
              /\ \A d \in Discoverer : DiscovererPointed(d)

RowsTyped ==
    /\ chan \in Channel /\ shown \subseteq Endpoint
    /\ snaps \in [0..MaxEp -> SUBSET Endpoint]
    /\ epAt \in [0..MaxEp -> Endpoints]
AdminTyped ==
    /\ at \in [Admin -> {"idle", "read", "marking"}]
    /\ prev \in [Admin -> Old]
    /\ unmarked \in BOOLEAN
SessionsTyped ==
    /\ holder \in [Leases -> Session \cup {NoOwner, Ghost}]
    /\ pc \in [Session -> Pc]
    /\ row \in [Session -> Job]
WorkTyped ==
    /\ asked \in [Consumer -> Endpoints]
    /\ cache \in [Process -> [rev : 0..MaxEp, ep : Endpoints]]
    /\ mapped \in [Consumer -> BOOLEAN]
    /\ known \in [Consumer -> Endpoints]
    /\ batch \in [Consumer -> Endpoints]

(* The type invariant in parts, which a step changes or leaves alone.      *)
LEMMA TypeParts ==
    /\ TypeOK <=> RowsTyped /\ AdminTyped /\ SessionsTyped /\ WorkTyped
    /\ TypeOK' <=> RowsTyped' /\ AdminTyped' /\ SessionsTyped' /\ WorkTyped'
BY DEF TypeOK, RowsTyped, AdminTyped, SessionsTyped, WorkTyped

LEMMA RowsUnchanged == RowsTyped /\ UNCHANGED rowVars => RowsTyped'
BY DEF RowsTyped, rowVars
LEMMA AdminUnchanged == AdminTyped /\ UNCHANGED adminVars => AdminTyped'
BY DEF AdminTyped, adminVars
LEMMA WorkUnchanged == WorkTyped /\ UNCHANGED workVars => WorkTyped'
BY DEF WorkTyped, workVars
LEMMA SessionsUnchanged ==
    SessionsTyped /\ UNCHANGED <<holder, pc, row>> => SessionsTyped'
BY DEF SessionsTyped

LEMMA JobTyped == \A c \in Channel : JobOf(c) \in Job /\ OldOf(c) \in Old
BY DEF JobOf, OldOf, Job, Old, Channel, Endpoints, Cpamps

LEMMA NoChannelTyped ==
    /\ NoChannel \in Channel
    /\ JobOf(NoChannel) \in Job /\ OldOf(NoChannel) \in Old
<1>1. /\ 0 \in 0..MaxEp /\ 0 \in 0..MaxCol /\ {} \in SUBSET (0..MaxCol)
      /\ "none" \in Source /\ NoEndpoint \in Endpoints /\ NoEndpoint \in Cpamps
  BY DEF Source, CpaSource, Endpoints, Cpamps
<1>2. NoChannel \in Channel
  BY <1>1 DEF NoChannel, Channel
<1> QED BY <1>2, JobTyped

-------------------------------------------------------------------------------
(* What the administrator's steps do to the row.                           *)
LEMMA CreateEffect ==
    ASSUME RowsTyped, Create
    PROVE  /\ RowsTyped' /\ chan.state = "new" /\ chan'.state = "live"
           /\ chan'.attempt = chan.attempt
           /\ chan'.eprev = chan.eprev /\ chan'.colrev = chan.colrev
           /\ epAt' = [epAt EXCEPT ![0] = chan'.ep]
           /\ IF chan'.source = "native" /\ chan'.enabled
              THEN chan'.confirmed /\ chan'.queue = "polled"
              ELSE ~chan'.confirmed /\ chan'.queue = "disabled"
<1>1. PICK source \in Source, ep \in Endpoints, amp \in Cpamps,
           en \in BOOLEAN, confirm \in BOOLEAN :
        LET active == source = "native" /\ en /\ confirm
            c == [chan EXCEPT !.state = "live", !.enabled = en, !.ep = ep,
                              !.amp = amp, !.source = source,
                              !.confirmed = active,
                              !.queue = IF active THEN "polled" ELSE "disabled"]
        IN  /\ Configured(c, source)
            /\ source = "native" /\ en => confirm
            /\ chan' = c
            /\ epAt' = [epAt EXCEPT ![0] = ep]
  BY Zenon DEF Create
<1> DEFINE active == source = "native" /\ en /\ confirm
           queue == IF active THEN "polled" ELSE "disabled"
<1>2. chan \in Channel
  BY DEF RowsTyped
<1>3. /\ chan' = [chan EXCEPT !.state = "live", !.enabled = en, !.ep = ep,
                             !.amp = amp, !.source = source,
                             !.confirmed = active, !.queue = queue]
      /\ source = "native" /\ en => confirm
      /\ epAt' = [epAt EXCEPT ![0] = ep]
  BY <1>1, Zenon
<1>4. /\ active \in BOOLEAN /\ queue \in {"disabled", "awaiting", "polled"}
      /\ IF source = "native" /\ en
         THEN active /\ queue = "polled" ELSE ~active /\ queue = "disabled"
  BY <1>3
<1> HIDE DEF active, queue
<1>5. /\ chan' \in Channel /\ chan'.state = "live"
      /\ chan'.ep = ep /\ chan'.source = source /\ chan'.enabled = en
      /\ chan'.attempt = chan.attempt
      /\ chan'.eprev = chan.eprev /\ chan'.colrev = chan.colrev
      /\ chan'.confirmed = active /\ chan'.queue = queue
  BY <1>2, <1>3, <1>4 DEF Channel
<1>6. RowsTyped'
  BY <1>3, <1>5 DEF Create, RowsTyped
<1> QED BY <1>3, <1>4, <1>5, <1>6 DEF Create

(* The row after an update, and what it says of the old one.               *)
LEMMA UpdateRowEffect ==
    ASSUME RowsTyped, NEW ep \in Endpoints, NEW amp \in Cpamps, NEW en \in BOOLEAN,
           UpdateRow(ep, amp, en)
    PROVE  /\ RowsTyped'
           /\ chan'.state = chan.state /\ chan'.source = chan.source
           /\ chan'.attempt = chan.attempt
           /\ chan'.ep = ep /\ chan'.amp = amp /\ chan'.enabled = en
           /\ chan'.eprev = chan.eprev + (IF ep # chan.ep THEN 1 ELSE 0)
           /\ chan'.colrev \in {chan.colrev, chan.colrev + 1}
           /\ ep # chan.ep /\ chan.source \in CpaSource
                => chan'.colrev # chan.colrev
           /\ chan'.colrev # chan.colrev /\ chan.source \in CpaSource
                => ep # chan.ep \/ en # chan.enabled
           /\ IF ep # chan.ep \/ en # chan.enabled
              THEN /\ ~chan'.confirmed
                   /\ chan'.queue = IF en /\ chan.source = "native"
                                     THEN "awaiting" ELSE "disabled"
              ELSE chan'.confirmed = chan.confirmed /\ chan'.queue = chan.queue
<1> DEFINE moved == ep # chan.ep
           selected == \/ moved /\ chan.source \in CpaSource
                       \/ amp # chan.amp /\ chan.source = "cpamp"
           reset == moved \/ en # chan.enabled
           eprev2 == IF moved THEN chan.eprev + 1 ELSE chan.eprev
           colrev2 == IF selected \/ en # chan.enabled
                      THEN chan.colrev + 1 ELSE chan.colrev
           confirmed2 == chan.confirmed /\ ~reset
           queue2 == IF ~reset THEN chan.queue
                     ELSE IF en /\ chan.source = "native"
                          THEN "awaiting" ELSE "disabled"
<1>1. chan \in Channel
  BY DEF RowsTyped
<1>2. chan' = [chan EXCEPT !.ep = ep, !.amp = amp, !.enabled = en,
                           !.eprev = eprev2, !.colrev = colrev2,
                           !.confirmed = confirmed2, !.queue = queue2]
  BY Zenon DEF UpdateRow
<1>3. /\ confirmed2 \in BOOLEAN /\ queue2 \in {"disabled", "awaiting", "polled"}
      /\ eprev2 \in Nat /\ colrev2 \in Nat
  BY <1>1 DEF Channel
<1>4. chan'.eprev <= MaxEp /\ chan'.colrev <= MaxCol
  BY DEF UpdateRow
<1> HIDE DEF eprev2, colrev2, confirmed2, queue2
<1>5. /\ chan'.state = chan.state /\ chan'.source = chan.source
      /\ chan'.attempt = chan.attempt
      /\ chan'.ep = ep /\ chan'.amp = amp /\ chan'.enabled = en
      /\ chan'.eprev = eprev2 /\ chan'.colrev = colrev2
      /\ chan'.confirmed = confirmed2 /\ chan'.queue = queue2
  BY <1>1, <1>2 DEF Channel
<1>6. chan' \in Channel
  <2>1. eprev2 \in 0..MaxEp /\ colrev2 \in 0..MaxCol
    BY <1>3, <1>4, <1>5
  <2> QED BY <1>1, <1>2, <1>3, <2>1 DEF Channel
<1>7. RowsTyped'
  <2>1. /\ shown' \in {{}, shown}
        /\ epAt' = epAt \/ epAt' = [epAt EXCEPT ![chan'.eprev] = ep]
        /\ snaps' = snaps
    BY DEF UpdateRow
  <2> QED BY <1>6, <2>1 DEF RowsTyped
<1>8. /\ chan'.eprev = chan.eprev + (IF ep # chan.ep THEN 1 ELSE 0)
      /\ chan'.colrev \in {chan.colrev, chan.colrev + 1}
      /\ ep # chan.ep /\ chan.source \in CpaSource
           => chan'.colrev # chan.colrev
      /\ chan'.colrev # chan.colrev /\ chan.source \in CpaSource
           => ep # chan.ep \/ en # chan.enabled
  BY <1>1, <1>5 DEF Channel, CpaSource, eprev2, colrev2
<1>9. IF ep # chan.ep \/ en # chan.enabled
      THEN /\ ~chan'.confirmed
           /\ chan'.queue = IF en /\ chan.source = "native"
                             THEN "awaiting" ELSE "disabled"
      ELSE chan'.confirmed = chan.confirmed /\ chan'.queue = chan.queue
  <2>1. chan.confirmed \in BOOLEAN /\ chan.enabled \in BOOLEAN
    BY <1>1 DEF Channel
  <2> QED BY <1>5, <2>1, Zenon DEF confirmed2, queue2
<1> QED BY <1>5, <1>7, <1>8, <1>9

(* An update that makes the channel's accounts those of a new endpoint, or *)
(* enables it, is followed by a mark.                                      *)
LEMMA UpdateEffect ==
    ASSUME RowsTyped, AdminTyped, NEW p \in Admin, Update(p)
    PROVE  /\ AdminTyped' /\ Live
           /\ \E ep \in Endpoints, amp \in Cpamps, en \in BOOLEAN :
                 UpdateRow(ep, amp, en)
           /\ chan'.enabled /\ chan'.source \in CpaSource
                 /\ chan'.colrev # chan.colrev
                => at'[p] = "marking"
           /\ \A o \in Admin : o # p => at'[o] = at[o]
           /\ UNCHANGED <<unmarked, holder, pc, row, workVars>>
<1>1. PICK ep \in Endpoints, amp \in Cpamps, en \in BOOLEAN :
        LET old == prev[p]
        IN  /\ Configured([old EXCEPT !.ep = ep, !.amp = amp], old.source)
            /\ UpdateRow(IF ep = old.ep THEN chan.ep ELSE ep,
                         IF amp = old.amp THEN chan.amp ELSE amp,
                         IF en = old.enabled THEN chan.enabled ELSE en)
  BY Zenon DEF Update
<1> DEFINE ep2 == IF ep = prev[p].ep THEN chan.ep ELSE ep
           amp2 == IF amp = prev[p].amp THEN chan.amp ELSE amp
           en2 == IF en = prev[p].enabled THEN chan.enabled ELSE en
<1>2. UpdateRow(ep2, amp2, en2)
  BY <1>1
<1>3. chan \in Channel /\ prev[p] \in Old
  BY DEF RowsTyped, AdminTyped
<1>4. ep2 \in Endpoints /\ amp2 \in Cpamps /\ en2 \in BOOLEAN
  BY <1>3 DEF Channel
<1>5. /\ ep2 # chan.ep => ep2 # prev[p].ep
      /\ en2 # chan.enabled => en2 # prev[p].enabled
  OBVIOUS
<1>6. Decide(p, MarkWanted(p, chan')) /\ Live
  BY DEF Update
<1> HIDE DEF ep2, amp2, en2
<1>7. /\ chan'.ep = ep2 /\ chan'.enabled = en2
      /\ chan'.colrev # chan.colrev /\ chan.source \in CpaSource
           => ep2 # chan.ep \/ en2 # chan.enabled
      /\ chan'.source = chan.source
  BY <1>2, <1>4, UpdateRowEffect
<1>8. ASSUME chan'.enabled, chan'.source \in CpaSource, chan'.colrev # chan.colrev
      PROVE  MarkWanted(p, chan')
  <2>1. chan'.ep # prev[p].ep \/ chan'.enabled # prev[p].enabled
    BY <1>5, <1>7, <1>8
  <2>2. prev[p].enabled \in BOOLEAN
    BY <1>3 DEF Old
  <2> QED BY <1>4, <1>7, <1>8, <2>1, <2>2 DEF MarkWanted
<1>9. /\ AdminTyped'
      /\ MarkWanted(p, chan') => at'[p] = "marking"
      /\ \A o \in Admin : o # p => at'[o] = at[o]
      /\ UNCHANGED <<unmarked, holder, pc, row, workVars>>
  BY <1>6, NoChannelTyped DEF Decide, Answered, AdminTyped
<1> QED BY <1>2, <1>4, <1>6, <1>8, <1>9

(* A change of source empties the attempt and hides what is shown.         *)
LEMMA SetSourceEffect ==
    ASSUME RowsTyped, AdminTyped, NEW p \in Admin, SetSource(p)
    PROVE  /\ RowsTyped' /\ AdminTyped' /\ Live
           /\ chan'.state = chan.state /\ chan'.enabled = chan.enabled
           /\ chan'.ep = chan.ep /\ chan'.eprev = chan.eprev
           /\ IF chan'.source = chan.source
              THEN /\ chan'.colrev = chan.colrev /\ chan'.attempt = chan.attempt
                   /\ shown' = shown
              ELSE /\ chan'.colrev = chan.colrev + 1 /\ chan'.attempt = {}
                   /\ shown' = {}
           /\ IF chan'.source = "native" /\ chan.enabled
              THEN chan'.confirmed /\ chan'.queue = "polled"
              ELSE ~chan'.confirmed /\ chan'.queue = "disabled"
           /\ \A o \in Admin : o # p => at'[o] = at[o]
           /\ UNCHANGED <<snaps, epAt, unmarked, holder, pc, row, workVars>>
<1>1. PICK source \in Source, confirm \in BOOLEAN :
        LET changed == source # chan.source
            active == source = "native" /\ chan.enabled /\ confirm
            c == [chan EXCEPT
                    !.source = source, !.colrev = @ + (IF changed THEN 1 ELSE 0),
                    !.confirmed = active,
                    !.queue = IF active THEN "polled" ELSE "disabled",
                    !.attempt = IF changed THEN {} ELSE @]
        IN  /\ Configured(chan, source)
            /\ source = "native" /\ chan.enabled => confirm
            /\ c.colrev <= MaxCol
            /\ chan' = c
            /\ shown' = IF changed THEN {} ELSE shown
            /\ Decide(p, c.enabled /\ source # prev[p].source)
  BY Zenon DEF SetSource
<1> DEFINE changed == source # chan.source
           active == source = "native" /\ chan.enabled /\ confirm
           colrev2 == chan.colrev + (IF changed THEN 1 ELSE 0)
           queue2 == IF active THEN "polled" ELSE "disabled"
           attempt2 == IF changed THEN {} ELSE chan.attempt
<1>2. chan \in Channel
  BY DEF RowsTyped
<1>3. /\ chan' = [chan EXCEPT !.source = source, !.colrev = colrev2,
                             !.confirmed = active, !.queue = queue2,
                             !.attempt = attempt2]
      /\ chan'.colrev <= MaxCol
      /\ source = "native" /\ chan.enabled => confirm
      /\ shown' = IF changed THEN {} ELSE shown
  BY <1>1, Zenon
<1>4. \E marks \in BOOLEAN : Decide(p, marks)
  BY <1>1
<1>5. /\ active \in BOOLEAN /\ queue2 \in {"disabled", "awaiting", "polled"}
      /\ colrev2 \in Nat /\ attempt2 \subseteq 0..MaxCol
  BY <1>2 DEF Channel
<1>6. IF source = "native" /\ chan.enabled
      THEN active /\ queue2 = "polled" ELSE ~active /\ queue2 = "disabled"
  BY <1>3
<1> HIDE DEF colrev2, queue2, attempt2, active
<1>7. /\ chan'.state = chan.state /\ chan'.enabled = chan.enabled
      /\ chan'.ep = chan.ep /\ chan'.eprev = chan.eprev
      /\ chan'.source = source /\ chan'.colrev = colrev2
      /\ chan'.confirmed = active /\ chan'.queue = queue2
      /\ chan'.attempt = attempt2
  BY <1>2, <1>3 DEF Channel
<1>8. chan' \in Channel
  <2>1. colrev2 \in 0..MaxCol
    BY <1>3, <1>5, <1>7
  <2> QED BY <1>2, <1>3, <1>5, <2>1 DEF Channel
<1>9. RowsTyped'
  BY <1>3, <1>8 DEF SetSource, RowsTyped
<1>10. /\ AdminTyped' /\ \A o \in Admin : o # p => at'[o] = at[o]
       /\ UNCHANGED <<unmarked, holder, pc, row, workVars>>
  BY <1>4, NoChannelTyped DEF Decide, Answered, AdminTyped
<1>11. /\ Live /\ UNCHANGED <<snaps, epAt>>
  BY DEF SetSource
<1>12. IF source = chan.source
       THEN colrev2 = chan.colrev /\ attempt2 = chan.attempt /\ shown' = shown
       ELSE colrev2 = chan.colrev + 1 /\ attempt2 = {} /\ shown' = {}
  BY <1>2, <1>3 DEF colrev2, attempt2, Channel
<1> QED BY <1>6, <1>7, <1>9, <1>10, <1>11, <1>12

(* Deleting and marking; the cache of some process goes with them.         *)
LEMMA NoMappingTyped ==
    ASSUME WorkTyped, NEW h \in Process, cache' = [cache EXCEPT ![h] = NoMapping],
           UNCHANGED <<asked, mapped, known, batch>>
    PROVE  WorkTyped'
<1>1. NoMapping \in [rev : 0..MaxEp, ep : Endpoints]
  BY DEF NoMapping, Endpoints
<1> QED BY <1>1 DEF WorkTyped

LEMMA MarkTyped ==
    ASSUME RowsTyped, AdminTyped, WorkTyped, NEW p \in Admin, Mark(p)
    PROVE  RowsTyped' /\ AdminTyped' /\ WorkTyped'
<1>1. RowsTyped'
  BY DEF Mark, RowsTyped, Channel
<1>2. AdminTyped'
  BY NoChannelTyped DEF Mark, Answered, AdminTyped
<1>3. WorkTyped'
  BY NoMappingTyped DEF Mark
<1> QED BY <1>1, <1>2, <1>3

LEMMA DeleteTyped ==
    ASSUME RowsTyped, WorkTyped, Delete PROVE RowsTyped' /\ WorkTyped'
<1>1. RowsTyped'
  BY NoChannelTyped DEF Delete, RowsTyped, Channel
<1>2. WorkTyped'
  BY NoMappingTyped DEF Delete
<1> QED BY <1>1, <1>2

LEMMA AdministerTyped == TypeOK /\ Administer => TypeOK'
<1> SUFFICES ASSUME TypeOK, Administer PROVE TypeOK'
  OBVIOUS
<1>0. RowsTyped /\ AdminTyped /\ SessionsTyped /\ WorkTyped
  BY TypeParts
<1>1. UNCHANGED <<holder, pc, row>>
  BY ZenonT(60) DEF Administer, Create, Delete, Read, Refused, Update, Decide, SetSource,
         Mark, MarkFails
<1>2. SessionsTyped'
  BY <1>0, <1>1, SessionsUnchanged
<1>3. CASE Create
  BY <1>0, <1>2, <1>3, CreateEffect, AdminUnchanged, WorkUnchanged, TypeParts DEF Create
<1>4. CASE Delete
  BY <1>0, <1>2, <1>4, DeleteTyped, AdminUnchanged, TypeParts DEF Delete
<1>5. ASSUME NEW p \in Admin, Read(p) PROVE TypeOK'
  <2>1. AdminTyped'
    BY <1>0, <1>5, JobTyped DEF Read, AdminTyped, RowsTyped
  <2> QED BY <1>0, <1>2, <1>5, <2>1, RowsUnchanged, WorkUnchanged, TypeParts DEF Read
<1>6. ASSUME NEW p \in Admin, Refused(p) \/ MarkFails(p) PROVE TypeOK'
  <2>1. AdminTyped'
    BY <1>0, <1>6, NoChannelTyped DEF Refused, MarkFails, Answered, AdminTyped
  <2> QED BY <1>0, <1>2, <1>6, <2>1, RowsUnchanged, WorkUnchanged, TypeParts
          DEF Refused, MarkFails
<1>7. ASSUME NEW p \in Admin, Update(p) PROVE TypeOK'
  <2>1. AdminTyped' /\ UNCHANGED workVars
    BY <1>0, <1>7, UpdateEffect
  <2>2. RowsTyped'
    <3>1. PICK ep \in Endpoints, amp \in Cpamps, en \in BOOLEAN :
            UpdateRow(ep, amp, en)
      BY <1>0, <1>7, UpdateEffect
    <3> QED BY <1>0, <3>1, UpdateRowEffect
  <2> QED BY <1>0, <1>2, <2>1, <2>2, WorkUnchanged, TypeParts
<1>8. ASSUME NEW p \in Admin, SetSource(p) PROVE TypeOK'
  BY <1>0, <1>2, <1>8, SetSourceEffect, WorkUnchanged, TypeParts
<1>9. ASSUME NEW p \in Admin, Mark(p) PROVE TypeOK'
  BY <1>0, <1>2, <1>9, MarkTyped, TypeParts
<1> QED BY <1>3, <1>4, <1>5, <1>6, <1>7, <1>8, <1>9 DEF Administer

-------------------------------------------------------------------------------
(* Sessions.                                                               *)
LEMMA GotoTyped ==
    ASSUME SessionsTyped, NEW s \in Session, NEW label \in Pc, Goto(s, label),
           UNCHANGED <<holder, row>>
    PROVE  SessionsTyped'
BY DEF Goto, SessionsTyped

LEMMA TakeRowTyped ==
    ASSUME RowsTyped, SessionsTyped, NEW s \in Session, NEW label \in Pc,
           Goto(s, label), row' = [row EXCEPT ![s] = JobOf(chan)],
           UNCHANGED holder
    PROVE  SessionsTyped'
BY JobTyped DEF Goto, SessionsTyped, RowsTyped

LEMMA ForgetTyped ==
    ASSUME SessionsTyped, WorkTyped, NEW S \in SUBSET Session, Forget(S),
           holder' \in [Leases -> Session \cup {NoOwner, Ghost}],
           cache' \in [Process -> [rev : 0..MaxEp, ep : Endpoints]]
    PROVE  SessionsTyped' /\ WorkTyped'
<1>1. NoEndpoint \in Endpoints /\ "idle" \in Pc
  BY DEF Endpoints, Pc
<1>2. SessionsTyped'
  BY <1>1, NoChannelTyped DEF Forget, SessionsTyped
<1>3. WorkTyped'
  BY <1>1 DEF Forget, WorkTyped
<1> QED BY <1>2, <1>3

LEMMA RememberTyped ==
    ASSUME SessionsTyped, WorkTyped, NEW s \in Session, NEW ep \in Endpoints,
           Remember(s, ep)
    PROVE  cache' \in [Process -> [rev : 0..MaxEp, ep : Endpoints]]
<1>1. [rev |-> row[s].eprev, ep |-> ep] \in [rev : 0..MaxEp, ep : Endpoints]
  BY DEF SessionsTyped, Job
<1> QED BY <1>1 DEF Remember, WorkTyped

(* The steps that take and give leases, and crashes.                       *)
SessionStep ==
    \/ \E r \in Refresher : Refresh(r)
    \/ \E s \in Session : Acquire(s) \/ LeaseLost(s) \/ Release(s)
    \/ \E l \in Leases : Expire(l)
    \/ \E h \in Process : Crash(h)

LEMMA SessionStepTyped == TypeOK /\ SessionStep => TypeOK'
<1> SUFFICES ASSUME TypeOK, SessionStep PROVE TypeOK'
  OBVIOUS
<1>0. RowsTyped /\ AdminTyped /\ SessionsTyped /\ WorkTyped
  BY TypeParts
<1>1. RowsTyped' /\ AdminTyped'
  BY <1>0, RowsUnchanged, AdminUnchanged
     DEF SessionStep, Refresh, Acquire, LeaseLost, Release, Expire, Crash
<1>l. {"idle", "listing", "releasing", "opening"} \subseteq Pc
  BY DEF Pc, DiscoverPc
<1>2. ASSUME NEW r \in Refresher, Refresh(r) PROVE TypeOK'
  <2>1. SessionsTyped'
    BY <1>0, <1>l, <1>2 DEF Refresh, Goto, SessionsTyped, Session, Leases
  <2> QED BY <1>0, <1>1, <1>2, <2>1, WorkUnchanged, TypeParts DEF Refresh
<1>3. ASSUME NEW s \in Session, Acquire(s) PROVE TypeOK'
  <2>1. SessionsTyped'
    BY <1>0, <1>l, <1>3 DEF Acquire, Goto, SessionsTyped, Leases
  <2> QED BY <1>0, <1>1, <1>3, <2>1, WorkUnchanged, TypeParts DEF Acquire
<1>4. ASSUME NEW s \in Session, LeaseLost(s) PROVE TypeOK'
  BY <1>0, <1>1, <1>l, <1>4, GotoTyped, WorkUnchanged, TypeParts DEF LeaseLost
<1>5. ASSUME NEW s \in Session, Release(s) PROVE TypeOK'
  <2>1. holder' \in [Leases -> Session \cup {NoOwner, Ghost}]
    BY <1>0, <1>5 DEF Release, SessionsTyped
  <2>2. SessionsTyped' /\ WorkTyped'
    BY <1>0, <1>5, <2>1, ForgetTyped DEF Release, WorkTyped
  <2> QED BY <1>1, <2>2, TypeParts
<1>6. ASSUME NEW l \in Leases, Expire(l) PROVE TypeOK'
  <2>1. SessionsTyped'
    BY <1>0, <1>6 DEF Expire, SessionsTyped
  <2> QED BY <1>0, <1>1, <1>6, <2>1, WorkUnchanged, TypeParts DEF Expire
<1>7. ASSUME NEW h \in Process, Crash(h) PROVE TypeOK'
  <2> DEFINE lost == {s \in Session : Home[s] = h}
  <2>1. holder' \in [Leases -> Session \cup {NoOwner, Ghost}]
    BY <1>0, <1>7 DEF Crash, SessionsTyped
  <2>2. cache' \in [Process -> [rev : 0..MaxEp, ep : Endpoints]]
    BY <1>0, <1>7 DEF Crash, WorkTyped, NoMapping, Endpoints
  <2>3. Forget(lost) /\ lost \in SUBSET Session
    BY <1>7 DEF Crash
  <2>4. SessionsTyped' /\ WorkTyped'
    BY <1>0, <2>1, <2>2, <2>3, ForgetTyped
  <2> QED BY <1>1, <2>4, TypeParts
<1> QED BY <1>2, <1>3, <1>4, <1>5, <1>6, <1>7 DEF SessionStep

(* A step of one session leaves the others with their endpoints.           *)
LEMMA PointedElsewhere ==
    ASSUME Endpointed, NEW s \in Session,
           \A t \in Session \ {s} : pc'[t] = pc[t] /\ row'[t] = row[t],
           \A t \in Consumer \ {s} : known'[t] = known[t] /\ batch'[t] = batch[t],
           s \in Consumer => ConsumerPointed(s)',
           s \in Discoverer => DiscovererPointed(s)'
    PROVE  Endpointed'
BY DEF Endpointed, ConsumerPointed, DiscovererPointed, Session, Discoverer

-------------------------------------------------------------------------------
(* Discovery.                                                              *)
LEMMA DiscoveryTyped ==
    ASSUME TypeOK, Endpointed, NEW d \in Discoverer, Discovery(d)
    PROVE  TypeOK' /\ Endpointed'
<1>0. RowsTyped /\ AdminTyped /\ SessionsTyped /\ WorkTyped
  BY TypeParts
<1>d. d \in Session /\ d \notin Consumer
  BY DEF Discoverer, Session
<1>l. DiscoverPc \cup {"releasing"} \subseteq Pc
  BY DEF Pc
<1>p. DiscovererPointed(d)
  BY DEF Endpointed
<1>1. AdminTyped'
  BY <1>0 DEF Discovery, List, PickChannel, Paced, Open, Answer, Recheck, Discover,
              Attempt, Rejected, WriteError, AdminTyped, adminVars
<1>2. WorkTyped'
  <2>1. CASE Discover(d)
    <3>1. row[d].ep \in Endpoints
      BY <1>0, <1>d DEF SessionsTyped, Job
    <3>2. cache' \in [Process -> [rev : 0..MaxEp, ep : Endpoints]]
      BY <1>0, <1>d, <2>1, <3>1, RememberTyped DEF Discover
    <3> QED BY <1>0, <2>1, <3>2 DEF Discover, WorkTyped
  <2>2. CASE ~Discover(d)
    BY <1>0, <2>2, WorkUnchanged
       DEF Discovery, List, PickChannel, Paced, Open, Answer, Recheck,
           Attempt, Rejected, WriteError
  <2> QED BY <2>1, <2>2
<1>3. RowsTyped'
  <2>1. CASE Discover(d)
    <3>1. row[d].ep \in Endpoint
      BY <1>0, <1>d, <1>p, <2>1
         DEF Discover, DiscovererPointed, SessionsTyped, Job, Endpoints
    <3> QED BY <1>0, <2>1, <3>1 DEF Discover, Discovered, RowsTyped
  <2>2. CASE Attempt(d)
    <3>1. row[d].colrev \in 0..MaxCol
      BY <1>0, <1>d DEF SessionsTyped, Job
    <3>2. chan' = [chan EXCEPT !.attempt = {row[d].colrev}]
      BY <2>2 DEF Attempt
    <3>3. chan' \in Channel
      BY <1>0, <3>1, <3>2 DEF RowsTyped, Channel
    <3> QED BY <1>0, <2>2, <3>3 DEF Attempt, RowsTyped
  <2>3. CASE ~Discover(d) /\ ~Attempt(d)
    BY <1>0, <2>3, RowsUnchanged
       DEF Discovery, List, PickChannel, Paced, Open, Answer, Recheck, Rejected,
           WriteError
  <2> QED BY <2>1, <2>2, <2>3
<1>4. SessionsTyped' /\ DiscovererPointed(d)'
  <2>1. CASE List(d)
    <3>1. \/ row' = [row EXCEPT ![d] = JobOf(chan)] /\ Goto(d, "next")
          \/ row' = row /\ Goto(d, "releasing")
      BY <2>1 DEF List
    <3>2. SessionsTyped'
      BY <1>0, <1>d, <1>l, <2>1, <3>1, TakeRowTyped, GotoTyped DEF List, DiscoverPc
    <3> QED BY <1>0, <1>d, <3>1, <3>2 DEF Goto, SessionsTyped, DiscovererPointed
  <2>2. CASE PickChannel(d)
    <3>1. PICK label \in {"discovering", "pacing", "releasing"} :
            /\ Goto(d, label)
            /\ row' \in {row, [row EXCEPT ![d] = JobOf(chan)]}
      BY <2>2 DEF PickChannel
    <3>2. SessionsTyped'
      BY <1>0, <1>d, <1>l, <2>2, <3>1, TakeRowTyped, GotoTyped
         DEF PickChannel, DiscoverPc
    <3> QED BY <1>0, <1>d, <3>1, <3>2 DEF Goto, SessionsTyped, DiscovererPointed
  <2>3. CASE Open(d)
    <3>1. PICK label \in {"discovering", "releasing"} :
            /\ Goto(d, label)
            /\ row' \in {row, [row EXCEPT ![d] = JobOf(chan)]}
      BY <2>3 DEF Open
    <3>2. SessionsTyped'
      BY <1>0, <1>d, <1>l, <2>3, <3>1, TakeRowTyped, GotoTyped DEF Open, DiscoverPc
    <3> QED BY <1>0, <1>d, <3>1, <3>2 DEF Goto, SessionsTyped, DiscovererPointed
  <2>4. ASSUME Paced(d) \/ Answer(d) \/ Recheck(d) \/ Discover(d) \/ Attempt(d)
                 \/ Rejected(d) \/ WriteError(d)
        PROVE  SessionsTyped' /\ DiscovererPointed(d)'
    <3>1. UNCHANGED <<holder, row>>
      BY <2>4 DEF Paced, Answer, Recheck, Discover, Attempt, Rejected, WriteError
    <3>2. PICK label \in DiscoverPc \cup {"releasing"} :
            /\ Goto(d, label)
            /\ label = "answered" => row[d].ep # NoEndpoint
            /\ label = "discover" => pc[d] = "answered"
      BY <2>4 DEF Paced, Answer, Recheck, Discover, Attempt, Rejected, WriteError,
                  DiscoverPc
    <3>3. SessionsTyped'
      BY <1>0, <1>d, <1>l, <3>1, <3>2, GotoTyped
    <3> QED BY <1>0, <1>d, <1>p, <3>1, <3>2, <3>3
            DEF Goto, SessionsTyped, DiscovererPointed
  <2> QED BY <2>1, <2>2, <2>3, <2>4 DEF Discovery
<1>5. Endpointed'
  <2>1. /\ \A t \in Session \ {d} : pc'[t] = pc[t] /\ row'[t] = row[t]
        /\ known' = known /\ batch' = batch
    BY <1>0 DEF Discovery, List, PickChannel, Paced, Open, Answer, Recheck, Discover,
                Attempt, Rejected, WriteError, Goto, SessionsTyped, workVars
  <2> QED BY <1>d, <1>4, <2>1, PointedElsewhere
<1> QED BY <1>1, <1>2, <1>3, <1>4, <1>5, TypeParts

-------------------------------------------------------------------------------
(* The usage queue.                                                        *)
LEMMA ConsumeRows ==
    ASSUME TypeOK, Endpointed, NEW q \in Consumer, Consume(q)
    PROVE  RowsTyped' /\ AdminTyped'
<1>0. RowsTyped /\ AdminTyped /\ SessionsTyped /\ WorkTyped
  BY TypeParts
<1>q. q \in Session /\ ConsumerPointed(q)
  BY DEF Session, Endpointed
<1>1. AdminTyped'
  BY <1>0 DEF Consume, ListQueue, LoadCached, Load, Loaded, CheckLoaded, Map, Deleted,
              Stats, Pop, Popped, RefreshMapping, Persist, ConsumeFails, RecordState,
              AdminTyped, adminVars
<1>2. CASE Map(q)
  <2>1. known[q] \in Endpoint
    BY <1>0, <1>q, <1>2 DEF Map, ConsumerPointed, WorkTyped, Endpoints
  <2> QED BY <1>0, <1>1, <1>2, <2>1 DEF Map, Discovered, RowsTyped
<1>3. CASE Persist(q)
  <2>1. known[q] \in Endpoint /\ batch[q] \in Endpoint
    BY <1>0, <1>q, <1>3 DEF Persist, ConsumerPointed, WorkTyped, Endpoints
  <2>2. row[q].eprev \in 0..MaxEp
    BY <1>0, <1>q DEF SessionsTyped, Job
  <2>3. snaps' \in [0..MaxEp -> SUBSET Endpoint]
    BY <1>0, <1>3, <2>1, <2>2 DEF Persist, RowsTyped
  <2>4. shown' \subseteq Endpoint
    BY <1>0, <1>3, <2>1 DEF Persist, RowsTyped
  <2> QED BY <1>0, <1>1, <1>3, <2>3, <2>4 DEF Persist, RowsTyped
<1>4. CASE RecordState(q)
  <2>1. PICK status \in {"polled", chan.queue} :
          chan' = [chan EXCEPT !.queue = status]
    BY <1>4 DEF RecordState
  <2>2. chan' \in Channel
    BY <1>0, <2>1 DEF RowsTyped, Channel
  <2> QED BY <1>0, <1>1, <1>4, <2>2 DEF RecordState, RowsTyped
<1>5. CASE ~Map(q) /\ ~Persist(q) /\ ~RecordState(q)
  BY <1>0, <1>1, <1>5, RowsUnchanged
     DEF Consume, ListQueue, LoadCached, Load, Loaded, CheckLoaded, Deleted, Stats,
         Pop, Popped, RefreshMapping, ConsumeFails
<1> QED BY <1>2, <1>3, <1>4, <1>5

LEMMA ConsumeWork ==
    ASSUME TypeOK, Endpointed, NEW q \in Consumer, Consume(q)
    PROVE  WorkTyped'
<1>0. RowsTyped /\ SessionsTyped /\ WorkTyped /\ NoEndpoint \in Endpoints
  BY TypeParts DEF Endpoints
<1>q. q \in Session /\ Home[q] \in Process
  BY DEF Session
<1>1. CASE LoadCached(q)
  BY <1>0, <1>q, <1>1 DEF LoadCached, WorkTyped
<1>2. CASE Load(q) \/ Pop(q) \/ RefreshMapping(q)
  <2>1. PICK ep \in Endpoints : asked' \in {asked, [asked EXCEPT ![q] = ep]}
    BY <1>0, <1>q, <1>2
       DEF Load, Pop, RefreshMapping, Ask, RowsTyped, Channel, SessionsTyped, Job
  <2>2. asked' \in [Consumer -> Endpoints]
    BY <1>0, <2>1 DEF WorkTyped
  <2> QED BY <1>0, <1>2, <2>2 DEF Load, Pop, RefreshMapping, WorkTyped
<1>3. CASE Loaded(q)
  <2>1. asked[q] \in Endpoints
    BY <1>0 DEF WorkTyped
  <2>2. cache' \in [Process -> [rev : 0..MaxEp, ep : Endpoints]]
    BY <1>0, <1>q, <1>3, <2>1, RememberTyped DEF Loaded
  <2> QED BY <1>0, <1>3, <2>1, <2>2 DEF Loaded, Ask, WorkTyped
<1>4. CASE Deleted(q) \/ Persist(q)
  BY <1>0, <1>4 DEF Deleted, Persist, WorkTyped
<1>5. CASE Popped(q) \/ ConsumeFails(q)
  BY <1>0, <1>5 DEF Popped, ConsumeFails, Ask, WorkTyped
<1>6. CASE ListQueue(q) \/ CheckLoaded(q) \/ Map(q) \/ Stats(q) \/ RecordState(q)
  BY <1>0, <1>6, WorkUnchanged DEF ListQueue, CheckLoaded, Map, Stats, RecordState
<1> QED BY <1>1, <1>2, <1>3, <1>4, <1>5, <1>6 DEF Consume

LEMMA ConsumeSessions ==
    ASSUME TypeOK, Endpointed, NEW q \in Consumer, Consume(q)
    PROVE  SessionsTyped' /\ ConsumerPointed(q)'
<1>0. RowsTyped /\ SessionsTyped /\ WorkTyped /\ ConsumePc \cup {"releasing"} \subseteq Pc
  BY TypeParts DEF Pc
<1>q. q \in Session /\ ConsumerPointed(q)
  BY DEF Session, Endpointed
<1>1. CASE ListQueue(q)
  <2>1. \/ row' = [row EXCEPT ![q] = JobOf(chan)] /\ Goto(q, "listed")
        \/ row' = row /\ Goto(q, "releasing")
    BY <1>1 DEF ListQueue
  <2>2. SessionsTyped'
    BY <1>0, <1>q, <1>1, <2>1, TakeRowTyped, GotoTyped DEF ListQueue, ConsumePc
  <2> QED BY <1>0, <1>q, <2>1, <2>2 DEF Goto, SessionsTyped, ConsumerPointed
<1>2. ASSUME \/ LoadCached(q) \/ Load(q) \/ Loaded(q) \/ CheckLoaded(q) \/ Map(q)
             \/ Deleted(q) \/ Stats(q) \/ Pop(q) \/ Popped(q) \/ RefreshMapping(q)
             \/ Persist(q) \/ ConsumeFails(q) \/ RecordState(q)
      PROVE  SessionsTyped'
  <2>1. PICK label \in ConsumePc \cup {"releasing"} : Goto(q, label)
    BY <1>2 DEF LoadCached, Load, Loaded, CheckLoaded, Map, Deleted, Stats,
                Pop, Popped, RefreshMapping, Persist, ConsumeFails, RecordState,
                ConsumePc
  <2>2. UNCHANGED <<holder, row>>
    BY <1>2 DEF LoadCached, Load, Loaded, CheckLoaded, Map, Deleted, Stats,
                Pop, Popped, RefreshMapping, Persist, ConsumeFails, RecordState
  <2> QED BY <1>0, <1>q, <2>1, <2>2, GotoTyped
<1>3. CASE LoadCached(q)
  BY <1>0, <1>q, <1>2, <1>3 DEF LoadCached, Goto, SessionsTyped, WorkTyped, ConsumerPointed
<1>4. CASE Loaded(q)
  BY <1>0, <1>q, <1>2, <1>4 DEF Loaded, Goto, SessionsTyped, WorkTyped, ConsumerPointed
<1>5. CASE Popped(q)
  BY <1>0, <1>q, <1>2, <1>5 DEF Popped, Goto, SessionsTyped, WorkTyped, ConsumerPointed
<1>6. CASE Deleted(q) \/ Persist(q) \/ ConsumeFails(q)
  BY <1>0, <1>q, <1>2, <1>6
     DEF Deleted, Persist, ConsumeFails, Goto, SessionsTyped, WorkTyped, ConsumerPointed
<1>7. CASE Map(q)
  BY <1>0, <1>q, <1>2, <1>7 DEF Map, Goto, SessionsTyped, workVars, ConsumerPointed
<1>8. CASE Load(q) \/ CheckLoaded(q) \/ Stats(q)
  BY <1>0, <1>q, <1>2, <1>8
     DEF Load, CheckLoaded, Stats, Goto, SessionsTyped, workVars, ConsumerPointed
<1>9. CASE Pop(q) \/ RefreshMapping(q) \/ RecordState(q)
  BY <1>0, <1>q, <1>2, <1>9
     DEF Pop, RefreshMapping, RecordState, Goto, SessionsTyped, workVars, ConsumerPointed
<1> QED BY <1>1, <1>2, <1>3, <1>4, <1>5, <1>6, <1>7, <1>8, <1>9 DEF Consume

LEMMA ConsumeTyped ==
    ASSUME TypeOK, Endpointed, NEW q \in Consumer, Consume(q)
    PROVE  TypeOK' /\ Endpointed'
<1>1. TypeOK' /\ ConsumerPointed(q)'
  BY ConsumeRows, ConsumeWork, ConsumeSessions, TypeParts
<1>2. q \in Session /\ q \notin Discoverer /\ SessionsTyped /\ WorkTyped
  BY TypeParts DEF Session, Discoverer
<1>3. \A t \in Session \ {q} : pc'[t] = pc[t] /\ row'[t] = row[t]
  BY <1>2 DEF Consume, ListQueue, LoadCached, Load, Loaded, CheckLoaded, Map, Deleted,
              Stats, Pop, Popped, RefreshMapping, Persist, ConsumeFails, RecordState,
              Goto, SessionsTyped
<1>4. \A t \in Consumer \ {q} : known'[t] = known[t] /\ batch'[t] = batch[t]
  BY <1>2 DEF Consume, ListQueue, LoadCached, Load, Loaded, CheckLoaded, Map, Deleted,
              Stats, Pop, Popped, RefreshMapping, Persist, ConsumeFails, RecordState,
              WorkTyped, workVars
<1> QED BY <1>1, <1>2, <1>3, <1>4, PointedElsewhere

-------------------------------------------------------------------------------
(* Types.                                                                  *)
LEMMA SplitNext == Next <=> \/ Administer \/ SessionStep
                            \/ \E d \in Discoverer : Discovery(d)
                            \/ \E q \in Consumer : Consume(q)
BY DEF Next, SessionStep

LEMMA SessionStepEndpointed ==
    TypeOK /\ Endpointed /\ SessionStep => Endpointed'
<1> SUFFICES ASSUME TypeOK, Endpointed, SessionStep PROVE Endpointed'
  OBVIOUS
<1>0. SessionsTyped /\ WorkTyped
  BY TypeParts
<1>a. ASSUME NEW s \in Session, NEW label \in {"opening", "listing", "releasing"},
             Goto(s, label), UNCHANGED <<row, workVars>>
      PROVE  Endpointed'
  <2>1. ConsumerPointed(s)' /\ DiscovererPointed(s)'
    BY <1>0, <1>a DEF Goto, SessionsTyped, ConsumerPointed, DiscovererPointed
  <2>2. \A t \in Session \ {s} : pc'[t] = pc[t] /\ row'[t] = row[t]
    BY <1>0, <1>a DEF Goto, SessionsTyped
  <2> QED BY <1>a, <2>1, <2>2, PointedElsewhere DEF workVars
<1>1. ASSUME NEW r \in Refresher, Refresh(r) PROVE Endpointed'
  BY <1>a, <1>1 DEF Refresh, Session
<1>2. ASSUME NEW s \in Session, Acquire(s) \/ LeaseLost(s) PROVE Endpointed'
  BY <1>a, <1>2 DEF Acquire, LeaseLost
<1>3. ASSUME NEW S \in SUBSET Session, Forget(S) PROVE Endpointed'
  <2>1. ASSUME NEW q \in Consumer PROVE ConsumerPointed(q)'
    <3>1. q \in Session /\ ConsumerPointed(q)
      BY DEF Session, Endpointed
    <3> QED BY <1>3, <3>1 DEF Forget, ConsumerPointed
  <2>2. ASSUME NEW d \in Discoverer PROVE DiscovererPointed(d)'
    <3>1. d \in Session /\ DiscovererPointed(d)
      BY DEF Session, Discoverer, Endpointed
    <3> QED BY <1>3, <3>1 DEF Forget, DiscovererPointed
  <2> QED BY <2>1, <2>2 DEF Endpointed
<1>4. ASSUME NEW s \in Session, Release(s) PROVE Endpointed'
  BY <1>3, <1>4 DEF Release
<1>5. ASSUME NEW h \in Process, Crash(h) PROVE Endpointed'
  BY <1>3, <1>5 DEF Crash
<1>6. ASSUME NEW l \in Leases, Expire(l) PROVE Endpointed'
  BY <1>6 DEF Expire, workVars, Endpointed, ConsumerPointed, DiscovererPointed
<1> QED BY <1>1, <1>2, <1>4, <1>5, <1>6 DEF SessionStep

LEMMA AdministerEndpointed ==
    TypeOK /\ Endpointed /\ Administer => Endpointed'
<1> SUFFICES ASSUME TypeOK, Endpointed, Administer PROVE Endpointed'
  OBVIOUS
<1>1. UNCHANGED <<pc, row, known, batch>>
  BY ZenonT(60) DEF Administer, Create, Delete, Read, Refused, Update, Decide, SetSource,
         Mark, MarkFails, workVars
<1> QED BY <1>1 DEF Endpointed, ConsumerPointed, DiscovererPointed

LEMMA InitTyped == Init => TypeOK /\ Endpointed
<1> SUFFICES ASSUME Init PROVE TypeOK /\ Endpointed
  OBVIOUS
<1>1. NoEndpoint \in Endpoints /\ "idle" \in Pc
  BY DEF Endpoints, Pc
<1>2. NoMapping \in [rev : 0..MaxEp, ep : Endpoints]
  BY DEF NoMapping, Endpoints
<1>3. RowsTyped /\ AdminTyped
  BY <1>1, NoChannelTyped DEF Init, RowsTyped, AdminTyped
<1>4. SessionsTyped /\ WorkTyped
  BY <1>1, <1>2, NoChannelTyped DEF Init, SessionsTyped, WorkTyped
<1>5. Endpointed
  BY DEF Init, Endpointed, ConsumerPointed, DiscovererPointed, Session, Discoverer
<1> QED BY <1>3, <1>4, <1>5, TypeParts

LEMMA StepTyped ==
    TypeOK /\ Endpointed /\ [Next]_vars => TypeOK' /\ Endpointed'
<1> SUFFICES ASSUME TypeOK, Endpointed, [Next]_vars PROVE TypeOK' /\ Endpointed'
  OBVIOUS
<1>1. CASE Administer
  BY <1>1, AdministerTyped, AdministerEndpointed
<1>2. CASE SessionStep
  BY <1>2, SessionStepTyped, SessionStepEndpointed
<1>3. CASE \E d \in Discoverer : Discovery(d)
  BY <1>3, DiscoveryTyped
<1>4. CASE \E q \in Consumer : Consume(q)
  BY <1>4, ConsumeTyped
<1>5. CASE UNCHANGED vars
  <2>1. RowsTyped' /\ AdminTyped' /\ SessionsTyped' /\ WorkTyped'
    BY <1>5, TypeParts, RowsUnchanged, AdminUnchanged, SessionsUnchanged,
       WorkUnchanged DEF vars
  <2> QED BY <1>5, <2>1, TypeParts
          DEF vars, workVars, Endpointed, ConsumerPointed, DiscovererPointed
<1> QED BY <1>1, <1>2, <1>3, <1>4, <1>5, SplitNext

(* The rows, the sessions and the caches always have their types, and what *)
(* is shown or stored has really been read from an endpoint.               *)
THEOREM TypeCorrect == Spec => [](TypeOK /\ Endpointed)
<1> QED BY InitTyped, StepTyped, PTL DEF Spec

-------------------------------------------------------------------------------
(* The status of the queue.                                                *)
LEMMA ChanUnchanged ==
    ASSUME NEW d \in Discoverer, Discovery(d)
    PROVE  chan' = chan \/ Attempt(d)
BY DEF Discovery, List, PickChannel, Paced, Open, Answer, Recheck, Discover, Rejected,
       WriteError, rowVars

LEMMA ChanUnchangedByConsume ==
    ASSUME NEW q \in Consumer, Consume(q)
    PROVE  chan' = chan \/ RecordState(q)
BY DEF Consume, ListQueue, LoadCached, Load, Loaded, CheckLoaded, Map, Deleted, Stats,
       Pop, Popped, RefreshMapping, Persist, ConsumeFails, rowVars

LEMMA ChanUnchangedBySessions == SessionStep => chan' = chan
BY DEF SessionStep, Refresh, Acquire, LeaseLost, Release, Expire, Crash, rowVars

(* What the administrator's steps do to the row of the channel.            *)
LEMMA ChanChanges ==
    ASSUME Administer
    PROVE  \/ chan' = chan \/ Create \/ Delete
           \/ \E p \in Admin : Update(p) \/ SetSource(p) \/ Mark(p)
BY DEF Administer, Read, Refused, MarkFails, rowVars

LEMMA AdministerQueueStatus ==
    ASSUME TypeOK, QueueStatusConsistent, Administer
    PROVE  QueueStatusConsistent'
<1>0. RowsTyped /\ AdminTyped /\ chan \in Channel
  BY TypeParts DEF RowsTyped
<1>1. CASE chan' = chan
  BY <1>1 DEF QueueStatusConsistent
<1>2. CASE Create
  BY <1>0, <1>2, CreateEffect DEF QueueStatusConsistent
<1>3. CASE Delete
  BY <1>3 DEF Delete, NoChannel, QueueStatusConsistent
<1>4. ASSUME NEW p \in Admin, Update(p) PROVE QueueStatusConsistent'
  <2>1. PICK ep \in Endpoints, amp \in Cpamps, en \in BOOLEAN :
          UpdateRow(ep, amp, en)
    BY <1>0, <1>4, UpdateEffect
  <2>2. /\ chan'.state = chan.state /\ chan'.source = chan.source
        /\ chan'.enabled = en
        /\ IF ep # chan.ep \/ en # chan.enabled
           THEN /\ ~chan'.confirmed
                /\ chan'.queue = IF en /\ chan.source = "native"
                                  THEN "awaiting" ELSE "disabled"
           ELSE chan'.confirmed = chan.confirmed /\ chan'.queue = chan.queue
    BY <1>0, <2>1, UpdateRowEffect
  <2> QED BY <1>0, <2>2 DEF QueueStatusConsistent, Channel
<1>5. ASSUME NEW p \in Admin, SetSource(p) PROVE QueueStatusConsistent'
  BY <1>0, <1>5, SetSourceEffect DEF QueueStatusConsistent
<1>6. ASSUME NEW p \in Admin, Mark(p) PROVE QueueStatusConsistent'
  BY <1>0, <1>6 DEF Mark, QueueStatusConsistent, Channel
<1> QED BY <1>1, <1>2, <1>3, <1>4, <1>5, <1>6, ChanChanges

(* A discovery records an attempt, and a consumer its state, which is that *)
(* of a confirmed queue only if the queue is confirmed.                    *)
LEMMA WorkQueueStatus ==
    ASSUME TypeOK, QueueStatusConsistent,
           \/ \E d \in Discoverer : Discovery(d)
           \/ \E q \in Consumer : Consume(q)
           \/ SessionStep \/ UNCHANGED vars
    PROVE  QueueStatusConsistent'
<1>0. chan \in Channel
  BY DEF TypeOK
<1>1. CASE chan' = chan
  BY <1>1 DEF QueueStatusConsistent
<1>2. ASSUME NEW d \in Discoverer, Attempt(d) PROVE QueueStatusConsistent'
  BY <1>0, <1>2 DEF Attempt, QueueStatusConsistent, Channel
<1>3. ASSUME NEW q \in Consumer, RecordState(q) PROVE QueueStatusConsistent'
  BY <1>0, <1>3 DEF RecordState, QueueStatusConsistent, Channel
<1> QED BY <1>1, <1>2, <1>3, ChanUnchanged, ChanUnchangedByConsume,
           ChanUnchangedBySessions DEF vars, rowVars

(* For any number of consumers and administrators at once, the status of   *)
(* the queue says whether it is consumed: whoever records a state late     *)
(* does not overwrite a switch, a new endpoint or a disabling.             *)
THEOREM QueueStatusCorrect == Spec => []QueueStatusConsistent
<1>1. Init => QueueStatusConsistent
  BY DEF Init, NoChannel, QueueStatusConsistent
<1>2. TypeOK /\ QueueStatusConsistent /\ [Next]_vars => QueueStatusConsistent'
  BY SplitNext, AdministerQueueStatus, WorkQueueStatus
<1> QED BY <1>1, <1>2, TypeCorrect, PTL DEF Spec

-------------------------------------------------------------------------------
(* Changes that stay queued.  A channel that is still to be created has    *)
(* made no attempt.                                                        *)
NoAttemptYet == chan.state = "new" => chan.attempt = {}
Queued == ChangeIsQueued /\ NoAttemptYet

LEMMA AdministerQueued ==
    ASSUME TypeOK, Queued, Administer PROVE Queued'
<1>0. RowsTyped /\ AdminTyped /\ chan \in Channel
  BY TypeParts DEF RowsTyped
<1>1. CASE Create
  BY <1>0, <1>1, CreateEffect
     DEF Queued, NoAttemptYet, ChangeIsQueued
<1>2. CASE Delete
  BY <1>2 DEF Delete, NoChannel, Queued, NoAttemptYet, ChangeIsQueued, Enabled, Live
<1>3. ASSUME NEW p \in Admin, Read(p) \/ Refused(p) PROVE Queued'
  <2>1. /\ chan' = chan /\ unmarked' = unmarked
        /\ \A o \in Admin : at[o] = "marking" => at'[o] = "marking"
    BY <1>0, <1>3 DEF Read, Refused, Answered, AdminTyped, rowVars
  <2> QED BY <2>1 DEF Queued, NoAttemptYet, ChangeIsQueued, Enabled, Live
<1>4. ASSUME NEW p \in Admin, MarkFails(p) PROVE Queued'
  BY <1>4 DEF MarkFails, rowVars, Queued, NoAttemptYet, ChangeIsQueued
<1>5. ASSUME NEW p \in Admin, Mark(p) PROVE Queued'
  BY <1>0, <1>5 DEF Mark, Channel, Queued, NoAttemptYet, ChangeIsQueued
<1>6. ASSUME NEW p \in Admin, Update(p) PROVE Queued'
  <2>1. PICK ep \in Endpoints, amp \in Cpamps, en \in BOOLEAN :
          UpdateRow(ep, amp, en)
    BY <1>0, <1>6, UpdateEffect
  <2>2. /\ chan'.state = chan.state /\ chan'.source = chan.source
        /\ chan'.attempt = chan.attempt /\ chan'.enabled = en
        /\ chan'.colrev # chan.colrev /\ chan.source \in CpaSource
             => ep # chan.ep \/ en # chan.enabled
    BY <1>0, <2>1, UpdateRowEffect
  <2>3. /\ Live /\ unmarked' = unmarked
        /\ chan'.enabled /\ chan'.source \in CpaSource
              /\ chan'.colrev # chan.colrev
             => at'[p] = "marking"
        /\ \A o \in Admin : o # p => at'[o] = at[o]
        /\ at[p] = "read"
    BY <1>0, <1>6, UpdateEffect DEF Update
  <2>4. en # chan.enabled => chan'.colrev # chan.colrev
    BY <1>0, <2>1 DEF UpdateRow, Channel
  <2>5. NoAttemptYet'
    BY <2>2, <2>3 DEF NoAttemptYet, Live
  <2>6. CASE chan'.colrev # chan.colrev
    BY <2>3, <2>5, <2>6 DEF Queued, ChangeIsQueued, Enabled
  <2>7. CASE chan'.colrev = chan.colrev
    BY <2>2, <2>3, <2>4, <2>5, <2>7 DEF Queued, ChangeIsQueued, Enabled, Live
  <2> QED BY <2>6, <2>7
<1>7. ASSUME NEW p \in Admin, SetSource(p) PROVE Queued'
  <2>1. at[p] = "read"
    BY <1>7 DEF SetSource
  <2> QED BY <1>0, <1>7, <2>1, SetSourceEffect
          DEF Queued, NoAttemptYet, ChangeIsQueued, Enabled, Live
<1> QED BY <1>1, <1>2, <1>3, <1>4, <1>5, <1>6, <1>7 DEF Administer

LEMMA AdminIdleElsewhere ==
    /\ \A d \in Discoverer : Discovery(d) => at' = at
    /\ \A q \in Consumer : Consume(q) => UNCHANGED <<at, unmarked>>
    /\ SessionStep => UNCHANGED <<at, unmarked>>
<1>1. \A d \in Discoverer : Discovery(d) => at' = at
  BY DEF Discovery, List, PickChannel, Paced, Open, Answer, Recheck, Discover, Attempt,
         Rejected, WriteError, adminVars
<1>2. \A q \in Consumer : Consume(q) => UNCHANGED <<at, unmarked>>
  BY DEF Consume, ListQueue, LoadCached, Load, Loaded, CheckLoaded, Map, Deleted, Stats,
         Pop, Popped, RefreshMapping, Persist, ConsumeFails, RecordState, adminVars
<1>3. SessionStep => UNCHANGED <<at, unmarked>>
  BY DEF SessionStep, Refresh, Acquire, LeaseLost, Release, Expire, Crash, adminVars
<1> QED BY <1>1, <1>2, <1>3

LEMMA WorkQueued ==
    ASSUME TypeOK, Queued,
           \/ \E d \in Discoverer : Discovery(d)
           \/ \E q \in Consumer : Consume(q)
           \/ SessionStep \/ UNCHANGED vars
    PROVE  Queued'
<1>0. chan \in Channel
  BY DEF TypeOK
<1>1. ASSUME NEW d \in Discoverer, Attempt(d) PROVE Queued'
  BY <1>0, <1>1
     DEF Attempt, Guard, Enabled, Live, Channel, Queued, NoAttemptYet, ChangeIsQueued
<1>2. ASSUME NEW q \in Consumer, RecordState(q) PROVE Queued'
  <2>1. /\ chan'.state = chan.state /\ chan'.enabled = chan.enabled
        /\ chan'.source = chan.source /\ chan'.attempt = chan.attempt
        /\ chan'.colrev = chan.colrev
    BY <1>0, <1>2 DEF RecordState, Channel
  <2>2. UNCHANGED <<at, unmarked>>
    BY <1>2 DEF RecordState, adminVars
  <2> QED BY <2>1, <2>2 DEF Queued, NoAttemptYet, ChangeIsQueued, Enabled, Live
<1>3. CASE UNCHANGED <<chan, at, unmarked>>
  BY <1>3 DEF Queued, NoAttemptYet, ChangeIsQueued, Enabled, Live
<1>4. ASSUME NEW d \in Discoverer, Discovery(d), ~Attempt(d)
      PROVE  UNCHANGED <<chan, at, unmarked>>
  BY <1>4 DEF Discovery, List, PickChannel, Paced, Open, Answer, Recheck, Discover,
              Rejected, WriteError, rowVars, adminVars
<1>5. UNCHANGED vars => UNCHANGED <<chan, at, unmarked>>
  BY DEF vars, rowVars, adminVars
<1> QED BY <1>1, <1>2, <1>3, <1>4, <1>5, ChanUnchangedByConsume,
           ChanUnchangedBySessions, AdminIdleElsewhere

(* For any number of administrators and sessions, a change of the endpoint *)
(* or the source, or an enabling, is still due, about to be marked, or its *)
(* mark was lost: a discovery of the old configuration never counts as an  *)
(* attempt for the new one.                                                *)
THEOREM ChangesQueued == Spec => []ChangeIsQueued
<1>1. Init => Queued
  BY DEF Init, NoChannel, Queued, NoAttemptYet, ChangeIsQueued
<1>2. TypeOK /\ Queued /\ [Next]_vars => Queued'
  BY SplitNext, AdministerQueued, WorkQueued
<1>3. Queued => ChangeIsQueued
  BY DEF Queued
<1> QED BY <1>1, <1>2, <1>3, TypeCorrect, PTL DEF Spec

-------------------------------------------------------------------------------
(* Popped events.                                                          *)
Kept(q) == batch[q] # NoEndpoint /\ batch'[q] = NoEndpoint
             => \/ batch[q] \in snaps'[row[q].eprev]
                \/ ~Live \/ pc'[q] \in {"giveup", "idle"}

LEMMA StepKeeps ==
    ASSUME TypeOK, Endpointed, [Next]_vars, NEW q \in Consumer PROVE Kept(q)
<1>0. RowsTyped /\ SessionsTyped /\ WorkTyped /\ q \in Session
  BY TypeParts DEF Session
<1>1. CASE batch' = batch
  BY <1>1 DEF Kept
<1>2. ASSUME NEW t \in Consumer, Deleted(t) PROVE Kept(q)
  BY <1>0, <1>2 DEF Deleted, WorkTyped, Kept
<1>3. ASSUME NEW t \in Consumer, Popped(t) PROVE Kept(q)
  BY <1>0, <1>3 DEF Popped, WorkTyped, Kept
<1>4. ASSUME NEW t \in Consumer, Persist(t) PROVE Kept(q)
  <2>1. CASE t # q
    BY <1>0, <1>4, <2>1 DEF Persist, WorkTyped, Kept
  <2>2. CASE t = q
    <3>1. row[q].eprev \in 0..MaxEp
      BY <1>0 DEF SessionsTyped, Job
    <3>2. snaps' = [snaps EXCEPT ![row[q].eprev] = @ \cup {batch[q], known[q]}]
      BY <1>4, <2>2 DEF Persist
    <3> QED BY <1>0, <3>1, <3>2 DEF RowsTyped, Kept
  <2> QED BY <2>1, <2>2
<1>5. ASSUME NEW t \in Consumer, ConsumeFails(t) PROVE Kept(q)
  BY <1>0, <1>5 DEF ConsumeFails, Goto, SessionsTyped, WorkTyped, Kept
<1>6. ASSUME NEW S \in SUBSET Session, Forget(S) PROVE Kept(q)
  BY <1>0, <1>6 DEF Forget, Kept
<1>7. ASSUME NEW t \in Consumer, Consume(t) PROVE Kept(q)
  BY <1>1, <1>2, <1>3, <1>4, <1>5, <1>7
     DEF Consume, ListQueue, LoadCached, Load, Loaded, CheckLoaded, Map, Stats, Pop,
         RefreshMapping, RecordState, workVars
<1>8. CASE SessionStep
  <2>1. CASE \E S \in SUBSET Session : Forget(S)
    BY <1>6, <2>1
  <2>2. ASSUME NEW h \in Process, Crash(h) PROVE Kept(q)
    BY <1>6, <2>2 DEF Crash
  <2>3. ASSUME NEW s \in Session, Release(s) PROVE Kept(q)
    BY <1>6, <2>3 DEF Release
  <2> QED BY <1>1, <1>8, <2>2, <2>3
          DEF SessionStep, Refresh, Acquire, LeaseLost, Expire, workVars
<1>9. ASSUME Administer \/ (\E d \in Discoverer : Discovery(d)) \/ UNCHANGED vars
      PROVE  batch' = batch
  BY <1>9, ZenonT(60) DEF Administer, Create, Delete, Read, Refused, Update, Decide, SetSource,
              Mark, MarkFails, Discovery, List, PickChannel, Paced, Open, Answer,
              Recheck, Discover, Attempt, Rejected, WriteError, vars, workVars
<1> QED BY <1>1, <1>7, <1>8, <1>9, SplitNext

(* Whatever happens to the lease and to the channel, events that have been *)
(* popped are stored; they are given up only for an error, a deletion or   *)
(* the death of the process.                                               *)
THEOREM PoppedKept == Spec => PoppedIsKept
<1>1. TypeOK /\ Endpointed /\ [Next]_vars => \A q \in Consumer : Kept(q)
  BY StepKeeps
<1> QED BY <1>1, TypeCorrect, PTL DEF Spec, PoppedIsKept, Kept

-------------------------------------------------------------------------------
(***************************************************************************)
(* Windows belong to the endpoint of their revision, and nothing but the   *)
(* consumer's new mapping shows accounts of another source: the inductive  *)
(* invariant Fits of CpaChannel, for any sessions, endpoints and           *)
(* administrators.                                                         *)
(***************************************************************************)

(* A session between reading its row and ending its turn.                  *)
Holding(s) == pc[s] \notin {"idle", "listing", "opening", "releasing"}

(* The endpoint of the row a session works for is that of its revision; it *)
(* is no newer than the channel's, and with the same collection revision   *)
(* the source has not changed, nor has the endpoint it uses.               *)
RowFits(r) ==
    /\ r.eprev <= chan.eprev /\ r.colrev <= chan.colrev
    /\ r.colrev = chan.colrev =>
          r.source = chan.source /\ (r.source \in CpaSource => r.ep = chan.ep)
SessionFits(s) ==
    Holding(s) => /\ chan.state # "new"
                  /\ row[s].ep = epAt[row[s].eprev]
                  /\ Live => RowFits(row[s])

(* The revision of a new channel is the first one.                         *)
ChannelFits ==
    /\ Live => chan.ep = epAt[chan.eprev]
    /\ chan.state = "new" => chan.eprev = 0

(* Revisions to come, and those of a deleted channel, have no windows.     *)
SnapsFit ==
    \A r \in 0..MaxEp :
        /\ snaps[r] \subseteq {epAt[r]}
        /\ ~Live \/ r > chan.eprev => snaps[r] = {}

CacheFits ==
    \A h \in Process :
        cache[h].ep # NoEndpoint =>
            /\ chan.state # "new" /\ cache[h].ep = epAt[cache[h].rev]
            /\ Live => cache[h].rev <= chan.eprev

(* What a consumer asks, knows and has popped is of its row's endpoint.    *)
ConsumerFits(q) ==
    /\ pc[q] \in {"loading", "popping", "refreshing"}
         => asked[q] \in {row[q].ep, NoEndpoint}
    /\ pc[q] \in {"loaded", "mapping", "stats", "ready", "popping", "popped",
                  "refreshing", "persist", "state"} => known[q] = row[q].ep
    /\ batch[q] # NoEndpoint =>
          /\ pc[q] \in {"popped", "refreshing", "mapping", "persist"}
          /\ batch[q] = row[q].ep

(* A discovery that is going to be written is of a CPA source.             *)
DiscovererFits(d) == pc[d] = "discover" => row[d].source \in CpaSource

RowsFit == ChannelFits /\ SnapsFit /\ CacheFits
SessionsFit == /\ \A s \in Session : SessionFits(s)
               /\ \A q \in Consumer : ConsumerFits(q)
               /\ \A d \in Discoverer : DiscovererFits(d)
Fits == RowsFit /\ SessionsFit

(* What the invariant says of the row of the channel.                      *)
settings == <<chan.state, chan.eprev, chan.colrev, chan.source, chan.ep, epAt>>

LEMMA InitFits == Init => Fits
BY DEF Init, NoChannel, NoMapping, Fits, RowsFit, SessionsFit, ChannelFits, SnapsFit,
       CacheFits, SessionFits, ConsumerFits, DiscovererFits, Holding, Live, Session,
       Discoverer

-------------------------------------------------------------------------------
(* The administrator.                                                      *)
LEMMA SessionsStay ==
    ASSUME SessionsFit, UNCHANGED <<pc, row, asked, known, batch>>,
           \A s \in Session : SessionFits(s)'
    PROVE  SessionsFit'
BY DEF SessionsFit, ConsumerFits, DiscovererFits

LEMMA SameSettings ==
    ASSUME Fits, UNCHANGED <<settings, snaps, pc, row, asked, known, batch>>,
           \A t \in Process : cache'[t] = cache[t] \/ cache'[t].ep = NoEndpoint
    PROVE  Fits'
<1>1. Live' = Live /\ \A r : RowFits(r)' <=> RowFits(r)
  BY DEF settings, Live, RowFits
<1>2. RowsFit'
  BY <1>1 DEF Fits, RowsFit, ChannelFits, SnapsFit, CacheFits, settings
<1>3. \A s \in Session : SessionFits(s)'
  BY <1>1 DEF Fits, SessionsFit, SessionFits, Holding, settings
<1> QED BY <1>2, <1>3, SessionsStay DEF Fits

(* Another configuration of the same channel.                              *)
LEMMA OtherSettings ==
    ASSUME TypeOK, Fits, Live, chan' \in Channel, chan'.state = "live",
           UNCHANGED <<snaps, cache, pc, row, asked, known, batch>>,
           chan'.eprev >= chan.eprev, chan'.colrev >= chan.colrev,
           chan'.colrev = chan.colrev =>
              /\ chan'.source = chan.source
              /\ chan.source \in CpaSource => chan'.ep = chan.ep,
           epAt'[chan'.eprev] = chan'.ep,
           \A r \in 0..MaxEp : epAt'[r] = epAt[r] \/ r > chan.eprev
    PROVE  Fits'
<1>1. Live' /\ chan \in Channel /\ row \in [Session -> Job]
  BY DEF TypeOK, Live
<1>2. ChannelFits'
  BY <1>1 DEF ChannelFits, Live
<1>3. SnapsFit'
  BY <1>1 DEF Fits, RowsFit, SnapsFit, Channel
<1>4. CacheFits'
  BY <1>1 DEF Fits, RowsFit, CacheFits, Channel, TypeOK, Live
<1>5. ASSUME NEW s \in Session PROVE SessionFits(s)'
  <2>1. SUFFICES ASSUME Holding(s)'
                 PROVE  row[s].ep = epAt'[row[s].eprev] /\ RowFits(row[s])'
    BY <1>1 DEF SessionFits, Live
  <2>2. Holding(s) /\ row[s] \in Job
    BY <1>1, <2>1 DEF Holding
  <2>3. row[s].ep = epAt[row[s].eprev] /\ RowFits(row[s])
    BY <2>2 DEF Fits, SessionsFit, SessionFits
  <2> QED BY <1>1, <2>2, <2>3 DEF RowFits, Job, Channel
<1> QED BY <1>2, <1>3, <1>4, <1>5, SessionsStay DEF Fits, RowsFit

LEMMA AdministerFits ==
    ASSUME TypeOK, Fits, Administer PROVE Fits'
<1>0. RowsTyped /\ AdminTyped /\ WorkTyped /\ chan \in Channel
  BY TypeParts DEF RowsTyped
<1>1. UNCHANGED <<pc, row, asked, known, batch>>
  BY ZenonT(60) DEF Administer, Create, Delete, Read, Refused, Update, Decide, SetSource,
         Mark, MarkFails, workVars
<1>2. CASE Create
  <2>a. /\ chan.state = "new" /\ chan'.state = "live" /\ chan'.eprev = chan.eprev
        /\ epAt' = [epAt EXCEPT ![0] = chan'.ep]
    BY <1>0, <1>2, CreateEffect
  <2>b. UNCHANGED <<snaps, cache>>
    BY <1>2 DEF Create, workVars
  <2>1. /\ chan.state = "new" /\ chan'.state = "live" /\ chan'.eprev = 0
        /\ epAt'[0] = chan'.ep /\ 0 \in 0..MaxEp
        /\ UNCHANGED <<snaps, cache>>
    BY <1>0, <2>a, <2>b DEF Fits, RowsFit, ChannelFits, RowsTyped
  <2>2. \A r \in 0..MaxEp : snaps[r] = {}
    BY <2>1 DEF Fits, RowsFit, SnapsFit, Live
  <2>3. RowsFit'
    BY <2>1, <2>2 DEF Fits, RowsFit, ChannelFits, SnapsFit, CacheFits
  <2>4. \A s \in Session : SessionFits(s)'
    BY <1>1, <2>1 DEF Fits, SessionsFit, SessionFits, Holding
  <2> QED BY <1>1, <2>3, <2>4, SessionsStay DEF Fits
<1>3. CASE Delete
  <2>a. \A t \in Process : cache'[t] = cache[t] \/ cache'[t].ep = NoEndpoint
    BY <1>0, <1>3 DEF Delete, NoMapping, WorkTyped
  <2>1. /\ chan'.state = "deleted" /\ epAt' = epAt
        /\ \A r \in 0..MaxEp : snaps'[r] = {}
        /\ chan.state = "live"
    BY <1>3 DEF Delete, NoChannel, Live
  <2>2. RowsFit'
    BY <2>a, <2>1 DEF Fits, RowsFit, ChannelFits, SnapsFit, CacheFits, Live
  <2>3. \A s \in Session : SessionFits(s)'
    BY <1>1, <2>1 DEF Fits, SessionsFit, SessionFits, Holding, Live
  <2> QED BY <1>1, <2>2, <2>3, SessionsStay DEF Fits
<1>4. ASSUME NEW p \in Admin, Read(p) \/ Refused(p) \/ MarkFails(p) PROVE Fits'
  <2>1. UNCHANGED <<settings, snaps, cache>>
    BY <1>4 DEF Read, Refused, MarkFails, rowVars, workVars, settings
  <2> QED BY <1>1, <2>1, SameSettings
<1>5. ASSUME NEW p \in Admin, Mark(p) PROVE Fits'
  <2>1. UNCHANGED <<settings, snaps>>
    BY <1>0, <1>5 DEF Mark, Channel, settings
  <2>2. \A t \in Process : cache'[t] = cache[t] \/ cache'[t].ep = NoEndpoint
    BY <1>0, <1>5 DEF Mark, NoMapping, WorkTyped
  <2> QED BY <1>1, <2>1, <2>2, SameSettings
<1>6. ASSUME NEW p \in Admin, Update(p) PROVE Fits'
  <2>1. PICK ep \in Endpoints, amp \in Cpamps, en \in BOOLEAN :
          UpdateRow(ep, amp, en)
    BY <1>0, <1>6, UpdateEffect
  <2>2. /\ RowsTyped' /\ Live
        /\ chan'.state = chan.state /\ chan'.source = chan.source
        /\ chan'.ep = ep
        /\ chan'.eprev = chan.eprev + (IF ep # chan.ep THEN 1 ELSE 0)
        /\ chan'.colrev \in {chan.colrev, chan.colrev + 1}
        /\ ep # chan.ep /\ chan.source \in CpaSource => chan'.colrev # chan.colrev
        /\ UNCHANGED workVars
    BY <1>0, <1>6, <2>1, UpdateEffect, UpdateRowEffect
  <2>3. /\ epAt' = IF ep # chan.ep THEN [epAt EXCEPT ![chan'.eprev] = ep] ELSE epAt
        /\ snaps' = snaps
    BY <2>1 DEF UpdateRow
  <2>4. chan' \in Channel /\ chan'.eprev \in 0..MaxEp /\ chan.eprev \in 0..MaxEp
    BY <1>0, <2>2 DEF RowsTyped, Channel
  <2>5. /\ epAt'[chan'.eprev] = chan'.ep
        /\ \A r \in 0..MaxEp : epAt'[r] = epAt[r] \/ r > chan.eprev
    BY <1>0, <2>2, <2>3, <2>4 DEF RowsTyped, Fits, RowsFit, ChannelFits
  <2>6. /\ chan'.eprev >= chan.eprev /\ chan'.colrev >= chan.colrev
        /\ chan'.state = "live"
    BY <1>0, <2>2 DEF Channel, Live
  <2> QED BY <1>1, <2>2, <2>3, <2>4, <2>5, <2>6, OtherSettings DEF workVars
<1>7. ASSUME NEW p \in Admin, SetSource(p) PROVE Fits'
  <2>1. /\ RowsTyped' /\ Live
        /\ chan'.state = chan.state
        /\ chan'.ep = chan.ep /\ chan'.eprev = chan.eprev
        /\ IF chan'.source = chan.source THEN chan'.colrev = chan.colrev
                                         ELSE chan'.colrev = chan.colrev + 1
        /\ UNCHANGED <<snaps, epAt, workVars>>
    BY <1>0, <1>7, SetSourceEffect
  <2>2. /\ chan' \in Channel /\ chan'.state = "live"
        /\ chan'.eprev >= chan.eprev /\ chan'.colrev >= chan.colrev
        /\ chan'.colrev = chan.colrev => chan'.source = chan.source
    BY <1>0, <2>1 DEF RowsTyped, Channel, Live
  <2>3. epAt'[chan'.eprev] = chan'.ep
    BY <2>1 DEF Fits, RowsFit, ChannelFits
  <2> QED BY <1>1, <2>1, <2>2, <2>3, OtherSettings DEF workVars
<1> QED BY <1>2, <1>3, <1>4, <1>5, <1>6, <1>7 DEF Administer

-------------------------------------------------------------------------------
(* Sessions.                                                               *)
LEMMA OthersStay ==
    ASSUME Fits, NEW s \in Session, UNCHANGED settings,
           \A t \in Session \ {s} : pc'[t] = pc[t] /\ row'[t] = row[t],
           \A t \in Consumer \ {s} :
              asked'[t] = asked[t] /\ known'[t] = known[t] /\ batch'[t] = batch[t],
           SessionFits(s)',
           s \in Consumer => ConsumerFits(s)',
           s \in Discoverer => DiscovererFits(s)'
    PROVE  SessionsFit'
<1>1. Live' = Live /\ \A r : RowFits(r)' <=> RowFits(r)
  BY DEF settings, Live, RowFits
<1>2. ASSUME NEW t \in Session \ {s} PROVE SessionFits(t)'
  BY <1>1, <1>2 DEF Fits, SessionsFit, SessionFits, Holding, settings
<1>3. ASSUME NEW q \in Consumer \ {s} PROVE ConsumerFits(q)'
  BY <1>3 DEF Fits, SessionsFit, ConsumerFits, Session
<1>4. ASSUME NEW d \in Discoverer \ {s} PROVE DiscovererFits(d)'
  BY <1>4 DEF Fits, SessionsFit, DiscovererFits, Session, Discoverer
<1> QED BY <1>2, <1>3, <1>4 DEF SessionsFit

(* A session that takes the row as it is now, or that keeps its row.       *)
LEMMA FreshRowFits ==
    ASSUME TypeOK, Fits, Live, NEW s \in Session, UNCHANGED settings,
           row' = [row EXCEPT ![s] = JobOf(chan)]
    PROVE  SessionFits(s)'
<1>1. /\ row'[s].ep = chan.ep /\ row'[s].eprev = chan.eprev
      /\ row'[s].colrev = chan.colrev /\ row'[s].source = chan.source
  BY DEF TypeOK, JobOf
<1>2. chan \in Channel
  BY DEF TypeOK
<1> QED BY <1>1, <1>2 DEF Fits, RowsFit, ChannelFits, SessionFits, RowFits, settings,
                         Live, Channel

LEMMA KeptRowFits ==
    ASSUME Fits, NEW s \in Session, UNCHANGED <<settings, row>>,
           Holding(s) \/ pc'[s] = "releasing"
    PROVE  SessionFits(s)'
<1>1. Live' = Live /\ \A r : RowFits(r)' <=> RowFits(r)
  BY DEF settings, Live, RowFits
<1> QED BY <1>1 DEF Fits, SessionsFit, SessionFits, Holding, settings

(* A mapping of a session's row enters the cache.                          *)
LEMMA RememberFits ==
    ASSUME TypeOK, Fits, NEW s \in Session, Holding(s), Remember(s, row[s].ep),
           UNCHANGED settings
    PROVE  CacheFits'
<1>1. ASSUME NEW h \in Process, cache'[h] # cache[h]
      PROVE  h = Home[s] /\ cache'[h] = [rev |-> row[s].eprev, ep |-> row[s].ep]
  BY <1>1 DEF Remember, TypeOK
<1>2. /\ chan.state # "new" /\ row[s].ep = epAt[row[s].eprev]
      /\ Live => row[s].eprev <= chan.eprev
  BY DEF Fits, SessionsFit, SessionFits, RowFits
<1>3. Live' = Live
  BY DEF settings, Live
<1> QED BY <1>1, <1>2, <1>3 DEF Fits, RowsFit, CacheFits, settings

LEMMA RowsStay ==
    ASSUME Fits, UNCHANGED <<settings, snaps, cache>> PROVE RowsFit'
BY DEF Fits, RowsFit, ChannelFits, SnapsFit, CacheFits, settings, Live

LEMMA DiscoveryFits ==
    ASSUME TypeOK, Fits, NEW d \in Discoverer, Discovery(d)
    PROVE  Fits'
<1>0. RowsTyped /\ SessionsTyped /\ WorkTyped
  BY TypeParts
<1>d. d \in Session /\ d \notin Consumer /\ SessionFits(d) /\ DiscovererFits(d)
  BY DEF Discoverer, Session, Fits, SessionsFit
<1>1. UNCHANGED settings
  BY <1>0 DEF Discovery, List, PickChannel, Paced, Open, Answer, Recheck, Discover,
              Attempt, Rejected, WriteError, rowVars, settings, RowsTyped, Channel
<1>2. RowsFit'
  <2>1. CASE Discover(d)
    <3>1. CacheFits'
      BY <1>1, <1>d, <2>1, RememberFits DEF Discover, Holding
    <3>2. UNCHANGED snaps
      BY <2>1 DEF Discover
    <3> QED BY <1>1, <3>1, <3>2
            DEF Fits, RowsFit, ChannelFits, SnapsFit, settings, Live
  <2>2. CASE ~Discover(d)
    <3>1. UNCHANGED <<snaps, cache>>
      BY <2>2 DEF Discovery, List, PickChannel, Paced, Open, Answer, Recheck, Attempt,
                  Rejected, WriteError, rowVars, workVars
    <3> QED BY <1>1, <3>1, RowsStay
  <2> QED BY <2>1, <2>2
<1>3. SessionFits(d)'
  <2>1. CASE row' = [row EXCEPT ![d] = JobOf(chan)] /\ Live
    BY <1>1, <1>d, <2>1, FreshRowFits
  <2>2. CASE ~(row' = [row EXCEPT ![d] = JobOf(chan)] /\ Live)
    <3>1. row' = row /\ (Holding(d) \/ pc'[d] = "releasing")
      BY <1>0, <1>d, <2>2
         DEF Discovery, List, PickChannel, Paced, Open, Answer, Recheck, Discover,
             Attempt, Rejected, WriteError, Goto, SessionsTyped, Holding, Current,
             Enabled
    <3> QED BY <1>1, <1>d, <3>1, KeptRowFits
  <2> QED BY <2>1, <2>2
<1>4. DiscovererFits(d)'
  <2>1. ASSUME pc'[d] = "discover" PROVE row'[d].source \in CpaSource
    <3>1. Recheck(d)
      BY <1>0, <1>d, <2>1
         DEF Discovery, List, PickChannel, Paced, Open, Answer, Discover, Attempt,
             Rejected, WriteError, Goto, SessionsTyped
    <3>2. Current(row[d]) /\ row' = row
      BY <1>0, <1>d, <2>1, <3>1 DEF Recheck, Goto, SessionsTyped
    <3> QED BY <3>2 DEF Current
  <2> QED BY <2>1 DEF DiscovererFits
<1>5. /\ \A t \in Session \ {d} : pc'[t] = pc[t] /\ row'[t] = row[t]
      /\ UNCHANGED <<asked, known, batch>>
  BY <1>0 DEF Discovery, List, PickChannel, Paced, Open, Answer, Recheck, Discover,
              Attempt, Rejected, WriteError, Goto, SessionsTyped, workVars
<1> QED BY <1>1, <1>2, <1>3, <1>4, <1>5, <1>d, OthersStay DEF Fits

-------------------------------------------------------------------------------
(* The usage queue.                                                        *)
LEMMA ConsumeRowsFit ==
    ASSUME TypeOK, Endpointed, Fits, NEW q \in Consumer, Consume(q),
           UNCHANGED settings
    PROVE  RowsFit'
<1>0. RowsTyped /\ SessionsTyped /\ WorkTyped
  BY TypeParts
<1>q. q \in Session /\ SessionFits(q) /\ ConsumerFits(q)
  BY DEF Session, Fits, SessionsFit
<1>1. CASE Loaded(q)
  <2>1. asked[q] = row[q].ep /\ Holding(q) /\ Remember(q, asked[q])
    BY <1>q, <1>1 DEF Loaded, ConsumerFits, Holding
  <2>2. CacheFits'
    BY <1>q, <2>1, RememberFits
  <2>3. UNCHANGED snaps
    BY <1>1 DEF Loaded, rowVars
  <2> QED BY <2>2, <2>3 DEF Fits, RowsFit, ChannelFits, SnapsFit, settings, Live
<1>2. CASE Persist(q)
  <2> DEFINE r == row[q].eprev
  <2>1. /\ Live /\ r \in 0..MaxEp /\ r <= chan.eprev
        /\ row[q].ep = epAt[r]
    BY <1>0, <1>q, <1>2
       DEF Persist, SessionFits, RowFits, Holding, SessionsTyped, Job
  <2>2. known[q] = row[q].ep /\ batch[q] \in {row[q].ep, NoEndpoint}
    BY <1>q, <1>2 DEF Persist, ConsumerFits
  <2>3. batch[q] # NoEndpoint
    BY <1>2 DEF Persist, Endpointed, ConsumerPointed
  <2>4. snaps' = [snaps EXCEPT ![r] = @ \cup {batch[q], known[q]}]
    BY <1>2 DEF Persist
  <2> HIDE DEF r
  <2>5. \A t \in 0..MaxEp :
          snaps'[t] = IF t = r THEN snaps[t] \cup {epAt[t]} ELSE snaps[t]
    BY <1>0, <2>1, <2>2, <2>3, <2>4 DEF RowsTyped
  <2>6. SnapsFit'
    <3>1. /\ Live' /\ epAt' = epAt /\ chan'.eprev = chan.eprev
          /\ chan.eprev \in Nat /\ ~(r > chan.eprev)
      BY <1>0, <2>1 DEF settings, Live, RowsTyped, Channel
    <3> QED BY <2>1, <2>5, <3>1 DEF Fits, RowsFit, SnapsFit
  <2>7. UNCHANGED cache
    BY <1>2 DEF Persist
  <2> QED BY <2>6, <2>7 DEF Fits, RowsFit, ChannelFits, CacheFits, settings, Live
<1>3. CASE ~Loaded(q) /\ ~Persist(q)
  <2>1. UNCHANGED <<snaps, cache>>
    BY <1>3 DEF Consume, ListQueue, LoadCached, Load, CheckLoaded, Map, Deleted, Stats,
                Pop, Popped, RefreshMapping, ConsumeFails, RecordState, rowVars,
                workVars
  <2> QED BY <2>1, RowsStay
<1> QED BY <1>1, <1>2, <1>3

LEMMA ConsumerStepFits ==
    ASSUME TypeOK, Endpointed, Fits, NEW q \in Consumer, Consume(q)
    PROVE  ConsumerFits(q)'
<1>0. RowsTyped /\ SessionsTyped /\ WorkTyped
  BY TypeParts
<1>q. q \in Session /\ Home[q] \in Process /\ SessionFits(q) /\ ConsumerFits(q)
  BY DEF Session, Fits, SessionsFit
<1>1. CASE ListQueue(q)
  <2>1. pc'[q] \in {"listed", "releasing"} /\ batch' = batch /\ pc[q] = "listing"
    BY <1>0, <1>q, <1>1 DEF ListQueue, Goto, SessionsTyped, workVars
  <2> QED BY <1>q, <2>1 DEF ConsumerFits
<1>2. CASE LoadCached(q)
  <2>1. cache[Home[q]].ep = row[q].ep
    BY <1>q, <1>2 DEF LoadCached, Fits, RowsFit, CacheFits, SessionFits, Holding
  <2>2. /\ pc'[q] = "loaded" /\ known'[q] = row[q].ep /\ pc[q] = "listed"
        /\ UNCHANGED <<row, batch>>
    BY <1>0, <1>q, <1>2, <2>1 DEF LoadCached, Goto, SessionsTyped, WorkTyped
  <2> QED BY <1>q, <2>2 DEF ConsumerFits
<1>3. CASE Load(q)
  <2>1. /\ pc'[q] = "loading" /\ asked'[q] = row[q].ep /\ pc[q] = "listed"
        /\ UNCHANGED <<row, batch>>
    BY <1>0, <1>q, <1>3 DEF Load, Ask, Goto, SessionsTyped, WorkTyped
  <2> QED BY <1>q, <2>1 DEF ConsumerFits
<1>4. CASE Loaded(q)
  <2>1. /\ \/ pc[q] = "loading" /\ pc'[q] = "loaded"
           \/ pc[q] = "refreshing" /\ pc'[q] = "mapping"
        /\ known'[q] = asked[q] /\ asked[q] # NoEndpoint
        /\ UNCHANGED <<row, batch>>
    BY <1>0, <1>q, <1>4 DEF Loaded, Goto, SessionsTyped, WorkTyped
  <2> QED BY <1>q, <2>1 DEF ConsumerFits
<1>5. CASE CheckLoaded(q) \/ Stats(q)
  <2>1. /\ pc[q] \in {"loaded", "stats"}
        /\ pc'[q] \in {"mapping", "stats", "ready", "releasing", "giveup"}
        /\ UNCHANGED <<row, asked, known, batch>>
    BY <1>0, <1>q, <1>5 DEF CheckLoaded, Stats, Goto, SessionsTyped, workVars
  <2> QED BY <1>q, <2>1 DEF ConsumerFits
<1>6. CASE Map(q)
  <2>1. /\ pc[q] = "mapping"
        /\ pc'[q] = IF batch[q] = NoEndpoint THEN "stats" ELSE "persist"
        /\ UNCHANGED <<row, asked, known, batch>>
    BY <1>0, <1>q, <1>6 DEF Map, Goto, SessionsTyped, workVars
  <2> QED BY <1>q, <2>1 DEF ConsumerFits
<1>7. CASE Deleted(q) \/ Persist(q) \/ ConsumeFails(q)
  <2>1. /\ pc'[q] \in {"releasing", "state", "giveup"}
        /\ pc'[q] = "state" => pc[q] = "persist"
        /\ batch'[q] = NoEndpoint
        /\ UNCHANGED <<row, known>>
    BY <1>0, <1>q, <1>7 DEF Deleted, Persist, ConsumeFails, Goto, SessionsTyped, WorkTyped
  <2> QED BY <1>q, <2>1 DEF ConsumerFits
<1>8. CASE Pop(q) \/ RefreshMapping(q)
  <2>1. \/ /\ pc[q] = "ready" /\ pc'[q] = "popping" /\ asked'[q] = row[q].ep
        \/ /\ pc[q] = "ready" /\ pc'[q] = "releasing"
        \/ /\ pc[q] = "popped" /\ pc'[q] = "refreshing" /\ asked'[q] = row[q].ep
        \/ /\ pc[q] = "popped" /\ pc'[q] = "persist"
    BY <1>0, <1>q, <1>8
       DEF Pop, RefreshMapping, CurrentQueue, Ask, Goto, SessionsTyped, WorkTyped
  <2>2. UNCHANGED <<row, known, batch>>
    BY <1>8 DEF Pop, RefreshMapping
  <2> QED BY <1>q, <2>1, <2>2 DEF ConsumerFits
<1>9. CASE Popped(q)
  <2>1. /\ pc[q] = "popping"
        /\ \/ pc'[q] = "popped" /\ batch'[q] = asked[q] /\ asked[q] # NoEndpoint
           \/ pc'[q] = "state" /\ batch'[q] = batch[q]
        /\ UNCHANGED <<row, known>>
    BY <1>0, <1>q, <1>9 DEF Popped, Goto, SessionsTyped, WorkTyped
  <2> QED BY <1>q, <2>1 DEF ConsumerFits
<1>10. CASE RecordState(q)
  <2>1. /\ pc[q] \in {"state", "giveup"}
        /\ \/ pc'[q] = "releasing"
           \/ pc[q] = "state" /\ pc'[q] = "ready"
        /\ UNCHANGED <<row, asked, known, batch>>
    BY <1>0, <1>q, <1>10 DEF RecordState, Goto, SessionsTyped, workVars
  <2> QED BY <1>q, <2>1 DEF ConsumerFits
<1> QED BY <1>1, <1>2, <1>3, <1>4, <1>5, <1>6, <1>7, <1>8, <1>9, <1>10 DEF Consume

LEMMA ConsumeFits ==
    ASSUME TypeOK, Endpointed, Fits, NEW q \in Consumer, Consume(q)
    PROVE  Fits'
<1>0. SessionsTyped /\ WorkTyped /\ chan \in Channel
  BY TypeParts DEF TypeOK
<1>q. q \in Session /\ q \notin Discoverer
  BY DEF Session, Discoverer
<1>1. UNCHANGED settings
  <2>1. CASE RecordState(q)
    BY <1>0, <2>1 DEF RecordState, settings, Channel
  <2>2. CASE ~RecordState(q)
    BY <2>2 DEF Consume, ListQueue, LoadCached, Load, Loaded, CheckLoaded, Map, Deleted,
                Stats, Pop, Popped, RefreshMapping, Persist, ConsumeFails, rowVars,
                settings
  <2> QED BY <2>1, <2>2
<1>2. SessionFits(q)'
  <2>1. CASE row' = [row EXCEPT ![q] = JobOf(chan)] /\ Live
    BY <1>1, <1>q, <2>1, FreshRowFits
  <2>2. CASE ~(row' = [row EXCEPT ![q] = JobOf(chan)] /\ Live)
    <3>1. row' = row /\ (Holding(q) \/ pc'[q] = "releasing")
      BY <1>0, <1>q, <2>2
         DEF Consume, ListQueue, LoadCached, Load, Loaded, CheckLoaded, Map, Deleted,
             Stats, Pop, Popped, RefreshMapping, Persist, ConsumeFails, RecordState,
             Goto, SessionsTyped, Holding, Enabled
    <3> QED BY <1>1, <1>q, <3>1, KeptRowFits
  <2> QED BY <2>1, <2>2
<1>3. \A t \in Session \ {q} : pc'[t] = pc[t] /\ row'[t] = row[t]
  BY <1>0 DEF Consume, ListQueue, LoadCached, Load, Loaded, CheckLoaded, Map, Deleted,
              Stats, Pop, Popped, RefreshMapping, Persist, ConsumeFails, RecordState,
              Goto, SessionsTyped
<1>4. \A t \in Consumer \ {q} :
        asked'[t] = asked[t] /\ known'[t] = known[t] /\ batch'[t] = batch[t]
  BY <1>0 DEF Consume, ListQueue, LoadCached, Load, Loaded, CheckLoaded, Map, Deleted,
              Stats, Pop, Popped, RefreshMapping, Persist, ConsumeFails, RecordState,
              Ask, WorkTyped, workVars
<1> QED BY <1>1, <1>2, <1>3, <1>4, <1>q, ConsumeRowsFit, ConsumerStepFits, OthersStay
        DEF Fits

LEMMA SessionStepFits ==
    ASSUME TypeOK, Fits, SessionStep PROVE Fits'
<1>0. SessionsTyped /\ WorkTyped
  BY TypeParts
<1>1. UNCHANGED <<settings, snaps>>
  BY DEF SessionStep, Refresh, Acquire, LeaseLost, Release, Expire, Crash, rowVars,
         settings
<1>2. ASSUME NEW s \in Session, NEW label \in {"opening", "listing", "releasing"},
             Goto(s, label), UNCHANGED <<row, workVars>>,
             label # "releasing" => pc[s] = "idle",
             pc[s] \notin {"popped", "refreshing", "mapping", "persist"}
      PROVE  Fits'
  <2>1. SessionFits(s)' /\ DiscovererFits(s)'
    BY <1>0, <1>2 DEF Goto, SessionsTyped, SessionFits, DiscovererFits, Holding
  <2>2. s \in Consumer => ConsumerFits(s)'
    BY <1>0, <1>2 DEF Goto, SessionsTyped, workVars, Fits, SessionsFit, ConsumerFits
  <2>3. \A t \in Session \ {s} : pc'[t] = pc[t] /\ row'[t] = row[t]
    BY <1>0, <1>2 DEF Goto, SessionsTyped
  <2>4. UNCHANGED <<asked, known, batch, cache>>
    BY <1>2 DEF workVars
  <2> QED BY <1>1, <2>1, <2>2, <2>3, <2>4, OthersStay, RowsStay DEF Fits
<1>3. ASSUME NEW S \in SUBSET Session, Forget(S),
             \A h \in Process : cache'[h] = cache[h] \/ cache'[h].ep = NoEndpoint
      PROVE  Fits'
  <2>1. RowsFit'
    BY <1>1, <1>3 DEF Fits, RowsFit, ChannelFits, SnapsFit, CacheFits, settings, Live
  <2>2. Live' = Live /\ \A r : RowFits(r)' <=> RowFits(r)
    BY <1>1 DEF settings, Live, RowFits
  <2>3. ASSUME NEW s \in Session PROVE SessionFits(s)'
    BY <1>1, <1>3, <2>2
       DEF Forget, Fits, SessionsFit, SessionFits, Holding, settings
  <2>4. ASSUME NEW q \in Consumer PROVE ConsumerFits(q)'
    <3>1. q \in Session /\ ConsumerFits(q)
      BY DEF Session, Fits, SessionsFit
    <3> QED BY <1>3, <3>1 DEF Forget, ConsumerFits
  <2>5. ASSUME NEW d \in Discoverer PROVE DiscovererFits(d)'
    <3>1. d \in Session /\ DiscovererFits(d)
      BY DEF Session, Discoverer, Fits, SessionsFit
    <3> QED BY <1>3, <3>1 DEF Forget, DiscovererFits
  <2> QED BY <2>1, <2>3, <2>4, <2>5 DEF Fits, SessionsFit
<1>4. ASSUME NEW r \in Refresher, Refresh(r) PROVE Fits'
  BY <1>2, <1>4 DEF Refresh, Session
<1>5. ASSUME NEW s \in Session, Acquire(s) \/ LeaseLost(s) PROVE Fits'
  BY <1>2, <1>5 DEF Acquire, LeaseLost
<1>6. ASSUME NEW s \in Session, Release(s) PROVE Fits'
  BY <1>3, <1>6 DEF Release
<1>7. ASSUME NEW l \in Leases, Expire(l) PROVE Fits'
  BY <1>1, <1>7, SameSettings DEF Expire, workVars
<1>8. ASSUME NEW h \in Process, Crash(h) PROVE Fits'
  <2>1. \A t \in Process : cache'[t] = cache[t] \/ cache'[t].ep = NoEndpoint
    BY <1>0, <1>8 DEF Crash, NoMapping, WorkTyped
  <2> QED BY <1>3, <1>8, <2>1 DEF Crash
<1> QED BY <1>4, <1>5, <1>6, <1>7, <1>8 DEF SessionStep

-------------------------------------------------------------------------------
(* The invariant and what follows from it.                                 *)
LEMMA StepFits ==
    TypeOK /\ Endpointed /\ Fits /\ [Next]_vars => Fits'
<1> SUFFICES ASSUME TypeOK, Endpointed, Fits, [Next]_vars PROVE Fits'
  OBVIOUS
<1>1. CASE UNCHANGED vars
  <2>1. UNCHANGED <<settings, snaps, pc, row, asked, known, batch, cache>>
    BY <1>1 DEF vars, rowVars, workVars, settings
  <2> QED BY <2>1, SameSettings
<1> QED BY <1>1, SplitNext, AdministerFits, SessionStepFits, DiscoveryFits, ConsumeFits

LEMMA FitsPure == Fits => GenerationIsPure
BY DEF Fits, RowsFit, SnapsFit, GenerationIsPure

(* For any number of consumers, discoveries, administrators and processes, *)
(* the windows stored for an endpoint revision were read from the endpoint *)
(* of that revision.                                                       *)
THEOREM GenerationsPure == Spec => []GenerationIsPure
BY InitFits, StepFits, FitsPure, TypeCorrect, PTL DEF Spec

(* Apart from the consumer's mapping, only a discovery and a batch show    *)
(* accounts.                                                               *)
Shows == (\A q \in Consumer : pc[q] # "mapping" \/ pc'[q] = "mapping")
           => shown' \ shown \subseteq Showable'

LEMMA StepShows ==
    TypeOK /\ Endpointed /\ Fits /\ [Next]_vars => Shows
<1> SUFFICES ASSUME TypeOK, Endpointed, Fits, [Next]_vars,
                    \A q \in Consumer : pc[q] # "mapping" \/ pc'[q] = "mapping"
             PROVE  shown' \ shown \subseteq Showable'
  BY DEF Shows
<1>0. RowsTyped /\ AdminTyped /\ SessionsTyped /\ WorkTyped /\ chan \in Channel
  BY TypeParts DEF RowsTyped
<1>1. CASE shown' \subseteq shown
  BY <1>1
<1>2. CASE Administer
  <2>1. ASSUME NEW p \in Admin, Update(p) PROVE shown' \subseteq shown
    BY <1>0, <2>1, UpdateEffect DEF UpdateRow
  <2>2. ASSUME NEW p \in Admin, SetSource(p) PROVE shown' \subseteq shown
    BY <1>0, <2>2, SetSourceEffect
  <2> QED BY <1>1, <1>2, <2>1, <2>2
          DEF Administer, Create, Delete, Read, Refused, Mark, MarkFails, rowVars
<1>3. ASSUME NEW d \in Discoverer, Discover(d) PROVE shown' \subseteq Showable'
  <2>1. d \in Session /\ SessionFits(d) /\ DiscovererFits(d)
    BY DEF Discoverer, Session, Fits, SessionsFit
  <2>2. row[d].source = chan.source /\ chan.source \in CpaSource /\ row[d].ep = chan.ep
    BY <1>3, <2>1 DEF Discover, Guard, Enabled, SessionFits, DiscovererFits, Holding,
                      RowFits
  <2> QED BY <1>3, <2>2 DEF Discover, Discovered, Guard, Enabled, Showable, Live
<1>4. ASSUME NEW q \in Consumer, Persist(q) PROVE shown' \ shown \subseteq Showable'
  <2>1. q \in Session /\ SessionFits(q) /\ ConsumerFits(q)
    BY DEF Session, Fits, SessionsFit
  <2>2. CASE chan.source = "native" /\ chan.eprev = row[q].eprev
    <3>1. known[q] = row[q].ep /\ Live
      BY <1>4, <2>1 DEF Persist, ConsumerFits
    <3>2. row[q].ep = epAt[row[q].eprev] /\ chan.ep = epAt[chan.eprev]
      BY <1>4, <2>1, <3>1
         DEF Persist, SessionFits, Holding, Fits, RowsFit, ChannelFits
    <3> QED BY <1>4, <2>2, <3>1, <3>2 DEF Persist, Showable, Live, CpaSource
  <2>3. CASE ~(chan.source = "native" /\ chan.eprev = row[q].eprev)
    BY <1>4, <2>3 DEF Persist
  <2> QED BY <2>2, <2>3
<1>5. ASSUME NEW q \in Consumer PROVE ~Map(q)
  BY <1>0 DEF Map, Goto, SessionsTyped, Session
<1>6. CASE \E d \in Discoverer : Discovery(d)
  BY <1>1, <1>3, <1>6
     DEF Discovery, List, PickChannel, Paced, Open, Answer, Recheck, Attempt, Rejected,
         WriteError, rowVars
<1>7. CASE \E q \in Consumer : Consume(q)
  BY <1>1, <1>4, <1>5, <1>7
     DEF Consume, ListQueue, LoadCached, Load, Loaded, CheckLoaded, Deleted, Stats, Pop,
         Popped, RefreshMapping, ConsumeFails, RecordState, rowVars
<1>8. CASE SessionStep \/ UNCHANGED vars
  BY <1>1, <1>8 DEF SessionStep, Refresh, Acquire, LeaseLost, Release, Expire, Crash,
                    vars, rowVars
<1> QED BY <1>2, <1>6, <1>7, <1>8, SplitNext

(* For any number of sessions, neither a discovery that ends after a       *)
(* switch nor a batch of an older revision shows accounts that were not    *)
(* read from the endpoint of the source now selected; what does is the     *)
(* consumer's new mapping alone.                                           *)
THEOREM OnlyCurrentShown == Spec => ShowsOnlyCurrent
<1>1. TypeOK /\ Endpointed /\ Fits /\ [Next]_vars => Shows
  BY StepShows
<1> QED BY <1>1, InitFits, StepFits, TypeCorrect, PTL DEF Spec, ShowsOnlyCurrent, Shows
===============================================================================
