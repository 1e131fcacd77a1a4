------------------------------- MODULE UsageTask -------------------------------
(***************************************************************************)
(* The task that synchronizes usage in each worker process: started with   *)
(* the process (main.lifespan) if the settings say so, and restarted by    *)
(* whatever request changes its settings (update_config,                   *)
(* restart_usage_sync_task).  What the task does is in UsageSync.          *)
(*                                                                         *)
(* A process runs one coroutine at a time: from an await to the next one   *)
(* nothing else of it runs, while other processes may write the settings.  *)
(***************************************************************************)
EXTENDS Naturals, FiniteSets

CONSTANTS
    Proc,           \* worker processes
    Request,        \* requests that change the settings
    Settings, Off,  \* values of the section usage_sync; Off: no auto_sync
    MaxLoop,        \* bound on the loops of a process
    Nobody

Loop == 1..MaxLoop

ASSUME TaskAssumption ==
    /\ MaxLoop \in Nat \ {0} /\ Off \in Settings
    /\ Proc # {} /\ Nobody \notin Proc

VARIABLES
    stored,     \* the section, in service_settings
    up,         \* the life of each process
    loops,      \* its _usage_auto_sync_loop tasks
    handle,     \* its _sync_task; 0 is None
    req,        \* the requests under way
    crossed,    \* history: settings were saved inside another's request
    doubled     \* history: two restarts of a process waited for one loop

vars == <<stored, up, loops, handle, req, crossed, doubled>>

(* A task is in a cycle's release(), or anywhere else in its loop, or it   *)
(* is ending because it was cancelled.                                     *)
Task == {"none", "runs", "release", "closing"}

(* before, next: the settings as they were read and as they will be saved; *)
(* loop: the task that is waited for.                                      *)
Sync == {"loading", "saving", "comparing", "creating"}
Req == [pc : {"idle", "waiting", "resuming"} \cup Sync, at : Proc \cup {Nobody},
        before : Settings, next : Settings, loop : 0..MaxLoop]
NoReq == [pc |-> "idle", at |-> Nobody, before |-> Off, next |-> Off, loop |-> 0]

TypeOK ==
    /\ stored \in Settings
    /\ up \in [Proc -> {"down", "up", "stopping"}]
    /\ loops \in [Proc -> [Loop -> Task]] /\ handle \in [Proc -> 0..MaxLoop]
    /\ req \in [Request -> Req]
    /\ crossed \in BOOLEAN /\ doubled \in [Proc -> BOOLEAN]
    /\ \A p \in Proc : up[p] = "down" => \A i \in Loop : loops[p][i] = "none"

Init ==
    /\ stored \in Settings
    /\ up = [p \in Proc |-> "down"]
    /\ loops = [p \in Proc |-> [i \in Loop |-> "none"]]
    /\ handle = [p \in Proc |-> 0]
    /\ req = [r \in Request |-> NoReq]
    /\ crossed = FALSE /\ doubled = [p \in Proc |-> FALSE]

(* No coroutine of p is between two of its awaits.                         *)
Free(p) == up[p] # "down" /\ \A r \in Request : req[r].at = p => req[r].pc \notin Sync

(* _sync_task is None, or done.                                            *)
Ended(p) == \A i \in Loop : i = handle[p] => loops[p][i] = "none"

(* Task.cancel(): in release() the task awaits its heartbeat and takes the *)
(* cancellation for that of the heartbeat: it goes on.                     *)
Cancelled(task) == IF task = "runs" THEN "closing" ELSE task
CancelLoop(p) == [loops EXCEPT ![p] =
    [i \in Loop |-> IF i = handle[p] THEN Cancelled(@[i]) ELSE @[i]]]

Unused(p) == {i \in Loop : loops[p][i] = "none"}
Fresh(p) == CHOOSE i \in Unused(p) : \A j \in Unused(p) : i <= j

(* asyncio.create_task(_usage_auto_sync_loop()), if the settings say so.   *)
CreateLoop(p) ==
    IF stored = Off
    THEN handle' = [handle EXCEPT ![p] = 0] /\ UNCHANGED loops
    ELSE /\ Unused(p) # {}
         /\ handle' = [handle EXCEPT ![p] = Fresh(p)]
         /\ loops' = [loops EXCEPT ![p][Fresh(p)] = "runs"]

-------------------------------------------------------------------------------
(* Processes: lifespan.                                                    *)

Start(p) ==
    /\ up[p] = "down"
    /\ up' = [up EXCEPT ![p] = "up"]
    /\ CreateLoop(p)
    /\ UNCHANGED <<stored, req, crossed, doubled>>

(* All requests have been answered; the task is cancelled and awaited (and *)
(* the other loops after it).                                              *)
Shutdown(p) ==
    /\ up[p] = "up" /\ \A r \in Request : req[r].at # p
    /\ up' = [up EXCEPT ![p] = "stopping"]
    /\ loops' = CancelLoop(p)
    /\ UNCHANGED <<stored, handle, req, crossed, doubled>>

(* Mutation: the tasks outlive their process.                              *)
GoneButItsTasks(p) ==
    /\ up' = [up EXCEPT ![p] = "down"]
    /\ handle' = [handle EXCEPT ![p] = 0]
    /\ req' = [r \in Request |-> IF req[r].at = p THEN NoReq ELSE req[r]]
    /\ doubled' = [doubled EXCEPT ![p] = FALSE]
    /\ UNCHANGED <<stored, loops, crossed>>

Gone(p) ==
    /\ up' = [up EXCEPT ![p] = "down"]
    /\ loops' = [loops EXCEPT ![p] = [i \in Loop |-> "none"]]
    /\ handle' = [handle EXCEPT ![p] = 0]
    /\ req' = [r \in Request |-> IF req[r].at = p THEN NoReq ELSE req[r]]
    /\ doubled' = [doubled EXCEPT ![p] = FALSE]
    /\ UNCHANGED <<stored, crossed>>

(* The end of a process cancels what other tasks it may have.              *)
Stop(p) == up[p] = "stopping" /\ Ended(p) /\ Gone(p)
Crash(p) == up[p] # "down" /\ Gone(p)

-------------------------------------------------------------------------------
(* A request that changes the settings: update_config.                     *)

Put(r, p) ==
    /\ req[r].pc = "idle" /\ up[p] = "up" /\ Free(p)
    /\ req' = [req EXCEPT ![r] =
            [NoReq EXCEPT !.pc = "loading", !.at = p, !.before = stored]]
    /\ UNCHANGED <<stored, up, loops, handle, crossed, doubled>>

(* update_service_config reads the settings again and changes what it was  *)
(* given; nothing is saved if that is no change.                           *)
Load(r) ==
    /\ req[r].pc = "loading"
    /\ \E next \in Settings :
        req' = [req EXCEPT ![r] =
            IF next = stored THEN [@ EXCEPT !.pc = "comparing"]
                             ELSE [@ EXCEPT !.pc = "saving", !.next = next]]
    /\ UNCHANGED <<stored, up, loops, handle, crossed, doubled>>

Save(r) ==
    /\ req[r].pc = "saving"
    /\ stored' = req[r].next
    /\ req' = [req EXCEPT ![r] = [@ EXCEPT !.pc = "comparing", !.next = Off]]
    /\ crossed' = (crossed \/ \E s \in Request \ {r} : req[s].pc \in Sync)
    /\ UNCHANGED <<up, loops, handle, doubled>>

Moved(r, pc) ==
    req' = [req EXCEPT ![r] =
        [NoReq EXCEPT !.pc = pc, !.at = req[r].at, !.loop = handle[req[r].at]]]

(* Mutation: only a loop that runs is restarted.                           *)
CompareRunning(r) ==
    /\ req[r].pc = "comparing"
    /\ IF stored = req[r].before \/ handle[req[r].at] = 0
       THEN req' = [req EXCEPT ![r] = NoReq] /\ UNCHANGED loops
       ELSE Moved(r, "waiting") /\ loops' = CancelLoop(req[r].at)
    /\ UNCHANGED <<stored, up, handle, crossed, doubled>>

(* Mutation: the old task is cancelled and not awaited.                    *)
CompareUnawaited(r) ==
    /\ req[r].pc = "comparing"
    /\ IF stored = req[r].before
       THEN req' = [req EXCEPT ![r] = NoReq] /\ UNCHANGED loops
       ELSE Moved(r, "creating") /\ loops' = CancelLoop(req[r].at)
    /\ UNCHANGED <<stored, up, handle, crossed, doubled>>

(* The settings are read once more; if they differ from what they were     *)
(* before, restart_usage_sync_task cancels the loop and awaits it.         *)
Compare(r) ==
    /\ req[r].pc = "comparing"
    /\ IF stored = req[r].before
       THEN req' = [req EXCEPT ![r] = NoReq] /\ UNCHANGED loops
       ELSE /\ Moved(r, IF Ended(req[r].at) THEN "creating" ELSE "waiting")
            /\ loops' = CancelLoop(req[r].at)
    /\ UNCHANGED <<stored, up, handle, crossed, doubled>>

(* ... forgets it, and starts another if the settings say so now.          *)
Create(r) ==
    LET p == req[r].at
    IN  /\ req[r].pc = "creating" \/ (req[r].pc = "resuming" /\ Free(p))
        /\ doubled' = [doubled EXCEPT ![p] =
                            @ \/ (req[r].pc = "resuming" /\ ~Ended(p))]
        /\ CreateLoop(p)
        /\ req' = [req EXCEPT ![r] = NoReq]
        /\ UNCHANGED <<stored, up, crossed>>

Handle(r) == Load(r) \/ Save(r) \/ Compare(r) \/ Create(r)

-------------------------------------------------------------------------------
(* The loop: cycles, each with its release(), and pauses.                  *)

Become(p, i, task) == loops' = [loops EXCEPT ![p][i] = task]

EndCycle(p, i) == loops[p][i] = "runs" /\ Become(p, i, "release") /\ UNCHANGED req
Released(p, i) == loops[p][i] = "release" /\ Become(p, i, "runs") /\ UNCHANGED req

(* A cancelled loop ends, and whoever waits for it goes on.                *)
EndLoop(p, i) ==
    /\ loops[p][i] = "closing"
    /\ Become(p, i, "none")
    /\ req' = [r \in Request |->
            IF req[r].pc = "waiting" /\ req[r].at = p /\ req[r].loop = i
            THEN [req[r] EXCEPT !.pc = "resuming"] ELSE req[r]]

UsageLoop(p, i) ==
    /\ Free(p)
    /\ EndCycle(p, i) \/ Released(p, i) \/ EndLoop(p, i)
    /\ UNCHANGED <<stored, up, handle, crossed, doubled>>

-------------------------------------------------------------------------------
Next ==
    \/ \E p \in Proc : \/ Start(p) \/ Shutdown(p) \/ Stop(p) \/ Crash(p)
                       \/ \E i \in Loop : UsageLoop(p, i)
                       \/ \E r \in Request : Put(r, p)
    \/ \E r \in Request : Handle(r)

(* Tasks and requests go on (their awaits have timeouts); nothing is       *)
(* assumed of administrators, of starts and ends of processes.             *)
Fairness ==
    /\ \A p \in Proc : \A i \in Loop : WF_vars(UsageLoop(p, i))
    /\ \A r \in Request : WF_vars(Handle(r))

Spec == Init /\ [][Next]_vars
FairSpec == Spec /\ Fairness

-------------------------------------------------------------------------------
(* When all requests have been answered and the settings want usage to be  *)
(* synchronized, some process has a loop for it, unless two processes      *)
(* changed the settings at once.                                           *)
SyncRunsWhenOn ==
    (/\ \A r \in Request : req[r].pc = "idle"
     /\ \A p \in Proc : up[p] = "up"
     /\ stored # Off /\ ~crossed)
    => \E p \in Proc : \E i \in Loop : loops[p][i] # "none"

(* A restarted loop never runs beside the one it replaces, unless a second *)
(* restart came while the first was waiting.                               *)
OneUsageLoop ==
    \A p \in Proc : ~doubled[p] =>
        \A i, j \in Loop : loops[p][i] # "none" /\ loops[p][j] # "none" => i = j

(* docs/plans/cpa-admin-quota.md, M7: usage settings changes restart the   *)
(* usage task.                                                             *)
RestartEnds ==
    \A r \in Request : req[r].pc = "waiting" ~> req[r].pc # "waiting"
===============================================================================
