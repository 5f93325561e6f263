----------------------------- MODULE HookWorker -----------------------------
(***************************************************************************)
(* One persistent hook worker (internal/hook/runtime/worker.go) and what   *)
(* the manager does to it: start, stop, automatic restart, reload by the   *)
(* plugin itself, shutdown.  Every critical section of the worker's lock   *)
(* is a step; a process may exit at any moment.                            *)
(***************************************************************************)
EXTENDS Naturals, FiniteSets

CONSTANTS
    Processes,        \* process instances, one per launch (bounds the launches)
    NoProcess,
    RunTasks,         \* goroutines that may execute run
    Stoppers,         \* goroutines that may execute stop; Closer is the shutdown's
    Closer,
    Restarting,       \* the episodes with a restart strategy other than never
    MaxRestartTasks   \* bound: restart tasks waiting at once

ASSUME WorkerAssumption ==
    /\ NoProcess \notin Processes /\ Closer \in Stoppers
    /\ Restarting \subseteq {"stops", "events"} /\ MaxRestartTasks \in Nat

VARIABLES
    worker,     \* the fields of the worker; overlap is a history: two runs were between their looks at once
    process,    \* state of each process
    runTask,    \* run: where it is and the process it launched
    stopper,    \* stop: where it is, the process or channel it waits for, and
                \* whether a start was asked for since the worker was marked
    restarts,   \* tasks of restartLater that wait for their delay
    reload,     \* a self reload: prepared commit, armed flag
    host,       \* the manager: "open", "closed", "done"
    episode     \* what happens in this behaviour: "stops" by users or "events"

workerVars == <<worker, process, runTask, stopper, restarts, reload, host, episode>>

NoRun == [at |-> "idle", proc |-> NoProcess]
NoStop == [at |-> "idle", proc |-> NoProcess, chan |-> "none", overtaken |-> FALSE]

WorkerTypeOK ==
    /\ worker \in [status : {"stopped", "starting", "ready", "running", "degraded", "stopping", "failed"},
                   cmd : Processes \cup {NoProcess}, starting : BOOLEAN, stopping : BOOLEAN,
                   manual : BOOLEAN, active : 0 .. 1, done : {"nil", "open", "closed"}, overlap : BOOLEAN]
    /\ process \in [Processes -> {"unused", "alive", "exited", "reaped"}]
    /\ runTask \in [RunTasks -> [at : {"idle", "spawned", "entered", "init", "answered", "failed", "killing"},
                                 proc : Processes \cup {NoProcess}]]
    /\ stopper \in [Stoppers -> [at : {"idle", "nothing", "marked", "waiting", "joining", "returned"},
                                 proc : Processes \cup {NoProcess}, chan : {"none", "current", "replaced", "closed"},
                                 overtaken : BOOLEAN]]
    /\ restarts \in 0 .. MaxRestartTasks
    /\ reload \in [commit : {"none", "preparing", "ready", "taken"}, armed : BOOLEAN]
    /\ host \in {"open", "closed", "done"} /\ episode \in {"stops", "events"}

WorkerInit ==
    /\ worker = [status |-> "stopped", cmd |-> NoProcess, starting |-> FALSE, stopping |-> FALSE,
                 manual |-> FALSE, active |-> 0, done |-> "nil", overlap |-> FALSE]
    /\ process = [p \in Processes |-> "unused"]
    /\ runTask = [r \in RunTasks |-> NoRun]
    /\ stopper = [s \in Stoppers |-> NoStop]
    /\ restarts = 0
    /\ reload = [commit |-> "none", armed |-> FALSE]
    /\ host = "open" /\ episode \in {"stops", "events"}

\* shouldRestart
AutoRestart == episode \in Restarting

\* KillProcessTree on a process that may be gone already.
Killed(p) == IF p # NoProcess /\ process[p] = "alive" THEN [process EXCEPT ![p] = "exited"] ELSE process

-----------------------------------------------------------------------------
(* run.                                                                     *)

\* startTask(w.run).  Goroutines and processes are interchangeable: any free one serves.
Spawn ==
    LET free == {r \in RunTasks : runTask[r].at = "idle"} IN
    free # {} /\ runTask' = [runTask EXCEPT ![CHOOSE r \in free : TRUE].at = "spawned"]

\* Manager.Start and ReplacePlugin's start of the new worker; with "events" only the
\* first start, the one of Apply.
StartWorker ==
    /\ host = "open"
    /\ episode = "events" => worker.status = "stopped" /\ \A r \in RunTasks : runTask[r].at = "idle"
    /\ worker' = [worker EXCEPT !.manual = FALSE]
    /\ Spawn
    /\ stopper' = [s \in Stoppers |-> [stopper[s] EXCEPT !.overtaken = @ \/ stopper[s].at # "idle"]]
    /\ UNCHANGED <<process, restarts, reload, host, episode>>

\* What becomes of w.done for those who joined the stop of another goroutine.
Rechanneled(fate) ==
    [s \in Stoppers |-> IF stopper[s].chan = "current" THEN [stopper[s] EXCEPT !.chan = fate] ELSE stopper[s]]

\* run makes a new w.done, before it knows whether there will be a process to close it.
RunEnter(r) ==
    LET w == worker IN
    /\ runTask[r].at = "spawned"
    /\ IF w.cmd # NoProcess \/ w.starting \/ w.stopping \/ w.manual
       THEN runTask' = [runTask EXCEPT ![r] = NoRun] /\ UNCHANGED worker
       ELSE /\ runTask' = [runTask EXCEPT ![r].at = "entered"]
            /\ worker' = [w EXCEPT !.starting = TRUE, !.status = "starting", !.done = "open",
                                   !.overlap = @ \/ \E q \in RunTasks : runTask[q].at = "entered"]
    /\ stopper' = IF runTask'[r].at = "entered" THEN Rechanneled("replaced") ELSE stopper
    /\ UNCHANGED <<process, restarts, reload, host, episode>>

\* Mutant: the state is not looked at again before the process is started.
LaunchableAlways == TRUE

\* The second look, under the manager's and the worker's lock.
Launchable == host = "open" /\ worker.cmd = NoProcess /\ ~worker.stopping /\ ~worker.manual

Launch(r) ==
    /\ runTask[r].at = "entered"
    /\ \/ /\ Launchable
          /\ \E p \in Processes : process[p] = "unused"
          /\ LET p == CHOOSE q \in Processes : process[q] = "unused" IN
                /\ process' = [process EXCEPT ![p] = "alive"]
                /\ worker' = [worker EXCEPT !.cmd = p, !.starting = FALSE]
                /\ runTask' = [runTask EXCEPT ![r] = [at |-> "init", proc |-> p]]
       \/ /\ ~Launchable
          /\ worker' = [worker EXCEPT !.starting = FALSE, !.status = "stopped"]
          /\ runTask' = [runTask EXCEPT ![r] = NoRun]
          /\ UNCHANGED process
       \/ /\ runTask' = [runTask EXCEPT ![r].at = "failed"]
          /\ UNCHANGED <<worker, process>>
    /\ UNCHANGED <<stopper, restarts, reload, host, episode>>

\* system.init: an answer, or an error: a refusal, the timeout, the exit, the shutdown.
InitAnswer(r) ==
    /\ runTask[r].at = "init"
    /\ \/ process[runTask[r].proc] = "alive" /\ runTask' = [runTask EXCEPT ![r].at = "answered"]
       \/ runTask' = [runTask EXCEPT ![r].at = "failed"]
    /\ UNCHANGED <<worker, process, stopper, restarts, reload, host, episode>>

BecomeReady(r) ==
    /\ runTask[r].at = "answered"
    /\ worker' = [worker EXCEPT !.status = "ready"]
    /\ runTask' = [runTask EXCEPT ![r] = NoRun]
    /\ UNCHANGED <<process, stopper, restarts, reload, host, episode>>

\* Mutant: only the process's exit schedules a restart.
RestartAfterNoStart == 0

\* startFailed schedules one when no process is there to report its exit.
RestartAfterFailedStart == IF worker.cmd = NoProcess /\ AutoRestart /\ host = "open" THEN 1 ELSE 0

StartFailed(r) ==
    /\ runTask[r].at = "failed"
    /\ restarts + RestartAfterFailedStart <= MaxRestartTasks
    /\ worker' = [worker EXCEPT !.starting = FALSE, !.status = "failed"]
    /\ restarts' = restarts + RestartAfterFailedStart
    /\ runTask' = [runTask EXCEPT ![r] = IF @.proc = NoProcess THEN NoRun ELSE [@ EXCEPT !.at = "killing"]]
    /\ UNCHANGED <<process, stopper, reload, host, episode>>

\* Mutant: the worker forgets the process it has killed before it is reaped.
KillAndForget(r) ==
    /\ runTask[r].at = "killing"
    /\ process' = Killed(worker.cmd)
    /\ worker' = [worker EXCEPT !.cmd = NoProcess]
    /\ runTask' = [runTask EXCEPT ![r] = NoRun]
    /\ UNCHANGED <<stopper, restarts, reload, host, episode>>

KillStarted(r) ==
    /\ runTask[r].at = "killing"
    /\ process' = Killed(worker.cmd)
    /\ runTask' = [runTask EXCEPT ![r] = NoRun]
    /\ UNCHANGED <<worker, stopper, restarts, reload, host, episode>>

\* The delay of restartLater has passed, or the manager is closed.
RestartFires ==
    /\ restarts > 0
    /\ restarts' = restarts - 1
    /\ \/ host = "open" /\ Spawn
       \/ host # "open" /\ UNCHANGED runTask
    /\ UNCHANGED <<worker, process, stopper, reload, host, episode>>

-----------------------------------------------------------------------------
(* The process, and waitLoop.                                               *)

ProcessExits(p) ==
    /\ process[p] = "alive"
    /\ process' = [process EXCEPT ![p] = "exited"]
    /\ UNCHANGED <<worker, runTask, stopper, restarts, reload, host, episode>>

\* The exit was neither asked for by stop nor forbidden by it.
Unwanted == ~worker.stopping /\ ~worker.manual

\* Mutant: an exit after a stop leaves the mark of the stop behind.
AfterExitMarked(w) ==
    [w EXCEPT !.cmd = NoProcess, !.status = "exited", !.done = "closed"]

\* Exit facts, published before w.done closes.
AfterExit(w) ==
    [w EXCEPT !.cmd = NoProcess, !.done = "closed",
              !.stopping = IF Unwanted THEN @ ELSE FALSE,
              !.status = CASE ~Unwanted -> "stopped"
                           [] Unwanted /\ @ \in {"failed", "degraded"} -> @
                           [] Unwanted /\ @ \notin {"failed", "degraded"} -> "degraded"]

WaitLoop(p) ==
    LET again == IF Unwanted /\ AutoRestart /\ host = "open" THEN 1 ELSE 0 IN
    /\ process[p] = "exited" /\ restarts + again <= MaxRestartTasks
    /\ process' = [process EXCEPT ![p] = "reaped"]
    /\ worker' = AfterExit(worker)
    /\ restarts' = restarts + again
    /\ stopper' = Rechanneled("closed")
    /\ UNCHANGED <<runTask, reload, host, episode>>

-----------------------------------------------------------------------------
(* stop.                                                                    *)

\* A first stop marks the worker and captures its process; one that finds it marked
\* only waits for w.done.
StoppingWorker(s) ==
    IF worker.stopping
    THEN /\ stopper' = [stopper EXCEPT ![s] =
                          IF worker.done = "open" THEN [NoStop EXCEPT !.at = "joining", !.chan = "current", !.overtaken = ~worker.manual]
                          ELSE [NoStop EXCEPT !.at = "returned", !.overtaken = ~worker.manual]]
         /\ UNCHANGED worker
    ELSE /\ worker' = [worker EXCEPT !.stopping = TRUE, !.manual = TRUE]
         /\ stopper' = [stopper EXCEPT ![s] = [NoStop EXCEPT !.at = IF worker.cmd = NoProcess THEN "nothing" ELSE "marked",
                                                             !.proc = worker.cmd]]

StopBegin(s) ==
    /\ stopper[s].at = "idle"
    /\ IF s = Closer THEN host # "open" ELSE host = "open" /\ episode = "stops"
    /\ StoppingWorker(s)
    /\ UNCHANGED <<process, runTask, restarts, reload, host, episode>>

StopNothing(s) ==
    /\ stopper[s].at = "nothing"
    /\ worker' = [worker EXCEPT !.stopping = FALSE, !.status = "stopped"]
    /\ stopper' = [stopper EXCEPT ![s] = [NoStop EXCEPT !.at = "returned", !.overtaken = stopper[s].overtaken]]
    /\ UNCHANGED <<process, runTask, restarts, reload, host, episode>>

\* The process may have been reaped in between: the status is written all the same.
StopShown(s) ==
    /\ stopper[s].at = "marked"
    /\ worker' = [worker EXCEPT !.status = "stopping"]
    /\ stopper' = [stopper EXCEPT ![s].at = "waiting"]
    /\ UNCHANGED <<process, runTask, restarts, reload, host, episode>>

\* The graceful budget is over.
StopKill(s) ==
    /\ stopper[s].at = "waiting"
    /\ process' = Killed(stopper[s].proc) /\ process' # process
    /\ UNCHANGED <<worker, runTask, stopper, restarts, reload, host, episode>>

\* Mutant: a goroutine that joins another stop waits for the process it never captured.
JoinedNever(s) == stopper[s].at = "waiting" /\ process[stopper[s].proc] = "reaped"

\* w.done is closed.
StopIsJoined(s) ==
    CASE stopper[s].at = "waiting" -> process[stopper[s].proc] = "reaped"
      [] stopper[s].at = "joining" -> stopper[s].chan = "closed"

StopJoined(s) ==
    /\ stopper[s].at \in {"waiting", "joining"} /\ StopIsJoined(s)
    /\ worker' = IF stopper[s].at = "waiting" THEN [worker EXCEPT !.stopping = FALSE] ELSE worker
    /\ stopper' = [stopper EXCEPT ![s] = [NoStop EXCEPT !.at = "returned", !.overtaken = stopper[s].overtaken]]
    /\ UNCHANGED <<process, runTask, restarts, reload, host, episode>>

\* The caller's context ends, or the process survives its kill for too long; a stop
\* that captured the process never leaves without the kill.
StopGivesUp(s) ==
    /\ s # Closer /\ stopper[s].at \in {"waiting", "joining"}
    /\ process' = Killed(stopper[s].proc)
    /\ stopper' = [stopper EXCEPT ![s] = NoStop]
    /\ UNCHANGED <<worker, runTask, restarts, reload, host, episode>>

StopReturned(s) ==
    /\ s # Closer /\ stopper[s].at = "returned"
    /\ stopper' = [stopper EXCEPT ![s] = NoStop]
    /\ UNCHANGED <<worker, process, runTask, restarts, reload, host, episode>>

-----------------------------------------------------------------------------
(* Events and the plugin's own reload.                                      *)

\* Mutant: a reload armed while an event runs is left behind.
TakenNever(rl, active) == rl

\* takeReloadLocked
Taken(rl, active) == IF rl.armed /\ active = 0 /\ rl.commit = "ready"
                     THEN [commit |-> "taken", armed |-> FALSE] ELSE rl

BeginHandle ==
    /\ episode = "events" /\ host = "open" /\ ~worker.manual /\ worker.status \in {"ready", "running"} /\ worker.active = 0
    /\ worker' = [worker EXCEPT !.active = 1, !.status = "running"]
    /\ UNCHANGED <<process, runTask, stopper, restarts, reload, host, episode>>

FinishHandle ==
    /\ worker.active = 1
    /\ worker' = [worker EXCEPT !.active = 0, !.status = IF @ = "running" THEN "ready" ELSE @]
    /\ reload' = Taken(reload, 0)
    /\ UNCHANGED <<process, runTask, stopper, restarts, host, episode>>

PrepareReload ==
    /\ episode = "events" /\ host = "open" /\ worker.status \in {"ready", "running"} /\ reload.commit = "none"
    /\ reload' = [reload EXCEPT !.commit = "preparing"]
    /\ UNCHANGED <<worker, process, runTask, stopper, restarts, host, episode>>

\* preparePluginReload returns a commit function or an error.
Prepared ==
    /\ reload.commit = "preparing"
    /\ \E c \in {"ready", "none"} : reload' = [reload EXCEPT !.commit = c]
    /\ UNCHANGED <<worker, process, runTask, stopper, restarts, host, episode>>

\* The answer to the plugin was written (armReload) or not (discardReload).
ArmReload ==
    /\ reload.commit = "ready" /\ ~reload.armed
    /\ \/ reload' = Taken([reload EXCEPT !.armed = TRUE], worker.active)
       \/ reload' = [commit |-> "none", armed |-> FALSE]
    /\ UNCHANGED <<worker, process, runTask, stopper, restarts, host, episode>>

\* runReload: ReplacePlugin stops this worker; a new worker object takes its place.
RunReload(s) ==
    /\ reload.commit = "taken"
    /\ reload' = [reload EXCEPT !.commit = "none"]
    /\ IF host = "open" /\ s # Closer /\ stopper[s].at = "idle"
       THEN StoppingWorker(s)
       ELSE host # "open" /\ UNCHANGED <<worker, stopper>>
    /\ UNCHANGED <<process, runTask, restarts, host, episode>>

-----------------------------------------------------------------------------
(* Manager.Close and finishClose.                                           *)

CloseHost ==
    /\ host = "open"
    /\ host' = "closed"
    /\ UNCHANGED <<worker, process, runTask, stopper, restarts, reload, episode>>

\* Mutant: only the stop of the indexed workers is joined.
HostJoinedStops == stopper[Closer].at = "returned"

\* stopWorkers, then workWG.Wait: runs, loops, restart tasks, invocations.
HostJoined ==
    /\ stopper[Closer].at = "returned"
    /\ \A r \in RunTasks : runTask[r].at = "idle"
    /\ \A p \in Processes : process[p] \in {"unused", "reaped"}
    /\ restarts = 0 /\ worker.active = 0

FinishClose ==
    /\ host = "closed" /\ HostJoined
    /\ host' = "done"
    /\ UNCHANGED <<worker, process, runTask, stopper, restarts, reload, episode>>

RunTaskStep(r) == RunEnter(r) \/ Launch(r) \/ InitAnswer(r) \/ BecomeReady(r) \/ StartFailed(r) \/ KillStarted(r)
StopStep(s) == StopNothing(s) \/ StopShown(s) \/ StopKill(s) \/ StopJoined(s)

WorkerNext ==
    \/ StartWorker \/ RestartFires \/ CloseHost \/ FinishClose
    \/ BeginHandle \/ FinishHandle \/ PrepareReload \/ Prepared \/ ArmReload
    \/ \E r \in RunTasks : RunTaskStep(r)
    \/ \E p \in Processes : ProcessExits(p) \/ WaitLoop(p)
    \/ \E s \in Stoppers : StopBegin(s) \/ StopStep(s) \/ StopGivesUp(s) \/ StopReturned(s) \/ RunReload(s)

WorkerFairness ==
    /\ WF_workerVars(RestartFires) /\ WF_workerVars(FinishClose) /\ WF_workerVars(FinishHandle)
    /\ \A r \in RunTasks : WF_workerVars(RunTaskStep(r))
    /\ \A p \in Processes : WF_workerVars(WaitLoop(p))
    /\ \A s \in Stoppers : WF_workerVars(StopStep(s))
    /\ WF_workerVars(StopBegin(Closer))

WorkerSpec == WorkerInit /\ [][WorkerNext]_workerVars /\ WorkerFairness

-----------------------------------------------------------------------------
(* Properties.                                                              *)

\* Two processes of one worker never run at the same time, however starts, automatic
\* restarts and stops interleave, and the worker knows the one that runs.
OneProcess ==
    \A p \in Processes : process[p] \in {"alive", "exited"} => worker.cmd = p

\* When stop has returned to its caller and nobody asked for a start since the
\* worker was marked, its process is gone.  Not so once two starts have overlapped,
\* which the late failure of an earlier one allows: it clears the flag of the later.
StopMeansStopped ==
    ~worker.overlap => \A s \in Stoppers : stopper[s].at = "returned" /\ ~stopper[s].overtaken =>
                           \A p \in Processes : process[p] \notin {"alive", "exited"}

\* While a process runs its channel is open, so waitLoop never closes one twice.
DoneClosedOnce ==
    ~worker.overlap => \A p \in Processes : process[p] \in {"alive", "exited"} => worker.done = "open"

\* A worker that is down although nobody stopped it is on its way up again; only a stop
\* that found no process and has not said so yet leaves it down, whatever was asked since.
RestartScheduled ==
    /\ AutoRestart /\ host = "open" /\ ~worker.manual /\ worker.status \in {"degraded", "failed"}
    /\ \A s \in Stoppers : stopper[s].at # "nothing"
    => \/ restarts > 0
       \/ worker.cmd # NoProcess
       \/ \E r \in RunTasks : runTask[r].at \notin {"idle", "killing"}

\* A reload the plugin was promised runs as soon as no event is being handled.
ReloadNotForgotten == ~(reload.armed /\ reload.commit = "ready" /\ worker.active = 0)

\* The manager is done only when no process, run or restart of the worker is left.
HostDoneLast ==
    host = "done" => /\ \A p \in Processes : process[p] \notin {"alive", "exited"}
                     /\ \A r \in RunTasks : runTask[r].at = "idle"

\* The shutdown joined another stop whose channel belongs to a start without a process.
ClosedBehindFailedStart == stopper[Closer].at = "joining" /\ stopper[Closer].chan # "closed" /\ worker.cmd = NoProcess

\* The shutdown completes, unless it waits for a channel that nobody will close.
HostClosesOrOrphaned == host = "closed" ~> (host = "done" \/ []ClosedBehindFailedStart)

\* The shutdown completes: Done closes after the workers have finished.
HostCloses == host = "closed" ~> host = "done"

\* One exit schedules one restart: two restart tasks never wait for one worker.
OneRestart == restarts <= 1

\* A worker whose process was reaped is not shown as ready or running.
ReadyHasProcess == worker.status \in {"ready", "running"} => worker.cmd # NoProcess
=============================================================================
