---------------------------- MODULE CronManager ----------------------------
(***************************************************************************)
(* The cron manager (internal/background/cron/manager.go, refresh.go): the *)
(* scheduler's entries follow the stored jobs, which tools and the         *)
(* maintenance configuration change at any time; fired entries run the     *)
(* job's handler; Stop waits for what it started.                          *)
(***************************************************************************)
EXTENDS Naturals, FiniteSets

CONSTANTS
    Jobs,       \* names of jobs
    Runs,       \* goroutines of fired entries
    MaxChanges  \* bound: versions of a stored job

ASSUME ManagerAssumption == MaxChanges \in Nat \ {0}

VARIABLES
    job,        \* cron_jobs: the stored definition of a name
    telling,    \* names changed in the store and not yet announced
    entries,    \* version of the definition an entry was made from; 0: no entry
    pendingJobs, refreshWake,
    refresher,  \* the goroutine of Start, then of runRefreshes
    run,        \* fired entries
    running,    \* names whose handler runs
    manager,    \* "new", "starting", "running", "stopping", "stopped"
    unread      \* history: names whose latest read by the refresher failed

managerVars == <<job, telling, entries, pendingJobs, refreshWake, refresher, run, running, manager, unread>>

Missing == [status |-> "missing", version |-> 0]
NotFired == [name |-> "none", at |-> "rest"]
Off == [at |-> "off", todo |-> {}, hand |-> {}, read |-> [n \in Jobs |-> Missing]]

ManagerTypeOK ==
    /\ job \in [Jobs -> [status : {"missing", "disabled", "enabled"}, version : 0 .. MaxChanges]]
    /\ telling \subseteq Jobs /\ pendingJobs \subseteq Jobs /\ running \subseteq Jobs /\ unread \subseteq Jobs
    /\ entries \in [Jobs -> 0 .. MaxChanges]
    /\ refreshWake \in BOOLEAN
    /\ refresher.at \in {"off", "idle", "busy"} /\ refresher.todo \subseteq Jobs /\ refresher.hand \subseteq Jobs
    /\ run \in [Runs -> [name : Jobs, at : {"load", "remove", "admit", "handler", "refresh", "release"}]
                        \cup {NotFired}]
    /\ manager \in {"new", "starting", "running", "stopping", "stopped"}

ManagerInit ==
    /\ job \in [Jobs -> {Missing, [status |-> "enabled", version |-> 1]}]
    /\ telling = {} /\ pendingJobs = {} /\ running = {} /\ unread = {} /\ refreshWake = FALSE
    /\ entries = [n \in Jobs |-> 0]
    /\ refresher = Off
    /\ run = [r \in Runs |-> NotFired]
    /\ manager = "new"

Stopping == manager \in {"stopping", "stopped"}

\* Mutant: no signal while the worker is busy with a batch.
RefreshSilently(n) ==
    IF Stopping THEN UNCHANGED <<pendingJobs, refreshWake>>
    ELSE pendingJobs' = pendingJobs \cup {n} /\ refreshWake' = (refreshWake \/ refresher.at # "busy")

\* RefreshJob: the name waits for the worker; accepted before the start as well.
RefreshJob(n) ==
    IF Stopping THEN UNCHANGED <<pendingJobs, refreshWake>>
    ELSE pendingJobs' = pendingJobs \cup {n} /\ refreshWake' = TRUE

-----------------------------------------------------------------------------
(* Changes: UpsertJob, DisableJob and the cron tools' repository calls.     *)

\* Upsert, DisableByName or DeleteByName commits.
ChangeJob(n, status) ==
    /\ n \notin telling /\ job[n].version < MaxChanges
    /\ status = "missing" => job[n].status # "missing"
    /\ job' = [job EXCEPT ![n] = [status |-> status, version |-> @.version + 1]]
    /\ telling' = telling \cup {n}
    /\ UNCHANGED <<entries, pendingJobs, refreshWake, refresher, run, running, manager, unread>>

\* The manager is told, directly or by CronChangedEvent.
AnnounceJob(n) ==
    /\ n \in telling /\ telling' = telling \ {n}
    /\ RefreshJob(n)
    /\ UNCHANGED <<job, entries, refresher, run, running, manager, unread>>

-----------------------------------------------------------------------------
(* Start, refresh and stop.                                                 *)

\* Start and ListEnabled of reloadEnabled: all enabled rows in hand.
StartManager ==
    /\ manager = "new"
    /\ manager' = "starting"
    /\ refresher' = [at |-> "busy", todo |-> {}, hand |-> {n \in Jobs : job[n].status = "enabled"}, read |-> job]
    /\ UNCHANGED <<job, telling, entries, pendingJobs, refreshWake, run, running, unread>>

\* refreshPending reads the next name of its batch.
ReadJob(n) ==
    /\ refresher.at = "busy" /\ ~Stopping
    /\ n \in refresher.todo /\ refresher.hand = {}
    /\ refresher' = [refresher EXCEPT !.todo = @ \ {n}, !.hand = {n}, !.read[n] = job[n]]
    /\ unread' = unread \ {n}
    /\ UNCHANGED <<job, telling, entries, pendingJobs, refreshWake, run, running, manager>>

\* A read that fails is logged: the name is dropped and the entry stays as it is.
RefreshFails(n) ==
    /\ refresher.at = "busy" /\ ~Stopping
    /\ n \in refresher.todo /\ refresher.hand = {}
    /\ refresher' = [refresher EXCEPT !.todo = @ \ {n}]
    /\ unread' = unread \cup {n}
    /\ UNCHANGED <<job, telling, entries, pendingJobs, refreshWake, run, running, manager>>

\* Mutant: the old entry is left to a disabled job.
ScheduledKeeping(n) == IF refresher.read[n].status = "enabled" THEN refresher.read[n].version ELSE entries[n]

\* Mutant: the entry of another definition.
ScheduledNext(n) == refresher.read[n].version + 1

\* scheduleJob: the old entry goes; an enabled job gets one from the definition read.
Scheduled(n) == IF refresher.read[n].status = "enabled" THEN refresher.read[n].version ELSE 0

ScheduleJob(n) ==
    /\ refresher.at = "busy" /\ ~Stopping /\ n \in refresher.hand
    /\ entries' = [entries EXCEPT ![n] = Scheduled(n)]
    /\ refresher' = [refresher EXCEPT !.hand = @ \ {n}, !.read[n] = Missing]
    /\ UNCHANGED <<job, telling, pendingJobs, refreshWake, run, running, manager, unread>>

Batch == [Off EXCEPT !.at = "busy", !.todo = pendingJobs]
BatchDone == refresher.at = "busy" /\ refresher.todo = {} /\ refresher.hand = {}

\* Start drains the names announced meanwhile and then, in one critical section, lets
\* the scheduler fire and the worker wait.
DrainPending ==
    /\ manager = "starting" /\ BatchDone
    /\ IF pendingJobs = {} THEN manager' = "running" /\ refresher' = [Off EXCEPT !.at = "idle"] /\ UNCHANGED pendingJobs
       ELSE refresher' = Batch /\ pendingJobs' = {} /\ UNCHANGED manager
    /\ UNCHANGED <<job, telling, entries, refreshWake, run, running, unread>>

\* runRefreshes: one signal, one batch.
TakeBatch ==
    /\ manager = "running" /\ refresher.at = "idle" /\ refreshWake
    /\ refresher' = Batch /\ pendingJobs' = {} /\ refreshWake' = FALSE
    /\ UNCHANGED <<job, telling, entries, run, running, manager, unread>>

EndBatch ==
    /\ manager = "running" /\ BatchDone
    /\ refresher' = [Off EXCEPT !.at = "idle"]
    /\ UNCHANGED <<job, telling, entries, pendingJobs, refreshWake, run, running, manager, unread>>

StopManager ==
    /\ manager \in {"new", "starting", "running"}
    /\ manager' = "stopping"
    /\ pendingJobs' = {}
    /\ UNCHANGED <<job, telling, entries, refreshWake, refresher, run, running, unread>>

\* Mutant: a waiting worker does not see it.
EndRefreshesBusy ==
    /\ manager = "stopping" /\ refresher.at = "busy"
    /\ refresher' = Off
    /\ UNCHANGED <<job, telling, entries, pendingJobs, refreshWake, run, running, manager, unread>>

\* The worker, or Start, sees the cancelled context.
EndRefreshes ==
    /\ manager = "stopping" /\ refresher.at # "off"
    /\ refresher' = Off
    /\ UNCHANGED <<job, telling, entries, pendingJobs, refreshWake, run, running, manager, unread>>

\* stopDone: the scheduler's jobs and the WaitGroup are through.
StopDone ==
    /\ manager = "stopping" /\ refresher.at = "off" /\ \A r \in Runs : run[r].at = "rest"
    /\ manager' = "stopped"
    /\ UNCHANGED <<job, telling, entries, pendingJobs, refreshWake, refresher, run, running, unread>>

-----------------------------------------------------------------------------
(* runJob.                                                                  *)

RunGoto(r, at) == run' = [run EXCEPT ![r] = IF at = "rest" THEN NotFired ELSE [@ EXCEPT !.at = at]]

\* The scheduler fires an entry.
Fire(r, n) ==
    /\ manager = "running" /\ run[r].at = "rest" /\ entries[n] # 0
    /\ run' = [run EXCEPT ![r] = [name |-> n, at |-> "load"]]
    /\ UNCHANGED <<job, telling, entries, pendingJobs, refreshWake, refresher, running, manager, unread>>

\* A run ends where its job cannot be read.
LoadRun(r) ==
    /\ run[r].at = "load"
    /\ \/ RunGoto(r, CASE Stopping \/ job[run[r].name].status = "missing" -> "rest"
                       [] ~Stopping /\ job[run[r].name].status = "disabled" -> "remove"
                       [] OTHER -> "admit")
       \/ RunGoto(r, "rest")
    /\ UNCHANGED <<job, telling, entries, pendingJobs, refreshWake, refresher, running, manager, unread>>

\* A fired entry of a job that was found disabled is removed.
RemoveEntry(r) ==
    /\ run[r].at = "remove"
    /\ entries' = [entries EXCEPT ![run[r].name] = 0]
    /\ RunGoto(r, "rest")
    /\ UNCHANGED <<job, telling, pendingJobs, refreshWake, refresher, running, manager, unread>>

\* Mutant: the previous run is not looked for.
AdmittedAlways(r) == ~Stopping

\* Neither stopped nor still running.
Admitted(r) == ~Stopping /\ run[r].name \notin running

AdmitRun(r) ==
    /\ run[r].at = "admit"
    /\ IF Admitted(r) THEN RunGoto(r, "handler") /\ running' = running \cup {run[r].name}
       ELSE RunGoto(r, "rest") /\ UNCHANGED running
    /\ UNCHANGED <<job, telling, entries, pendingJobs, refreshWake, refresher, manager, unread>>

\* The handler returns and UpdateRunState is written.
HandlerReturns(r) ==
    /\ run[r].at = "handler" /\ RunGoto(r, "refresh")
    /\ UNCHANGED <<job, telling, entries, pendingJobs, refreshWake, refresher, running, manager, unread>>

\* The deferred calls, the last one first.
RefreshAfterRun(r) ==
    /\ run[r].at = "refresh" /\ RunGoto(r, "release")
    /\ RefreshJob(run[r].name)
    /\ UNCHANGED <<job, telling, entries, refresher, running, manager, unread>>

ReleaseRun(r) ==
    /\ run[r].at = "release" /\ RunGoto(r, "rest")
    /\ running' = running \ {run[r].name}
    /\ UNCHANGED <<job, telling, entries, pendingJobs, refreshWake, refresher, manager, unread>>

RunStep(r) == LoadRun(r) \/ RemoveEntry(r) \/ AdmitRun(r) \/ HandlerReturns(r) \/ RefreshAfterRun(r) \/ ReleaseRun(r)
RefreshStep ==
    DrainPending \/ TakeBatch \/ EndBatch \/ EndRefreshes \/ \E n \in Jobs : ReadJob(n) \/ RefreshFails(n) \/ ScheduleJob(n)

ManagerNext ==
    \/ \E n \in Jobs : AnnounceJob(n) \/ \E st \in {"missing", "disabled", "enabled"} : ChangeJob(n, st)
    \/ StartManager \/ StopManager \/ StopDone \/ RefreshStep
    \/ \E r \in Runs : RunStep(r) \/ \E n \in Jobs : Fire(r, n)

ManagerFairness ==
    /\ WF_managerVars(RefreshStep) /\ WF_managerVars(StopDone)
    /\ \A n \in Jobs : WF_managerVars(AnnounceJob(n))
    /\ \A r \in Runs : WF_managerVars(RunStep(r))

ManagerSpec == ManagerInit /\ [][ManagerNext]_managerVars /\ ManagerFairness

-----------------------------------------------------------------------------
(* Properties.                                                              *)

\* Nothing is left to be done for a name.
Settled(n) ==
    /\ manager = "running" /\ refresher.at = "idle"
    /\ n \notin telling \cup pendingJobs
    /\ \A r \in Runs : run[r].name # n

\* Once announced changes were worked off, no entry is left of a disabled, deleted or
\* older definition, whatever batches, runs and changes overlapped; but the refresher
\* must have read the job: a failing read is not repeated.
NoStaleEntry ==
    \A n \in Jobs \ unread : Settled(n) /\ entries[n] # 0 =>
        job[n].status = "enabled" /\ entries[n] = job[n].version

\* Reading the store and scheduling are serial ("读库和调度由 Manager 串行处理",
\* refresh.go): once changes were worked off, an enabled job has its entry, unless the
\* last read of it failed.
EnabledHasEntry ==
    \A n \in Jobs \ unread : Settled(n) /\ job[n].status = "enabled" => entries[n] = job[n].version

\* A name waiting for the worker has its signal, or a worker that will look again.
WakeNotLost == manager = "running" /\ pendingJobs # {} => refreshWake

\* A job's handler runs once at a time.
OneRunPerJob ==
    \A r, q \in Runs : r # q /\ {run[r].at, run[q].at} \subseteq {"handler", "refresh"} => run[r].name # run[q].name

\* Stop completes.
StopCompletes == manager = "stopping" ~> manager = "stopped"
=============================================================================
