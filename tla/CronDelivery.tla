---------------------------- MODULE CronDelivery ----------------------------
(***************************************************************************)
(* One user job of the cron service (internal/background/cron) and its row *)
(* in cron_jobs: the scheduler's handler and one recovery worker for each  *)
(* platform produce and deliver its report, while the job is edited, its   *)
(* session is taken over by the user, and the process crashes.             *)
(***************************************************************************)
EXTENDS Naturals, FiniteSets, SequencesExt

CONSTANTS
    Platforms,      \* the enabled platforms, one delivery target each
    Source,         \* the platform the job was created from
    OutputIDs,      \* outputs of a report, in their order
    CronLimits      \* bounds of a behaviour: runs, edits, faults (failing sends and runs,
                    \* crashes), takeovers; one record for each environment looked at

ASSUME CronAssumption ==
    /\ IsFiniteSet(Platforms) /\ Source \in Platforms
    /\ OutputIDs \in Seq(STRING) /\ Len(OutputIDs) > 0
    /\ CronLimits \subseteq [runs : Nat, edits : Nat, faults : Nat, takeover : BOOLEAN]

VARIABLES
    row,        \* the stored job
    deliverer,     \* the handler and the recovery workers, with what they hold in memory
    editor,     \* a definition change that has read the row and not yet written it
    connected,  \* platforms with a connection event waiting
    foreground, \* sessions of runs that the user has taken over
    cron,       \* the service: "new", "running", "closing", "closed"
    sent,       \* history: outputs that reached their target
    used,       \* how much of the bounds is used up
    limit       \* the bounds of this behaviour

cronVars == <<row, deliverer, editor, connected, foreground, cron, sent, used, limit>>

Handler == "handler"
Workers == Platforms \cup {Handler}
Outputs == Range(OutputIDs)
Statuses == {"pending", "delivered", "fallback_pending", "fallback_delivered"}
NoDelivery == [p \in Platforms |-> [o \in Outputs |-> "pending"]]

\* CronDeliveryState.  version: the definition the report was made from; claimed: the
\* definition stored when the run was claimed (both history, not stored by the code).
NoReport == [run |-> 0, ready |-> FALSE, need |-> FALSE, outputs |-> {}, taken |-> FALSE,
             done |-> NoDelivery, version |-> 0, claimed |-> 0]
Asleep == [at |-> "rest", token |-> 0, id |-> 0, once |-> FALSE, all |-> FALSE, version |-> 0,
           state |-> NoReport, to |-> Source, out |-> 1]
NoEdit == [on |-> FALSE, enabled |-> FALSE, once |-> FALSE, all |-> FALSE]

DeliveryState ==
    [run : 0 .. limit.runs, ready : BOOLEAN, need : BOOLEAN, outputs : SUBSET Outputs,
     taken : BOOLEAN, done : [Platforms -> [Outputs -> Statuses]],
     version : 0 .. limit.edits, claimed : 0 .. limit.edits]

CronTypeOK ==
    /\ row \in [id : Nat, enabled : BOOLEAN, once : BOOLEAN, all : BOOLEAN, token : 0 .. limit.runs,
                state : DeliveryState, version : 0 .. limit.edits]
    /\ \A w \in Workers :
          /\ deliverer[w].at \in {"rest", "claim", "run", "save", "check", "send", "persist", "fallback", "disable"}
          /\ deliverer[w].state \in DeliveryState /\ deliverer[w].out \in 1 .. Len(OutputIDs)
    /\ connected \subseteq Platforms /\ foreground \subseteq 1 .. limit.runs
    /\ cron \in {"new", "running", "closing", "closed"}
    /\ sent \subseteq (1 .. limit.runs) \X Platforms \X Outputs

CronInit ==
    /\ row \in [id : {0}, enabled : {TRUE}, once : BOOLEAN, all : BOOLEAN, token : {0},
                state : {NoReport}, version : {0}]
    /\ deliverer = [w \in Workers |-> Asleep]
    /\ editor = NoEdit
    /\ connected = {} /\ foreground = {} /\ sent = {}
    /\ cron = "new"
    /\ used = [runs |-> 0, edits |-> 0, faults |-> 0] /\ limit \in CronLimits

\* resolveDeliveryTargets
Targets(job) == IF job.all THEN Platforms ELSE {Source}
\* deliverPrepared's platformFilter
Filtered(w, job) == IF w = Handler THEN Targets(job) ELSE Targets(job) \cap {w}
DeliveryStatusDone(status) == status \in {"delivered", "fallback_delivered"}

\* Mutant: one delivered target is enough.
DeliveryCompleteOnce(job, state) ==
    \/ state.taken
    \/ state.ready /\ \E p \in Targets(job) : \A o \in state.outputs : DeliveryStatusDone(state.done[p][o])

\* deliveryComplete
DeliveryComplete(job, state) ==
    \/ state.taken
    \/ state.ready /\ \A p \in Targets(job), o \in state.outputs : DeliveryStatusDone(state.done[p][o])

\* Mutant: the token is not compared.
SwappableAnyToken(w) == row.id = deliverer[w].id /\ row.enabled

\* CompareAndSwapDelivery: the row must still be this job, enabled and hold the token.
Swappable(w) == row.id = deliverer[w].id /\ row.enabled /\ row.token = deliverer[w].token

SessionTakenOver(w) == deliverer[w].state.run \in foreground
Rest(w) == deliverer' = [deliverer EXCEPT ![w] = Asleep]
Fault == used.faults < limit.faults /\ used' = [used EXCEPT !.faults = @ + 1]

\* Mutant: what was delivered before is not looked at.
AbsentOutput(mem, o) == o \notin mem.state.outputs

\* Nothing to send: not in the report, or delivered.
DoneOutput(mem, o) == o \notin mem.state.outputs \/ DeliveryStatusDone(mem.state.done[mem.to][o])

\* The first output not yet looked at, in the order of targets and outputs.
Begin(w, job, state) ==
    [deliverer[w] EXCEPT !.state = state, !.at = IF Filtered(w, job) = {} THEN "disable" ELSE "check",
                      !.to = IF Filtered(w, job) = {} THEN Source ELSE SetToSeq(Filtered(w, job))[1], !.out = 1]

\* Mutant: the last output is not the end.
AfterPast(w, mem) == [mem EXCEPT !.at = "check", !.out = @ + 1]

\* The next output, then the next target, then the end.
After(w, mem) ==
    LET order == SetToSeq(Filtered(w, mem))
        here  == CHOOSE i \in DOMAIN order : order[i] = mem.to
    IN CASE mem.out < Len(OutputIDs) -> [mem EXCEPT !.at = "check", !.out = @ + 1]
         [] mem.out = Len(OutputIDs) /\ here < Len(order) ->
               [mem EXCEPT !.at = "check", !.out = 1, !.to = order[here + 1]]
         [] OTHER -> [mem EXCEPT !.at = "disable"]

-----------------------------------------------------------------------------
(* Platform connections (lifecycle.go).                                     *)

\* EnqueuePlatformConnected: before Start the latest event of a platform is kept.
EnqueuePlatformConnected(p) ==
    /\ cron \in {"new", "running"} /\ p \notin connected
    /\ connected' = connected \cup {p}
    /\ UNCHANGED <<row, deliverer, editor, foreground, cron, sent, used, limit>>

StartCron ==
    /\ cron = "new" /\ cron' = "running"
    /\ UNCHANGED <<row, deliverer, editor, connected, foreground, sent, used, limit>>

\* BeginClose drops the waiting events and cancels the running tasks.
BeginCloseCron ==
    /\ cron \in {"new", "running"} /\ cron' = "closing"
    /\ connected' = {}
    /\ UNCHANGED <<row, deliverer, editor, foreground, sent, used, limit>>

CloseCron ==
    /\ cron = "closing" /\ \A w \in Workers : deliverer[w].at = "rest"
    /\ cron' = "closed"
    /\ UNCHANGED <<row, deliverer, editor, connected, foreground, sent, used, limit>>

-----------------------------------------------------------------------------
(* A delivery, by the handler or by a recovery worker.                      *)

\* Mutant: workers do not wait for each other.
NotWaiting == TRUE

\* lockDeliveryJob: the gate of the job is held until the worker rests.
Unlocked == \A w \in Workers : deliverer[w].at = "rest"

\* The row, read again under the gate.
Reload(w) ==
    deliverer' = [deliverer EXCEPT ![w] =
                  [@ EXCEPT !.at = "claim", !.token = row.token, !.id = row.id, !.once = row.once,
                            !.all = row.all, !.version = row.version, !.state = row.state]]

\* Handler, called by the scheduler.
RunHandler ==
    /\ cron = "running" /\ deliverer[Handler].at = "rest" /\ Unlocked
    /\ row.enabled /\ Reload(Handler)
    /\ UNCHANGED <<row, editor, connected, foreground, cron, sent, used, limit>>

\* Mutant: a run that was begun before is left alone.
MissedAndNew(p) == row.enabled /\ row.once /\ p \in Targets(row) /\ row.token = 0

\* A once job, due like Init's, that the connected platform is a target of.
Missed(p) == row.enabled /\ row.once /\ p \in Targets(row)

\* handlePlatformConnected and runMissedOnceForPlatform, by the platform's queue.
RunMissedOnce(p) ==
    /\ cron = "running" /\ deliverer[p].at = "rest" /\ p \in connected
    /\ connected' = connected \ {p}
    /\ IF Missed(p) THEN Unlocked /\ Reload(p) ELSE UNCHANGED deliverer
    /\ UNCHANGED <<row, editor, foreground, cron, sent, used, limit>>

\* prepareDelivery: a repeating job, or one without a run, claims a new run; another
\* resumes its run, delivering at once a report that is ready.
ClaimRun(w) ==
    LET mem == deliverer[w]
        run == used.runs + 1
        fresh == [NoReport EXCEPT !.run = run, !.claimed = row.version]
    IN /\ mem.at = "claim"
       /\ \/ /\ ~mem.once \/ mem.token = 0
             /\ run <= limit.runs
             /\ used' = [used EXCEPT !.runs = run]
             /\ IF Swappable(w)
                   THEN /\ row' = [row EXCEPT !.token = run, !.state = fresh]
                        /\ deliverer' = [deliverer EXCEPT ![w].at = "run", ![w].token = run, ![w].state = fresh]
                   ELSE Rest(w) /\ UNCHANGED row
          \/ /\ mem.once /\ mem.token # 0
             /\ deliverer' = [deliverer EXCEPT ![w] = IF mem.state.ready THEN Begin(w, mem, mem.state)
                                                ELSE [mem EXCEPT !.at = "run"]]
             /\ UNCHANGED <<row, used>>
       /\ UNCHANGED <<editor, connected, foreground, cron, sent, limit>>

\* TriggerDirect, or runLLMReport: a report with a text or without one, the task taken
\* over, or a failure that leaves the run claimed and not ready.
RunReport(w) ==
    LET mem == deliverer[w] IN
    /\ mem.at = "run"
    /\ \/ \E need \in BOOLEAN :
             /\ deliverer' = [deliverer EXCEPT ![w].at = "save",
                              ![w].state = [@ EXCEPT !.ready = TRUE, !.need = need, !.version = mem.version,
                                                     !.taken = SessionTakenOver(w),
                                                     !.outputs = IF SessionTakenOver(w) THEN {}
                                                                 ELSE IF need THEN Outputs ELSE Outputs \ {"text"}]]
             /\ UNCHANGED used
       \/ Fault /\ Rest(w)
       \/ cron = "closing" /\ Rest(w) /\ UNCHANGED used
    /\ UNCHANGED <<row, editor, connected, foreground, cron, sent, limit>>

SaveReport(w) ==
    LET mem == deliverer[w] IN
    /\ mem.at = "save"
    /\ IF Swappable(w)
          THEN row' = [row EXCEPT !.state = mem.state] /\ deliverer' = [deliverer EXCEPT ![w] = Begin(w, mem, mem.state)]
          ELSE Rest(w) /\ UNCHANGED row
    /\ UNCHANGED <<editor, connected, foreground, cron, sent, used, limit>>

\* deliverPrepared, before each output: a report taken over is cleared and not sent;
\* an output already delivered, or absent from the report, is passed over.
CheckOutput(w) ==
    LET mem == deliverer[w]
        o   == OutputIDs[mem.out]
        over == [mem.state EXCEPT !.taken = TRUE, !.outputs = {}]
    IN /\ mem.at = "check"
       /\ IF mem.state.taken \/ SessionTakenOver(w)
             THEN /\ row' = IF Swappable(w) THEN [row EXCEPT !.state = over] ELSE row
                  /\ deliverer' = [deliverer EXCEPT ![w].at = "disable", ![w].state = over]
             ELSE /\ UNCHANGED row
                  /\ deliverer' = [deliverer EXCEPT ![w] =
                        IF DoneOutput(mem, o) THEN After(w, mem)
                        ELSE [mem EXCEPT !.at = "send"]]
       /\ UNCHANGED <<editor, connected, foreground, cron, sent, used, limit>>

\* sendDeliveryOutput: delivered; only in part, which is not delivered; failed, which
\* ends the delivery, except for an attachment of a recovered report with text.
SendOutput(w) ==
    LET mem == deliverer[w]
        o   == OutputIDs[mem.out]
        st  == mem.state.done[mem.to][o]
        set(status) == [deliverer EXCEPT ![w].state.done[mem.to][o] = status]
    IN /\ mem.at = "send"
       /\ \/ /\ cron = "running"
             /\ sent' = sent \cup {<<mem.state.run, mem.to, o>>}
             /\ deliverer' = [set(IF st = "fallback_pending" THEN "fallback_delivered" ELSE "delivered")
                              EXCEPT ![w].at = "persist"]
             /\ UNCHANGED used
          \/ /\ cron = "running" /\ Fault
             /\ deliverer' = [deliverer EXCEPT ![w].at = "persist"]
             /\ UNCHANGED sent
          \/ /\ cron = "running" /\ Fault
             /\ IF w # Handler /\ o # "text" /\ st = "pending" /\ mem.state.need
                   THEN deliverer' = [set("fallback_pending") EXCEPT ![w].at = "fallback"]
                   ELSE Rest(w)
             /\ UNCHANGED sent
          \/ cron = "closing" /\ Rest(w) /\ UNCHANGED <<sent, used>>
       /\ UNCHANGED <<row, editor, connected, foreground, cron, limit>>

\* persistDeliveryState; a run that was replaced stops.
PersistOutput(w) ==
    LET mem == deliverer[w] IN
    /\ mem.at \in {"persist", "fallback"}
    /\ IF Swappable(w)
          THEN /\ row' = [row EXCEPT !.state = mem.state]
               /\ deliverer' = [deliverer EXCEPT ![w] = IF mem.at = "persist" THEN After(w, mem) ELSE [mem EXCEPT !.at = "send"]]
          ELSE Rest(w) /\ UNCHANGED row
    /\ UNCHANGED <<editor, connected, foreground, cron, sent, used, limit>>

\* disableCompletedDelivery, by name and token.
DisableCompleted(w) ==
    LET mem == deliverer[w] IN
    /\ mem.at = "disable"
    /\ row' = [row EXCEPT !.enabled =
                  @ /\ ~(mem.once /\ DeliveryComplete(mem, mem.state) /\ row.token = mem.token)]
    /\ Rest(w)
    /\ UNCHANGED <<editor, connected, foreground, cron, sent, used, limit>>

DeliveryStep(w) ==
    ClaimRun(w) \/ RunReport(w) \/ SaveReport(w) \/ CheckOutput(w) \/ SendOutput(w)
    \/ PersistOutput(w) \/ DisableCompleted(w)

-----------------------------------------------------------------------------
(* Meanwhile.                                                               *)

\* UpdateCron (tool/builtin/cron.go) reads the definition and later writes all of it.
ReadDefinition ==
    /\ ~editor.on /\ used.edits < limit.edits
    /\ editor' = [on |-> TRUE, enabled |-> row.enabled, once |-> row.once, all |-> row.all]
    /\ UNCHANGED <<row, deliverer, connected, foreground, cron, sent, used, limit>>

\* A change of schedule, message or targets, or switching the job on, opens a new
\* round: delivery state and token are cleared.  A new title keeps them.
WriteDefinition ==
    /\ editor.on
    /\ \E enabled, once, all, reset \in BOOLEAN :
          /\ reset => enabled
          /\ enabled /\ (once # editor.once \/ all # editor.all \/ ~editor.enabled) => reset
          /\ row' = [row EXCEPT !.enabled = enabled, !.once = once, !.all = all,
                        !.token = IF reset THEN 0 ELSE @,
                        !.state = IF reset THEN NoReport ELSE @,
                        !.version = IF reset THEN used.edits + 1 ELSE @]
    /\ editor' = NoEdit
    /\ used' = [used EXCEPT !.edits = @ + 1]
    /\ UNCHANGED <<deliverer, connected, foreground, cron, sent, limit>>

\* DeleteByName, and the same name created again: another row id.
Recreate ==
    /\ ~editor.on /\ used.edits < limit.edits
    /\ used' = [used EXCEPT !.edits = @ + 1]
    /\ row' = [row EXCEPT !.id = @ + 1, !.enabled = TRUE, !.token = 0, !.state = NoReport, !.version = used.edits + 1]
    /\ UNCHANGED <<deliverer, editor, connected, foreground, cron, sent, limit>>

\* The user resumes the background session of a run.
TakeOverRun ==
    /\ limit.takeover
    /\ \E run \in 1 .. used.runs : foreground' = foreground \cup {run}
    /\ UNCHANGED <<row, deliverer, editor, connected, cron, sent, used, limit>>

\* The process dies and starts again: only the row is left.
CrashCron ==
    /\ Fault
    /\ deliverer' = [w \in Workers |-> Asleep]
    /\ editor' = NoEdit /\ connected' = {} /\ cron' = "new"
    /\ UNCHANGED <<row, foreground, sent, limit>>

CronNext ==
    \/ \E p \in Platforms : EnqueuePlatformConnected(p)
    \/ StartCron \/ BeginCloseCron \/ CloseCron
    \/ \E w \in Workers : DeliveryStep(w)
    \/ RunHandler \/ \E p \in Platforms : RunMissedOnce(p)
    \/ ReadDefinition \/ WriteDefinition \/ Recreate \/ TakeOverRun \/ CrashCron

\* Workers run to their end; platforms reconnect and a started process stays up.
CronFairness ==
    /\ \A w \in Workers : WF_cronVars(DeliveryStep(w))
    /\ \A p \in Platforms : WF_cronVars(EnqueuePlatformConnected(p)) /\ SF_cronVars(RunMissedOnce(p))
    /\ WF_cronVars(StartCron) /\ WF_cronVars(CloseCron) /\ WF_cronVars(WriteDefinition)

CronSpec == CronInit /\ [][CronNext]_cronVars /\ CronFairness

-----------------------------------------------------------------------------
(* Properties.                                                              *)

\* At most one delivery of a job is under way: the handler and the recovery workers of
\* all platforms pass the job's gate.
OneDelivery == Cardinality({w \in Workers : deliverer[w].at # "rest"}) <= 1

\* An output stored as delivered is not sent again in that run, whoever resumes it.
NoResend ==
    [][\A w \in Workers :
          deliverer[w].at = "send" /\ deliverer'[w].at = "persist" /\ row.state.run = deliverer[w].state.run =>
             ~DeliveryStatusDone(row.state.done[deliverer[w].to][OutputIDs[deliverer[w].out]])]_cronVars

\* A once job whose stored report is of its definition is switched off by its delivery
\* only when every output has reached every target, or the user took the run over.
DisabledWhenDelivered ==
    [][\A w \in Workers :
          deliverer[w].at = "disable" /\ deliverer'[w].at = "rest" /\ row.enabled /\ ~row'.enabled =>
             \/ row.state.version # row.version
             \/ row.state.run \in foreground
             \/ \A p \in Targets(row), o \in row.state.outputs : <<row.state.run, p, o>> \in sent]_cronVars

\* A report is stored only in the round in which its run was claimed: a change that
\* opened a new round meanwhile makes the old run's report void.
ReportOfItsRound == row.state.ready => row.state.claimed = row.version

\* A report stored for a round was made from that round's definition ("本次修改是否开启
\* 新一轮执行与投递", tool/builtin/cron_contract.go).
ReportOfDefinition == row.state.ready => row.state.version = row.version

\* A due once job is delivered, whatever crashes and failures happened before, once the
\* service runs for good and its platforms keep reconnecting.
OnceDelivered == <>[](cron = "running") => <>(~row.enabled \/ ~row.once)
=============================================================================
