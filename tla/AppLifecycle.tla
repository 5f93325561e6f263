---------------------------- MODULE AppLifecycle ----------------------------
(***************************************************************************)
(* The program from its start to its exit: internal/app opens the shared   *)
(* resources, builds the business lines, starts them, waits for one of     *)
(* them to end and shuts all of them down within one deadline, and the     *)
(* supervisors of the lines (platform, agent, hook, tool, background) with *)
(* the goroutines that watch them.                                         *)
(*                                                                         *)
(* Run is one goroutine (main), with a place in app.at.  Whatever else     *)
(* moves is a goroutine of a line: the adapters of the platform and their  *)
(* observers, the listener of Elnis and its monitor, the workers of the    *)
(* background, the watchers of a context.  A call that one line makes into *)
(* another is in calls while it runs, and a message can leave a run of the  *)
(* agent behind that goes on when its call has returned.                                      *)
(***************************************************************************)
EXTENDS Naturals, Sequences, FiniteSets

CONSTANTS
    Adapters,    \* the adapters of the platform, in the order of their registration
    Terminals,   \* the one with an exit signal, the local terminal, if it runs
    AppFaults,   \* bound: what happens to one run: a cancellation, the user's exit, failures
    AppCallers,  \* bound: the adapters and workers whose calls are followed
    AppCalls     \* bound: calls at one time

ASSUME AppAssumption == Terminals \subseteq {Adapters[i] : i \in DOMAIN Adapters}

VARIABLES
    app,       \* Run: at, its next step, the error it will return, the failures so far
    outer,     \* the caller cancelled the run
    owned,     \* the shared resources and the lock of the configuration: none, open, closed
    lines,     \* the lines that were built, and how far each came
    adapter,   \* each adapter: new, running, told to stop, gone; the error it left with; observed
    plat,      \* the platform's lifecycle
    back,      \* the background's lifecycle
    callsNow      \* calls that run now: <<who called, the line it is in>>

appVars == <<app, outer, owned, lines, adapter, plat, back, callsNow>>

AdapterNames == {Adapters[i] : i \in DOMAIN Adapters}

-----------------------------------------------------------------------------
(* The tables of internal/app.                                             *)
Opening == <<"logs", "storage", "history", "media", "models">>
Releasing == <<"models", "media", "history", "storage", "logs">>
BuildOrder == <<"platform", "tool", "hook", "agent", "background">>
StartOrder == <<"tool", "agent", "hook", "platform", "background">>
StopOrder == <<"platform", "background", "agent", "hook", "tool">>
CloseOrder == <<"background", "agent", "hook", "tool", "platform">>
Lines == {BuildOrder[i] : i \in DOMAIN BuildOrder}

Built == {l \in Lines : lines[l] # "absent"}

\* The steps of a shutdown: all requests to stop first, then the platform's ingress, then each
\* line from the users to what they use, and the resources and the lock last.
ShutdownSteps ==
    LET of(seq, what) == [i \in DOMAIN seq |-> [what |-> what, of |-> seq[i]]]
        IsBuilt(l) == l \in Built
        IsOpen(r) == owned[r] # "none"
    IN  of(SelectSeq(StopOrder, IsBuilt), "begin")
        \o (IF "platform" \in Built THEN <<[what |-> "ingress", of |-> "platform"]>> ELSE <<>>)
        \o of(SelectSeq(CloseOrder, IsBuilt), "close")
        \o of(SelectSeq(Releasing, IsOpen), "release")
        \o (IF IsOpen("lock") THEN <<[what |-> "release", of |-> "lock"]>> ELSE <<>>)

-----------------------------------------------------------------------------
AppInit ==
    /\ app = [at |-> "environment", next |-> 1, err |-> "none", faults |-> 0]
    /\ outer = FALSE
    /\ owned = [r \in {Opening[i] : i \in DOMAIN Opening} \cup {"lock"} |-> "none"]
    /\ lines = [l \in Lines |-> "absent"]
    /\ adapter = [a \in AdapterNames |-> [at |-> "new", err |-> FALSE, left |-> FALSE, seen |-> FALSE]]
    /\ plat = [started |-> FALSE, next |-> 1, err |-> "none", ready |-> FALSE, closing |-> FALSE,
               ingress |-> FALSE, fault |-> FALSE]
    /\ back = [started |-> FALSE, next |-> 1, err |-> "none", ready |-> FALSE, closing |-> FALSE,
               elnis |-> "none", workers |-> "none", monitor |-> "none", fault |-> FALSE, failed |-> FALSE]
    /\ callsNow = {}

MayFail == app.faults < AppFaults

\* runCtx: cancelled with the caller's context, and by Run itself before it shuts down.
Canceled == outer \/ app.at \in {"stop", "exited"}

\* Run's deferred function: a cancellation that was asked for is no error, and everything that
\* was acquired is shut down.
LeaveRun(err) == [app EXCEPT !.at = "stop", !.next = 1,
                          !.err = IF outer /\ err = "canceled" THEN "none" ELSE err]

Faulted(a) == [a EXCEPT !.faults = @ + 1]

\* The caller cancels the run: a signal of the operating system.
CancelRun ==
    /\ ~outer /\ app.at # "exited" /\ MayFail
    /\ outer' = TRUE
    /\ app' = Faulted(app)
    /\ UNCHANGED <<owned, lines, adapter, plat, back, callsNow>>

\* A step of the startup before which the context is looked at and found cancelled.
StartupCanceled ==
    /\ app.at \in {"environment", "resources", "wiring", "start"}
    /\ app.at \in {"environment", "resources", "wiring"} => app.next = 1
    /\ app.at = "start" => ~(plat.started /\ ~plat.ready) /\ ~(back.started /\ ~back.ready)
    /\ Canceled
    /\ app' = LeaveRun("canceled")
    /\ UNCHANGED <<outer, owned, lines, adapter, plat, back, callsNow>>

\* prepareEnvironment: the lock of the configuration.
PrepareEnvironment ==
    /\ app.at = "environment" /\ ~Canceled
    /\ \/ owned' = [owned EXCEPT !["lock"] = "open"] /\ app' = [app EXCEPT !.at = "resources"]
       \/ MayFail /\ UNCHANGED owned /\ app' = Faulted(LeaveRun("failed"))
    /\ UNCHANGED <<outer, lines, adapter, plat, back, callsNow>>

\* prepareResources: the next resource; one that fails may leave a part of itself.
OpenResource ==
    /\ app.at = "resources" /\ (app.next = 1 => ~Canceled)
    /\ LET r == Opening[app.next] IN
       \/ /\ owned' = [owned EXCEPT ![r] = "open"]
          /\ app' = IF app.next < Len(Opening) THEN [app EXCEPT !.next = @ + 1]
                    ELSE [app EXCEPT !.at = "wiring", !.next = 1]
       \/ /\ MayFail
          /\ \/ UNCHANGED owned
             \/ r = "media" /\ owned' = [owned EXCEPT ![r] = "open"]
          /\ app' = Faulted(LeaveRun("failed"))
    /\ UNCHANGED <<outer, lines, adapter, plat, back, callsNow>>

\* buildBusinessLines: a line that fails hands over what it has of itself, only the hooks do not.
BuildLine ==
    /\ app.at = "wiring" /\ app.next <= Len(BuildOrder) /\ (app.next = 1 => ~Canceled)
    /\ LET l == BuildOrder[app.next] IN
       \/ /\ lines' = [lines EXCEPT ![l] = "built"]
          /\ app' = [app EXCEPT !.next = @ + 1]
       \/ /\ MayFail
          /\ lines' = [lines EXCEPT ![l] = IF l = "hook" THEN "absent" ELSE "built"]
          /\ app' = Faulted(LeaveRun("failed"))
    /\ UNCHANGED <<outer, owned, adapter, plat, back, callsNow>>

\* With all of them built the hooks and then the platform are connected to the agent.
ConnectHooks ==
    /\ app.at = "wiring" /\ app.next = Len(BuildOrder) + 1
    /\ app' \in {[app EXCEPT !.next = @ + 1]} \cup (IF MayFail THEN {Faulted(LeaveRun("failed"))} ELSE {})
    /\ UNCHANGED <<outer, owned, lines, adapter, plat, back, callsNow>>

ConnectPlatform ==
    /\ app.at = "wiring" /\ app.next = Len(BuildOrder) + 2
    /\ app' \in {[app EXCEPT !.at = "start", !.next = 1]} \cup (IF MayFail THEN {Faulted(LeaveRun("failed"))} ELSE {})
    /\ UNCHANGED <<outer, owned, lines, adapter, plat, back, callsNow>>

-----------------------------------------------------------------------------
(* Starting.                                                               *)
Line == StartOrder[app.next]
LineStarted(l) == [lines EXCEPT ![l] = "started"]
NextLine == IF app.next < Len(StartOrder) THEN [app EXCEPT !.next = @ + 1] ELSE [app EXCEPT !.at = "wait", !.next = 1]

Starts(l) ==
    /\ app.at = "start" /\ Line = l /\ ~Canceled
    /\ lines' = LineStarted(l) /\ app' = NextLine
    /\ UNCHANGED <<outer, owned, adapter, plat, back>>

\* The skills are loaded by a goroutine of the tools; naming and idle expiry start with the agent.
StartTool == Starts("tool") /\ callsNow' = callsNow \cup {<<"skills", "tool">>}
StartAgent == Starts("agent") /\ UNCHANGED callsNow

\* The first load of the hooks may fail without harm, the events of the platforms may not.
StartHook ==
    \/ Starts("hook") /\ UNCHANGED callsNow
    \/ /\ app.at = "start" /\ Line = "hook" /\ ~Canceled /\ MayFail
       /\ app' = Faulted(LeaveRun("failed"))
       /\ UNCHANGED <<outer, owned, lines, adapter, plat, back, callsNow>>

SkillsLoaded ==
    /\ <<"skills", "tool">> \in callsNow
    /\ callsNow' = callsNow \ {<<"skills", "tool">>}
    /\ UNCHANGED <<app, outer, owned, lines, adapter, plat, back>>

\* The platform: l.ctx is cancelled with the run and by BeginClose.
PlatformOver == Canceled \/ plat.closing

BeginPlatform ==
    /\ app.at = "start" /\ Line = "platform" /\ ~plat.started /\ ~Canceled
    /\ plat' = [plat EXCEPT !.started = TRUE]
    /\ UNCHANGED <<app, outer, owned, lines, adapter, back, callsNow>>

\* The next adapter is started; the loop ends with a cancelled context, with a failure, or with
\* the last adapter.
StartAdapter ==
    /\ app.at = "start" /\ plat.started /\ ~plat.ready
    /\ plat.next <= Len(Adapters) /\ plat.err = "none" /\ ~PlatformOver
    /\ LET a == Adapters[plat.next] IN
       /\ plat' \in {[plat EXCEPT !.next = @ + 1]} \cup
                    (IF MayFail THEN {[plat EXCEPT !.next = @ + 1, !.err = "failed"]} ELSE {})
       /\ adapter' = [adapter EXCEPT ![a].at = IF plat'.err = "failed" THEN "gone" ELSE "running",
                                     ![a].err = plat'.err = "failed"]
       /\ app' = IF plat'.err = "failed" THEN Faulted(app) ELSE app
    /\ UNCHANGED <<outer, owned, lines, back, callsNow>>

\* BeginClose of the platform: every adapter is told to stop, also one that was never started.
BeginClosePlatform(p) ==
    /\ plat' = [p EXCEPT !.closing = TRUE, !.ingress = @ \/ ~p.started]
    /\ adapter' = [a \in AdapterNames |->
                     IF adapter[a].at = "running" THEN [adapter[a] EXCEPT !.at = "told"] ELSE adapter[a]]

PlatformStarted ==
    /\ app.at = "start" /\ Line = "platform" /\ plat.started /\ ~plat.ready
    /\ plat.next > Len(Adapters) \/ plat.err # "none" \/ PlatformOver
    /\ LET err == IF plat.err # "none" THEN plat.err
                  ELSE IF plat.next <= Len(Adapters) /\ Canceled THEN "canceled" ELSE "none"
           p == [plat EXCEPT !.ready = TRUE, !.err = err] IN
       /\ IF err # "none" /\ ~plat.closing THEN BeginClosePlatform(p) ELSE plat' = p /\ UNCHANGED adapter
       /\ lines' = LineStarted("platform")
       /\ app' = IF err = "none" THEN NextLine ELSE LeaveRun(err)
    /\ UNCHANGED <<outer, owned, back, callsNow>>

-----------------------------------------------------------------------------
(* The platform while it runs.                                             *)
\* An adapter hands a message to the agent.
CallsAgent(w) ==
    /\ w \in AppCallers /\ Cardinality({c \in callsNow : c[1] # "skills"}) < AppCalls /\ \A c \in callsNow : c[1] # w
    /\ callsNow' = callsNow \cup {<<w, "agent">>}
    /\ UNCHANGED <<app, outer, owned, lines, adapter, plat, back>>

Receive(a) == adapter[a].at = "running" /\ CallsAgent(a)

\* The hooks let a call in until their Close has begun.
HooksLetIn == lines["hook"] \notin {"closing", "done"}

\* The agent asks the hooks and the tools, and has their answer.
CallGoesOn ==
    \E c \in callsNow, l \in {"agent", "hook", "tool"} :
        /\ c[1] # "skills" /\ (c[2] = "agent") # (l = "agent") /\ (l = "hook" => HooksLetIn)
        /\ callsNow' = (callsNow \ {c}) \cup {<<c[1], l>>}
        /\ UNCHANGED <<app, outer, owned, lines, adapter, plat, back>>

AgentAdmits == lines["agent"] = "started"

\* The call of the agent returns, and may leave a run behind: none after BeginClose.
CallReturns ==
    \E c \in callsNow :
        /\ c[2] = "agent"
        /\ \/ callsNow' = callsNow \ {c}
           \/ /\ c[1] # "run" /\ AgentAdmits
              /\ callsNow' = (callsNow \ {c}) \cup {<<"run", "agent">>}
        /\ UNCHANGED <<app, outer, owned, lines, adapter, plat, back>>

InCall(w) == \E c \in callsNow : c[1] = w

\* The goroutine of an adapter ends, by itself or because it was told to, when its callbacks have
\* returned.
AdapterEnds(a) ==
    /\ ~InCall(a)
    /\ \/ adapter[a].at = "told" /\ adapter' = [adapter EXCEPT ![a].at = "gone"] /\ UNCHANGED app
       \/ /\ adapter[a].at = "running" /\ MayFail
          /\ adapter' = [adapter EXCEPT ![a].at = "gone", ![a].err = TRUE] /\ app' = Faulted(app)
    /\ UNCHANGED <<outer, owned, lines, plat, back, callsNow>>

\* The user leaves the terminal.
TerminalLeaves(a) ==
    /\ a \in Terminals /\ adapter[a].at = "running" /\ ~adapter[a].left /\ MayFail
    /\ adapter' = [adapter EXCEPT ![a].left = TRUE]
    /\ app' = Faulted(app)
    /\ UNCHANGED <<outer, owned, lines, plat, back, callsNow>>

\* observe: the exit of the terminal ends the line, that of a service only itself.
ObserveExit(a) ==
    /\ a \in Terminals /\ (adapter[a].left \/ adapter[a].at = "gone") /\ plat.started /\ ~plat.closing
    /\ BeginClosePlatform(plat)
    /\ UNCHANGED <<app, outer, owned, lines, back, callsNow>>

\* With the terminal gone its error is the line's; that of a service is only announced.
Observe(a) ==
    /\ a \in Terminals /\ adapter[a].at = "gone" /\ ~adapter[a].seen /\ plat.closing
    /\ adapter' = [adapter EXCEPT ![a].seen = TRUE]
    /\ plat' = [plat EXCEPT !.fault = @ \/ adapter[a].err]
    /\ UNCHANGED <<app, outer, owned, lines, back, callsNow>>

\* The watcher of the line's context.
WatchPlatform ==
    /\ plat.started /\ Canceled /\ ~plat.closing /\ ~plat.ingress
    /\ BeginClosePlatform(plat)
    /\ UNCHANGED <<app, outer, owned, lines, back, callsNow>>

\* ingressDone: closing, started and every adapter that was started is gone and observed.
IngressJoined ==
    /\ plat.closing /\ plat.started /\ plat.ready /\ ~plat.ingress
    /\ \A a \in AdapterNames : adapter[a].at \in {"new", "gone"} /\ (a \in Terminals => adapter[a].at = "new" \/ adapter[a].seen)
    /\ plat' = [plat EXCEPT !.ingress = TRUE]
    /\ UNCHANGED <<app, outer, owned, lines, adapter, back, callsNow>>

-----------------------------------------------------------------------------
(* The background.                                                         *)
BackgroundOver == Canceled \/ back.closing

\* Start: recover what was interrupted, set up maintenance, start the scheduler, start the
\* listener of Elnis with its monitor, let the deliveries go; each may fail or find itself cancelled.
BackgroundSteps == <<"recover", "setup", "manager", "elnis", "deliveries">>

StartBackground ==
    /\ app.at = "start" /\ Line = "background" /\ ~back.ready /\ back.err = "none"
    /\ back.next <= Len(BackgroundSteps)
    /\ ~back.started => ~Canceled
    /\ LET step == BackgroundSteps[back.next]
           b == [back EXCEPT !.started = TRUE] IN
       \/ /\ ~BackgroundOver
          /\ back' = CASE step = "manager" -> [b EXCEPT !.next = @ + 1, !.workers = "running"]
                       [] step = "elnis" -> [b EXCEPT !.next = @ + 1, !.elnis = "running", !.monitor = "watching"]
                       [] OTHER -> [b EXCEPT !.next = @ + 1]
          /\ UNCHANGED app
       \/ ~BackgroundOver /\ MayFail /\ back' = [b EXCEPT !.err = "failed"] /\ app' = Faulted(app)
       \/ BackgroundOver /\ back' = [b EXCEPT !.err = "canceled"] /\ UNCHANGED app
    /\ UNCHANGED <<outer, owned, lines, adapter, plat, callsNow>>

\* The result of the start: a cancellation that came from a fault of Elnis is that fault.
BackgroundStarted ==
    /\ app.at = "start" /\ back.started /\ ~back.ready
    /\ back.err # "none" \/ back.next > Len(BackgroundSteps)
    /\ LET found == IF back.err = "none" /\ BackgroundOver THEN "canceled" ELSE back.err
           err == IF found = "canceled" /\ back.fault THEN "failed" ELSE found IN
       /\ back' = [back EXCEPT !.ready = TRUE, !.err = err]
       /\ lines' = LineStarted("background")
       /\ app' = IF err = "none" THEN NextLine ELSE LeaveRun(err)
    /\ UNCHANGED <<outer, owned, adapter, plat, callsNow>>

\* The listener fails: it publishes its error, and stops its own workers.
ElnisFails ==
    /\ back.elnis = "running" /\ MayFail
    /\ back' = [back EXCEPT !.elnis = "stopping", !.fault = TRUE]
    /\ app' = Faulted(app)
    /\ UNCHANGED <<outer, owned, lines, adapter, plat, callsNow>>

\* Its runtime watches its context, is closed with the line, and is gone when its callbacks are.
ElnisGone ==
    /\ back.elnis = "stopping" \/ (back.elnis = "running" /\ BackgroundOver)
    /\ ~InCall("elnis")
    /\ back' = [back EXCEPT !.elnis = "gone"]
    /\ UNCHANGED <<app, outer, owned, lines, adapter, plat, callsNow>>

\* The monitor: a fault closes the line and is announced, an end without one is only an end.
Monitor ==
    /\ back.monitor = "watching"
    /\ \/ /\ back.fault
          /\ back' = [back EXCEPT !.monitor = "gone", !.closing = TRUE, !.failed = TRUE]
       \/ /\ ~back.fault /\ back.elnis = "gone"
          /\ back' = [back EXCEPT !.monitor = "gone"]
    /\ UNCHANGED <<app, outer, owned, lines, adapter, plat, callsNow>>

\* Scheduler and deliveries run jobs in the agent until they are stopped.
BackgroundCalls(w) ==
    /\ w = "elnis" => back.elnis = "running"
    /\ w = "cron" => back.workers = "running"
    /\ CallsAgent(w)

WorkersGone ==
    /\ back.workers = "running" /\ back.closing /\ back.ready
    /\ ~InCall("cron")
    /\ back' = [back EXCEPT !.workers = "gone"]
    /\ UNCHANGED <<app, outer, owned, lines, adapter, plat, callsNow>>

\* done: closing, the start is over, and all that was started is gone.
BackgroundDone ==
    /\ back.closing
    /\ back.started => back.ready
    /\ back.elnis \in {"none", "gone"} /\ back.workers \in {"none", "gone"} /\ back.monitor \in {"none", "gone"}

-----------------------------------------------------------------------------
(* Waiting, and the shutdown.                                              *)
\* Wait of the platform: its context is over; a fault of the terminal is read where it is published.
PlatformReturns == Canceled \/ plat.closing
PlatformFault == plat.fault \/ \E a \in Terminals : adapter[a].at = "gone" /\ adapter[a].err

\* Wait of the background: it failed, it is done, or the wait is over.
BackgroundReturns == Canceled \/ back.failed \/ BackgroundDone

\* waitBusinessLines: the first of platform and background to return decides.
RunEnds ==
    /\ app.at = "wait"
    /\ \E fault \in (IF PlatformReturns THEN {PlatformFault} ELSE {}) \cup (IF BackgroundReturns THEN {back.fault} ELSE {}) :
          app' = LeaveRun(IF fault THEN "failed" ELSE IF Canceled THEN "canceled" ELSE "none")
    /\ UNCHANGED <<outer, owned, lines, adapter, plat, back, callsNow>>

Shutting(what) == app.at = "stop" /\ app.next <= Len(ShutdownSteps) /\ ShutdownSteps[app.next].what = what
Victim == ShutdownSteps[app.next].of
NextStep == [app EXCEPT !.next = @ + 1]

\* BeginClose of each line, in the order of beginOrder.
StopLine ==
    /\ Shutting("begin")
    /\ IF Victim = "platform" /\ ~plat.closing THEN BeginClosePlatform(plat) ELSE UNCHANGED <<plat, adapter>>
    /\ back' = IF Victim = "background" THEN [back EXCEPT !.closing = TRUE] ELSE back
    /\ lines' = [lines EXCEPT ![Victim] = "stopping"]
    /\ app' = NextStep
    /\ UNCHANGED <<outer, owned, callsNow>>

AwaitIngress ==
    /\ Shutting("ingress") /\ plat.ingress
    /\ app' = NextStep
    /\ UNCHANGED <<outer, owned, lines, adapter, plat, back, callsNow>>

\* What Close of a line waits for: the platform for its ingress, the agent for its runs, the hooks
\* for the calls they let in, the tools for their loading, the background for all it started.
BackgroundGone == BackgroundDone
PlatformGone == plat.ingress
AgentGone == ~InCall("run")
HooksGone == \A c \in callsNow : c[2] # "hook"
ToolsGone == ~InCall("skills")

LineGone(l) ==
    /\ l = "background" => BackgroundGone
    /\ l = "platform" => PlatformGone
    /\ l = "agent" => AgentGone
    /\ l = "hook" => HooksGone
    /\ l = "tool" => ToolsGone

CloseLine ==
    /\ Shutting("close")
    /\ \/ /\ lines[Victim] = "stopping"
          /\ lines' = [lines EXCEPT ![Victim] = "closing"] /\ UNCHANGED app
       \/ /\ lines[Victim] = "closing" /\ LineGone(Victim)
          /\ lines' = [lines EXCEPT ![Victim] = "done"] /\ app' = NextStep
    /\ UNCHANGED <<outer, owned, adapter, plat, back, callsNow>>

\* Closing a resource may fail, which is logged and not looked at again.
ReleaseResource ==
    /\ Shutting("release")
    /\ owned' = [owned EXCEPT ![Victim] = "closed"]
    /\ app' = NextStep
    /\ UNCHANGED <<outer, lines, adapter, plat, back, callsNow>>

\* The deadline of the whole shutdown: the step that runs is left to itself, and no later one is
\* taken; what still runs ends with the process.
Deadline ==
    /\ app.at = "stop" /\ app.next <= Len(ShutdownSteps)
    /\ app' = [app EXCEPT !.at = "exited", !.err = IF @ = "none" THEN "deadline" ELSE @]
    /\ callsNow' = {}
    /\ UNCHANGED <<outer, owned, lines, adapter, plat, back>>

ExitRun ==
    /\ app.at = "stop" /\ app.next > Len(ShutdownSteps)
    /\ app' = [app EXCEPT !.at = "exited"]
    /\ UNCHANGED <<outer, owned, lines, adapter, plat, back, callsNow>>

-----------------------------------------------------------------------------
\* The steps of main.
MainStep ==
    \/ StartupCanceled \/ PrepareEnvironment \/ OpenResource \/ BuildLine \/ ConnectHooks \/ ConnectPlatform
    \/ StartTool \/ StartAgent \/ StartHook \/ BeginPlatform \/ StartAdapter \/ PlatformStarted \/ StartBackground \/ BackgroundStarted
    \/ RunEnds \/ StopLine \/ AwaitIngress \/ CloseLine \/ ReleaseResource \/ Deadline \/ ExitRun

\* The steps of the goroutines that watch, which wait for nobody.
WatchStep ==
    \/ \E a \in AdapterNames : ObserveExit(a) \/ Observe(a)
    \/ WatchPlatform \/ IngressJoined \/ Monitor

AppNext ==
    \/ CancelRun
    \/ app.at # "exited" /\
       \/ MainStep
       \/ WatchStep
       \/ \E a \in AdapterNames : Receive(a) \/ AdapterEnds(a) \/ TerminalLeaves(a)
       \/ CallGoesOn \/ CallReturns \/ SkillsLoaded
       \/ \E w \in {"elnis", "cron"} : BackgroundCalls(w)
       \/ ElnisFails \/ ElnisGone \/ WorkersGone

AppSpec == AppInit /\ [][AppNext]_appVars

-----------------------------------------------------------------------------
AppTypeOK ==
    /\ app.at \in {"environment", "resources", "wiring", "start", "wait", "stop", "exited"}
    /\ app.err \in {"none", "canceled", "failed", "deadline"} /\ app.faults \in 0 .. AppFaults
    /\ owned \in [DOMAIN owned -> {"none", "open", "closed"}]
    /\ lines \in [Lines -> {"absent", "built", "started", "stopping", "closing", "done"}]
    /\ \A a \in AdapterNames : adapter[a].at \in {"new", "running", "told", "gone"}

\* A shared resource is closed only when every line is gone that was built, and the lock of the
\* configuration after all of them: a shutdown that ran out of time leaves them to the process
\* (internal/app/shutdown.go, shutdown).
ReleasedLast ==
    /\ \A r \in DOMAIN owned : owned[r] = "closed" => \A l \in Lines : lines[l] \in {"absent", "done"}
    /\ owned["lock"] = "closed" => \A r \in DOMAIN owned : owned[r] # "open"

\* No call is in a line that is closed, and none was in the agent before it was started: lines close
\* from those that call to those that are called, the platform last, whose output the others use
\* (internal/app/wiring.go, the orders of the lines; internal/agent/lifecycle.go, Close).
NoCallIntoClosed ==
    /\ \A c \in callsNow : lines[c[2]] \notin {"absent", "built", "done"}
    /\ lines["agent"] \in {"closing", "done"} => \A c \in callsNow : c[1] \in {"run", "skills"}
    /\ \A l \in {"hook", "tool"} : lines[l] \in {"closing", "done"} => \A c \in callsNow : c[1] = "skills"
    /\ lines["platform"] \in {"closing", "done"} => callsNow = {}

\* A run that ends in time leaves nothing behind, however far it came.
CleanExit ==
    app.at = "exited" /\ app.next > Len(ShutdownSteps) =>
        /\ \A r \in DOMAIN owned : owned[r] # "open"
        /\ \A l \in Lines : lines[l] \in {"absent", "done"}
        /\ \A a \in AdapterNames : adapter[a].at \in {"new", "gone"}
        /\ back.elnis \in {"none", "gone"} /\ back.workers \in {"none", "gone"}

\* A fault that ended the run is what Run returns: only when the user asked for the end may it
\* return nothing (internal/app/entry.go, Run; internal/background/lifecycle.go, Start and Wait).
FaultReturned ==
    app.at = "exited" /\ ~outer /\ (\A a \in Terminals : ~adapter[a].left) =>
        app.err \in {"failed"}
=============================================================================
