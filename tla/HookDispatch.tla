---------------------------- MODULE HookDispatch ----------------------------
(***************************************************************************)
(* How hook events reach the rules and what a rule does (internal/hook).   *)
(* First the pipeline and its supervisor (pipeline, control, the Agent     *)
(* bridge, the platform events): calls run through the registered rules    *)
(* while configurations are loaded and exchanged plugin by plugin, running *)
(* hooks are stopped and the whole is closed.  Then one run of a rule      *)
(* (internal/hook/rules): its roles, its actions one after the other on    *)
(* one event, and the one-shot plugin process of an exec action with its   *)
(* hook.v2 conversation, which may fail, answer out of turn, ask the host  *)
(* for things, hang, be canceled or run out of time.  The workers are      *)
(* HookWorker and HookRoutes.  The two share no state and have a next-     *)
(* state relation each.                                                    *)
(***************************************************************************)
EXTENDS Naturals, Sequences, FiniteSets, SequencesExt

(* The pipeline.                                                            *)
CONSTANTS
    HookFiles,      \* the configurations the directory takes one after the other: root, plugins and their rules
    PipeCalls,      \* calls of the Agent and of platform events
    HookOps,        \* management operations
    PipeScripts     \* what happens, a sequence to choose from: per call point, wakeup, facts; per operation its kind and plugin

VARIABLES
    pipeScript,     \* what happens in this behaviour, one of PipeScripts
    modules,        \* what NewModule makes of each of HookFiles
    fileVersion,    \* which of HookFiles is on disk
    handlers,       \* Manager.handlers: per point the registrations <<version, index>>
    workerConfigs,  \* runtime Manager.configs: per worker the version of its definition
    hookOp,         \* per operation: where it is, the version it loaded, what is left to exchange
    pipeCall,       \* per call: its frames (the run and, inside it, the error hooks) and the event
    supervisor,     \* closed, closing, disconnected, runtime closed, done
    platformWork    \* platformSubscriptions: the connection and what its queue holds

pipeVars == <<pipeScript, modules, fileVersion, handlers, workerConfigs, hookOp, pipeCall, supervisor, platformWork>>

Played == pipeScript
CallOf(c) == Played.calls[c]
OpOf(o) == Played.ops[o]
HookPoints == {"message", "connected", "sent", "error"}
NoVersion == 0

-----------------------------------------------------------------------------
(* Loading *)

\* loadConfig: the second rule of a name is renamed name.1.
FinalName(rules, k) ==
    LET before == Cardinality({l \in 1 .. k - 1 : rules[l].name = rules[k].name}) IN
    IF before = 0 THEN rules[k].name ELSE <<rules[k].name[1], before>>

\* The rules of the root, then of the plugins that are enabled and valid, in the order of the file.
RulesOf(file) ==
    LET usable == SelectSeq(file.plugins, LAMBDA p : p.enabled /\ p.valid)
        owned(p) == [k \in DOMAIN p.rules |-> [p.rules[k] EXCEPT !.plugin = p.id]]
        all == file.rules \o FlattenSeq([i \in DOMAIN usable |-> owned(usable[i])]) IN
    [k \in DOMAIN all |-> [all[k] EXCEPT !.name = FinalName(all, k)]]

WorkersOf(file) == {i \in DOMAIN file.plugins : file.plugins[i].enabled /\ file.plugins[i].valid /\ file.plugins[i].worker}

\* The root must parse, its rules be valid, and no worker come twice.
Loads(file) == file.valid /\ \A i, j \in WorkersOf(file) : file.plugins[i].id = file.plugins[j].id => i = j

\* Every version as NewModule and RegisterHooks make it.
NewModule(file) ==
    [loads |-> Loads(file), rules |-> IF Loads(file) THEN RulesOf(file) ELSE <<>>,
     workers |-> IF Loads(file) THEN {file.plugins[i].id : i \in WorkersOf(file)} ELSE {}]
RuleAt(reg) == modules[reg[1]].rules[reg[2]]
PluginsOf(v) == {modules[v].rules[k].plugin : k \in DOMAIN modules[v].rules}

\* Register: by priority, then in the order of registration.
RegisteredAt(v, point) ==
    LET rules == modules[v].rules
        mine == {k \in DOMAIN rules : rules[k].point = point} IN
    [i \in 1 .. Cardinality(mine) |->
        <<v, CHOOSE k \in mine : Cardinality({l \in mine : \/ rules[l].priority < rules[k].priority
                                                           \/ rules[l].priority = rules[k].priority /\ l < k}) = i - 1>>]
FreshHandlers(v) == [p \in HookPoints |-> RegisteredAt(v, p)]

\* The first registration of each plugin in the candidate.
FirstOrder(v, id) == Min({k \in DOMAIN modules[v].rules : modules[v].rules[k].plugin = id})

\* The comparison of ReplacePlugin: priority, the candidate's order of the plugins, the number of the registration.
SortedBefore(v, a, b) ==
    LET p == RuleAt(a).plugin  q == RuleAt(b).plugin  known == PluginsOf(v) IN
    IF RuleAt(a).priority # RuleAt(b).priority THEN RuleAt(a).priority < RuleAt(b).priority
    ELSE IF p # q /\ p \in known /\ q \in known THEN FirstOrder(v, p) < FirstOrder(v, q)
    ELSE IF p # q /\ (p \in known) # (q \in known) THEN p \in known
    ELSE a[2] < b[2]

\* Mutant: the candidate's rules just come where the old ones were.
UnsortedReplacement(v, regs) == regs

\* A stable sort by that comparison.
StablySorted(v, regs) ==
    LET earlier(i, j) == SortedBefore(v, regs[i], regs[j]) \/ (~SortedBefore(v, regs[j], regs[i]) /\ i < j)
        rank(i) == Cardinality({j \in DOMAIN regs : j # i /\ earlier(j, i)}) IN
    [n \in DOMAIN regs |-> regs[CHOOSE i \in DOMAIN regs : rank(i) = n - 1]]

\* ReplacePlugin at one point: the candidate's rules come where the old ones were.
Replaced(v, id, point) ==
    LET old == handlers[point]
        theirs == SelectSeq(RegisteredAt(v, point), LAMBDA r : RuleAt(r).plugin = id)
        kept == SelectSeq(old, LAMBDA r : RuleAt(r).plugin # id)
        at == IF \E i \in DOMAIN old : RuleAt(old[i]).plugin = id
              THEN Cardinality({i \in 1 .. Min({j \in DOMAIN old : RuleAt(old[j]).plugin = id}) - 1 : TRUE})
              ELSE Len(kept) IN
    StablySorted(v, SubSeq(kept, 1, at) \o theirs \o SubSeq(kept, at + 1, Len(kept)))
Commit(v, id) == handlers' = [p \in HookPoints |-> Replaced(v, id, p)]

-----------------------------------------------------------------------------
(* Management: Service under reloadMu *)

IdleOp == [at |-> "new", version |-> NoVersion, plain |-> {}, workers |-> {}, end |-> "none"]
Op(o, changes) == hookOp' = [hookOp EXCEPT ![o] = changes]
ReloadUnlocked == \A o \in HookOps : hookOp[o].at \notin {"plain", "workers"}
KnownPlugins == UNION {{RuleAt(handlers[p][i]).plugin : i \in DOMAIN handlers[p]} : p \in HookPoints}
OpsAdmitted == ~supervisor.closing

\* HookReload: the loader reads the directory; what fails to load changes nothing.
BeginReload(o) ==
    LET v == fileVersion
        runtimeIDs == {w \in DOMAIN workerConfigs : workerConfigs[w] # NoVersion} \cup modules[v].workers IN
    /\ OpOf(o).kind = "reload" /\ hookOp[o].at = "new" /\ ReloadUnlocked
    /\ IF ~OpsAdmitted \/ ~modules[v].loads THEN Op(o, [hookOp[o] EXCEPT !.at = "over", !.end = "failed"])
       ELSE Op(o, [hookOp[o] EXCEPT !.at = "plain", !.version = v, !.plain = (KnownPlugins \cup PluginsOf(v)) \ runtimeIDs,
                                    !.workers = runtimeIDs])
    /\ UNCHANGED <<pipeScript, modules, fileVersion, handlers, workerConfigs, pipeCall, supervisor, platformWork>>

\* Plugins without a worker are exchanged in any order.
ReloadPlain(o) ==
    LET q == hookOp[o] IN
    /\ q.at = "plain"
    /\ IF q.plain = {} THEN Op(o, [q EXCEPT !.at = "workers"]) /\ UNCHANGED handlers
       ELSE \E id \in q.plain : Commit(q.version, id) /\ Op(o, [q EXCEPT !.plain = @ \ {id}])
    /\ UNCHANGED <<pipeScript, modules, fileVersion, workerConfigs, pipeCall, supervisor, platformWork>>

\* Mutant: the rules are published though the old worker could not be stopped.
PublishedWith(stopped) == TRUE

\* ReplacePlugin of the runtime: rules are published with the definition, once the old workers have stopped.
PublishedIf(stopped) == stopped
ReplaceWorker(v, id, stopped) ==
    /\ IF PublishedIf(stopped) THEN Commit(v, id) ELSE UNCHANGED handlers
    /\ workerConfigs' = IF stopped THEN [workerConfigs EXCEPT ![id] = IF id \in modules[v].workers THEN v ELSE NoVersion] ELSE workerConfigs

\* Runtime Apply: the workers one by one in the order of their names; the first failure ends it.
ReloadWorkers(o) ==
    LET q == hookOp[o] IN
    /\ q.at = "workers"
    /\ \/ q.workers = {} /\ Op(o, [q EXCEPT !.at = "over", !.end = "ok"]) /\ UNCHANGED <<handlers, workerConfigs>>
       \/ /\ q.workers # {}
          /\ LET id == CHOOSE w \in q.workers : \A x \in q.workers : Played.rank[w] <= Played.rank[x] IN
             \E stopped \in {TRUE} \cup {~Played.faults} :
                /\ ReplaceWorker(q.version, id, stopped)
                /\ Op(o, IF stopped THEN [q EXCEPT !.workers = @ \ {id}] ELSE [q EXCEPT !.at = "over", !.end = "failed"])
    /\ UNCHANGED <<pipeScript, modules, fileVersion, pipeCall, supervisor, platformWork>>

\* PreparePluginReload: the candidate is read and must still have this worker, which must be configured.
PrepareSelf(o) ==
    LET id == OpOf(o).plugin IN
    /\ OpOf(o).kind = "self" /\ hookOp[o].at = "new" /\ ReloadUnlocked
    /\ IF modules[fileVersion].loads /\ id \in modules[fileVersion].workers /\ workerConfigs[id] # NoVersion
       THEN Op(o, [hookOp[o] EXCEPT !.at = "prepared", !.version = fileVersion])
       ELSE Op(o, [hookOp[o] EXCEPT !.at = "over", !.end = "failed"])
    /\ UNCHANGED <<pipeScript, modules, fileVersion, handlers, workerConfigs, pipeCall, supervisor, platformWork>>

\* Its commit: the definition is checked again, then only this plugin is replaced.
CommitSelf(o) ==
    LET id == OpOf(o).plugin  q == hookOp[o] IN
    /\ q.at = "prepared" /\ ReloadUnlocked
    /\ \E stopped \in {TRUE} \cup {~Played.faults} :
          IF workerConfigs[id] = NoVersion \/ supervisor.runtimeClosed
          THEN Op(o, [q EXCEPT !.at = "over", !.end = "failed"]) /\ UNCHANGED <<handlers, workerConfigs>>
          ELSE /\ ReplaceWorker(q.version, id, stopped)
               /\ Op(o, [q EXCEPT !.at = "over", !.end = IF stopped THEN "ok" ELSE "failed"])
    /\ UNCHANGED <<pipeScript, modules, fileVersion, pipeCall, supervisor, platformWork>>

EditFiles ==
    /\ fileVersion < Played.edits /\ fileVersion' = fileVersion + 1
    /\ UNCHANGED <<pipeScript, modules, handlers, workerConfigs, hookOp, pipeCall, supervisor, platformWork>>

-----------------------------------------------------------------------------
(* Calls *)

NewPipeCall == [at |-> "new", frames |-> <<>>, text |-> <<>>, stop |-> FALSE, cur |-> <<0, 0>>, observed |-> FALSE,
            canceled |-> FALSE, halted |-> FALSE, ran |-> <<>>, failed |-> 0, told |-> 0, end |-> "none"]
Call(c, changes) == pipeCall' = [pipeCall EXCEPT ![c] = changes]
InFlight(c) == pipeCall[c].at \in {"route", "loop", "invoke"}
ContextDead(c) == pipeCall[c].canceled \/ supervisor.closing
Frame(mode, point) == [mode |-> mode, point |-> point, regs |-> handlers[point], i |-> 1]
TopOf(q) == q.frames[Len(q.frames)]
CallPart == <<pipeScript, modules, fileVersion, handlers, workerConfigs, hookOp, supervisor, platformWork>>

\* fillEventFromContext: where the event comes from and who acts; a connection names its platform itself.
EventFacts(c) == CallOf(c).facts

\* BlockPolicy.Blocks: the platform, the group, or the user on its own platform.
Blocks(block, f) ==
    \/ f.platform \in block.platforms
    \/ f.chatType = "group" /\ <<f.platform, f.chat>> \in block.groups
    \/ <<f.actorPlatform, f.actor>> \in block.users

\* skipForWakeup.
SkipForWakeup(woken, wakeup) == (wakeup = "required" /\ ~woken) \/ (wakeup = "forbidden" /\ woken)

\* Match.MatchEvent: every condition, against the event as the rules before left it.
MatchEvent(rule, text) == rule.needs = "always" \/ \E i \in DOMAIN text : text[i] = rule.needs

Eligible(c, reg) ==
    LET rule == RuleAt(reg) IN
    /\ ~Blocks(rule.block, EventFacts(c)) /\ ~SkipForWakeup(CallOf(c).woken, rule.wakeup)
    /\ MatchEvent(rule, pipeCall[c].text)

\* Mutant: after BeginClose nothing is admitted.
AdmitsUntilBeginClose == ~supervisor.closed

\* beginCall.
AdmitsCalls == ~supervisor.closing

\* Supervisor.run and notify; a message first goes to the runtime that may hold its route.
BeginPipeCall(c) ==
    /\ pipeCall[c].at = "new" /\ CallOf(c).point # "none"
    /\ IF CallOf(c).point = "connected" THEN platformWork.running = c ELSE supervisor.connected # "no"
    /\ Call(c, IF ~AdmitsCalls THEN [pipeCall[c] EXCEPT !.at = "over", !.end = "refused"]
               ELSE IF CallOf(c).point = "message" THEN [pipeCall[c] EXCEPT !.at = "route"]
               ELSE [pipeCall[c] EXCEPT !.at = "loop",
                        !.frames = <<Frame(IF CallOf(c).point = "connected" THEN "run" ELSE "notify", CallOf(c).point)>>])
    /\ UNCHANGED CallPart

CallOver(q, end) == [q EXCEPT !.at = "over", !.end = end, !.frames = <<>>]

\* Manager.Run: the continuation; its failure is told to the error hooks and leaves the event as it was.
RouteMessage(c) ==
    LET q == pipeCall[c] IN
    /\ q.at = "route"
    /\ \E outcome \in {"none"} \cup Played.routes :
          Call(c, CASE outcome = "none" -> [q EXCEPT !.at = "loop", !.frames = <<Frame("run", "message")>>]
                    [] outcome = "continued" -> [q EXCEPT !.at = "loop", !.text = Append(@, "route"), !.frames = <<Frame("run", "message")>>]
                    [] outcome = "taken" -> CallOver([q EXCEPT !.text = Append(@, "route"), !.stop = TRUE], "ok")
                    [] outcome = "failed" ->
                          IF ContextDead(c) THEN CallOver(q, "canceled")
                          ELSE [q EXCEPT !.at = "loop", !.failed = @ + 1, !.told = @ + 1,
                                         !.frames = <<[Frame("route", "message") EXCEPT !.regs = <<>>], Frame("notify", "error")>>])
    /\ UNCHANGED CallPart

\* A frame that is through: the run returns, the error hooks give back to what they interrupted, and after a
\* continuation the ordinary rules follow.
FrameEnds(q) ==
    IF Len(q.frames) > 1 THEN [q EXCEPT !.at = "loop", !.frames = Front(@)]
    ELSE IF TopOf(q).mode = "route" THEN [q EXCEPT !.frames = <<Frame("run", "message")>>]
    ELSE CallOver(q, "ok")

\* The next rule that is neither blocked nor skipped and matches: invoke registers it as active.
EnterHandler(c) ==
    LET q == pipeCall[c]
        frame == TopOf(q)
        next == {i \in frame.i .. Len(frame.regs) : Eligible(c, frame.regs[i])} IN
    /\ q.at = "loop"
    /\ Call(c, IF next = {} THEN FrameEnds(q)
               ELSE [q EXCEPT !.at = "invoke", !.cur = frame.regs[Min(next)], !.frames[Len(q.frames)].i = Min(next) + 1,
                              !.observed = CallOf(c).observed, !.halted = FALSE])
    /\ UNCHANGED CallPart

\* Mutant: what a failed hook did to the event stays.
AfterFailureKept(q, cur) == [q EXCEPT !.text = Append(@, RuleAt(cur).tag)]

\* A failed hook's event is dropped.
AfterFailure(q, cur) == q

\* Mutant: a failing error hook is told to the error hooks.
TellsErrorsAlways(frame) == TRUE

\* notifyError: not for the error hooks themselves.
TellsErrors(frame) == frame.point # "error"

Left(q, result) == [q EXCEPT !.at = "loop", !.cur = <<0, 0>>, !.observed = FALSE, !.halted = FALSE, !.ran = Append(@, <<q.cur, result>>)]

\* run and notify after the handler: only a run takes the event over; a stop ends this pass over the rules.
HandlerSucceeds(c) ==
    LET q == pipeCall[c]
        rule == RuleAt(q.cur)
        run == TopOf(q).mode = "run"
        r == [Left(q, "ok") EXCEPT !.text = IF run THEN Append(@, rule.tag) ELSE @, !.stop = run /\ rule.does = "stop"] IN
    /\ q.at = "invoke" /\ rule.does \in {"edit", "stop"}
    /\ Call(c, IF rule.does = "stop" THEN FrameEnds(r) ELSE r)
    /\ UNCHANGED CallPart

\* The handler, or the request it should run under, fails; a call whose own context has ended returns.
HandlerFails(c) ==
    LET q == pipeCall[c]  frame == TopOf(q)  r == AfterFailure(Left(q, "failed"), q.cur) IN
    /\ q.at = "invoke"
    /\ RuleAt(q.cur).does = "fail" \/ q.halted \/ ContextDead(c) \/ (q.observed /\ Played.faults)
    /\ Call(c, IF ContextDead(c) THEN IF Len(q.frames) = 1 THEN CallOver(r, "canceled") ELSE FrameEnds(r)
               ELSE IF TellsErrors(frame)
                    THEN [r EXCEPT !.frames = Append(@, Frame("notify", "error")), !.failed = @ + 1, !.told = @ + 1]
               ELSE r)
    /\ UNCHANGED CallPart

CancelCall(c) ==
    /\ InFlight(c) /\ CallOf(c).cancels /\ ~pipeCall[c].canceled
    /\ Call(c, [pipeCall[c] EXCEPT !.canceled = TRUE])
    /\ UNCHANGED CallPart

\* Manager.Stop: active hooks by rule name or plugin.
StopsHook(id, reg) == RuleAt(reg).name[1] = id \/ RuleAt(reg).plugin = id

\* StopHook: the contexts of the hooks, not of their calls, and the worker of that name.
StopHook(o) ==
    LET id == OpOf(o).plugin IN
    /\ OpOf(o).kind = "stop" /\ hookOp[o].at = "new" /\ ReloadUnlocked /\ OpsAdmitted
    /\ pipeCall' = [c \in PipeCalls |-> IF pipeCall[c].at = "invoke" /\ StopsHook(id, pipeCall[c].cur)
                                        THEN [pipeCall[c] EXCEPT !.halted = TRUE] ELSE pipeCall[c]]
    /\ Op(o, [hookOp[o] EXCEPT !.at = "over",
                 !.end = IF \E p \in HookPoints : \E i \in DOMAIN handlers[p] : StopsHook(id, handlers[p][i]) THEN "ok" ELSE "failed"])
    /\ UNCHANGED <<pipeScript, modules, fileVersion, handlers, workerConfigs, supervisor, platformWork>>

-----------------------------------------------------------------------------
(* The supervisor *)

\* ConnectAgent: once, and not after BeginClose.
ConnectAgent ==
    /\ supervisor.connected = "no" /\ ~supervisor.closed
    /\ supervisor' = [supervisor EXCEPT !.connected = "yes"]
    /\ UNCHANGED <<pipeScript, modules, fileVersion, handlers, workerConfigs, hookOp, pipeCall, platformWork>>

\* startPlatformEvents, from Start after the first load.
StartPlatformEvents ==
    /\ platformWork.state = "none" /\ ~supervisor.closed
    /\ \A o \in HookOps : OpOf(o).kind = "reload" => hookOp[o].at = "over"
    /\ platformWork' = [platformWork EXCEPT !.state = "open"]
    /\ UNCHANGED <<pipeScript, modules, fileVersion, handlers, workerConfigs, hookOp, pipeCall, supervisor>>

\* Mutant: an emission that outlives the connection is still queued.
TakesConnectionsAlways == platformWork.state # "none"

\* enqueuePlatformConnected: admission under the lock of the shutdown.
TakesConnections == platformWork.state = "open"
PlatformConnects(c) ==
    /\ CallOf(c).point = "connected" /\ pipeCall[c].at = "new" /\ c \notin platformWork.seen /\ platformWork.state # "none"
    /\ platformWork' = [platformWork EXCEPT !.seen = @ \cup {c}, !.queue = IF TakesConnections THEN Append(@, c) ELSE @]
    /\ UNCHANGED <<pipeScript, modules, fileVersion, handlers, workerConfigs, hookOp, pipeCall, supervisor>>

\* The queue of the platform: one callback at a time; closing cancels what has not begun.
RunConnected ==
    /\ platformWork.queue # <<>> /\ platformWork.running = "none"
    /\ platformWork' = [platformWork EXCEPT !.running = Head(platformWork.queue), !.queue = Tail(@)]
    /\ UNCHANGED <<pipeScript, modules, fileVersion, handlers, workerConfigs, hookOp, pipeCall, supervisor>>
ConnectedEnds ==
    /\ platformWork.running # "none" /\ pipeCall[platformWork.running].at = "over"
    /\ platformWork' = [platformWork EXCEPT !.running = "none"]
    /\ UNCHANGED <<pipeScript, modules, fileVersion, handlers, workerConfigs, hookOp, pipeCall, supervisor>>

\* BeginClose: no connections, no platform work; the Agent's calls go on.
BeginCloseHooks ==
    /\ Played.closes /\ ~supervisor.closed
    /\ supervisor' = [supervisor EXCEPT !.closed = TRUE]
    /\ platformWork' = [platformWork EXCEPT !.state = "closed", !.queue = <<>>]
    /\ UNCHANGED <<pipeScript, modules, fileVersion, handlers, workerConfigs, hookOp, pipeCall>>

\* Close: admitted contexts are canceled, the Agent is disconnected.
CloseHooks ==
    /\ supervisor.closed /\ ~supervisor.closing
    /\ supervisor' = [supervisor EXCEPT !.closing = TRUE, !.connected = IF @ = "yes" THEN "gone" ELSE @]
    /\ UNCHANGED <<pipeScript, modules, fileVersion, handlers, workerConfigs, hookOp, pipeCall, platformWork>>

\* What Close waits for before the runtime is closed.
Quiet ==
    /\ \A c \in PipeCalls : ~InFlight(c)
    /\ \A o \in HookOps : OpOf(o).kind = "reload" => hookOp[o].at \in {"new", "over"}
    /\ platformWork.queue = <<>> /\ platformWork.running = "none"
CloseRuntime ==
    /\ supervisor.closing /\ ~supervisor.runtimeClosed /\ Quiet
    /\ supervisor' = [supervisor EXCEPT !.runtimeClosed = TRUE]
    /\ UNCHANGED <<pipeScript, modules, fileVersion, handlers, workerConfigs, hookOp, pipeCall, platformWork>>

-----------------------------------------------------------------------------
PipeInit ==
    /\ \E k \in DOMAIN PipeScripts : pipeScript = PipeScripts[k]
    /\ modules = [v \in DOMAIN HookFiles |-> NewModule(HookFiles[v])]
    /\ fileVersion = 1
    /\ handlers = [p \in HookPoints |-> <<>>]
    /\ workerConfigs = [w \in Played.plugins |-> NoVersion]
    /\ hookOp = [o \in HookOps |-> IdleOp]
    /\ pipeCall = [c \in PipeCalls |-> NewPipeCall]
    /\ supervisor = [connected |-> "no", closed |-> FALSE, closing |-> FALSE, runtimeClosed |-> FALSE]
    /\ platformWork = [state |-> "none", queue |-> <<>>, running |-> "none", seen |-> {}]

OpStep(o) == BeginReload(o) \/ ReloadPlain(o) \/ ReloadWorkers(o) \/ PrepareSelf(o) \/ CommitSelf(o) \/ StopHook(o)
PipeCallStep(c) == BeginPipeCall(c) \/ RouteMessage(c) \/ EnterHandler(c) \/ HandlerSucceeds(c) \/ HandlerFails(c)
PlatformStep == RunConnected \/ ConnectedEnds

PipeNext ==
    \/ \E o \in HookOps : OpStep(o)
    \/ \E c \in PipeCalls : PipeCallStep(c) \/ CancelCall(c) \/ PlatformConnects(c)
    \/ PlatformStep \/ EditFiles \/ ConnectAgent \/ StartPlatformEvents \/ BeginCloseHooks \/ CloseHooks \/ CloseRuntime

-----------------------------------------------------------------------------
(* Properties *)

\* Registrations name loaded rules; at most the error hooks run inside a call.
PipeTypeOK ==
    /\ fileVersion \in DOMAIN HookFiles
    /\ \A p \in HookPoints : \A i \in DOMAIN handlers[p] : handlers[p][i][2] \in DOMAIN modules[handlers[p][i][1]].rules
    /\ \A c \in PipeCalls : pipeCall[c].at \in {"new", "route", "loop", "invoke", "over"}
                            /\ pipeCall[c].end \in {"none", "ok", "canceled", "refused"}
    /\ \A w \in DOMAIN workerConfigs : workerConfigs[w] \in 0 .. Len(HookFiles)

\* A rule of the same priority runs where its file has it (ReplacePlugin): a reload that went through, if no worker
\* put back what it had prepared earlier, leaves the rules exactly as a program started with these files would have them, whatever
\* the order in which the plugins were exchanged and whatever was there before.
ReloadedAsFresh ==
    \A o \in HookOps :
        hookOp[o].end = "ok" /\ OpOf(o).kind = "reload"
        /\ (\A x \in HookOps \ {o} : IF OpOf(x).kind = "self" THEN hookOp[x].end # "ok" ELSE hookOp[x].version < hookOp[o].version)
        => handlers = FreshHandlers(hookOp[o].version)

\* A plugin's rules are of one load at every point (ReplacePlugin under the lock), and those of a worker belong to
\* the definition the runtime has: rules are never published ahead of a worker that could not be exchanged.
PluginsWhole ==
    \A id \in KnownPlugins :
        LET regs == UNION {{handlers[p][i] : i \in {j \in DOMAIN handlers[p] : RuleAt(handlers[p][j]).plugin = id}} : p \in HookPoints}
            versions == {r[1] : r \in regs} IN
        /\ Cardinality(versions) = 1
        /\ regs = {r \in versions \X (1 .. 9) : r[2] \in DOMAIN modules[r[1]].rules /\ modules[r[1]].rules[r[2]].plugin = id}
        /\ id \in DOMAIN workerConfigs /\ workerConfigs[id] # NoVersion => versions = {workerConfigs[id]}

\* The rules a call went through never go back in priority, and what the event carries is what the successful ones
\* of the run did, in that order (run): a failed or stopped hook leaves nothing behind, and nothing runs after a stop.
EventOfSuccesses ==
    \A c \in PipeCalls :
        LET q == pipeCall[c]
            runs == SelectSeq(q.ran, LAMBDA r : RuleAt(r[1]).point # "error")
            done == SelectSeq(runs, LAMBDA r : r[2] = "ok") IN
        /\ \A i, j \in DOMAIN runs : i < j => RuleAt(runs[i][1]).priority <= RuleAt(runs[j][1]).priority
        /\ \A i \in DOMAIN runs : RuleAt(runs[i][1]).does = "stop" /\ runs[i][2] = "ok" => i = Len(runs)
        /\ CallOf(c).point \in {"message", "connected"} =>
              LET own == SelectSeq(q.text, LAMBDA t : t # "route") IN
              own = [i \in DOMAIN done |-> RuleAt(done[i][1]).tag]

\* A failure is told to the error hooks once and theirs to nobody (notifyError): there is never a third frame.
ErrorsEnd == \A c \in PipeCalls : Len(pipeCall[c].frames) <= 2 /\ pipeCall[c].told = pipeCall[c].failed

\* The runtime is closed last (Supervisor.Close): no call runs a rule and no platform callback or exchange of
\* rules is under way once it is, and none begins.
ClosedLast == supervisor.runtimeClosed => Quiet

\* Calls the Agent makes while the program shuts down are still served until Close itself (BeginClose).
ServedUntilClose == \A c \in PipeCalls : pipeCall[c].end = "refused" => supervisor.closing

\* Close comes to its end though hooks of canceled calls hang until they are told (Supervisor.Close, invoke).
HooksClose == supervisor.closing ~> supervisor.runtimeClosed

-----------------------------------------------------------------------------
(* One run of a rule.                                                       *)
CONSTANT RuleCases     \* rules with the event they are given, a sequence to choose from

VARIABLES
    ruleCase,      \* the rule and what it is given, one of RuleCases
    ruleRun,       \* runRule: where it is, which action, what the exec action reported, how it ended
    ruleEvent,     \* the event as the actions leave it
    pluginProc,    \* the process of the exec action
    protocolIn,    \* frames on its stdout that the host has not read
    protocolOut,   \* frames the host wrote and the plugin has not read
    ruleCtx,       \* the call's context and the timeout of the action
    ruleSent       \* what output.send and tools did meanwhile

ruleVars == <<ruleCase, ruleRun, ruleEvent, pluginProc, protocolIn, protocolOut, ruleCtx, ruleSent>>

Given == ruleCase
NowAction == Given.actions[ruleRun.n]
NoProc == [state |-> "none", code |-> 0, next |-> 1, reaped |-> FALSE, told |-> FALSE]

Fields == {"message.text", "llm.latest_user_text", "llm.text", "tool.arguments", "tool.result"}
RulePoints == {"platform.message.received", "llm.request.prepared", "llm.response.received", "tool.call.prepared",
               "tool.call.completed", "agent.output.prepared", "error.occurred"}

\* validateRule with normalize and validateExecAction: a known point, conditions, and actions unless a worker answers.
ValidRule(r) ==
    /\ r.point \in RulePoints /\ r.conditions # "none"
    /\ r.worker <=> r.actions = <<>>
    /\ \A i \in DOMAIN r.actions : r.actions[i].type = "exec" => r.actions[i].command

\* matchRoles: each list that is given must have the actor's role; roles may also have the role in the group.
MatchRoles(r) ==
    /\ r.roles = {} \/ {r.role, r.groupRole} \cap r.roles # {}
    /\ r.actorRoles = {} \/ r.role \in r.actorRoles
    /\ r.groupRoles = {} \/ r.groupRole \in r.groupRoles

\* allowField: what may be edited at which point.
AllowField(point, field) ==
    CASE point = "platform.message.received" -> field = "message.text"
      [] point = "llm.request.prepared" -> field = "llm.latest_user_text"
      [] point = "llm.response.received" -> field = "llm.text"
      [] point = "tool.call.prepared" -> field = "tool.arguments"
      [] point = "tool.call.completed" -> field = "tool.result"
      [] point = "agent.output.prepared" -> field = "message.text"
      [] OTHER -> FALSE

\* The fields are views: the message's segments also are the last user text and the tool's result.
Holds(field) == CASE field \in {"message.text", "llm.latest_user_text", "tool.result"} -> "segments"
                  [] field = "llm.text" -> "text"
                  [] field = "tool.arguments" -> "arguments"

StartEvent == [segments |-> <<>>, text |-> <<>>, arguments |-> <<>>, calls |-> Given.calls, outputs |-> <<>>,
               consume |-> Given.control.consume, stop |-> Given.control.stop]

RuleInit ==
    /\ \E k \in DOMAIN RuleCases : ruleCase = RuleCases[k]
    /\ ruleRun = [at |-> "new", n |-> 1, matched |-> TRUE, pass |-> "none", end |-> "none", asked |-> 0, refused |-> 0]
    /\ ruleEvent = StartEvent
    /\ pluginProc = NoProc /\ protocolIn = <<>> /\ protocolOut = <<>>
    /\ ruleCtx = [canceled |-> FALSE, expired |-> FALSE] /\ ruleSent = <<>>

Run(changes) == ruleRun' = changes
ContextEnded == ruleCtx.canceled \/ ruleCtx.expired
ProcVars == <<pluginProc, protocolIn, protocolOut>>

-----------------------------------------------------------------------------
(* The rule *)

\* runRule up to its first action; a worker's rule is handed to the runtime, whose event comes back.
BeginRule ==
    /\ ruleRun.at = "new"
    /\ IF ~ValidRule(Given) THEN Run([ruleRun EXCEPT !.at = "over", !.end = "rejected"]) /\ UNCHANGED ruleEvent
       ELSE IF ~MatchRoles(Given) THEN Run([ruleRun EXCEPT !.at = "over", !.end = "ok"]) /\ UNCHANGED ruleEvent
       ELSE IF Given.worker
            THEN \/ /\ Run([ruleRun EXCEPT !.at = "over", !.end = "ok"])
                    /\ ruleEvent' = [ruleEvent EXCEPT !.segments = Append(@, "worker"), !.consume = Given.consume, !.stop = Given.stop]
                 \/ Run([ruleRun EXCEPT !.at = "over", !.end = "failed"]) /\ UNCHANGED ruleEvent
       ELSE Run([ruleRun EXCEPT !.at = "action"]) /\ UNCHANGED ruleEvent
    /\ UNCHANGED <<ruleCase, ProcVars, ruleCtx, ruleSent>>

\* Mutant: only the set of calls is compared.
CallsKeptOnly(before, after) == before.calls = after.calls

\* validateCalls.
CallsKept(before, after) == before.calls = after.calls /\ before.arguments = after.arguments

\* Mutant: an action that does not match leaves what the actions before did.
UnmatchedKeeps(event) == event

\* What a rule that turns out not to match returns.
Unmatched(event) == StartEvent

\* Mutant: the rule's own control is added to what the plugin lets through.
ControlAdds(event, pass) ==
    [event EXCEPT !.consume = @ \/ Given.consume \/ pass = "no", !.stop = @ \/ Given.stop \/ pass = "no"]

\* The end of runRule: pass_through decides, otherwise the rule's own control is added.
ControlOf(event, pass) ==
    CASE pass = "yes" -> [event EXCEPT !.consume = StartEvent.consume, !.stop = StartEvent.stop]
      [] pass = "no" -> [event EXCEPT !.consume = TRUE, !.stop = TRUE]
      [] OTHER -> [event EXCEPT !.consume = @ \/ Given.consume, !.stop = @ \/ Given.stop]

\* After an action: the calls are checked, a mismatch takes everything back, the last action ends the rule.
ActionEnds(event, ok, matched, pass) ==
    LET kept == Given.readOnly => CallsKept(StartEvent, event)
        through == IF pass = "none" THEN ruleRun.pass ELSE pass IN
    IF ~ok \/ ~kept THEN Run([ruleRun EXCEPT !.at = "over", !.end = "failed"]) /\ ruleEvent' = event
    ELSE IF ~matched THEN Run([ruleRun EXCEPT !.at = "over", !.end = "ok", !.matched = FALSE]) /\ ruleEvent' = Unmatched(event)
    ELSE IF ruleRun.n < Len(Given.actions)
         THEN Run([ruleRun EXCEPT !.at = "action", !.n = @ + 1, !.pass = through]) /\ ruleEvent' = event
    ELSE Run([ruleRun EXCEPT !.at = "over", !.end = "ok", !.pass = through]) /\ ruleEvent' = ControlOf(event, through)

\* applyTextAction: prepend, append, replace, delete; the field must be allowed and the pattern compile.
TextAction ==
    LET a == NowAction  part == Holds(a.field) IN
    /\ ruleRun.at = "action" /\ a.type = "text"
    /\ ActionEnds([ruleEvent EXCEPT ![part] = IF AllowField(Given.point, a.field) THEN Append(@, a.tag) ELSE @],
                  AllowField(Given.point, a.field) /\ a.compiles, TRUE, "none")
    /\ UNCHANGED <<ruleCase, ProcVars, ruleCtx, ruleSent>>

\* makeOutputs.
SendAction ==
    /\ ruleRun.at = "action" /\ NowAction.type = "send"
    /\ ActionEnds([ruleEvent EXCEPT !.outputs = Append(@, NowAction.tag)], NowAction.compiles, TRUE, "none")
    /\ UNCHANGED <<ruleCase, ProcVars, ruleCtx, ruleSent>>

\* callTool: the tool may have done its work before it fails.
ToolAction ==
    /\ ruleRun.at = "action" /\ NowAction.type = "tool"
    /\ \E ok \in {TRUE, NowAction.compiles}, did \in BOOLEAN :
          /\ ok => did
          /\ ruleSent' = IF did THEN Append(ruleSent, NowAction.tag) ELSE ruleSent
          /\ ActionEnds(ruleEvent, ok, TRUE, "none")
    /\ UNCHANGED <<ruleCase, ProcVars, ruleCtx>>

-----------------------------------------------------------------------------
(* The exec action: runExec *)

ProcUp == pluginProc.state = "up"
Dead == pluginProc.state \in {"exited", "killed"}

\* Cmd.Start, which may fail, and the first request.
StartExec ==
    /\ ruleRun.at = "action" /\ NowAction.type = "exec"
    /\ \/ /\ ~ruleCtx.canceled /\ ruleCtx' = [ruleCtx EXCEPT !.expired = FALSE]
          /\ pluginProc' = [NoProc EXCEPT !.state = "up"] /\ protocolOut' = <<"init">> /\ protocolIn' = <<>>
          /\ Run([ruleRun EXCEPT !.at = "init"]) /\ UNCHANGED ruleEvent
       \/ /\ ruleCtx.canceled \/ NowAction.tag = "missing"
          /\ ActionEnds(ruleEvent, FALSE, TRUE, "none") /\ UNCHANGED <<ProcVars, ruleCtx>>
    /\ UNCHANGED <<ruleCase, ruleSent>>

\* Mutant: the plugin is left to itself when the conversation fails.
FailLeaves(proc) == proc

\* fail: the process tree is killed and awaited.
FailKills(proc) == [proc EXCEPT !.state = IF @ = "up" THEN "killed" ELSE @, !.reaped = TRUE]
ExecFails ==
    /\ pluginProc' = FailKills(pluginProc)
    /\ ActionEnds(ruleEvent, FALSE, TRUE, "none")

\* The plugin: reads what the host writes, writes frames, asks, hangs or exits.
PluginStep ==
    LET does == NowAction.plugin[pluginProc.next]
        step == [pluginProc EXCEPT !.next = @ + 1] IN
    /\ ProcUp /\ pluginProc.next <= Len(NowAction.plugin)
    /\ CASE does.kind = "read" -> protocolOut # <<>> /\ protocolOut' = Tail(protocolOut) /\ pluginProc' = step /\ UNCHANGED protocolIn
         [] does.kind = "exit" -> pluginProc' = [step EXCEPT !.state = "exited", !.code = does.code] /\ UNCHANGED <<protocolIn, protocolOut>>
         [] does.kind = "hang" -> FALSE
         [] OTHER -> protocolIn' = Append(protocolIn, does) /\ pluginProc' = step /\ UNCHANGED protocolOut
    /\ UNCHANGED <<ruleCase, ruleRun, ruleEvent, ruleCtx, ruleSent>>

\* The context's cancellation reaches the process through Cmd.Cancel; one that is gone is not killed.
CancelExec ==
    /\ ContextEnded /\ ProcUp
    /\ pluginProc' = [pluginProc EXCEPT !.state = "killed", !.told = TRUE]
    /\ UNCHANGED <<ruleCase, ruleRun, ruleEvent, protocolIn, protocolOut, ruleCtx, ruleSent>>
CancelRule ==
    /\ Given.cancels /\ ~ruleCtx.canceled /\ ruleRun.at # "over" /\ ruleCtx' = [ruleCtx EXCEPT !.canceled = TRUE]
    /\ UNCHANGED <<ruleCase, ruleRun, ruleEvent, ProcVars, ruleSent>>
ExpireExec ==
    /\ ruleRun.at \in {"init", "event", "wait"} /\ NowAction.timeout /\ ~ruleCtx.expired
    /\ ruleCtx' = [ruleCtx EXCEPT !.expired = TRUE]
    /\ UNCHANGED <<ruleCase, ruleRun, ruleEvent, ProcVars, ruleSent>>

Awaited == IF ruleRun.at = "init" THEN "host:init" ELSE "host:event"

\* readV2Response: only the response that is awaited, and only a good one.
AnswersRequest(frame) == frame.id = Awaited /\ frame.ok

\* v2EventResult: outputs, the text if its field is allowed, and what the plugin decides.
PluginResult(frame) ==
    LET field == IF NowAction.field = "" THEN "message.text" ELSE NowAction.field
        allowed == frame.text # "" => AllowField(Given.point, field) IN
    [ok |-> allowed,
     event |-> LET e == [ruleEvent EXCEPT !.outputs = IF frame.output = "" THEN @ ELSE Append(@, frame.output),
                                          !.consume = @ \/ frame.consume, !.stop = @ \/ frame.stop] IN
               IF frame.text = "" \/ ~allowed THEN e ELSE [e EXCEPT ![Holds(field)] = <<frame.text>>]]

\* A frame: log events pass, requests are answered and their failure ends the run, the response is taken.
ReadPluginFrame ==
    LET frame == Head(protocolIn) IN
    /\ ruleRun.at \in {"init", "event"} /\ protocolIn # <<>>
    /\ protocolIn' = Tail(protocolIn)
    /\ CASE frame.kind = "event" -> UNCHANGED <<ruleRun, ruleEvent, pluginProc, protocolOut, ruleSent>>
         [] frame.kind = "bad" -> ExecFails /\ UNCHANGED <<protocolOut, ruleSent>>
         [] frame.kind = "request" ->
               /\ ruleSent' = IF frame.ok /\ frame.sends THEN Append(ruleSent, "sent") ELSE ruleSent
               /\ IF ~frame.ok \/ Dead
                  THEN /\ pluginProc' = FailKills(pluginProc) /\ UNCHANGED protocolOut
                       /\ Run([ruleRun EXCEPT !.at = "over", !.end = "failed", !.refused = @ + 1]) /\ UNCHANGED ruleEvent
                  ELSE protocolOut' = Append(protocolOut, "answer") /\ Run([ruleRun EXCEPT !.asked = @ + 1]) /\ UNCHANGED <<ruleEvent, pluginProc>>
         [] frame.kind = "response" ->
               /\ UNCHANGED ruleSent
               /\ IF ~AnswersRequest(frame) THEN ExecFails /\ UNCHANGED protocolOut
                  ELSE IF ruleRun.at = "init"
                       THEN IF Dead THEN ExecFails /\ UNCHANGED protocolOut
                            ELSE Run([ruleRun EXCEPT !.at = "event"]) /\ protocolOut' = Append(protocolOut, "event") /\ UNCHANGED <<ruleEvent, pluginProc>>
                  ELSE LET got == PluginResult(frame) IN
                       IF ~got.ok THEN ExecFails /\ UNCHANGED protocolOut
                       ELSE /\ Run([ruleRun EXCEPT !.at = "wait", !.matched = frame.matched, !.pass = IF frame.pass = "none" THEN @ ELSE frame.pass])
                            /\ ruleEvent' = got.event /\ UNCHANGED <<pluginProc, protocolOut>>
    /\ UNCHANGED <<ruleCase, ruleCtx>>

\* The end of stdout while a response is awaited.
ReadEOF ==
    /\ ruleRun.at \in {"init", "event"} /\ protocolIn = <<>> /\ Dead
    /\ ExecFails
    /\ UNCHANGED <<ruleCase, protocolIn, protocolOut, ruleCtx, ruleSent>>

\* Mutant: the result counts as soon as it is there.
ExitGoodAlways(proc) == TRUE

\* Cmd.Wait: the exit code, or that the process was killed.
ExitGood(proc) == proc.state = "exited" /\ proc.code = 0
WaitExec ==
    /\ ruleRun.at = "wait" /\ Dead
    /\ pluginProc' = [pluginProc EXCEPT !.reaped = TRUE]
    /\ ActionEnds(ruleEvent, ExitGood(pluginProc), ruleRun.matched, "none")
    /\ UNCHANGED <<ruleCase, protocolIn, protocolOut, ruleCtx, ruleSent>>

HostStep == BeginRule \/ TextAction \/ SendAction \/ ToolAction \/ StartExec \/ ReadPluginFrame \/ ReadEOF \/ WaitExec
RuleNext == HostStep \/ PluginStep \/ CancelExec \/ CancelRule \/ ExpireExec

-----------------------------------------------------------------------------
(* Properties *)

RuleTypeOK ==
    /\ ruleRun.at \in {"new", "action", "init", "event", "wait", "over"} /\ ruleRun.end \in {"none", "ok", "failed", "rejected"}
    /\ ruleRun.n \in 1 .. Len(Given.actions) + 1
    /\ pluginProc.state \in {"none", "up", "exited", "killed"}

Succeeded == ruleRun.end = "ok"

\* No process outlives its rule (runExec, fail): whatever went wrong, it was killed or has exited and was awaited.
NoProcessLeft == ruleRun.at \in {"action", "over"} => pluginProc.state = "none" \/ (Dead /\ pluginProc.reaped)

\* A rule succeeds only with a plugin that exited well and was never told to stop (WaitExec): a result that came
\* before a crash, a cancellation or the timeout is not used, and neither is one after a request that failed.
ResultOfGoodExit == Succeeded /\ pluginProc.state # "none" => pluginProc.state = "exited" /\ pluginProc.code = 0 /\ ~pluginProc.told /\ ruleRun.refused = 0

\* A rule that turns out not to match, or whose roles do not fit, leaves the event alone though actions before it
\* edited the text and added outputs (runRule).
UnmatchedLeavesNothing == Succeeded /\ (~ruleRun.matched \/ ~MatchRoles(Given)) => ruleEvent = StartEvent

\* Read-only calls come back as they were, and arguments are edited at no other point than theirs (validateCalls, allowField).
CallsReadOnly ==
    Succeeded => /\ Given.readOnly => ruleEvent.calls = StartEvent.calls /\ ruleEvent.arguments = StartEvent.arguments
                 /\ ruleEvent.arguments # <<>> => Given.point = "tool.call.prepared"
                 /\ ruleEvent.text # <<>> => Given.point = "llm.response.received"

\* Letting an event through undoes every claim to it, by the rule and by its plugins, and taking it over claims it
\* completely (docs.en/hooks.md, pass_through).
PassThroughDecides ==
    Succeeded /\ ruleRun.matched =>
        /\ ruleRun.pass = "yes" => ruleEvent.consume = StartEvent.consume /\ ruleEvent.stop = StartEvent.stop
        /\ ruleRun.pass = "no" => ruleEvent.consume /\ ruleEvent.stop

\* With a timeout, or once it is canceled, a rule comes to its end even if its plugin never says anything.
RuleEnds == (ruleRun.at = "init" /\ (NowAction.timeout \/ ruleCtx.canceled)) ~> (ruleRun.at = "over" \/ ruleRun.at = "action")
=============================================================================
