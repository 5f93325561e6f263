-------------------------- MODULE MCProgressHosts ---------------------------
(* Instances for TLC, smaller than those of MCComponents, of signals, the   *)
(* hook host and the chat platforms: requests end and shutdowns complete.  *)
(* The behaviours of the suite are those of its parts, one part at a time:  *)
(* which one runs is chosen in the initial state, and the others rest.      *)
EXTENDS SignalQueue, SignalBus, HookWorker, HookRoutes, HookResources, HookDispatch, ToolRunner, Skills,
        ToolCatalog, OneBotTransport, OneBotAdapter, QQOfficial, Telegram, TLC

VARIABLE part  \* the component whose behaviour this is

\* Two tasks of one lane and two without a key.
TheKeys == [t \in QTasks |-> IF t \in {"a1", "a2"} THEN "a" ELSE "none"]

\* The hook each instance belongs to; the manager closes in every behaviour.
TheHooks == [i \in Instances |-> IF i = "b1" THEN "B" ELSE "A"]
TheRouteWorlds == {{"close"}}

\* A rule that hangs, error hooks, and a platform that connects.
Unblocked == [platforms |-> {}, groups |-> {}, users |-> {}]
HookRule(n, at, pr, how, need) == [plugin |-> "", name |-> <<n, 0>>, priority |-> pr, point |-> at, wakeup |-> "required", block |-> Unblocked, needs |-> need, does |-> how, tag |-> n]
HookFile(ok, root, ps) == [valid |-> ok, rules |-> root, plugins |-> ps]
FileVersions == <<HookFile(TRUE, <<HookRule("r", "message", 1, "hang", "always"), HookRule("e", "error", 1, "edit", "always"), HookRule("c", "connected", 1, "fail", "always")>>, <<>>)>>
Sender(t) == [platform |-> "qq", chatType |-> t, chat |-> "g", actorPlatform |-> "qq", actor |-> "u"]
Calling(p, t, w, cancels) == [point |-> p, woken |-> w, facts |-> Sender(t), observed |-> TRUE, cancels |-> cancels]
NoCalling == Calling("none", "group", TRUE, FALSE)
Managing(k, p) == [kind |-> k, plugin |-> p]
Playing(c, d, o, e, rts, ft, cl) == [calls |-> [m |-> c, n |-> d], ops |-> [o1 |-> o[1], o2 |-> o[2], o3 |-> o[3]], edits |-> e, routes |-> rts, faults |-> ft, closes |-> cl, plugins |-> {"b"}, rank |-> [b |-> 1]]
NoManaging == Managing("none", "")
Plays == <<Playing(Calling("message", "private", TRUE, FALSE), Calling("connected", "", TRUE, FALSE), <<Managing("reload", ""), NoManaging, NoManaging>>, 1, {}, FALSE, TRUE)>>

\* A plugin that never exits.
RuleAction(t, f, g, ok) == [type |-> t, field |-> f, tag |-> g, compiles |-> ok, command |-> TRUE, timeout |-> FALSE, plugin |-> <<>>]
ExecAction(f, t, p) == [RuleAction("exec", f, "exec", TRUE) EXCEPT !.timeout = t, !.plugin = p]
ReadsFrame == [kind |-> "read"]
ExitsWith(n) == [kind |-> "exit", code |-> n]
Hangs == [kind |-> "hang"]
BadFrame == [kind |-> "bad"]
LogFrame == [kind |-> "event"]
AsksHost(ok) == [kind |-> "request", ok |-> ok, sends |-> TRUE]
Responds(i, ok) == [kind |-> "response", id |-> i, ok |-> ok, text |-> "", output |-> "", consume |-> FALSE, stop |-> FALSE, matched |-> TRUE, pass |-> "none"]
Handshake == <<ReadsFrame, Responds("host:init", TRUE)>>
Conversation(r) == Handshake \o <<ReadsFrame, r, ExitsWith(0)>>
PlainRule(p, as) == [point |-> p, conditions |-> "always", worker |-> FALSE, actions |-> as, roles |-> {}, actorRoles |-> {}, groupRoles |-> {}, role |-> "user", groupRole |-> "member",
  calls |-> "calls", control |-> [consume |-> FALSE, stop |-> FALSE], readOnly |-> FALSE, consume |-> FALSE, stop |-> FALSE, cancels |-> FALSE]
MessagePoint == "platform.message.received"
TextEdited == RuleAction("text", "message.text", "t", TRUE)
SendText == RuleAction("send", "", "s", TRUE)
HostEventDone == Responds("host:event", TRUE)
CaseList == <<PlainRule(MessagePoint, <<ExecAction("", TRUE, Handshake \o <<ReadsFrame, HostEventDone, Hangs>>)>>)>>

\* A batch of two calls, one of them dangerous.
Asked(tool, kind, risk) == [tool |-> tool, kind |-> kind, risk |-> risk, owner |-> FALSE, superadminOnly |-> FALSE, rules |-> FALSE, edited |-> FALSE]
ThePlans == {<<Asked("shell", "plain", 3), Asked("notes", "plain", 0)>>}

\* Two folders of one name and a Go skill; two operations on them, an editor at work, faults or a close.
SkillNames == [f \in {"a", "c", "g"} |-> IF f = "c" THEN "a" ELSE f]
Dir(doc, m, n) == [doc |-> doc, good |-> TRUE, manifest |-> m, source |-> n, binary |-> n]
Script(x, f, y, h, go, by, w) ==
    [does |-> [o \in {"p", "q"} |-> IF o = "p" THEN x ELSE y], on |-> [o \in {"p", "q"} |-> IF o = "p" THEN f ELSE h],
     disk |-> [d \in {"a", "c", "g"} |-> IF d = "a" THEN Dir(1, "policy", 0) ELSE IF d = "g" /\ go THEN Dir(1, "none", 1) ELSE Dir(0, "none", 0)],
     byHand |-> by, world |-> w]
TheScripts == <<Script("create", "g", "reload", "g", FALSE, {}, "close"), Script("remove", "a", "write", "a", FALSE, {"c"}, "none"),
                Script("run", "g", "finalize", "g", TRUE, {}, "faults")>>

\* Tools whose dependencies go in circles, hidden ones, a skill with its runner; who asks for what.
Def(n, from, deps, r, opts) ==
    [name |-> n, group |-> from, depends |-> deps, risk |-> r, valid |-> "invalid" \notin opts, hidden |-> "hidden" \in opts,
     detail |-> "detail" \in opts, callable |-> "detail" \notin opts, foreground |-> "foreground" \in opts, super |-> "super" \in opts, api |-> "any",
     activates |-> IF "run" \in opts THEN {"runner"} ELSE {}, tags |-> IF "net" \in opts THEN {"net"} ELSE {}]
Builtins == {Def("discover_tool", "builtin", <<>>, 1, {}), Def("a", "builtin", <<"b", "h">>, 1, {"net"}),
             Def("b", "builtin", <<"a", "o">>, 2, {}), Def("h", "builtin", <<"b">>, 1, {"hidden"}), Def("o", "builtin", <<>>, 3, {"super"}),
             Def("w", "builtin", <<"a">>, 1, {"foreground", "net"}), Def("c", "builtin", <<>>, 1, {}), Def("runner", "builtin", <<>>, 2, {"hidden"})}
Groups == {{Def("s", "skill", <<"a">>, 0, {"detail", "run"})}, {Def("a", "skill", <<>>, 1, {})},
           {Def("o", "skill", <<>>, 1, {}), Def("s", "skill", <<>>, 0, {"detail"})}}
Wanted(kind, names, who, bg, allowed, remote) ==
    [kind |-> kind, names |-> names, role |-> who, maxRisk |-> IF who = "superadmin" THEN 4 ELSE 2, background |-> bg, api |-> "chat",
     unrestricted |-> "any" \in allowed, allowed |-> allowed, remote |-> remote]
RemoteTool(e, k, f) == [event |-> e, key |-> k, foreground |-> f]
Known(e, k) == [key |-> k, source |-> IF e = "none" THEN "native" ELSE "elwisp", event |-> e, foreground |-> FALSE]
Wishes(x, y, known, faults, edits) ==
    [wish |-> <<x, y>>, config |-> {<<"web", "c">>}, configs |-> {{<<"web", "a">>}}, edits |-> edits, declared |-> known, faults |-> faults]
NoWish == Wanted("discover", <<>>, "user", FALSE, {"any"}, {})
TheWishes ==
    <<Wishes(Wanted("preload", <<"web", "w">>, "superadmin", FALSE, {"any"}, {}), NoWish, {}, FALSE, TRUE),
      Wishes(Wanted("background", <<"web", "s">>, "user", TRUE, {"any"}, {RemoteTool("e", "e.x", FALSE)}), NoWish, {}, TRUE, FALSE)>>

\* What a QQ message is made of.
Outs == <<"media">>

suiteVars == <<part, queueVars, busVars, workerVars, routesVars, sharedVars, mediaVars, pipeVars, ruleVars,
               runnerVars, skillVars, catalogVars, transportVars, oneBotVars, qqVars, tgVars,
               clientVars>>

\* A part that does not run has one of its initial states.
SuiteInit ==
    /\ part \in {"queue", "bus", "worker", "routes", "shared", "lease", "pipeline", "rules", "runner", "skills",
                 "catalog", "transport", "onebot", "gateway", "telegram"}
    /\ QueueInit
    /\ BusInit
    /\ WorkerInit /\ (part # "worker" => episode = "stops")
    /\ RoutesInit
    /\ SharedInit
    /\ MediaInit
    /\ PipeInit /\ (part # "pipeline" => pipeScript = Plays[1])
    /\ RuleInit /\ (part # "rules" => ruleCase = CaseList[1])
    /\ RunnerInit
    /\ SkillsInit /\ (part # "skills" => script = 1)
    /\ CatalogInit /\ (part # "catalog" => catalogScript = 1)
    /\ TransportInit
    /\ OneBotInit
    /\ QQInit
    /\ TelegramInit
    /\ QQClientInit  \* takes no step here

\* A step of part p: the others rest.
Only(p) ==
    /\ part = p /\ part' = p
    /\ p # "queue" => UNCHANGED queueVars
    /\ p # "bus" => UNCHANGED busVars
    /\ p # "worker" => UNCHANGED workerVars
    /\ p # "routes" => UNCHANGED routesVars
    /\ p # "shared" => UNCHANGED sharedVars
    /\ p # "lease" => UNCHANGED mediaVars
    /\ p # "pipeline" => UNCHANGED pipeVars
    /\ p # "rules" => UNCHANGED ruleVars
    /\ p # "runner" => UNCHANGED runnerVars
    /\ p # "skills" => UNCHANGED skillVars
    /\ p # "catalog" => UNCHANGED catalogVars
    /\ p # "transport" => UNCHANGED transportVars
    /\ p # "onebot" => UNCHANGED oneBotVars
    /\ p # "gateway" => UNCHANGED qqVars
    /\ p # "telegram" => UNCHANGED tgVars
    /\ UNCHANGED clientVars

SuiteNext ==
    \/ Only("queue") /\ QueueNext
    \/ Only("bus") /\ BusNext
    \/ Only("worker") /\ WorkerNext
    \/ Only("routes") /\ RoutesNext
    \/ Only("shared") /\ SharedNext
    \/ Only("lease") /\ MediaNext
    \/ Only("pipeline") /\ PipeNext
    \/ Only("rules") /\ RuleNext
    \/ Only("runner") /\ RunnerNext
    \/ Only("skills") /\ SkillsNext
    \/ Only("catalog") /\ CatalogNext
    \/ Only("transport") /\ TransportNext
    \/ Only("onebot") /\ OneBotNext
    \/ Only("gateway") /\ QQNext
    \/ Only("telegram") /\ TelegramNext

\* The fairness of each part, for the behaviours in which it runs.  One part runs, so one
\* conjunct can speak for a step of each.
SuiteFairness ==
    /\ \A t \in QTasks : WF_queueVars(part = "queue" /\ QueueStep(t))
    /\ WF_queueVars(part = "queue" /\ TakeTask)
    /\ WF_queueVars(part = "queue" /\ RetireWorker)
    /\ \A e \in Emissions :
          /\ WF_busVars(part = "bus" /\ EmitStep(e))
          /\ WF_busVars(part = "bus" /\ EmitTimeout(e))
    /\ \A i \in Items :
          /\ WF_busVars(part = "bus" /\ AfterCancel(i))
          /\ WF_busVars(part = "bus" /\ RunItem(i))
          /\ WF_busVars(part = "bus" /\ CallbackEnds(i))
    /\ WF_busVars(part = "bus" /\ CloseStep)
    /\ WF_workerVars(part = "worker" /\ RestartFires)
    /\ WF_workerVars(part = "worker" /\ FinishClose)
    /\ WF_workerVars(part = "worker" /\ FinishHandle)
    /\ \A r \in RunTasks : WF_workerVars(part = "worker" /\ RunTaskStep(r))
    /\ \A p \in Processes : WF_workerVars(part = "worker" /\ WaitLoop(p))
    /\ \A s \in Stoppers : WF_workerVars(part = "worker" /\ StopStep(s))
    /\ WF_workerVars(part = "worker" /\ StopBegin(Closer))
    /\ \A e \in Events : WF_routesVars(part = "routes" /\ EventStep(e))
    /\ \A l \in Leases : WF_routesVars(part = "routes" /\ ExpireLease(l))
    /\ \A i \in Instances :
          /\ WF_routesVars(part = "routes" /\ BecomesReady(i))
          /\ WF_routesVars(part = "routes" /\ StopEnds(i))
          /\ WF_routesVars(part = "routes" /\ SweepExited(i))
    /\ WF_routesVars(part = "routes" /\ RoutesClosed)
    /\ WF_sharedVars(part = "shared" /\ Sweep)
    /\ WF_sharedVars(part = "shared" /\ WakeUp)
    /\ WF_mediaVars(part = "lease" /\ PruneDue)
    /\ WF_mediaVars(part = "lease" /\ PruneLease)
    /\ WF_mediaVars(part = "lease" /\ FinishMedia)
    /\ WF_mediaVars(part = "lease" /\ MediaTick)
    /\ \A c \in Callers :
          /\ WF_mediaVars(part = "lease" /\ Retain(c))
          /\ WF_mediaVars(part = "lease" /\ Release(c))
    /\ WF_pipeVars(part = "pipeline" /\ PlatformStep)
    /\ WF_pipeVars(part = "pipeline" /\ CloseRuntime)
    /\ \A c \in PipeCalls : WF_pipeVars(part = "pipeline" /\ PipeCallStep(c))
    /\ \A o \in HookOps : WF_pipeVars(part = "pipeline" /\ OpStep(o))
    /\ WF_ruleVars(part = "rules" /\ HostStep)
    /\ WF_ruleVars(part = "rules" /\ CancelExec)
    /\ WF_ruleVars(part = "rules" /\ ExpireExec)
    /\ WF_runnerVars(part = "runner" /\ CoordinatorStep)
    /\ WF_runnerVars(part = "runner" /\ WaitingStep)
    /\ WF_runnerVars(part = "runner" /\ \E i \in Indices : WorkerStep(i))
    /\ \A o \in SkillActors : WF_skillVars(part = "skills" /\ SkillStep(o))
    /\ WF_skillVars(part = "skills" /\ StartTools)
    /\ WF_skillVars(part = "skills" /\ LifeStep)
    /\ \A j \in CatalogJobs : WF_catalogVars(part = "catalog" /\ CatalogStep(j))
    /\ WF_transportVars(part = "transport" /\ DialStep)
    /\ WF_transportVars(part = "transport" /\ ReadStep)
    /\ \A c \in Calls :
          /\ WF_transportVars(part = "transport" /\ CallStep(c))
          /\ WF_transportVars(part = "transport" /\ CallLimit(c))
    /\ WF_transportVars(part = "transport" /\ (CloseSocket \/ CloseDone))
    /\ WF_oneBotVars(part = "onebot" /\ RedialStep)
    /\ WF_oneBotVars(part = "onebot" /\ ReadLoopEnds)
    /\ WF_oneBotVars(part = "onebot" /\ MessageStep)
    /\ WF_oneBotVars(part = "onebot" /\ SideStep)
    /\ WF_oneBotVars(part = "onebot" /\ IngressDone)
    /\ WF_oneBotVars(part = "onebot" /\ ReleaseDone)
    /\ WF_oneBotVars(part = "onebot" /\ ~parent /\ OneBotBeginClose)
    /\ WF_qqVars(part = "gateway" /\ GatewayFails)
    /\ WF_qqVars(part = "gateway" /\ LeaveStep)
    /\ WF_qqVars(part = "gateway" /\ GatewayStep)
    /\ WF_qqVars(part = "gateway" /\ QQDone)
    /\ WF_qqVars(part = "gateway" /\ \E i \in DOMAIN chats : ChatOver(i))
    /\ WF_qqVars(part = "gateway" /\ broken /\ ReadFails("identify"))
    /\ WF_tgVars(part = "telegram" /\ PollEnds)
    /\ WF_tgVars(part = "telegram" /\ PollWakes)
    /\ WF_tgVars(part = "telegram" /\ TelegramDone)
    /\ WF_tgVars(part = "telegram" /\ \E u \in 1 .. MaxUpdates : UpdateOver(u))
    /\ SF_<<oneBotVars, qqVars, tgVars>>(
          \/ part = "onebot" /\ Connected /\ UNCHANGED <<qqVars, tgVars>>
          \/ part = "gateway" /\ OpenStep /\ UNCHANGED <<oneBotVars, tgVars>>
          \/ part = "telegram" /\ Hello /\ UNCHANGED <<oneBotVars, qqVars>>)
    /\ SF_tgVars(part = "telegram" /\ GetUpdates)

SuiteSpec == SuiteInit /\ [][SuiteNext]_suiteVars /\ SuiteFairness

-----------------------------------------------------------------------------
\* Every accepted task finishes, every emission returns, and queue and bus close.
SignalProgress ==
    /\ TasksFinish /\ QueueCloses /\ EmitReturns /\ BusCloses

\* A hook host that is closed ends unless a process was orphaned, routes close, expired values
\* are removed and media leases end; a batch of tool calls returns, and searches for tools and
\* operations on skills end.
HookProgress ==
    /\ HostClosesOrOrphaned /\ RoutesClose /\ ExpiredRemoved /\ LeasesEnd /\ HooksClose /\ RuleEnds /\
       BatchReturns /\ SkillOpsEnd /\ ToolsClose /\ CatalogJobsEnd

\* Requests return, a lost connection is made again, updates arrive, and an adapter that is
\* closed comes to its end.
PlatformProgress ==
    /\ RequestsReturn /\ TransportCloses /\ Reconnects /\ OneBotIngressEnds /\ OneBotReleases /\
       QQReconnects /\ QQCloses /\ UpdatesArrive /\ TelegramCloses
=============================================================================
