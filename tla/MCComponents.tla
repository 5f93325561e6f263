---------------------------- MODULE MCComponents ----------------------------
(* Instances for TLC of the components around the turn: their invariants    *)
(* and what their steps may not do.                                        *)
(* The behaviours of the suite are those of its parts, one part at a time:  *)
(* which one runs is chosen in the initial state, and the others rest.      *)
EXTENDS SessionControl, SessionNaming, CronDelivery, CronManager, Elnis, SignalQueue, SignalBus,
        HookWorker, HookRoutes, HookResources, HookDispatch, AppLifecycle, MediaObjects,
        NativeDialogue, ModelStream, OneBotTransport, OneBotAdapter, QQOfficial, Telegram,
        CliRemote, FileRollback, FileText, ToolRunner, Skills, ToolCatalog, Memories, TLC

VARIABLE part  \* the component whose behaviour this is

\* What else happens to the sessions, one choice per behaviour.
TheWorlds == {{"hook"}, {"close"}, {"fork"}, {"background"}, {"compact"}, {"cleanup"}}

\* The outputs of a report, and what happens in a behaviour: edits of the job, or failed
\* sends, crashes and a user who takes the session over.
TheOutputs == <<"text", "segment">>
TheLimits == {[runs |-> 2, edits |-> 0, faults |-> 0, takeover |-> FALSE],
              [runs |-> 1, edits |-> 1, faults |-> 0, takeover |-> FALSE],
              [runs |-> 1, edits |-> 0, faults |-> 1, takeover |-> TRUE]}

\* Two tasks of one lane and two without a key.
TheKeys == [t \in QTasks |-> IF t \in {"a1", "a2"} THEN "a" ELSE "none"]

\* The hook each instance belongs to, and what interferes with the events of a behaviour.
TheHooks == [i \in Instances |-> IF i = "b1" THEN "B" ELSE "A"]
TheRouteWorlds == {{"expiry"}, {"cancel"}, {"exit"}, {"close"}}

\* Files with rules that edit, fail, hang and stop, a worker, and what calls and operations there are.
Unblocked == [platforms |-> {}, groups |-> {}, users |-> {}]
HookRule(n, at, pr, how, need) == [plugin |-> "", name |-> <<n, 0>>, priority |-> pr, point |-> at, wakeup |-> "required", block |-> Unblocked, needs |-> need, does |-> how, tag |-> n]
PluginFile(i, w, ok, rs) == [id |-> i, enabled |-> TRUE, valid |-> ok, worker |-> w, rules |-> rs]
HookFile(ok, root, ps) == [valid |-> ok, rules |-> root, plugins |-> ps]
RootRule == HookRule("r", "message", 2, "edit", "always")
ErrorRule == HookRule("e", "error", 1, "fail", "always")
PluginA == PluginFile("a", FALSE, TRUE, <<HookRule("x", "message", 2, "fail", "r"), HookRule("x", "connected", 1, "edit", "always")>>)
PluginB == PluginFile("b", TRUE, TRUE, <<HookRule("y", "message", 2, "edit", "always"), HookRule("y2", "message", 1, "hang", "route")>>)
PluginC == PluginFile("c", FALSE, TRUE, <<HookRule("z", "message", 2, "stop", "y"), [HookRule("zz", "message", 1, "edit", "always") EXCEPT !.block = [Unblocked EXCEPT !.groups = {<<"qq", "g">>}]]>>)
FileVersions == <<HookFile(TRUE, <<RootRule, ErrorRule>>, <<PluginA, PluginB>>), HookFile(FALSE, <<>>, <<>>), HookFile(TRUE, <<ErrorRule, RootRule>>, <<PluginC, PluginB, PluginFile("d", FALSE, FALSE, <<RootRule>>), PluginA>>), HookFile(TRUE, <<RootRule>>, <<PluginB, PluginC>>)>>
Sender(t) == [platform |-> "qq", chatType |-> t, chat |-> "g", actorPlatform |-> "qq", actor |-> "u"]
Calling(p, t, w, cancels) == [point |-> p, woken |-> w, facts |-> Sender(t), observed |-> TRUE, cancels |-> cancels]
NoCalling == Calling("none", "group", TRUE, FALSE)
Managing(k, p) == [kind |-> k, plugin |-> p]
Playing(c, d, o, e, rts, ft, cl) == [calls |-> [m |-> c, n |-> d], ops |-> [o1 |-> o[1], o2 |-> o[2], o3 |-> o[3]], edits |-> e, routes |-> rts, faults |-> ft, closes |-> cl, plugins |-> {"b"}, rank |-> [b |-> 1]]
NoManaging == Managing("none", "")
Plays == <<
  Playing(NoCalling, NoCalling, <<Managing("reload", ""), Managing("reload", ""), Managing("self", "b")>>, 4, {}, TRUE, FALSE),
  Playing(Calling("message", "group", TRUE, TRUE), NoCalling, <<Managing("reload", ""), NoManaging, Managing("stop", "b")>>, 1, {"continued", "taken", "failed"}, TRUE, FALSE),
  Playing(Calling("message", "private", FALSE, FALSE), Calling("connected", "", TRUE, FALSE), <<Managing("reload", ""), NoManaging, NoManaging>>, 1, {"failed"}, FALSE, TRUE)>>

\* Rules with one-shot plugins that behave in every way, and rules without.
RuleAction(t, f, g, ok) == [type |-> t, field |-> f, tag |-> g, compiles |-> ok, command |-> TRUE, timeout |-> FALSE, plugin |-> <<>>]
ExecAction(f, t, p) == [RuleAction("exec", f, "exec", TRUE) EXCEPT !.timeout = t, !.plugin = p]
ReadsFrame == [kind |-> "read"]
ExitsWith(n) == [kind |-> "exit", code |-> n]
Hangs == [kind |-> "hang"]
BadFrame == [kind |-> "bad"]
LogFrame == [kind |-> "event"]
AsksHost(ok) == [kind |-> "request", ok |-> ok, sends |-> TRUE]
Responds(i, ok) == [kind |-> "response", id |-> i, ok |-> ok, text |-> "", output |-> "", consume |-> FALSE, stop |-> FALSE, matched |-> TRUE, pass |-> "none"]
Handshake == <<ReadsFrame, Responds("host:init", TRUE)>>
Conversation(r) == Handshake \o <<ReadsFrame, r, ExitsWith(0)>>
PlainRule(p, as) == [point |-> p, conditions |-> "always", worker |-> FALSE, actions |-> as, roles |-> {}, actorRoles |-> {}, groupRoles |-> {}, role |-> "user", groupRole |-> "member",
  calls |-> "calls", control |-> [consume |-> FALSE, stop |-> FALSE], readOnly |-> FALSE, consume |-> FALSE, stop |-> FALSE, cancels |-> FALSE]
MessagePoint == "platform.message.received"
TextEdited == RuleAction("text", "message.text", "t", TRUE)
SendText == RuleAction("send", "", "s", TRUE)
HostEventDone == Responds("host:event", TRUE)
CaseList == <<
  [PlainRule(MessagePoint, <<TextEdited, SendText, ExecAction("", TRUE, Conversation([HostEventDone EXCEPT !.text = "new", !.output = "o", !.matched = FALSE]))>>) EXCEPT !.consume = TRUE],
  [PlainRule(MessagePoint, <<TextEdited, ExecAction("", TRUE, Conversation([HostEventDone EXCEPT !.consume = TRUE, !.pass = "yes"])), SendText>>) EXCEPT !.consume = TRUE, !.stop = TRUE, !.cancels = TRUE],
  [PlainRule(MessagePoint, <<ExecAction("", FALSE, Handshake \o <<AsksHost(TRUE), ReadsFrame, LogFrame, ReadsFrame, [HostEventDone EXCEPT !.pass = "no"], ExitsWith(0)>>), ExecAction("", TRUE, Handshake \o <<ReadsFrame, HostEventDone, Hangs>>)>>) EXCEPT !.cancels = TRUE],
  PlainRule(MessagePoint, <<SendText, ExecAction("", TRUE, Handshake \o <<ReadsFrame, AsksHost(FALSE), HostEventDone, ExitsWith(0)>>)>>),
  PlainRule(MessagePoint, <<ExecAction("", TRUE, Handshake \o <<ReadsFrame, HostEventDone, ExitsWith(1)>>)>>),
  PlainRule(MessagePoint, <<ExecAction("", TRUE, <<ReadsFrame, BadFrame, Hangs>>)>>),
  PlainRule(MessagePoint, <<ExecAction("", TRUE, Handshake \o <<Responds("host:init", TRUE), ExitsWith(0)>>)>>),
  [PlainRule("tool.call.prepared", <<RuleAction("text", "tool.arguments", "a", TRUE), ExecAction("tool.arguments", TRUE, Conversation([HostEventDone EXCEPT !.text = "b"]))>>) EXCEPT !.readOnly = TRUE],
  PlainRule("tool.call.prepared", <<RuleAction("text", "tool.arguments", "a", TRUE), RuleAction("tool", "", "x", FALSE), ExecAction("", TRUE, Conversation([HostEventDone EXCEPT !.text = "b"]))>>),
  [PlainRule("llm.response.received", <<RuleAction("text", "llm.text", "a", TRUE), RuleAction("text", "tool.arguments", "b", TRUE)>>) EXCEPT !.readOnly = TRUE],
  PlainRule("llm.response.received", <<RuleAction("text", "llm.text", "a", TRUE), RuleAction("text", "llm.text", "b", FALSE)>>),
  [PlainRule(MessagePoint, <<>>) EXCEPT !.worker = TRUE, !.stop = TRUE], PlainRule(MessagePoint, <<>>), PlainRule("unknown", <<SendText>>),
  [PlainRule(MessagePoint, <<TextEdited>>) EXCEPT !.roles = {"admin"}, !.consume = TRUE], [PlainRule(MessagePoint, <<TextEdited>>) EXCEPT !.groupRoles = {"member"}, !.actorRoles = {"user"}],
  PlainRule(MessagePoint, <<TextEdited, [ExecAction("", TRUE, <<>>) EXCEPT !.tag = "missing"]>>)>>

\* The terminal and a service.
TheAdapters == <<"tty", "chat">>

\* What is asked of a model and what a provider may answer to it: refusals, replies that are whole,
\* assembled out of order, cut off, broken or faulty, and compactions of every number.
TheOperations == {[kind |-> "talk", api |-> "chat"], [kind |-> "text", api |-> "chat"],
                  [kind |-> "text", api |-> "native"], [kind |-> "compact", api |-> "native"]}
Refusal(n, c) == [status |-> n, code |-> c, prefix |-> "", lines |-> <<>>, end |-> "eof"]
Body(ls, e) == [status |-> 200, code |-> "", prefix |-> "sse", lines |-> ls, end |-> e]
FrameLines(fs) == [i \in 1 .. 2 * Len(fs) |-> IF i % 2 = 0 THEN "blank" ELSE fs[(i + 1) \div 2]]
Reply(fs) == Body(FrameLines(fs), "eof")
TheAnswers == [o \in {<<op.kind, op.api>> : op \in TheOperations} |->
    CASE o = <<"talk", "chat">> ->
           {Refusal(0, "refused"), Refusal(400, "invalid_request_error"), [Reply(<<>>) EXCEPT !.prefix = "html"],
            Reply(<<"part2", "part1", "finish", "hello", "done">>),
            Body(FrameLines(<<"hello", "part1">>) \o <<"done">>, "eof"), Body(FrameLines(<<"hello", "cut">>), "broken")}
      [] o = <<"text", "chat">> ->
           {Refusal(429, "rate_limit_error"), Reply(<<"hello", "usage", "done">>), Reply(<<"part1", "finish", "done">>), Reply(<<"fault">>)}
      [] o = <<"text", "native">> -> {Reply(<<"hello", "completed">>), Reply(<<"spoiled">>), Reply(<<"chain">>)}
      [] OTHER -> {Reply(<<"compaction", "completed">>), Reply(<<"item", "completed_one">>), Reply(<<"completed_two">>),
                   Body(<<"compaction", "item", "blank">>, "stall")}]

\* What a QQ message is made of.
Outs == <<"media">>

\* Tasks of a peer beside the command line server, and clients that are started in different ways.
PeerTask(k, f) == [kind |-> k, conn |-> "peer", file |-> f]
TheCliTasks == [u |-> PeerTask("upload", "u"), i |-> PeerTask("input", "u"), d |-> PeerTask("download", "u"),
                r |-> PeerTask("revoke", "u"), o |-> PeerTask("output", "o"), q |-> PeerTask("complete", "q")]
CliWorld(ts, n, p) == [tasks |-> ts, setup |-> [name |-> n, profile |-> p, address |-> "local"]]
TheCliWorlds == {CliWorld({}, "", "ready"), CliWorld({}, "", "missing"), CliWorld({}, "named", "ready")} \cup
                {CliWorld(ts, "", "missing") : ts \in {{"u", "d"}, {"u", "r"}, {"u", "i"}, {"u", "o"}, {"q"}}}

\* What the operations do to files, whether their paths go through the link, and what interferes.
Role(a, b, c, l, m, s) == [does |-> <<a, b, c>>, linked |-> l, meddling |-> m, switching |-> s]
TheRoles == {Role({"edit"}, {"rollback", "approve"}, {"edit"}, <<TRUE, TRUE, FALSE>>, FALSE, FALSE),
             Role({"edit"}, {"rollback"}, {}, <<TRUE, TRUE, TRUE>>, FALSE, TRUE),
             Role({"edit", "approve"}, {"rollback"}, {}, <<TRUE, TRUE, TRUE>>, TRUE, FALSE)}

\* Every text of up to four characters, under edits of every operation and pairs of them.
E(op, line, anchor, which, block) == [op |-> op, line |-> line, anchor |-> anchor, which |-> which, block |-> block]
TheEdits == {E("insert", k, <<>>, "only", <<"x">>) : k \in {1, 2, 3}} \cup {E("delete", k, <<>>, "only", <<>>) : k \in {1, 2}}
   \cup {E(op, 0, <<"a">>, w, <<"y">>) : op \in {"insert_before", "insert_after", "replace_line"}, w \in {"all", "first"}}
   \cup {E("replace", 2, <<>>, "only", <<"z">>), E("insert", 0, <<"a">>, "all", <<"x">>), E("delete_line", 0, <<"a">>, "only", <<>>),
         E("replace_text", 0, <<"a">>, "all", <<>>), E("replace_text", 0, <<"n">>, "first", <<"w">>)}
TheTexts == UNION {[1 .. n -> {"a", "n"}] : n \in 0 .. 4}
TheLists == UNION {[1 .. n -> {"p", "q"}] : n \in 0 .. 3}
TheRaw == UNION {[1 .. n -> {"a", "n", "r"}] : n \in 0 .. 4}

\* Batches of two calls: dangerous tools, discoveries, calls that fail before they run; and one of one call.
Asked(tool, kind, risk, edited) ==
    [tool |-> tool, kind |-> kind, risk |-> risk, owner |-> FALSE, superadminOnly |-> FALSE, rules |-> kind = "discover", edited |-> edited]
ThePlans == {<<Asked("shell", "plain", 3, TRUE), Asked("write", "plain", 3, FALSE)>>,
             <<Asked("discover", "discover", 0, FALSE), Asked("discover", "discover", 0, FALSE)>>,
             <<Asked("picture", "media", 0, FALSE), Asked("notes", "broken", 0, FALSE)>>,
             <<Asked("shell", "plain", 4, FALSE)>>}

\* Two folders of one name and a Go skill; two operations on them, an editor at work, faults or a close.
SkillNames == [f \in {"a", "c", "g"} |-> IF f = "c" THEN "a" ELSE f]
Dir(doc, m, n) == [doc |-> doc, good |-> TRUE, manifest |-> m, source |-> n, binary |-> n]
Script(x, f, y, h, go, by, w) ==
    [does |-> [o \in {"p", "q"} |-> IF o = "p" THEN x ELSE y], on |-> [o \in {"p", "q"} |-> IF o = "p" THEN f ELSE h],
     disk |-> [d \in {"a", "c", "g"} |-> IF d = "a" THEN Dir(1, "policy", 0) ELSE IF d = "g" /\ go THEN Dir(1, "none", 1) ELSE Dir(0, "none", 0)],
     byHand |-> by, world |-> w]
TheScripts == <<Script("write", "a", "write", "a", FALSE, {"c"}, "none"), Script("write", "a", "query", "a", TRUE, {"a"}, "none"),
               Script("create", "g", "create", "g", FALSE, {}, "faults"), Script("create", "g", "reload", "g", FALSE, {}, "close"),
               Script("modify", "g", "finalize", "g", TRUE, {}, "none"), Script("modify", "g", "finalize", "g", TRUE, {"g"}, "none"),
               Script("remove", "g", "query", "g", TRUE, {}, "close"), Script("run", "g", "remove", "g", TRUE, {}, "faults"),
               Script("remove", "a", "write", "a", FALSE, {"c"}, "none")>>

\* Tools whose dependencies go in circles, hidden ones, a skill with its runner; who asks for what.
Def(n, from, deps, r, opts) ==
    [name |-> n, group |-> from, depends |-> deps, risk |-> r, valid |-> "invalid" \notin opts, hidden |-> "hidden" \in opts,
     detail |-> "detail" \in opts, callable |-> "detail" \notin opts, foreground |-> "foreground" \in opts, super |-> "super" \in opts, api |-> "any",
     activates |-> IF "run" \in opts THEN {"runner"} ELSE {}, tags |-> IF "net" \in opts THEN {"net"} ELSE {}]
Builtins == {Def("discover_tool", "builtin", <<>>, 1, {}), Def("a", "builtin", <<"b", "h">>, 1, {"net"}),
             Def("b", "builtin", <<"a", "o">>, 2, {}), Def("h", "builtin", <<"b">>, 1, {"hidden"}), Def("o", "builtin", <<>>, 3, {"super"}),
             Def("w", "builtin", <<"a">>, 1, {"foreground", "net"}), Def("c", "builtin", <<>>, 1, {}), Def("runner", "builtin", <<>>, 2, {"hidden"})}
Groups == {{Def("s", "skill", <<"a">>, 0, {"detail", "run"})}, {Def("a", "skill", <<>>, 1, {})},
           {Def("o", "skill", <<>>, 1, {}), Def("s", "skill", <<>>, 0, {"detail"})}}
Wanted(kind, names, who, bg, allowed, remote) ==
    [kind |-> kind, names |-> names, role |-> who, maxRisk |-> IF who = "superadmin" THEN 4 ELSE 2, background |-> bg, api |-> "chat",
     unrestricted |-> "any" \in allowed, allowed |-> allowed, remote |-> remote]
RemoteTool(e, k, f) == [event |-> e, key |-> k, foreground |-> f]
Known(e, k) == [key |-> k, source |-> IF e = "none" THEN "native" ELSE "elwisp", event |-> e, foreground |-> FALSE]
Wishes(x, y, known, faults, edits) ==
    [wish |-> <<x, y>>, config |-> {<<"web", "c">>}, configs |-> {{<<"web", "a">>}}, edits |-> edits, declared |-> known, faults |-> faults]
NoWish == Wanted("discover", <<>>, "user", FALSE, {"any"}, {})
TheWishes ==
    <<Wishes(Wanted("discover", <<"a", "s", "h">>, "user", FALSE, {"any"}, {}), NoWish, {}, TRUE, FALSE),
     Wishes(Wanted("preload", <<"web", "w">>, "superadmin", FALSE, {"any"}, {}), NoWish, {}, FALSE, TRUE),
     Wishes(Wanted("background", <<"web", "net", "s">>, "user", TRUE, {"a", "s"}, {RemoteTool("e", "e.x", FALSE), RemoteTool("e", "e.y", TRUE)}),
            Wanted("background", <<>>, "user", TRUE, {"any"}, {RemoteTool("f", "e.x", FALSE), RemoteTool("f", "f.z", FALSE)}), {Known("e", "e.old")}, FALSE, FALSE),
     Wishes(Wanted("background", <<"b">>, "user", TRUE, {"any"}, {RemoteTool("e", "e.x", FALSE)}), NoWish, {Known("none", "b"), Known("e", "e.x")}, TRUE, FALSE)>>

\* Directories with duplicates and broken files, what users do to them, and which calls happen together.
Memory(i, t) == [id |-> i, text |-> t]
TheUserChanges == {[path |-> 1, contents |-> NoMemory], [path |-> 2, contents |-> NoMemory],
                   [path |-> 1, contents |-> Memory(0, "x")], [path |-> 2, contents |-> Memory(1, "y")],
                   [path |-> 3, contents |-> Memory(1, "x")]}
TwoOfOneId == <<Memory(1, "x"), NoMemory, Memory(1, "y")>>
BrokenLast == <<NoMemory, Memory(2, "x"), Memory(0, "x")>>
MemoryWorld(fs, o, e, f) == [files |-> fs, ops |-> o, edits |-> e, faults |-> f]
TheMemoryWorlds ==
    UNION {{MemoryWorld(fs, {"search"}, 2, 1), MemoryWorld(fs, {"update", "delete"}, 1, 0),
            MemoryWorld(fs, {"search", "save"}, 2, 0)} : fs \in {TwoOfOneId, BrokenLast}} \cup
    {MemoryWorld(TwoOfOneId, {"search", "save"}, 0, 1), MemoryWorld(BrokenLast, {"search", "update", "delete"}, 0, 1),
     MemoryWorld(<<NoMemory, Memory(1, "x"), NoMemory>>, {"search", "save"}, 1, 0),
     MemoryWorld(TwoOfOneId, {"resident"}, 0, 1)}

suiteVars == <<part, controlVars, namingVars, cronVars, managerVars, elnisVars, queueVars, busVars, workerVars,
               routesVars, sharedVars, mediaVars, pipeVars, ruleVars, appVars, objectVars,
               dialogueVars, streamVars, transportVars, oneBotVars, qqVars, clientVars, tgVars,
               cliVars, fileVars, textVars, runnerVars, skillVars, catalogVars, memoryVars>>

\* A part that does not run has one of its initial states.
SuiteInit ==
    /\ part \in {"control", "naming", "delivery", "manager", "elnis", "queue", "bus", "worker", "routes",
                 "shared", "lease", "pipeline", "rules", "app", "media", "dialogue", "stream",
                 "transport", "onebot", "gateway", "qqclient", "telegram", "cli", "rollback",
                 "text", "runner", "skills", "catalog", "memory"}
    /\ ControlInit /\ (part # "control" => world = {"compact"})
    /\ NamingInit /\ (part # "naming" => title = [n \in Named |-> "initial"])
    /\ CronInit /\ (part # "delivery" => row.once /\ ~row.all /\ limit = [runs |-> 1, edits |-> 0, faults |-> 1, takeover |-> TRUE])
    /\ ManagerInit /\ (part # "manager" => job = [n \in Jobs |-> Missing])
    /\ ElnisInit
    /\ QueueInit
    /\ BusInit
    /\ WorkerInit /\ (part # "worker" => episode = "stops")
    /\ RoutesInit /\ (part # "routes" => routesWorld = {"close"})
    /\ SharedInit
    /\ MediaInit
    /\ PipeInit /\ (part # "pipeline" => pipeScript = Plays[1])
    /\ RuleInit /\ (part # "rules" => ruleCase = CaseList[1])
    /\ AppInit
    /\ MediaObjectInit
    /\ DialogueInit /\ (part # "dialogue" => seed = "none")
    /\ StreamInit /\ (part # "stream" => modelCall.kind = "text" /\ modelCall.api = "native")
    /\ TransportInit
    /\ OneBotInit
    /\ QQInit
    /\ QQClientInit
    /\ TelegramInit
    /\ CliInit /\ (part # "cli" => cliWorld = {} /\ cli.setup.profile = "missing")
    /\ FileInit /\ (part # "rollback" => role.switching)
    /\ RunnerInit /\ (part # "runner" => runnerWorld = {"promote"} /\ actor = "user" /\ Len(plan) = 1)
    /\ SkillsInit /\ (part # "skills" => script = 4)
    /\ CatalogInit /\ (part # "catalog" => catalogScript = 2)
    /\ MemoryInit /\ (part # "memory" => memWorld.edits = 0 /\ MayCall("resident"))
    /\ TextInit /\ (part # "text" => textJob.kind = "read" /\ textJob.total = 1)
    /\ suiteVars = suiteVars  \* makes TLC compute the initial functions, which SuiteView does not look at

\* A step of part p: the others rest.
Only(p) ==
    /\ part = p /\ part' = p
    /\ p # "control" => UNCHANGED controlVars
    /\ p # "naming" => UNCHANGED namingVars
    /\ p # "delivery" => UNCHANGED cronVars
    /\ p # "manager" => UNCHANGED managerVars
    /\ p # "elnis" => UNCHANGED elnisVars
    /\ p # "queue" => UNCHANGED queueVars
    /\ p # "bus" => UNCHANGED busVars
    /\ p # "worker" => UNCHANGED workerVars
    /\ p # "routes" => UNCHANGED routesVars
    /\ p # "shared" => UNCHANGED sharedVars
    /\ p # "lease" => UNCHANGED mediaVars
    /\ p # "pipeline" => UNCHANGED pipeVars
    /\ p # "rules" => UNCHANGED ruleVars
    /\ p # "app" => UNCHANGED appVars
    /\ p # "media" => UNCHANGED objectVars
    /\ p # "dialogue" => UNCHANGED dialogueVars
    /\ p # "stream" => UNCHANGED streamVars
    /\ p # "transport" => UNCHANGED transportVars
    /\ p # "onebot" => UNCHANGED oneBotVars
    /\ p # "gateway" => UNCHANGED qqVars
    /\ p # "qqclient" => UNCHANGED clientVars
    /\ p # "telegram" => UNCHANGED tgVars
    /\ p # "cli" => UNCHANGED cliVars
    /\ p # "rollback" => UNCHANGED fileVars
    /\ p # "text" => UNCHANGED textVars
    /\ p # "runner" => UNCHANGED runnerVars
    /\ p # "skills" => UNCHANGED skillVars
    /\ p # "catalog" => UNCHANGED catalogVars
    /\ p # "memory" => UNCHANGED memoryVars

SuiteNext ==
    \/ Only("control") /\ ControlNext
    \/ Only("naming") /\ NamingNext
    \/ Only("delivery") /\ CronNext
    \/ Only("manager") /\ ManagerNext
    \/ Only("elnis") /\ ElnisNext
    \/ Only("queue") /\ QueueNext
    \/ Only("bus") /\ BusNext
    \/ Only("worker") /\ WorkerNext
    \/ Only("routes") /\ RoutesNext
    \/ Only("shared") /\ SharedNext
    \/ Only("lease") /\ MediaNext
    \/ Only("pipeline") /\ PipeNext
    \/ Only("rules") /\ RuleNext
    \/ Only("app") /\ AppNext
    \/ Only("media") /\ MediaObjectNext
    \/ Only("dialogue") /\ DialogueNext
    \/ Only("stream") /\ StreamNext
    \/ Only("transport") /\ TransportNext
    \/ Only("onebot") /\ OneBotNext
    \/ Only("gateway") /\ QQNext
    \/ Only("qqclient") /\ QQClientNext
    \/ Only("telegram") /\ TelegramNext
    \/ Only("cli") /\ CliNext
    \/ Only("rollback") /\ FileNext
    \/ Only("text") /\ TextNext
    \/ Only("runner") /\ RunnerNext
    \/ Only("skills") /\ SkillsNext
    \/ Only("catalog") /\ CatalogNext
    \/ Only("memory") /\ MemoryNext

\* States are told apart by the part that runs: the others never change.
SuiteView ==
    CASE part = "control" -> <<part, controlVars>>
      [] part = "naming" -> <<part, namingVars>>
      [] part = "delivery" -> <<part, cronVars>>
      [] part = "manager" -> <<part, managerVars>>
      [] part = "elnis" -> <<part, elnisVars>>
      [] part = "queue" -> <<part, queueVars>>
      [] part = "bus" -> <<part, busVars>>
      [] part = "worker" -> <<part, workerVars>>
      [] part = "routes" -> <<part, routesVars>>
      [] part = "shared" -> <<part, sharedVars>>
      [] part = "lease" -> <<part, mediaVars>>
      [] part = "pipeline" -> <<part, pipeVars>>
      [] part = "rules" -> <<part, ruleVars>>
      [] part = "app" -> <<part, appVars>>
      [] part = "media" -> <<part, objectVars>>
      [] part = "dialogue" -> <<part, dialogueVars>>
      [] part = "stream" -> <<part, streamVars>>
      [] part = "transport" -> <<part, transportVars>>
      [] part = "onebot" -> <<part, oneBotVars>>
      [] part = "gateway" -> <<part, qqVars>>
      [] part = "qqclient" -> <<part, clientVars>>
      [] part = "telegram" -> <<part, tgVars>>
      [] part = "cli" -> <<part, cliVars>>
      [] part = "rollback" -> <<part, fileVars>>
      [] part = "text" -> <<part, textVars>>
      [] part = "runner" -> <<part, runnerVars>>
      [] part = "skills" -> <<part, skillVars>>
      [] part = "catalog" -> <<part, catalogVars>>
      [] part = "memory" -> <<part, memoryVars>>

SuiteSpec == SuiteInit /\ [][SuiteNext]_suiteVars

-----------------------------------------------------------------------------
\* Sessions: an idle binding has a timer and a timer a binding it may still retire, caches go
\* with their sessions; a session has one naming task at a time.
SessionsSafe ==
    /\ part = "control" => ControlTypeOK /\ IdleBindingsTimed /\ TimersCounted /\ TrackedAreCurrent /\
       CachesReleased
    /\ part = "naming" => NamingTypeOK /\ OneNamingTask

\* Background work: a cron report is delivered by one worker and from its own round, a job runs
\* once at a time, no wake of the scheduler is lost and no entry is stale but of a job that could
\* not be read; an event is executed once, is stranded only by a write that failed and is called
\* completed only when everybody got its report.
BackgroundSafe ==
    /\ part = "delivery" => CronTypeOK /\ OneDelivery /\ ReportOfItsRound
    /\ part = "manager" => ManagerTypeOK /\ NoStaleEntry /\ WakeNotLost /\ OneRunPerJob
    /\ part = "elnis" => ElnisTypeOK /\ ExecutedOnce /\ NothingStranded /\ OneDeliverer /\
       CompletedIsDelivered

\* Signals, the hook host and the program: the tasks of a lane run one by one and none waits
\* without a worker; a hook has one process and what was stopped stays stopped; an event goes to
\* the instance that holds its lease; shared values and media leases are counted and indexed
\* exactly; and done is said last; resources are closed after all that uses them, no line is in a
\* call when it is closed, and a program that ends in time leaves nothing behind.
HostSafe ==
    /\ part = "queue" => QueueTypeOK /\ LaneSerial /\ WorkHasWorker /\ NoLostWakeup /\ DoneIsDone
    /\ part = "bus" => BusTypeOK /\ ConnectionDoneLast /\ BusJoinsCallbacks
    /\ part = "worker" => WorkerTypeOK /\ OneProcess /\ StopMeansStopped /\ DoneClosedOnce /\
       RestartScheduled /\ ReloadNotForgotten /\ HostDoneLast
    /\ part = "routes" => RoutesTypeOK /\ WorkCounted /\ LeaseIsLive /\ RouteSerial /\ TransientOwned /\
       RoutesClosedLast
    /\ part = "shared" => SharedTypeOK /\ SizeCounted /\ IndexAgrees /\ NotOverslept
    /\ part = "lease" => MediaTypeOK /\ LeaseIndexed /\ ReferenceOwned /\ UsedIsHeld
    /\ part = "pipeline" => PipeTypeOK /\ ReloadedAsFresh /\ PluginsWhole /\ EventOfSuccesses /\ ErrorsEnd /\
       ClosedLast /\ ServedUntilClose
    /\ part = "rules" => RuleTypeOK /\ NoProcessLeft /\ ResultOfGoodExit /\ UnmatchedLeavesNothing /\
       CallsReadOnly /\ PassThroughDecides
    /\ part = "app" => AppTypeOK /\ ReleasedLast /\ NoCallIntoClosed /\ CleanExit /\ FaultReturned

\* Media objects with several callers: one that is held can be read, one that is deleted is
\* referenced by nobody, the references counted are those that exist, and a temporary one has
\* somebody who releases it.
MediaSafe ==
    /\ part = "media" => MediaObjectTypeOK /\ HeldReadable /\ AvailableHasContent /\ DyingUnreferenced /\
       ReferencesAgree /\ TemporaryHasReleaser

\* The dialogue with the model: what is stored can be loaded, every tool call has its one answer
\* and its slot, a sealed history is forked and not written, and inputs are consumed once and in
\* order; a reply reported as a success is the whole one, with every tool call assembled once,
\* what the user sees is text of the attempt under way, and a compaction is exactly one.
DialogueSafe ==
    /\ part = "dialogue" => DialogueTypeOK /\ HistoryLoads /\ AttemptUpToDate /\ CallsAnswered /\ SlotsAgree /\
       SealedForks /\ DefinedOnce /\ ConsumedInOrder
    /\ part = "stream" => StreamTypeOK /\ WholeReply /\ ScreenOfAttempt /\ ObservedOnce /\
       NothingLeftOfAttempt /\ CompactionExact

\* The platforms: a request gets the answer to its own echo, no socket and no goroutine outlives
\* its adapter, a message or update is handed on once and none is skipped, a reply number is
\* never used twice; every medium held for a command line client has somebody who releases it,
\* and the program runs locally only when no server was reached.
PlatformsSafe ==
    /\ part = "transport" => TransportTypeOK /\ OwnAnswer /\ WaitersKnown /\ NoSocketLeft /\
       TransportDoneLast
    /\ part = "onebot" => OneBotTypeOK /\ OneBotQuiet /\ LinkOutlivesWork /\ OneBotReleased /\
       NoRepeatedMessage
    /\ part = "gateway" => QQTypeOK /\ QQEventsOnce /\ OneHeartbeat /\ QQQuiet /\ QQReleasedLast
    /\ part = "qqclient" => QQClientTypeOK /\ ReplyNumbersUnique /\ PostedOnce
    /\ part = "telegram" => TelegramTypeOK /\ UpdatesOnce /\ NoUpdateLost /\ TelegramQuiet /\
       OperationsJoined
    /\ part = "cli" => CliTypeOK /\ HoldsOwned /\ GrantsHeld /\ NobodyLeft /\ CliDoneLast /\ CleanStop /\
       FallbackUnserved

\* File edits: one operation at a time per file, backups that belong to a live session and stay
\* in their limits, nothing written but what was approved; edits of a batch happen at once and do
\* to the lines what they say; the diff shown is the edit.
FilesSafe ==
    /\ part = "rollback" => FileTypeOK /\ OneAtATime /\ BackupsAgree /\ ApprovedOnly
    /\ part = "text" => EditsAreSimultaneous /\ LineEditsKeepLines /\ DiffIsOfTheEdit /\ HunksPatch /\
       EndingsKept /\ WindowsCover

\* Tools: what runs was approved and is what was shown, every call of a batch has one result and
\* none is left running; the registered skills are one whole scan and a write that fails is
\* undone; a search for tools finds each once and only what may be used, and the remote tools of
\* a session are whole groups; after a synchronization the index of the long memories is that of
\* their directory, and the migration of the resident ones loses nothing.
ToolsSafe ==
    /\ part = "runner" => RunnerTypeOK /\ NothingLeftRunning /\ RanAsApproved /\ GrantsAsked /\
       SealedWhenFull /\ QueuedOnce /\ DiscoveriesKept
    /\ part = "skills" => SkillsTypeOK /\ RegistryWhole /\ RegisteredOnDisk /\ FailedWriteUndone /\
       BuiltAsShown /\ LoadedWhenTold /\ ToolsDoneLast
    /\ part = "catalog" => CatalogTypeOK /\ FoundOnce /\ FoundAllowed /\ BackgroundDeclares /\ GroupsWhole /\
       TagCacheFresh
    /\ part = "memory" => MemoryTypeOK /\ SyncedExact /\ SyncAdmissible /\ SearchedIndexed /\
       OldMemoriesKept

\* What sessions, background work, signals, hooks and stored data never do in a step: retire a
\* binding in use or before its deadline, rename what a user named, send a report again, disable
\* a job that is not delivered, leave a final status, replace a result, act on a stale timer,
\* reclaim early.
ServiceSteps ==
    /\ BusyKeepsBinding /\ ExpiresAfterDeadline /\ TitleKept /\ NoResend /\ DisabledWhenDelivered /\
       FinalStays /\ ResultsKept /\ StaleTimerHarmless /\ NotPrunedEarly /\ NotReclaimedEarly /\
       HistoryReleasedWhenGone

\* What the dialogue, the platforms, file edits and tools never do in a step: change a sealed
\* history or store half a branch, try a model again without a reason or beyond the budget, let
\* the late error of an old socket hit the new one, replace a newer token by an older one,
\* overwrite what they have not seen, use a backup that is gone, replace a result of a tool,
\* write over a skill or a memory that was not shown, let something in once the server closes.
TalkSteps ==
    /\ SealedForever /\ BranchWhole /\ RetriesJustified /\ LateErrorHarmless /\ CacheNewest /\
       NothingNewWhenClosing /\ NoBlindWrite /\ BackupUsedOnce /\ ResultsFinal /\ ShownOnly /\ LoadedStays /\
       MemoriesWritten
=============================================================================
