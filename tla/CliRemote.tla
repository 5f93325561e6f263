------------------------------ MODULE CliRemote ------------------------------
(***************************************************************************)
(* The command line over a connection (internal/platform/cli): the server  *)
(* of remote/ with its two stages of closing, its connections, the media   *)
(* they are granted and what runs on their behalf; and the client that     *)
(* dials it, whose failure may allow the program to run locally.           *)
(*                                                                         *)
(* What clients and the agent ask of the server are tasks: "input" and     *)
(* "complete" are messages of a connection, "upload", "download" and       *)
(* "revoke" requests over HTTP, "output" a delivery of the agent, which    *)
(* the server does not wait for.  A step is a critical section of the      *)
(* server's lock, a call of the media service or a write.  A file is named *)
(* by the task that granted it.  A hold of a medium is <<task, "grant">>   *)
(* or <<task, "use">>; PublishUsageFinished ends it.                       *)
(***************************************************************************)
EXTENDS Naturals, FiniteSets

CONSTANTS
    CliConns,      \* connections
    CliClient,     \* the one that a client of this program makes
    CliTasks,      \* task -> [kind, conn, file]
    CliWorlds,     \* what happens together: [tasks, setup], the client started as [name, profile, address]
    MaxCliFaults   \* bound: failing calls and broken connections

ASSUME CliAssumption ==
    /\ CliClient \in CliConns /\ MaxCliFaults \in Nat
    /\ \A W \in CliWorlds : W.tasks \subseteq DOMAIN CliTasks
    /\ \A t \in DOMAIN CliTasks : /\ CliTasks[t].conn \in CliConns
                                  /\ CliTasks[t].kind \in {"input", "complete", "upload", "download", "revoke", "output"}
    /\ DOMAIN CliTasks \cap CliConns = {} /\ "close" \notin DOMAIN CliTasks \cup CliConns  \* who publishes what

VARIABLES
    cliServer,   \* RemoteServer: its listener, its two stages of closing
    cliLink,     \* each connection: the goroutine of handleWebSocket, registered, broken
    cliGranted,  \* files of each connection
    held,        \* holds of the media service
    releasing,   \* <<who, hold>>: taken under the lock, the end of the usage to be published by who
    cliTask,     \* where each task is
    cli,         \* RemoteClient and how it was started
    cliFaults,
    cliWorld     \* the tasks of this behaviour, which never change

cliVars == <<cliServer, cliLink, cliGranted, held, releasing, cliTask, cli, cliFaults, cliWorld>>

Conn(t) == CliTasks[t].conn
Is(t, kinds) == CliTasks[t].kind \in kinds
CliFault == cliFaults < MaxCliFaults /\ cliFaults' = cliFaults + 1

CliInit ==
    /\ cliServer = [start |-> "no", listener |-> "none", serve |-> "no", frontend |-> FALSE,
                    closing |-> FALSE, done |-> FALSE, release |-> "no", failed |-> FALSE]
    /\ cliLink = [c \in CliConns |-> [at |-> "away", online |-> FALSE, broken |-> FALSE]]
    /\ cliGranted = [c \in CliConns |-> {}]
    /\ held = {} /\ releasing = {}
    /\ cliTask = [t \in DOMAIN CliTasks |-> "new"]
    /\ \E W \in CliWorlds :
          /\ cliWorld = W.tasks
          /\ cli = [setup |-> W.setup, at |-> "new", err |-> "none", reads |-> FALSE, ui |-> FALSE]
    /\ cliFaults = 0

-----------------------------------------------------------------------------
(* The life of the server.                                                 *)
Starting == cliServer.start = "listening"

CliStart ==
    /\ cliServer.start = "no" /\ ~cliServer.closing
    /\ cliServer' = [cliServer EXCEPT !.start = "listening"]
    /\ UNCHANGED <<cliLink, cliGranted, held, releasing, cliTask, cli, cliFaults, cliWorld>>

\* A listener that is ready when the closing has begun is closed at once.
ListenerOpened == IF cliServer.closing THEN "closed" ELSE "open"

\* Listen succeeds, and the static frontend is prepared beside it; or it fails, which is no failure
\* of the server when the closing canceled it.
CliListen ==
    /\ Starting
    /\ \/ /\ cliServer' = [cliServer EXCEPT !.start = "started", !.listener = ListenerOpened, !.serve = "on",
                                      !.frontend = ~cliServer.closing]
          /\ UNCHANGED cliFaults
       \/ /\ cliServer.closing
          /\ cliServer' = [cliServer EXCEPT !.start = "failed", !.serve = "over"]
          /\ UNCHANGED cliFaults
       \/ /\ CliFault
          /\ cliServer' = [cliServer EXCEPT !.start = "failed", !.serve = "over", !.closing = TRUE, !.failed = TRUE]
    /\ UNCHANGED <<cliLink, cliGranted, held, releasing, cliTask, cli, cliWorld>>

FrontendReady ==
    /\ cliServer.frontend
    /\ cliServer' = [cliServer EXCEPT !.frontend = FALSE]
    /\ UNCHANGED <<cliLink, cliGranted, held, releasing, cliTask, cli, cliFaults, cliWorld>>

\* Serve returns: its listener was closed, by this server or in some other way.
ServeEnds ==
    /\ cliServer.serve = "on"
    /\ \/ /\ cliServer.closing
          /\ cliServer' = [cliServer EXCEPT !.serve = "over", !.failed = @ \/ cliServer.listener # "closed"]
          /\ UNCHANGED cliFaults
       \/ CliFault /\ cliServer' = [cliServer EXCEPT !.serve = "over", !.failed = TRUE]
    /\ UNCHANGED <<cliLink, cliGranted, held, releasing, cliTask, cli, cliWorld>>

\* The shutdown, the end of the context, or what follows the end of Serve.
CliBeginClose ==
    /\ ~cliServer.closing
    /\ cliServer' = [cliServer EXCEPT !.closing = TRUE, !.listener = IF @ = "open" THEN "closed" ELSE @]
    /\ UNCHANGED <<cliLink, cliGranted, held, releasing, cliTask, cli, cliFaults, cliWorld>>

TaskOver == {"new", "over"}

\* The server's WaitGroup work: handshakes, messages and requests that were let in, the frontend.
CliWork ==
    {c \in CliConns : cliLink[c].at = "hello"} \cup
    {t \in DOMAIN CliTasks : cliTask[t] \notin TaskOver /\ ~Is(t, {"output"})} \cup
    {x \in {"frontend"} : cliServer.frontend}

IntakeIsOver ==
    /\ cliServer.start # "no" => ~Starting /\ cliServer.serve = "over"
    /\ CliWork = {}

CliDone ==
    /\ cliServer.closing /\ ~cliServer.done /\ IntakeIsOver
    /\ cliServer' = [cliServer EXCEPT !.done = TRUE]
    /\ UNCHANGED <<cliLink, cliGranted, held, releasing, cliTask, cli, cliFaults, cliWorld>>

\* Close: closeResources ends what the connections run on.
CliClose ==
    /\ cliServer.done /\ cliServer.release = "no"
    /\ cliServer' = [cliServer EXCEPT !.release = "begun"]
    /\ UNCHANGED <<cliLink, cliGranted, held, releasing, cliTask, cli, cliFaults, cliWorld>>

-----------------------------------------------------------------------------
(* Registered connections and their files.                                 *)

\* What removeClient takes under the lock, to release it outside.
TakenFiles(who, c) == {<<who, <<f, "grant">> >> : f \in cliGranted[c]}

RemoveClient(who, c, l) ==
    /\ cliLink' = [cliLink EXCEPT ![c] = [l EXCEPT !.online = FALSE]]
    /\ cliGranted' = [cliGranted EXCEPT ![c] = {}]
    /\ releasing' = releasing \cup TakenFiles(who, c)

\* PublishUsageFinished
PublishUsage(x) ==
    /\ x \in releasing
    /\ releasing' = releasing \ {x} /\ held' = held \ {x[2]}
    /\ UNCHANGED <<cliServer, cliLink, cliGranted, cliTask, cli, cliFaults, cliWorld>>

Published(who) == \A x \in releasing : x[1] # who

\* closeAll
CloseConn(c) ==
    /\ cliServer.release = "begun" /\ cliLink[c].online
    /\ RemoveClient("close", c, [cliLink[c] EXCEPT !.broken = TRUE])
    /\ UNCHANGED <<cliServer, held, cliTask, cli, cliFaults, cliWorld>>

ConnsOver == \A c \in CliConns : cliLink[c].at \in {"away", "gone"}

CliCloseDone ==
    /\ cliServer.release = "begun"
    /\ \A c \in CliConns : ~cliLink[c].online
    /\ ConnsOver /\ Published("close")
    /\ cliServer' = [cliServer EXCEPT !.release = "done"]
    /\ UNCHANGED <<cliLink, cliGranted, held, releasing, cliTask, cli, cliFaults, cliWorld>>

-----------------------------------------------------------------------------
(* handleWebSocket.                                                        *)

\* Somebody dials: the client, or the peer of the tasks of this behaviour.
Dialing(c) == IF c = CliClient THEN cli.at = "dial" ELSE \E t \in cliWorld : Conn(t) = c

\* The listener has accepted a connection; its handler may come to run later.
Accept(c) ==
    /\ cliLink[c].at = "away" /\ cliServer.serve # "no" /\ Dialing(c)
    /\ \/ cliServer.closing /\ cliLink' = [cliLink EXCEPT ![c].at = "gone"]
       \/ ~cliServer.closing /\ cliLink' = [cliLink EXCEPT ![c].at = "hello"]
    /\ UNCHANGED <<cliServer, cliGranted, held, releasing, cliTask, cli, cliFaults, cliWorld>>

\* addClient
AddsClient == ~cliServer.closing

\* The hello was authorized and the connection is registered; or it was not, did not come in time
\* or was canceled.
ServeHello(c) ==
    /\ cliLink[c].at = "hello"
    /\ \/ AddsClient /\ ~cliLink[c].broken /\ cliLink' = [cliLink EXCEPT ![c].at = "greeting", ![c].online = TRUE]
       \/ cliLink' = [cliLink EXCEPT ![c].at = "gone"]
    /\ UNCHANGED <<cliServer, cliGranted, held, releasing, cliTask, cli, cliFaults, cliWorld>>

Greet(c) ==
    /\ cliLink[c].at = "greeting"
    /\ cliLink' = [cliLink EXCEPT ![c].at = IF cliLink[c].broken THEN "leaving" ELSE "reading"]
    /\ UNCHANGED <<cliServer, cliGranted, held, releasing, cliTask, cli, cliFaults, cliWorld>>

ReadEnds(c) ==
    /\ cliLink[c].at = "reading" /\ (cliLink[c].broken \/ cliServer.release # "no")
    /\ cliLink' = [cliLink EXCEPT ![c].at = "leaving"]
    /\ UNCHANGED <<cliServer, cliGranted, held, releasing, cliTask, cli, cliFaults, cliWorld>>

ConnLeaves(c) ==
    /\ cliLink[c].at = "leaving"
    /\ RemoveClient(c, c, [cliLink[c] EXCEPT !.at = "removed"])
    /\ UNCHANGED <<cliServer, held, cliTask, cli, cliFaults, cliWorld>>

ConnGone(c) ==
    /\ cliLink[c].at = "removed" /\ Published(c)
    /\ cliLink' = [cliLink EXCEPT ![c].at = "gone"]
    /\ UNCHANGED <<cliServer, cliGranted, held, releasing, cliTask, cli, cliFaults, cliWorld>>

\* The network, or the peer, ends the connection.
Breaks(c) ==
    /\ cliLink[c].at \notin {"away", "gone"} /\ ~cliLink[c].broken /\ CliFault
    /\ cliLink' = [cliLink EXCEPT ![c].broken = TRUE]
    /\ UNCHANGED <<cliServer, cliGranted, held, releasing, cliTask, cli, cliWorld>>

-----------------------------------------------------------------------------
(* Tasks.                                                                  *)
TaskAt(t, to) == cliTask' = [cliTask EXCEPT ![t] = to]
FileOf(t) == CliTasks[t].file

\* The gate under the lock.
LetsIn(t) == ~cliServer.closing

\* A message of a connection: what comes too late is dropped.
Message(t) ==
    /\ t \in cliWorld /\ Is(t, {"input", "complete"}) /\ cliTask[t] = "new"
    /\ cliLink[Conn(t)].at = "reading" /\ ~cliLink[Conn(t)].broken
    /\ TaskAt(t, IF ~LetsIn(t) THEN "over" ELSE IF Is(t, {"input"}) THEN "check" ELSE "run")
    /\ UNCHANGED <<cliServer, cliLink, cliGranted, held, releasing, cli, cliFaults, cliWorld>>

\* A request over HTTP with the token of its connection, which is known while the connection is.
Request(t) ==
    /\ t \in cliWorld /\ Is(t, {"upload", "download", "revoke"}) /\ cliTask[t] = "new"
    /\ cliLink[Conn(t)].at \in {"reading", "leaving", "removed", "gone"}
    /\ TaskAt(t, IF ~LetsIn(t) \/ ~cliLink[Conn(t)].online THEN "over"
               ELSE CASE Is(t, {"upload"}) -> "import" [] Is(t, {"download"}) -> "check" [] OTHER -> "take")
    /\ UNCHANGED <<cliServer, cliLink, cliGranted, held, releasing, cli, cliFaults, cliWorld>>

\* The agent sends a medium to a connection it has found, even to one that is gone by now.
Output(t) ==
    /\ t \in cliWorld /\ Is(t, {"output"}) /\ cliTask[t] = "new"
    /\ cliLink[Conn(t)].at \in {"reading", "leaving", "removed", "gone"}
    /\ TaskAt(t, "hold")
    /\ UNCHANGED <<cliServer, cliLink, cliGranted, held, releasing, cli, cliFaults, cliWorld>>

\* The import of an upload; it is given up when the closing cancels it.
Import(t) ==
    /\ cliTask[t] = "import"
    /\ \/ TaskAt(t, "hold") /\ UNCHANGED cliFaults
       \/ cliServer.closing /\ TaskAt(t, "over") /\ UNCHANGED cliFaults
       \/ CliFault /\ TaskAt(t, "over")
    /\ UNCHANGED <<cliServer, cliLink, cliGranted, held, releasing, cli, cliWorld>>

\* grantFile: the medium is held before the lock is taken.
Hold(t) ==
    /\ cliTask[t] = "hold"
    /\ \/ held' = held \cup {<<t, "grant">>} /\ TaskAt(t, "register") /\ UNCHANGED cliFaults
       \/ CliFault /\ TaskAt(t, "over") /\ UNCHANGED held
    /\ UNCHANGED <<cliServer, cliLink, cliGranted, releasing, cli, cliWorld>>

StillOnline(t) == cliLink[Conn(t)].online

RegisterGrant(t) ==
    /\ cliTask[t] = "register"
    /\ \/ /\ StillOnline(t)
          /\ cliGranted' = [cliGranted EXCEPT ![Conn(t)] = @ \cup {t}]
          /\ TaskAt(t, "respond") /\ UNCHANGED releasing
       \/ /\ ~StillOnline(t)
          /\ releasing' = releasing \cup {<<t, <<t, "grant">> >>}
          /\ TaskAt(t, "ending") /\ UNCHANGED cliGranted
    /\ UNCHANGED <<cliServer, cliLink, held, cli, cliFaults, cliWorld>>

\* The client is told of its file.  When it cannot be told of an upload the grant is revoked; a
\* connection that cannot be written to is removed.
Respond(t) ==
    /\ cliTask[t] = "respond"
    /\ \/ ~cliLink[Conn(t)].broken /\ TaskAt(t, "over") /\ UNCHANGED <<cliLink, cliGranted, releasing, cliFaults>>
       \/ /\ (cliLink[Conn(t)].broken /\ UNCHANGED cliFaults) \/ CliFault
          /\ TaskAt(t, "ending")
          /\ IF Is(t, {"upload"})
             THEN /\ cliGranted' = [cliGranted EXCEPT ![Conn(t)] = @ \ {t}]
                  /\ releasing' = releasing \cup {<<t, <<f, "grant">> >> : f \in cliGranted[Conn(t)] \cap {t}}
                  /\ UNCHANGED cliLink
             ELSE RemoveClient(t, Conn(t), [cliLink[Conn(t)] EXCEPT !.broken = TRUE])
    /\ UNCHANGED <<cliServer, held, cli, cliWorld>>

\* The revocation of a file by its owner.
Take(t) ==
    /\ cliTask[t] = "take"
    /\ cliGranted' = [cliGranted EXCEPT ![Conn(t)] = @ \ {FileOf(t)}]
    /\ releasing' = releasing \cup {<<t, <<f, "grant">> >> : f \in cliGranted[Conn(t)] \cap {FileOf(t)}}
    /\ TaskAt(t, "ending")
    /\ UNCHANGED <<cliServer, cliLink, held, cli, cliFaults, cliWorld>>

\* borrowFiles: the grant is looked up under the lock, the medium held once more outside.
Check(t) ==
    /\ cliTask[t] = "check"
    /\ TaskAt(t, IF FileOf(t) \in cliGranted[Conn(t)] THEN "borrow" ELSE "over")
    /\ UNCHANGED <<cliServer, cliLink, cliGranted, held, releasing, cli, cliFaults, cliWorld>>

Borrow(t) ==
    /\ cliTask[t] = "borrow"
    /\ \/ held' = held \cup {<<t, "use">>} /\ TaskAt(t, "run") /\ UNCHANGED cliFaults
       \/ CliFault /\ TaskAt(t, "over") /\ UNCHANGED held
    /\ UNCHANGED <<cliServer, cliLink, cliGranted, releasing, cli, cliWorld>>

\* The handler of the message, the download or the completion returns.
RunTask(t) ==
    /\ cliTask[t] = "run"
    /\ \/ Is(t, {"complete"}) /\ TaskAt(t, "over") /\ UNCHANGED releasing
       \/ /\ ~Is(t, {"complete"})
          /\ releasing' = releasing \cup {<<t, <<t, "use">> >>}
          /\ TaskAt(t, "ending")
    /\ UNCHANGED <<cliServer, cliLink, cliGranted, held, cli, cliFaults, cliWorld>>

CliTaskEnds(t) ==
    /\ cliTask[t] = "ending" /\ Published(t)
    /\ TaskAt(t, "over")
    /\ UNCHANGED <<cliServer, cliLink, cliGranted, held, releasing, cli, cliFaults, cliWorld>>

-----------------------------------------------------------------------------
(* The client: RunClient, RemoteClient.run.                                *)
ClientEnds(e) == cli' = [cli EXCEPT !.at = "over", !.err = e]
HangUp == cliLink' = [cliLink EXCEPT ![CliClient].broken = TRUE]
ClientOnly == UNCHANGED <<cliServer, cliGranted, held, releasing, cliTask, cliWorld>>

\* The connection is selected and its token resolved.
CliSelect ==
    /\ cli.at = "new"
    /\ \/ cli.setup.profile # "ready" /\ ClientEnds("unconfigured") /\ UNCHANGED cliFaults
       \/ cli.setup.profile = "ready" /\ cli' = [cli EXCEPT !.at = "dial"] /\ UNCHANGED cliFaults
       \/ cli.setup.profile = "ready" /\ CliFault /\ ClientEnds("failed")
    /\ UNCHANGED cliLink /\ ClientOnly

\* websocket.Dial.  The server that is stopping has answered, which is no failure of the dial.
Dial ==
    /\ cli.at = "dial"
    /\ \/ /\ cliLink[CliClient].at \notin {"away", "gone"} /\ cli' = [cli EXCEPT !.at = "hello"]
          /\ UNCHANGED cliFaults
       \/ cliLink[CliClient].at = "gone" /\ ClientEnds("failed") /\ UNCHANGED cliFaults
       \/ cliLink[CliClient].at = "away" /\ cliServer.listener # "open"
          /\ ClientEnds("unavailable") /\ UNCHANGED cliFaults
       \/ cliLink[CliClient].at = "away" /\ CliFault /\ \E e \in {"unavailable", "failed", "canceled"} : ClientEnds(e)
    /\ UNCHANGED cliLink /\ ClientOnly

\* The answer to the hello; every other end of the connection is a failure.
Greeted ==
    /\ cli.at = "hello"
    /\ \/ /\ cliLink[CliClient].at = "reading" /\ ~cliLink[CliClient].broken
          /\ cli' = [cli EXCEPT !.at = "running", !.reads = TRUE, !.ui = TRUE] /\ UNCHANGED <<cliLink, cliFaults>>
       \/ /\ cliLink[CliClient].at \notin {"hello", "greeting"} \/ cliLink[CliClient].broken
          /\ ClientEnds("failed") /\ HangUp /\ UNCHANGED cliFaults
       \/ CliFault /\ ClientEnds("canceled") /\ HangUp
    /\ ClientOnly

\* The first of the two goroutines that ends, or the end of the context, stops the other one.
ClientStops(e, c) ==
    IF cli.at = "running"
    THEN cli' = [c EXCEPT !.at = "stopping", !.err = e] /\ HangUp
    ELSE cli' = c /\ UNCHANGED cliLink

ClientReadEnds ==
    /\ cli.reads
    /\ cli.at = "stopping" \/ cliLink[CliClient].broken \/ cliLink[CliClient].at # "reading"
    /\ ClientStops("failed", [cli EXCEPT !.reads = FALSE])
    /\ UNCHANGED cliFaults /\ ClientOnly

\* The display ends: the user is done, or the terminal fails.
DisplayEnds ==
    /\ cli.ui
    /\ \/ ClientStops("none", [cli EXCEPT !.ui = FALSE]) /\ UNCHANGED cliFaults
       \/ CliFault /\ ClientStops("failed", [cli EXCEPT !.ui = FALSE])
    /\ ClientOnly

CliInterrupted ==
    /\ cli.at = "running" /\ CliFault
    /\ ClientStops("canceled", cli)
    /\ ClientOnly

ClientOver ==
    /\ cli.at = "stopping" /\ ~cli.reads /\ ~cli.ui
    /\ cli' = [cli EXCEPT !.at = "over"]
    /\ UNCHANGED <<cliLink, cliFaults>> /\ ClientOnly

\* classifyClientResult: the program may run locally instead.
FallsBack ==
    /\ cli.at = "over" /\ cli.setup.name = ""
    /\ cli.err = "unconfigured" \/ (cli.err = "unavailable" /\ cli.setup.address = "local")

ClientSteps == CliSelect \/ Dial \/ Greeted \/ ClientReadEnds \/ DisplayEnds \/ CliInterrupted \/ ClientOver

ServerSteps ==
    \/ CliStart \/ CliListen \/ FrontendReady \/ ServeEnds \/ CliBeginClose \/ CliDone \/ CliClose \/ CliCloseDone
    \/ \E x \in releasing : PublishUsage(x)

ConnSteps(c) ==
    CloseConn(c) \/ Accept(c) \/ ServeHello(c) \/ Greet(c) \/ ReadEnds(c) \/ ConnLeaves(c) \/ ConnGone(c) \/ Breaks(c)

TaskSteps(t) ==
    \/ Message(t) \/ Request(t) \/ Output(t) \/ Import(t) \/ Hold(t) \/ RegisterGrant(t) \/ Respond(t)
    \/ Take(t) \/ Check(t) \/ Borrow(t) \/ RunTask(t) \/ CliTaskEnds(t)

CliNext ==
    \/ ServerSteps \/ ClientSteps
    \/ \E c \in CliConns : ConnSteps(c)
    \/ \E t \in DOMAIN CliTasks : TaskSteps(t)

CliSpec == CliInit /\ [][CliNext]_cliVars

-----------------------------------------------------------------------------
CliTypeOK ==
    /\ cliServer.start \in {"no", "listening", "started", "failed"}
    /\ cliServer.listener \in {"none", "open", "closed"}
    /\ cliServer.serve \in {"no", "on", "over"} /\ cliServer.release \in {"no", "begun", "done"}
    /\ \A c \in CliConns :
          cliLink[c].at \in {"away", "hello", "greeting", "reading", "leaving", "removed", "gone"}
    /\ \A c \in CliConns : cliGranted[c] \subseteq DOMAIN CliTasks
    /\ \A x \in releasing : x[1] \in DOMAIN CliTasks \cup CliConns \cup {"close"} /\ x[2] \in held
    /\ cli.at \in {"new", "dial", "hello", "running", "stopping", "over"}
    /\ cliFaults \in 0..MaxCliFaults

\* Every hold of the media service belongs to somebody who will end it: a connection that is registered, the
\* request that is about to register it or that uses the medium, or somebody who has taken it to publish its end.
HoldOwned(h) ==
    \/ \E x \in releasing : x[2] = h
    \/ h[2] = "use" /\ cliTask[h[1]] = "run"
    \/ h[2] = "grant" /\ cliTask[h[1]] = "register"
    \/ h[2] = "grant" /\ h[1] \in cliGranted[Conn(h[1])] /\ cliLink[Conn(h[1])].online

HoldsOwned == \A h \in held : HoldOwned(h)

\* A file is granted to registered connections only, and stays held as long as it is.
GrantsHeld == \A c \in CliConns : \A f \in cliGranted[c] : cliLink[c].online /\ <<f, "grant">> \in held

\* When the release is done no goroutine of a connection is left, and a medium is held by a delivery
\* alone: the one it was granted for, or one that has taken it from the connection it could not write to.
HeldByDelivery(h) ==
    Is(h[1], {"output"}) \/ \E x \in releasing : x[2] = h /\ x[1] \in DOMAIN CliTasks /\ Is(x[1], {"output"})

NobodyLeft ==
    cliServer.release = "done" =>
        /\ \A c \in CliConns : ~cliLink[c].online /\ cliLink[c].at \in {"away", "gone"}
        /\ \A h \in held : HeldByDelivery(h)

\* done is closed last: nothing that was let in runs any more and Serve has returned.
CliDoneLast == cliServer.done => CliWork = {} /\ cliServer.serve # "on" /\ cliServer.listener # "open"

\* A server that nothing has disturbed ends without a failure, in whatever order it was started and closed.
CleanStop == cliFaults = 0 => ~cliServer.failed

\* A client that has reached a server, if only one that is stopping, never lets the program run locally.
FallbackUnserved == FallsBack => cliLink[CliClient].at = "away"

\* Nothing is let in once the closing has begun: no connection is registered and no message or request is
\* served.
LetInBefore ==
    cliServer.closing =>
        /\ \A c \in CliConns : cliLink'[c].online => cliLink[c].online
        /\ \A t \in DOMAIN CliTasks : cliTask[t] = "new" /\ ~Is(t, {"output"}) => cliTask'[t] \in TaskOver

NothingNewWhenClosing == [][LetInBefore]_cliVars
=============================================================================
