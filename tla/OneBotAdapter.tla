--------------------------- MODULE OneBotAdapter ---------------------------
(***************************************************************************)
(* The OneBot adapter (internal/platform/qq-onebot: lifecycle.go,          *)
(* message.go, send.go; platform/share/backoff.go): it keeps one           *)
(* connection, reads messages from it and hands each to its own goroutine, *)
(* sends on connections of its own where asked to, and closes in two       *)
(* stages: first the ingress, then the connections.  OneBotTransport       *)
(* models the connection itself.                                           *)
(***************************************************************************)
EXTENDS Naturals, Sequences

CONSTANTS
    MessageIDs,     \* platform ids of inbound messages; 0 is "no id"
    MaxMessages,    \* messages that are ever accepted
    MaxDials,       \* connections that are ever made
    Base, Cap       \* reconnection delays: the first and the largest

ASSUME OneBotAssumption == Base \in Nat \ {0} /\ Cap \in Nat /\ Cap >= Base /\ MessageIDs \subseteq Nat /\ MaxDials \in Nat

VARIABLES
    parent,      \* the context given to Start is live
    oneBot,      \* the adapter: started, closing, done, and the release of its resources
    redial,      \* runConnections
    dials,       \* connections made
    linked,      \* the connection is up
    inbound,     \* readLoop: "none", "reading", "ended"
    lastID,      \* lastMessageID
    tasks,       \* the accepted messages, in the order of acceptance
    delay,       \* Backoff
    side         \* one send on a temporary connection

oneBotVars == <<parent, oneBot, redial, dials, linked, inbound, lastID, tasks, delay, side>>

Busy == {"accepted", "ready"}

OneBotTypeOK ==
    /\ parent \in BOOLEAN /\ linked \in BOOLEAN /\ dials \in 0 .. MaxDials
    /\ oneBot \in [started : BOOLEAN, closing : BOOLEAN, done : BOOLEAN, release : {"no", "begun", "done"}]
    /\ redial \in {"off", "dialing", "watching", "sleeping", "ended"}
    /\ inbound \in {"none", "reading", "ended"} /\ lastID \in MessageIDs \cup {0}
    /\ tasks \in Seq([id : MessageIDs, at : Busy \cup {"dropped", "handled"}, recorded : BOOLEAN])
    /\ delay \in Base .. Cap
    /\ side \in {"none", "dialing", "sending", "closing", "gone"}

OneBotInit ==
    /\ parent = TRUE /\ redial = "off" /\ dials = 0 /\ linked = FALSE /\ inbound = "none" /\ lastID = 0
    /\ oneBot = [started |-> FALSE, closing |-> FALSE, done |-> FALSE, release |-> "no"]
    /\ tasks = <<>> /\ delay = Base /\ side = "none"

\* The work context: the parent's, cancelled by BeginClose.
WorkLive == parent /\ ~oneBot.closing

\* Mutant: the delay is not capped.
NextDelayUncapped(d) == d * 2

\* Delay doubles what the next failure waits.
NextDelay(d) == IF d * 2 > Cap THEN Cap ELSE d * 2

-----------------------------------------------------------------------------
(* Starting and the two stages of closing.                                  *)

\* BeginClose cancels the work context and the dials of temporary connections.
Closing(o) == [o EXCEPT !.closing = TRUE]

\* A disabled adapter, or one whose context has ended, closes at once.
OneBotStart(enabled) ==
    /\ ~oneBot.started /\ ~oneBot.closing
    /\ IF enabled /\ parent
       THEN redial' = "dialing" /\ oneBot' = [oneBot EXCEPT !.started = TRUE]
       ELSE redial' = "ended" /\ oneBot' = Closing([oneBot EXCEPT !.started = TRUE])
    /\ UNCHANGED <<parent, dials, linked, inbound, lastID, tasks, delay, side>>

OneBotBeginClose ==
    /\ ~oneBot.closing /\ oneBot' = Closing(oneBot)
    /\ UNCHANGED <<parent, redial, dials, linked, inbound, lastID, tasks, delay, side>>

\* The parent's context ends; AfterFunc will call BeginClose.
ParentEnds ==
    /\ parent /\ parent' = FALSE
    /\ UNCHANGED <<oneBot, redial, dials, linked, inbound, lastID, tasks, delay, side>>

\* Mutant: messages in hand are not waited for.
IngressOverUnjoined == oneBot.started => redial = "ended"

\* What the goroutine of BeginClose waits for.
IngressOver == /\ oneBot.started => redial = "ended"
               /\ \A i \in DOMAIN tasks : tasks[i].at \notin Busy

IngressDone ==
    /\ oneBot.closing /\ ~oneBot.done /\ IngressOver
    /\ oneBot' = [oneBot EXCEPT !.done = TRUE]
    /\ UNCHANGED <<parent, redial, dials, linked, inbound, lastID, tasks, delay, side>>

\* Mutant: the connections are closed as soon as closing has begun.
MayReleaseEarly == oneBot.closing

\* Close waits for done first.
MayRelease == oneBot.done

\* closeResources closes every connection the adapter holds, in parallel.
ReleaseBegin ==
    /\ MayRelease /\ oneBot.release = "no"
    /\ oneBot' = [oneBot EXCEPT !.release = "begun"]
    /\ linked' = FALSE
    /\ side' = IF side = "sending" THEN "closing" ELSE side
    /\ UNCHANGED <<parent, redial, dials, inbound, lastID, tasks, delay>>

\* transports.Wait
TransportsOver == inbound # "reading" /\ side \in {"none", "gone"}

ReleaseDone ==
    /\ oneBot.release = "begun" /\ TransportsOver
    /\ oneBot' = [oneBot EXCEPT !.release = "done"]
    /\ UNCHANGED <<parent, redial, dials, linked, inbound, lastID, tasks, delay, side>>

-----------------------------------------------------------------------------
(* runConnections.                                                          *)

\* Mutant: every connection starts with no remembered message.
AfterConnectForgets == 0

\* lastMessageID survives reconnections.
AfterConnect == lastID

\* Connect succeeds: a reader is started and the delay starts over.
Connected ==
    /\ redial = "dialing" /\ WorkLive /\ dials < MaxDials
    /\ redial' = "watching" /\ linked' = TRUE /\ inbound' = "reading" /\ delay' = Base
    /\ dials' = dials + 1 /\ lastID' = AfterConnect
    /\ UNCHANGED <<parent, oneBot, tasks, side>>

ConnectFails ==
    /\ redial = "dialing" /\ WorkLive
    /\ redial' = "sleeping" /\ delay' = NextDelay(delay)
    /\ UNCHANGED <<parent, oneBot, dials, linked, inbound, lastID, tasks, side>>

\* Mutant: the loop ends with its connection.
DisconnectedForGood ==
    /\ redial = "watching" /\ inbound = "ended" /\ redial' = "ended"
    /\ UNCHANGED <<parent, oneBot, dials, linked, inbound, lastID, tasks, delay, side>>

\* The reader returned: wait, then dial again.
Disconnected ==
    /\ redial = "watching" /\ inbound = "ended"
    /\ redial' = "sleeping" /\ delay' = NextDelay(delay)
    /\ UNCHANGED <<parent, oneBot, dials, linked, inbound, lastID, tasks, side>>

Redial ==
    /\ redial = "sleeping" /\ redial' = "dialing" /\ WorkLive
    /\ UNCHANGED <<parent, oneBot, dials, linked, inbound, lastID, tasks, delay, side>>

\* Mutant: the wait for the reader does not watch the context.
StopDialingIdle ==
    /\ redial \in {"dialing", "sleeping"} /\ ~WorkLive /\ redial' = "ended"
    /\ UNCHANGED <<parent, oneBot, dials, linked, inbound, lastID, tasks, delay, side>>

\* Every wait of the loop also watches the work context.
StopDialing ==
    /\ redial \in {"dialing", "sleeping", "watching"} /\ ~WorkLive
    /\ redial' = "ended"
    /\ UNCHANGED <<parent, oneBot, dials, linked, inbound, lastID, tasks, delay, side>>

LinkBreaks ==
    /\ linked /\ linked' = FALSE
    /\ UNCHANGED <<parent, oneBot, redial, dials, inbound, lastID, tasks, delay, side>>

\* Mutant: the reader waits for the connection loop.
ReadLoopEndsWatched ==
    /\ inbound = "reading" /\ ~linked /\ redial = "watching" /\ inbound' = "ended"
    /\ UNCHANGED <<parent, oneBot, redial, dials, linked, lastID, tasks, delay, side>>

\* The reader outlives the work context: its own context ends with the resources.
ReadLoopEnds ==
    /\ inbound = "reading" /\ ~linked /\ inbound' = "ended"
    /\ UNCHANGED <<parent, oneBot, redial, dials, linked, lastID, tasks, delay, side>>

-----------------------------------------------------------------------------
(* Messages.                                                                *)

\* Mutant: a message is taken as long as the reader runs.
TakesMessageReading(id) == id = 0 \/ id # lastID

\* Under the lock: not while closing, and not the message just seen.
TakesMessage(id) == ~oneBot.closing /\ (id = 0 \/ id # lastID)

AcceptMessage(id) ==
    /\ inbound = "reading" /\ linked /\ Len(tasks) < MaxMessages
    /\ TakesMessage(id)
    /\ lastID' = IF id = 0 THEN lastID ELSE id
    /\ tasks' = Append(tasks, [id |-> id, at |-> "accepted", recorded |-> FALSE])
    /\ UNCHANGED <<parent, oneBot, redial, dials, linked, inbound, delay, side>>

\* handleEvent: the mentioned members, the author replied to, forwarded messages and
\* the quoted one are looked up; all but the first may fail and end the message.
DropMessage(i) ==
    /\ tasks[i].at = "accepted"
    /\ tasks' = [tasks EXCEPT ![i].at = "dropped"]
    /\ UNCHANGED <<parent, oneBot, redial, dials, linked, inbound, lastID, delay, side>>

\* recordChatMessage: a message without an id is not recorded, and a failure is only logged.
PrepareMessage(i) ==
    /\ tasks[i].at = "accepted"
    /\ \E stored \in BOOLEAN : tasks' = [tasks EXCEPT ![i].at = "ready", ![i].recorded = stored /\ tasks[i].id # 0]
    /\ UNCHANGED <<parent, oneBot, redial, dials, linked, inbound, lastID, delay, side>>

\* The handler returns; it honours its context.
HandleMessage(i) ==
    /\ tasks[i].at = "ready"
    /\ tasks' = [tasks EXCEPT ![i].at = "handled"]
    /\ UNCHANGED <<parent, oneBot, redial, dials, linked, inbound, lastID, delay, side>>

-----------------------------------------------------------------------------
(* sendTemporary: dial, send, close; the adapter owns the connection.       *)

\* Mutant: a temporary connection is admitted while the adapter closes.
SideAdmittedAlways == TRUE

\* registerTemporary
SideAdmitted == ~oneBot.closing

SideDial ==
    /\ side = "none" /\ SideAdmitted /\ side' = "dialing"
    /\ UNCHANGED <<parent, oneBot, redial, dials, linked, inbound, lastID, tasks, delay>>

\* Dialling is cancelled by BeginClose; a connection that is made sends under its own context.
SideDialed ==
    /\ side = "dialing"
    /\ side' \in {"closing"} \cup (IF oneBot.closing THEN {} ELSE {"sending"})
    /\ UNCHANGED <<parent, oneBot, redial, dials, linked, inbound, lastID, tasks, delay>>

SideSent ==
    /\ side = "sending" /\ side' = "closing"
    /\ UNCHANGED <<parent, oneBot, redial, dials, linked, inbound, lastID, tasks, delay>>

\* unregisterTemporary, after the connection and its reader have ended.
SideOver ==
    /\ side = "closing" /\ side' = "gone"
    /\ UNCHANGED <<parent, oneBot, redial, dials, linked, inbound, lastID, tasks, delay>>

RedialStep == ConnectFails \/ Disconnected \/ Redial \/ StopDialing
MessageStep == \E i \in DOMAIN tasks : DropMessage(i) \/ PrepareMessage(i) \/ HandleMessage(i)
SideStep == SideDialed \/ SideSent \/ SideOver

OneBotNext ==
    \/ \E e \in BOOLEAN : OneBotStart(e)
    \/ OneBotBeginClose \/ ParentEnds \/ IngressDone \/ ReleaseBegin \/ ReleaseDone
    \/ Connected \/ RedialStep \/ LinkBreaks \/ ReadLoopEnds
    \/ \E id \in MessageIDs : AcceptMessage(id)
    \/ MessageStep \/ SideDial \/ SideStep

OneBotFairness ==
    /\ WF_oneBotVars(RedialStep) /\ WF_oneBotVars(ReadLoopEnds)
    /\ WF_oneBotVars(MessageStep) /\ WF_oneBotVars(SideStep)
    /\ WF_oneBotVars(IngressDone) /\ WF_oneBotVars(ReleaseDone)
    /\ WF_oneBotVars(~parent /\ OneBotBeginClose)
    /\ SF_oneBotVars(Connected)

OneBotSpec == OneBotInit /\ [][OneBotNext]_oneBotVars /\ OneBotFairness

-----------------------------------------------------------------------------
(* Properties.                                                              *)

\* done is announced when no connection will be dialled, no accepted message is
\* being worked on, and none will be accepted (lifecycle.go, BeginClose).
OneBotQuiet ==
    oneBot.done => /\ redial \in {"off", "ended"}
                   /\ \A i \in DOMAIN tasks : tasks[i].at \notin Busy

\* The connections outlive the messages: what is being worked on can still be answered.
LinkOutlivesWork == oneBot.release # "no" => \A i \in DOMAIN tasks : tasks[i].at \notin Busy

\* After closeDone no reader runs and no temporary connection is open, or will be opened.
OneBotReleased == oneBot.release = "done" => inbound # "reading" /\ ~linked /\ side \in {"none", "gone"}

\* A message the server repeats is worked on once, also when the connection was lost in between.
NoRepeatedMessage == \A i \in 1 .. Len(tasks) - 1 : tasks[i].id = tasks[i + 1].id => tasks[i].id = 0

\* A lost connection is dialled again until it is up, unless the adapter closes.
Reconnects == redial = "watching" /\ ~linked /\ dials < MaxDials ~> linked \/ oneBot.closing

\* Closing ends the ingress, and then the resources.
OneBotIngressEnds == oneBot.closing ~> oneBot.done
OneBotReleases == oneBot.release = "begun" ~> oneBot.release = "done"
=============================================================================
