----------------------------- MODULE QQOfficial -----------------------------
(***************************************************************************)
(* The QQ official adapter (internal/platform/qqofficial).  First its      *)
(* gateway (gateway.go, lifecycle.go, message.go): a connection that       *)
(* identifies or resumes a session, a heartbeat beside its reader, what    *)
(* each way of losing it means for the session, and the two stages of      *)
(* closing.  The server numbers the events of a session and replays, on    *)
(* resume, those after the number it is given.  Then its HTTP client       *)
(* (client.go, token.go, send.go): posts that share one cached access      *)
(* token, refreshed behind a gate and once more after a 401, and replies   *)
(* numbered per answered message.  Tokens are numbers; the server accepts  *)
(* the newest one it gave out that has not expired or been revoked.  The   *)
(* two share no state and have a specification each.                       *)
(***************************************************************************)
EXTENDS Naturals, Sequences

(* The gateway.                                                             *)
CONSTANTS MaxQQSessions, MaxQQEvents, MaxQQTasks, QQSenders

ASSUME QQAssumption == {MaxQQSessions, MaxQQEvents, MaxQQTasks} \subseteq Nat /\ MaxQQEvents # 0  \* Ready is an event

VARIABLES
    qq,        \* the adapter: started, closing, done, failed (runErr), release
    gw,        \* runGateway: where it is, and why it leaves a connection
    session,   \* gatewayState: sessionID (0 is none), seq, resume
    hub,       \* the server: the newest session, its last event, the session and event a connection is at
    beating,   \* the heartbeat goroutine runs
    broken,    \* the connection was closed under the reader
    chats,     \* accepted messages: session, number, in progress
    sending    \* state of each SendTo

qqVars == <<qq, gw, session, hub, beating, broken, chats, sending>>

NoSession == [id |-> 0, seq |-> 0, resume |-> FALSE]
Modes == {"none", "resume", "identify", "fatal"}

QQTypeOK ==
    /\ qq \in [started : BOOLEAN, closing : BOOLEAN, done : BOOLEAN, failed : BOOLEAN, release : {"no", "begun", "done"}]
    /\ gw \in [at : {"off", "opening", "online", "leaving", "sleeping", "ended"}, why : Modes]
    /\ session \in [id : 0 .. MaxQQSessions, seq : 0 .. MaxQQEvents, resume : BOOLEAN]
    /\ gw.at \in {"opening", "sleeping"} => (session.seq # 0 => session.id # 0)
    /\ hub \in [newest : 0 .. MaxQQSessions, last : 0 .. MaxQQEvents, bound : 0 .. MaxQQSessions, sent : 0 .. MaxQQEvents]
    /\ beating \in BOOLEAN /\ broken \in BOOLEAN
    /\ chats \in Seq([s : 1 .. MaxQQSessions, n : 1 .. MaxQQEvents, busy : BOOLEAN])
    /\ sending \in [QQSenders -> {"no", "sending", "over"}]

QQInit ==
    /\ qq = [started |-> FALSE, closing |-> FALSE, done |-> FALSE, failed |-> FALSE, release |-> "no"]
    /\ gw = [at |-> "off", why |-> "none"] /\ session = NoSession
    /\ hub = [newest |-> 0, last |-> 0, bound |-> 0, sent |-> 0]
    /\ beating = FALSE /\ broken = FALSE /\ chats = <<>> /\ sending = [p \in QQSenders |-> "no"]

-----------------------------------------------------------------------------
(* The adapter's lifecycle.                                                 *)

\* A disabled adapter, or one whose context has ended, closes at once.
QQStart(enabled) ==
    /\ ~qq.started /\ ~qq.closing
    /\ qq' = [qq EXCEPT !.started = TRUE]
    /\ gw' = [gw EXCEPT !.at = IF enabled THEN "opening" ELSE "ended"]
    /\ UNCHANGED <<session, hub, beating, broken, chats, sending>>

QQBeginClose ==
    /\ ~qq.closing /\ qq' = [qq EXCEPT !.closing = TRUE]
    /\ UNCHANGED <<gw, session, hub, beating, broken, chats, sending>>

\* Mutant: accepted messages are not waited for.
QQIngressOverGateway == qq.started => gw.at = "ended"

\* gatewayDone and the accepted messages
QQIngressOver == /\ qq.started => gw.at = "ended"
                 /\ \A i \in DOMAIN chats : ~chats[i].busy

QQDone ==
    /\ qq.closing /\ ~qq.done /\ QQIngressOver
    /\ qq' = [qq EXCEPT !.done = TRUE]
    /\ UNCHANGED <<gw, session, hub, beating, broken, chats, sending>>

QQRelease ==
    /\ qq.done /\ qq.release = "no"
    /\ qq' = [qq EXCEPT !.release = "begun"]
    /\ UNCHANGED <<gw, session, hub, beating, broken, chats, sending>>

QQReleased ==
    /\ qq.release = "begun" /\ \A p \in QQSenders : sending[p] # "sending"
    /\ qq' = [qq EXCEPT !.release = "done"]
    /\ UNCHANGED <<gw, session, hub, beating, broken, chats, sending>>

\* Mutant: sends are always admitted.
SendAdmittedAlways == TRUE

\* beginSend
SendAdmitted == qq.release = "no"

BeginSend(p) ==
    /\ sending[p] = "no" /\ sending' = [sending EXCEPT ![p] = IF SendAdmitted THEN "sending" ELSE "over"]
    /\ UNCHANGED <<qq, gw, session, hub, beating, broken, chats>>

EndSend(p) ==
    /\ sending[p] = "sending" /\ sending' = [sending EXCEPT ![p] = "over"]
    /\ UNCHANGED <<qq, gw, session, hub, beating, broken, chats>>

-----------------------------------------------------------------------------
(* One connection: runGatewayOnce.                                          *)

\* Leaving a connection: the heartbeat is cancelled and the reason kept.
LeaveFor(why) == gw' = [at |-> "leaving", why |-> why]

\* Resume needs a session to resume.
Resumes == session.resume /\ session.id # 0

\* The server accepts an identify: a new session, whose event 1 is Ready.
NewHubSession == [newest |-> hub.newest + 1, last |-> 1, bound |-> hub.newest + 1, sent |-> 0]

\* The URL, the dial, the hello, then resume or identify, and the heartbeat is started.
GatewayOpen ==
    /\ gw.at = "opening" /\ ~qq.closing
    /\ IF Resumes THEN hub' = [hub EXCEPT !.bound = session.id, !.sent = session.seq]
       ELSE hub.newest < MaxQQSessions /\ hub' = NewHubSession
    /\ gw' = [at |-> "online", why |-> "none"] /\ beating' = TRUE /\ broken' = FALSE
    /\ UNCHANGED <<qq, session, chats, sending>>

\* Any of these steps may fail.
GatewayFails ==
    /\ gw.at = "opening" /\ LeaveFor("identify")
    /\ UNCHANGED <<qq, session, hub, beating, broken, chats, sending>>

\* An event happens in the newest session.
HubEvent ==
    /\ hub.newest > 0 /\ hub.last < MaxQQEvents
    /\ hub' = [hub EXCEPT !.last = @ + 1]
    /\ UNCHANGED <<qq, gw, session, beating, broken, chats, sending>>

\* Mutant: the number of a message is not stored.
SeqKept(n) == session.seq

\* The number of a payload is stored before it is dispatched.
SeqStored(n) == n

\* acceptMessage
AcceptsChat == ~qq.closing

\* The next event of the session: Ready names the session, a message is accepted.
HubDispatch ==
    /\ gw.at = "online" /\ ~broken /\ hub.bound = hub.newest /\ hub.sent < hub.last
    /\ hub' = [hub EXCEPT !.sent = @ + 1]
    /\ LET n == hub.sent + 1 IN
       /\ session' = IF n = 1 THEN [id |-> hub.bound, seq |-> n, resume |-> TRUE]
                     ELSE [session EXCEPT !.seq = SeqStored(n)]
       /\ n > 1 => Len(chats) < MaxQQTasks
       /\ chats' = IF n > 1 /\ AcceptsChat THEN Append(chats, [s |-> hub.bound, n |-> n, busy |-> TRUE]) ELSE chats
    /\ UNCHANGED <<qq, gw, beating, broken, sending>>

\* opReconnect: the session will be resumed.
ReceiveReconnect ==
    /\ gw.at = "online" /\ ~broken /\ LeaveFor("resume")
    /\ session' = [session EXCEPT !.resume = TRUE]
    /\ UNCHANGED <<qq, hub, beating, broken, chats, sending>>

\* opInvalidSession: the session is forgotten.
ReceiveInvalid ==
    /\ gw.at = "online" /\ ~broken /\ LeaveFor("identify")
    /\ session' = [session EXCEPT !.resume = FALSE, !.id = 0]
    /\ UNCHANGED <<qq, hub, beating, broken, chats, sending>>

\* classifyGatewayError: the close status 4009 resumes, a few are fatal, all else identifies.
ReadFails(why) ==
    /\ gw.at = "online" /\ why # "none" /\ (broken => why = "identify")
    /\ LeaveFor(why)
    /\ UNCHANGED <<qq, session, hub, beating, broken, chats, sending>>

\* A heartbeat cannot be written: the connection is closed under the reader.
HeartbeatFails ==
    /\ beating /\ gw.at = "online" /\ beating' = FALSE /\ broken' = TRUE
    /\ UNCHANGED <<qq, gw, session, hub, chats, sending>>

\* The heartbeat notices that it is cancelled.
HeartbeatStops ==
    /\ beating /\ gw.at = "leaving" /\ beating' = FALSE
    /\ UNCHANGED <<qq, gw, session, hub, broken, chats, sending>>

-----------------------------------------------------------------------------
(* Between two connections: runGateway.                                     *)

\* Mutant: the heartbeat is not joined.
HeartJoinedNot == TRUE

\* runGatewayOnce returns after heartbeatDone.
HeartJoined == ~beating

\* Mutant: identifying keeps the old number.
ForgottenKeepsSeq == [session EXCEPT !.id = 0, !.resume = FALSE]

\* What is kept for a resume, and after any other reason.
KeptSession == [session EXCEPT !.resume = TRUE]
ForgottenSession == NoSession

\* Mutant: every reason but a resume ends the gateway.
GatewayLeftForGood ==
    /\ gw.at = "leaving" /\ HeartJoined
    /\ gw' = [at |-> IF gw.why = "resume" THEN "sleeping" ELSE "ended", why |-> "none"]
    /\ session' = KeptSession /\ UNCHANGED <<qq, hub, beating, broken, chats, sending>>

\* A fatal reason is recorded and closes the adapter; otherwise wait and open again.
GatewayLeft ==
    /\ gw.at = "leaving" /\ HeartJoined
    /\ IF gw.why = "fatal"
       THEN /\ qq' = [qq EXCEPT !.failed = TRUE, !.closing = TRUE]
            /\ gw' = [at |-> "ended", why |-> "none"] /\ UNCHANGED session
       ELSE /\ session' = IF gw.why = "resume" THEN KeptSession ELSE ForgottenSession
            /\ gw' = [at |-> "sleeping", why |-> "none"] /\ UNCHANGED qq
    /\ UNCHANGED <<hub, beating, broken, chats, sending>>

GatewayWakes ==
    /\ gw.at = "sleeping" /\ ~qq.closing /\ gw' = [gw EXCEPT !.at = "opening"]
    /\ UNCHANGED <<qq, session, hub, beating, broken, chats, sending>>

\* Mutant: a connection in use is not left.
GatewayStopsIdle ==
    /\ qq.closing /\ gw.at \in {"opening", "sleeping"} /\ gw' = [gw EXCEPT !.at = "ended"]
    /\ UNCHANGED <<qq, session, hub, beating, broken, chats, sending>>

\* The work context has ended: reading fails, the waits end.
GatewayStops ==
    /\ qq.closing
    /\ \/ gw.at \in {"opening", "sleeping"} /\ gw' = [gw EXCEPT !.at = "ended"]
       \/ gw.at = "online" /\ LeaveFor("identify")
    /\ UNCHANGED <<qq, session, hub, beating, broken, chats, sending>>

\* handleInboundMessage ends: dropped on a failed lookup, or recorded and handled.
ChatOver(i) ==
    /\ chats[i].busy /\ chats' = [chats EXCEPT ![i].busy = FALSE]
    /\ UNCHANGED <<qq, gw, session, hub, beating, broken, sending>>

OpenStep == GatewayOpen
LeaveStep == GatewayLeft \/ HeartbeatStops
GatewayStep == GatewayWakes \/ GatewayStops

QQNext ==
    \/ \E e \in BOOLEAN : QQStart(e)
    \/ QQBeginClose \/ QQDone \/ QQRelease \/ QQReleased
    \/ \E p \in QQSenders : BeginSend(p) \/ EndSend(p)
    \/ OpenStep \/ GatewayFails \/ HubEvent \/ HubDispatch \/ ReceiveReconnect \/ ReceiveInvalid
    \/ \E why \in Modes : ReadFails(why)
    \/ HeartbeatFails \/ LeaveStep \/ GatewayStep
    \/ \E i \in DOMAIN chats : ChatOver(i)

QQFairness ==
    /\ SF_qqVars(OpenStep) /\ WF_qqVars(GatewayFails) /\ WF_qqVars(LeaveStep) /\ WF_qqVars(GatewayStep)
    /\ WF_qqVars(QQDone) /\ WF_qqVars(\E i \in DOMAIN chats : ChatOver(i))
    /\ WF_qqVars(broken /\ ReadFails("identify"))

QQSpec == QQInit /\ [][QQNext]_qqVars /\ QQFairness

-----------------------------------------------------------------------------
(* Properties.                                                              *)

\* The messages of a session reach the handler in the order of their numbers, none
\* twice and none left out, across every resume; a new session comes after the old.
QQEventsOnce ==
    /\ \A i \in DOMAIN chats : \A j \in DOMAIN chats : i < j =>
          chats[i].s < chats[j].s \/ (chats[i].s = chats[j].s /\ chats[i].n < chats[j].n)
    /\ \A i \in 1 .. Len(chats) - 1 : chats[i].s = chats[i + 1].s => chats[i + 1].n = chats[i].n + 1

\* At most one heartbeat runs, and only beside its own connection.
OneHeartbeat == beating => gw.at \in {"online", "leaving"}

\* done comes after the gateway has ended and every accepted message was handled.
QQQuiet == qq.done => gw.at \in {"off", "ended"} /\ ~beating /\ \A i \in DOMAIN chats : ~chats[i].busy

\* closeDone comes after every send, and none begins afterwards.
QQReleasedLast == qq.release = "done" => \A p \in QQSenders : sending[p] # "sending"

\* A lost gateway is opened again, unless the adapter closes.
QQReconnects == gw.at = "leaving" /\ hub.newest < MaxQQSessions ~> gw.at = "online" \/ qq.closing

\* A closed adapter, by a fatal close status too, ends its ingress.
QQCloses == qq.closing ~> qq.done

-----------------------------------------------------------------------------
(* The client.                                                              *)
CONSTANTS
    Posts,        \* posts of messages
    Posting,      \* outputs of one SendTo, in order; an upload precedes a media output
    Lifetime,     \* of a token, in ticks
    MaxTokens, MaxTicks

ASSUME QQClientAssumption ==
    /\ Lifetime \in Nat /\ MaxTokens \in Nat /\ MaxTicks \in Nat
    /\ Posting \in Seq({"media", "text"}) /\ 0 \notin Posts  \* 0 is nobody

VARIABLES
    post,       \* each SendTo: where it is, the output it is at, the token it has, whether it has retried
    cached,     \* tokenSource: the token (0 is none) and its expiry
    issued,     \* the newest token and when it expires at the server; 0 when revoked
    refreshing, \* who holds refreshGate
    ticks,      \* time
    replySeq,   \* seqByID of the one message that is answered
    posted,     \* what the server accepted: the post, its output, its number
    receipts    \* what each SendTo returned of it

clientVars == <<post, cached, issued, refreshing, ticks, replySeq, posted, receipts>>

NoPost == 0
Margin == 1   \* a minute before it expires a token is refreshed
NoToken == [value |-> 0, until |-> 0]

QQClientTypeOK ==
    /\ post \in [Posts -> [at : {"new", "gate", "fetch", "issued", "ready", "over", "failed"}, output : 1 .. Len(Posting) + 1,
                           upload : BOOLEAN, token : 0 .. MaxTokens, retried : BOOLEAN, force : BOOLEAN, number : Nat]]
    /\ cached \in [value : 0 .. MaxTokens, until : 0 .. MaxTicks + Lifetime]
    /\ issued \in [value : 0 .. MaxTokens, until : 0 .. MaxTicks + Lifetime]
    /\ refreshing \in Posts \cup {NoPost} /\ (\A p \in Posts : post[p].at \in {"fetch", "issued"} => refreshing = p)
    /\ ticks \in 0 .. MaxTicks /\ replySeq \in Nat
    /\ \A i \in DOMAIN posted : posted[i].by \in Posts
    /\ receipts \in [Posts -> SUBSET (1 .. Len(Posting))]

QQClientInit ==
    /\ post = [p \in Posts |-> [at |-> "new", output |-> 1, upload |-> FALSE, token |-> 0, retried |-> FALSE, force |-> FALSE, number |-> 0]]
    /\ cached = NoToken /\ issued = NoToken /\ refreshing = NoPost /\ ticks = 0 /\ replySeq = 0
    /\ posted = <<>> /\ receipts = [p \in Posts |-> {}]

-----------------------------------------------------------------------------
(* The token.                                                               *)

\* A cached token that will last for more than the margin.
Fresh == cached.value # 0 /\ cached.until > ticks + Margin

\* Mutant: the gate is entered by anybody.
GateOpenAlways == TRUE

\* refreshGate
GateOpen == refreshing = NoPost

\* A post asks for a token: under the gate the cached one, or a new one is fetched.
AskToken(p) ==
    /\ post[p].at = "gate" /\ GateOpen
    /\ IF Fresh /\ ~post[p].force
       THEN post' = [post EXCEPT ![p].at = "ready", ![p].token = cached.value] /\ UNCHANGED <<cached, refreshing>>
       ELSE /\ post' = [post EXCEPT ![p].at = "fetch"] /\ refreshing' = p
            /\ cached' = IF post[p].force THEN NoToken ELSE cached
    /\ UNCHANGED <<issued, ticks, replySeq, posted, receipts>>

\* The token server answers with a new token.
IssueToken(p) ==
    /\ post[p].at = "fetch" /\ issued.value < MaxTokens
    /\ issued' = [value |-> issued.value + 1, until |-> ticks + Lifetime]
    /\ post' = [post EXCEPT ![p].at = "issued", ![p].token = issued.value + 1]
    /\ UNCHANGED <<cached, refreshing, ticks, replySeq, posted, receipts>>

\* The token is cached with the lifetime it was given; after a 401 it is asked for again.
StoreToken(p) ==
    /\ post[p].at = "issued"
    /\ cached' = [value |-> post[p].token, until |-> ticks + Lifetime] /\ refreshing' = NoPost
    /\ post' = [post EXCEPT ![p].at = IF post[p].force THEN "gate" ELSE "ready", ![p].force = FALSE]
    /\ UNCHANGED <<issued, ticks, replySeq, posted, receipts>>

\* The post ends; what was sent before stays in its receipt.
FailPost(p) == post' = [post EXCEPT ![p].at = "failed"]

\* Waiting for the gate or fetching fails, or the caller gives up: the gate is left.
TokenFails(p) ==
    /\ post[p].at \in {"gate", "fetch", "issued"} /\ FailPost(p)
    /\ refreshing' = IF refreshing = p THEN NoPost ELSE refreshing
    /\ UNCHANGED <<cached, issued, ticks, replySeq, posted, receipts>>

-----------------------------------------------------------------------------
(* Posts.                                                                   *)

\* Mutant: the number is read, and stored by somebody else's turn.
NextNumberShared == 1

\* nextMsgSeq: one number for each reply to a message.
NextNumber == replySeq + 1

\* Mutant: the loop does not move on.
SameOutput(x) == x.output

\* The output a post goes on with after one was accepted.
NextOutput(x) == x.output + 1

\* A media output is uploaded first; the message itself takes a number.
PostBegin(p) ==
    /\ post[p].at = "new" /\ post[p].output <= Len(Posting)
    /\ LET up == Posting[post[p].output] = "media" /\ ~post[p].upload IN
       /\ post' = [post EXCEPT ![p].at = "gate", ![p].upload = up, ![p].retried = FALSE, ![p].force = FALSE,
                               ![p].number = IF up THEN 0 ELSE NextNumber]
       /\ replySeq' = IF up THEN replySeq ELSE NextNumber
    /\ UNCHANGED <<cached, issued, refreshing, ticks, posted, receipts>>

\* The server knows the token.
Authorized(p) == post[p].token = issued.value /\ issued.until > ticks

\* An upload is followed by its message; a message by the next output.
PostAccepted(p) ==
    /\ post[p].at = "ready" /\ Authorized(p)
    /\ IF post[p].number = 0
       THEN post' = [post EXCEPT ![p].at = "new"] /\ UNCHANGED <<posted, receipts>>
       ELSE /\ post' = [post EXCEPT ![p].at = IF NextOutput(post[p]) > Len(Posting) THEN "over" ELSE "new",
                                    ![p].output = NextOutput(post[p]), ![p].upload = FALSE]
            /\ posted' = Append(posted, [by |-> p, output |-> post[p].output, number |-> post[p].number])
            /\ receipts' = [receipts EXCEPT ![p] = @ \cup {post[p].output}]
    /\ UNCHANGED <<cached, issued, refreshing, ticks, replySeq>>

\* A 401 forces a refresh, once.
MayRetry(x) == ~x.retried

PostUnauthorized(p) ==
    /\ post[p].at = "ready" /\ ~Authorized(p)
    /\ post' = [post EXCEPT ![p].at = IF MayRetry(post[p]) THEN "gate" ELSE "failed",
                            ![p].retried = TRUE, ![p].force = TRUE]
    /\ UNCHANGED <<cached, issued, refreshing, ticks, replySeq, posted, receipts>>

\* Any other failure ends the SendTo.
PostFails(p) ==
    /\ post[p].at = "ready" /\ FailPost(p)
    /\ UNCHANGED <<cached, issued, refreshing, ticks, replySeq, posted, receipts>>

QQTick ==
    /\ ticks < MaxTicks /\ ticks' = ticks + 1
    /\ UNCHANGED <<post, cached, issued, refreshing, replySeq, posted, receipts>>

\* The server revokes the token it gave out.
Revoke ==
    /\ issued.value # 0 /\ issued.until # 0 /\ issued' = [issued EXCEPT !.until = 0]
    /\ UNCHANGED <<post, cached, refreshing, ticks, replySeq, posted, receipts>>

TokenStep(p) == AskToken(p) \/ IssueToken(p) \/ StoreToken(p) \/ TokenFails(p)
PostStep(p) == PostBegin(p) \/ PostAccepted(p) \/ PostUnauthorized(p) \/ PostFails(p)

QQClientNext == (\E p \in Posts : TokenStep(p) \/ PostStep(p)) \/ QQTick \/ Revoke

QQClientSpec == QQClientInit /\ [][QQClientNext]_clientVars

-----------------------------------------------------------------------------
(* Properties.                                                              *)

\* Two replies to one message never carry the same number: the platform would
\* drop the second as a duplicate (send.go, nextMsgSeq).
ReplyNumbersUnique == \A i, j \in DOMAIN posted : posted[i].number = posted[j].number => i = j

\* Nothing is posted twice, not even after a 401, and the receipt lists what was posted.
PostedOnce ==
    /\ \A i, j \in DOMAIN posted : posted[i].by = posted[j].by /\ posted[i].output = posted[j].output => i = j
    /\ \A p \in Posts : receipts[p] = {posted[i].output : i \in {k \in DOMAIN posted : posted[k].by = p}}

\* A slow refresh never puts an older token back over a newer one (token.go, refreshGate).
CacheNewest == [][cached'.value = 0 \/ cached'.value >= cached.value]_clientVars
=============================================================================
