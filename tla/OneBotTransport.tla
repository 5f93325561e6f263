-------------------------- MODULE OneBotTransport --------------------------
(***************************************************************************)
(* The OneBot WebSocket transport (internal/platform/qq-onebot:            *)
(* transport.go): one published connection that is dialled again after a   *)
(* failure, concurrent requests that write in turn and wait for the answer *)
(* with their echo, one reader that hands answers out, and Close.  The     *)
(* server may answer late, twice, or on a later connection.                *)
(***************************************************************************)
EXTENDS Naturals, FiniteSets

CONSTANTS
    NRequests,    \* calls of Transport.call
    MaxSockets,   \* connections that are ever dialled
    MaxEvents     \* frames that are not answers

ASSUME TransportAssumption == NRequests \in Nat /\ MaxSockets \in Nat \ {0} /\ MaxEvents \in Nat

VARIABLES
    socket,      \* state of each connection: "none", "open", "broken" by the peer, "closed" here
    link,        \* the published connection, 0 when there is none
    dialer,      \* Connect: the connection it holds, and where it is
    wire,        \* the reader: where it is, the connection it reads, the frame it holds
    req,         \* each request
    pending,     \* the echoes waited for
    seq,         \* the last echo given out
    writeGate,        \* the request that holds the write gate, or None
    server,      \* requests the server has received
    events,      \* frames that were not answers
    closer,      \* the connection Close took, until it is closed
    shut         \* final closing: "no", "begun", "socket" closed, "done"

transportVars == <<socket, link, dialer, wire, req, pending, seq, writeGate, server, events, closer, shut>>

Calls == 1 .. NRequests
None == 0
Sockets == 1 .. MaxSockets
Waiting == {"registered", "writing", "sent"}
Idle == [at |-> "idle", conn |-> 0]
NoFrame == [kind |-> "none", echo |-> 0, of |-> None]

TransportTypeOK ==
    /\ socket \in [Sockets -> {"none", "open", "broken", "closed"}]
    /\ link \in 0 .. MaxSockets
    /\ dialer \in [at : {"idle", "dialing", "dialed"}, conn : 0 .. MaxSockets]
    /\ wire.at \in {"idle", "reading", "holding"} /\ wire.conn \in 0 .. MaxSockets
    /\ wire.frame \in [kind : {"none", "answer", "event", "bad"}, echo : Nat, of : Calls \cup {None}]
    /\ req \in [Calls -> [at : {"new", "encoded", "returned"} \cup Waiting, echo : Nat, conn : 0 .. MaxSockets,
                             ch : {"empty", "full", "closed"}, got : Calls \cup {None},
                             result : {"none", "ok", "error"}]]
    /\ pending \subseteq 1 .. seq
    /\ writeGate \in Calls \cup {None} /\ (writeGate # None => req[writeGate].at = "writing") /\ server \subseteq Calls
    /\ shut \in {"no", "begun", "socket", "done"} /\ closer \in 0 .. MaxSockets /\ events \in 0 .. MaxEvents

TransportInit ==
    /\ socket = [s \in Sockets |-> "none"] /\ link = 0
    /\ dialer = Idle /\ wire = [at |-> "idle", conn |-> 0, frame |-> NoFrame]
    /\ req = [c \in Calls |-> [at |-> "new", echo |-> 0, conn |-> 0, ch |-> "empty", got |-> None, result |-> "none"]]
    /\ pending = {} /\ seq = 0 /\ writeGate = None /\ server = {} /\ events = 0 /\ closer = 0 /\ shut = "no"

-----------------------------------------------------------------------------
(* Losing the connection.                                                   *)

\* The channels of all pending requests are closed.
ChannelsClosed(rq) == [c \in Calls |-> IF rq[c].echo \in pending /\ rq[c].at \in Waiting
                                          THEN [rq[c] EXCEPT !.ch = "closed"] ELSE rq[c]]

\* Mutant: whichever connection is current is dropped.
DisconnectAny(s, rq) ==
    /\ link' = 0 /\ pending' = {} /\ req' = ChannelsClosed(rq)
    /\ socket' = [socket EXCEPT ![s] = "closed"]

\* disconnect: only the connection that failed is released.
Disconnect(s, rq) ==
    IF link = s
    THEN /\ link' = 0 /\ pending' = {} /\ req' = ChannelsClosed(rq)
         /\ socket' = [socket EXCEPT ![s] = "closed"]
    ELSE req' = rq /\ UNCHANGED <<link, pending, socket>>

\* A call returns; removePending is deferred.
Returned(c, r, got) ==
    /\ req' = [req EXCEPT ![c].at = "returned", ![c].result = r, ![c].got = got]
    /\ pending' = pending \ {req[c].echo}

\* The peer breaks a connection.
BreakSocket(s) ==
    /\ socket[s] = "open" /\ socket' = [socket EXCEPT ![s] = "broken"]
    /\ UNCHANGED <<link, dialer, wire, req, pending, seq, writeGate, server, events, closer, shut>>

-----------------------------------------------------------------------------
(* Connect.                                                                 *)

\* The owner dials when its last reader has returned.
DialBegin ==
    /\ dialer.at = "idle" /\ wire.at = "idle" /\ link = 0 /\ shut = "no"
    /\ \E s \in Sockets : /\ socket[s] = "none" /\ \A t \in Sockets : t < s => socket[t] # "none"
                          /\ dialer' = [at |-> "dialing", conn |-> s]
    /\ UNCHANGED <<socket, link, wire, req, pending, seq, writeGate, server, events, closer, shut>>

\* Dial answers; the server may refuse, and Close cancels.
Dialed ==
    /\ dialer.at = "dialing"
    /\ \/ dialer' = Idle /\ UNCHANGED socket
       \/ /\ shut = "no" /\ dialer' = [dialer EXCEPT !.at = "dialed"]
          /\ socket' = [socket EXCEPT ![dialer.conn] = "open"]
    /\ UNCHANGED <<link, wire, req, pending, seq, writeGate, server, events, closer, shut>>

\* Mutant: the connection is published although the transport was closed meanwhile.
PublishableAlways == link = 0

Publishable == shut = "no" /\ link = 0

\* Connect publishes the connection or closes it at once.
Publish ==
    /\ dialer.at = "dialed" /\ dialer' = Idle
    /\ IF Publishable THEN link' = dialer.conn /\ pending' = {} /\ UNCHANGED socket
                      ELSE socket' = [socket EXCEPT ![dialer.conn] = "closed"] /\ UNCHANGED <<link, pending>>
    /\ UNCHANGED <<wire, req, seq, writeGate, server, events, closer, shut>>

-----------------------------------------------------------------------------
(* Read.                                                                    *)

\* Read takes the published connection.
ReadBegin ==
    /\ wire.at = "idle" /\ link # 0 /\ shut = "no"
    /\ wire' = [wire EXCEPT !.at = "reading", !.conn = link]
    /\ UNCHANGED <<socket, link, dialer, req, pending, seq, writeGate, server, events, closer, shut>>

\* A frame arrives: the answer to a request the server knows, an event, or one that cannot be decoded.
ReadFrame ==
    /\ wire.at = "reading" /\ socket[wire.conn] = "open"
    /\ \/ \E c \in server : /\ wire' = [wire EXCEPT !.at = "holding", !.frame = [kind |-> "answer", echo |-> req[c].echo, of |-> c]]
                            /\ UNCHANGED events
       \/ /\ events < MaxEvents /\ events' = events + 1
          /\ \E k \in {"event", "bad"} : wire' = [wire EXCEPT !.at = "holding", !.frame = [NoFrame EXCEPT !.kind = k]]
    /\ UNCHANGED <<socket, link, dialer, req, pending, seq, writeGate, server, closer, shut>>

\* Mutant: a connection closed here does not wake its reader.
FailedPeer(s) == socket[s] = "broken"

\* Reading fails on a connection that either side has ended.
Failed(s) == socket[s] # "open"

ReadError ==
    /\ wire.at = "reading" /\ Failed(wire.conn)
    /\ wire' = [wire EXCEPT !.at = "idle", !.conn = 0]
    /\ Disconnect(wire.conn, req)
    /\ UNCHANGED <<dialer, seq, writeGate, server, events, closer, shut>>

\* Read returns what the frame it holds makes of it.
ReadDone == wire' = [at |-> "idle", conn |-> 0, frame |-> NoFrame]

\* Mutant: the answer stays registered.
DeliveredKept(e) == pending

\* dispatchResponse removes the waiter it answers.
Delivered(e) == pending \ {e}

DispatchResponse ==
    /\ wire.at = "holding" /\ wire.frame.kind = "answer" /\ ReadDone
    /\ pending' = Delivered(wire.frame.echo)
    /\ req' = [c \in Calls |-> IF req[c].at \in Waiting /\ req[c].echo = wire.frame.echo /\ wire.frame.echo \in pending
                                  THEN [req[c] EXCEPT !.ch = "full", !.got = wire.frame.of] ELSE req[c]]
    /\ UNCHANGED <<socket, link, dialer, seq, writeGate, server, events, closer, shut>>

\* An event goes to the adapter; an undecodable frame ends the connection.
DecodeEvent ==
    /\ wire.at = "holding" /\ wire.frame.kind # "answer" /\ ReadDone
    /\ IF wire.frame.kind = "bad" THEN Disconnect(wire.conn, req) ELSE UNCHANGED <<socket, link, req, pending>>
    /\ UNCHANGED <<dialer, seq, writeGate, server, events, closer, shut>>

-----------------------------------------------------------------------------
(* call.                                                                    *)

\* Mutant: the echo counts the requests of this connection.
NextEchoOfLink(n) == 1 + Cardinality({c \in Calls : req[c].conn = link /\ req[c].at # "new"})

\* The echo keeps growing across reconnections.
NextEcho(n) == n + 1

\* Requests are numbered in the order in which they begin.
CallBegin(c) ==
    /\ req[c].at = "new" /\ (\A d \in Calls : d < c => req[d].at # "new")
    /\ seq' = NextEcho(seq)
    /\ req' = [req EXCEPT ![c].at = "encoded", ![c].echo = NextEcho(seq)]
    /\ UNCHANGED <<socket, link, dialer, wire, pending, writeGate, server, events, closer, shut>>

\* Under the lock: the current connection, and the waiter.
CallRegister(c) ==
    /\ req[c].at = "encoded"
    /\ IF link = 0 \/ shut # "no" THEN Returned(c, "error", None)
       ELSE /\ req' = [req EXCEPT ![c].at = "registered", ![c].conn = link]
            /\ pending' = pending \cup {req[c].echo}
    /\ UNCHANGED <<socket, link, dialer, wire, seq, writeGate, server, events, closer, shut>>

\* acquireWrite, and the two contexts checked once it has the gate.
CallAcquire(c) ==
    /\ req[c].at = "registered" /\ writeGate = None
    /\ IF shut = "no" THEN writeGate' = c /\ req' = [req EXCEPT ![c].at = "writing"] /\ UNCHANGED pending
                      ELSE Returned(c, "error", None) /\ UNCHANGED writeGate
    /\ UNCHANGED <<socket, link, dialer, wire, seq, server, events, closer, shut>>

\* Mutant: only the wait for the gate is limited.
CallTimeoutGate(c) ==
    /\ req[c].at = "registered"
    /\ Returned(c, "error", None)
    /\ UNCHANGED <<socket, link, dialer, wire, seq, writeGate, server, events, closer, shut>>

\* The wait for the gate, or for the answer, times out or is cancelled.
CallTimeout(c) ==
    /\ req[c].at \in {"registered", "sent"}
    /\ Returned(c, "error", None)
    /\ UNCHANGED <<socket, link, dialer, wire, seq, writeGate, server, events, closer, shut>>

\* Mutant: a failed write keeps the gate.
GateKept(ok) == IF ok THEN None ELSE writeGate

\* release is called whether the write succeeded or not.
GateAfter(ok) == None

\* The frame is written whole, whatever becomes of the caller's context.
CallWrite(c) ==
    /\ req[c].at = "writing" /\ socket[req[c].conn] = "open"
    /\ writeGate' = GateAfter(TRUE)
    /\ server' = server \cup {c}
    /\ \/ req' = [req EXCEPT ![c].at = "sent"] /\ UNCHANGED pending
       \/ Returned(c, "error", None)
    /\ UNCHANGED <<socket, link, dialer, wire, seq, events, closer, shut>>

\* The write fails or times out: the connection it was begun on is given up.
CallWriteFails(c) ==
    LET rq == [req EXCEPT ![c].at = "returned", ![c].result = "error"] IN
    /\ req[c].at = "writing" /\ writeGate' = GateAfter(FALSE)
    /\ Disconnect(req[c].conn, rq)
    /\ UNCHANGED <<dialer, wire, seq, server, events, closer, shut>>

\* The answer: an error status, data that cannot be decoded, or the value.
CallAnswered(c) ==
    /\ req[c].at = "sent" /\ req[c].ch = "full"
    /\ \/ Returned(c, "ok", req[c].got)
       \/ Returned(c, "error", req[c].got)
    /\ UNCHANGED <<socket, link, dialer, wire, seq, writeGate, server, events, closer, shut>>

CallDisconnected(c) ==
    /\ req[c].at = "sent" /\ req[c].ch = "closed"
    /\ Returned(c, "error", None)
    /\ UNCHANGED <<socket, link, dialer, wire, seq, writeGate, server, events, closer, shut>>

-----------------------------------------------------------------------------
(* Close.                                                                   *)

CloseTransport ==
    /\ shut = "no" /\ shut' = "begun"
    /\ link' = 0 /\ pending' = {} /\ req' = ChannelsClosed(req)
    /\ closer' = link
    /\ UNCHANGED <<socket, dialer, wire, seq, writeGate, server, events>>

\* closeResources: the close handshake of the connection that was published.
CloseSocket ==
    /\ shut = "begun" /\ shut' = "socket"
    /\ socket' = [s \in Sockets |-> IF s = closer THEN "closed" ELSE socket[s]] /\ closer' = 0
    /\ UNCHANGED <<link, dialer, wire, req, pending, seq, writeGate, server, events>>

\* Mutant: only the requests are waited for.
AllReturnedCalls == \A c \in Calls : req[c].at \notin Waiting

\* active.Wait: dials, reads and requests that were admitted.
AllReturned == /\ dialer.at = "idle" /\ wire.at = "idle"
               /\ \A c \in Calls : req[c].at \notin Waiting

CloseDone ==
    /\ shut = "socket" /\ AllReturned /\ shut' = "done"
    /\ UNCHANGED <<socket, link, dialer, wire, req, pending, seq, writeGate, server, events, closer>>

ReadStep == ReadFrame \/ ReadError \/ DispatchResponse \/ DecodeEvent
DialStep == Dialed \/ Publish
CallStep(c) == CallRegister(c) \/ CallAcquire(c) \/ CallAnswered(c) \/ CallDisconnected(c)
\* Every wait of a call, the write included, has a timeout.
CallLimit(c) == CallTimeout(c) \/ CallWriteFails(c)

TransportNext ==
    \/ \E s \in Sockets : BreakSocket(s)
    \/ DialBegin \/ DialStep \/ ReadBegin \/ ReadStep
    \/ \E c \in Calls : CallBegin(c) \/ CallStep(c) \/ CallWrite(c) \/ CallLimit(c)
    \/ CloseTransport \/ CloseSocket \/ CloseDone

TransportFairness ==
    /\ WF_transportVars(DialStep) /\ WF_transportVars(ReadStep)
    /\ \A c \in Calls : WF_transportVars(CallStep(c)) /\ WF_transportVars(CallLimit(c))
    /\ WF_transportVars(CloseSocket \/ CloseDone)

TransportSpec == TransportInit /\ [][TransportNext]_transportVars /\ TransportFairness

-----------------------------------------------------------------------------
(* Properties.                                                              *)

\* A request returns the answer to itself, never a late or repeated answer to
\* another one, also after a reconnection (transport.go, seq and pending).
OwnAnswer == \A c \in Calls : req[c].result = "ok" => req[c].got = c

\* Nobody waits for an answer on a connection that is gone, and the waiters of
\* the current one are exactly the registered requests without an answer.
WaitersKnown ==
    /\ \A c \in Calls : req[c].at \in Waiting /\ req[c].ch = "empty" => req[c].conn = link /\ req[c].echo \in pending
    /\ \A e \in pending : \E c \in Calls : req[c].echo = e /\ req[c].at \in Waiting /\ req[c].ch = "empty" /\ req[c].conn = link

\* A connection that is neither published nor in the hands of Connect or Close
\* has been closed, and after closeDone all are.
NoSocketLeft ==
    /\ \A s \in Sockets : socket[s] \in {"open", "broken"} => s \in {link, dialer.conn, closer}
    /\ shut = "done" => \A s \in Sockets : socket[s] \in {"none", "closed"}

\* closeDone is announced after every admitted dial, read and request.
TransportDoneLast == shut = "done" => /\ dialer = Idle /\ wire.at = "idle" /\ pending = {} /\ writeGate = None
                                      /\ \A c \in Calls : req[c].at \notin Waiting

\* A late failure of an old connection leaves the one dialled since alone.
LateErrorHarmless ==
    [][link # 0 /\ link' = 0 /\ shut' = "no" =>
        \/ wire.conn = link /\ (socket[link] # "open" \/ wire.frame.kind = "bad")
        \/ \E c \in Calls : writeGate = c /\ req[c].conn = link]_transportVars

\* Every request returns: the gate is always passed on, and no wait is unbounded.
RequestsReturn == \A c \in Calls : req[c].at = "encoded" ~> req[c].at = "returned"

\* Close ends once begun.
TransportCloses == shut = "begun" ~> shut = "done"
=============================================================================
