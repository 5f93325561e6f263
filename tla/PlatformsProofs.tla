-------------------------- MODULE PlatformsProofs --------------------------
(***************************************************************************)
(* Theorems about what connects the agent to its users: the OneBot         *)
(* transport and adapter, the QQ client and gateway, the Telegram adapter  *)
(* and the command line over a connection.  Each component has an          *)
(* inductive invariant; PlatformsSafe follows from them in SuiteProofs.    *)
(***************************************************************************)
EXTENDS OneBotTransport, OneBotAdapter, QQOfficial, Telegram, CliRemote,
        TLAPS

-----------------------------------------------------------------------------
(* The OneBot transport.  Echoes are given out once; a request waits for its *)
(* answer exactly while its echo is pending; the frame a reader holds is the *)
(* answer to the request whose echo it has; and a socket that is not closed  *)
(* is in somebody's hands.                                                   *)

SocketStates == {"none", "open", "broken", "closed"}
Live == {"open", "broken"}
DialerStates == [at : {"idle", "dialing", "dialed"}, conn : 0 .. MaxSockets]
FrameStates == [kind : {"none", "answer", "event", "bad"}, echo : Nat, of : Calls \cup {None}]
WireStates == [at : {"idle", "reading", "holding"}, conn : 0 .. MaxSockets, frame : FrameStates]
ReqStates == [at : {"new", "encoded", "returned"} \cup Waiting, echo : Nat, conn : 0 .. MaxSockets,
              ch : {"empty", "full", "closed"}, got : Calls \cup {None}, result : {"none", "ok", "error"}]

TransportTypes ==
    /\ socket \in [Sockets -> SocketStates] /\ link \in 0 .. MaxSockets /\ dialer \in DialerStates /\ wire \in WireStates
    /\ req \in [Calls -> ReqStates] /\ seq \in Nat /\ writeGate \in Calls \cup {None} /\ server \subseteq Calls
    /\ shut \in {"no", "begun", "socket", "done"} /\ closer \in 0 .. MaxSockets /\ events \in 0 .. MaxEvents

\* An echo belongs to one request, which has it from the beginning on.
EchoesOnce ==
    /\ \A c \in Calls : req[c].echo <= seq /\ (req[c].at = "new" <=> req[c].echo = 0)
    /\ \A c, d \in Calls : req[c].at # "new" /\ req[c].echo = req[d].echo => c = d

\* An answer that is read, or was handed out, is the answer to the request with that echo.
AnswersSound ==
    /\ \A c \in server : req[c].at # "new"
    /\ wire.at = "holding" /\ wire.frame.kind = "answer" => wire.frame.of \in server /\ wire.frame.echo = req[wire.frame.of].echo
    /\ \A c \in Calls : req[c].at \in Waiting /\ req[c].ch = "full" => req[c].got = c
    /\ OwnAnswer

WaitersSound ==
    /\ WaitersKnown
    /\ \A c \in Calls : /\ req[c].at \in Waiting => req[c].conn # 0
                        /\ req[c].at \in {"new", "encoded"} => req[c].ch = "empty"

\* The request that writes is the one that holds the gate.
GateSound ==
    /\ writeGate # None => req[writeGate].at = "writing"
    /\ \A c \in Calls : req[c].at = "writing" => writeGate = c

SocketsSound ==
    /\ \A s \in Sockets : socket[s] \in Live => s \in {link, dialer.conn, closer}
    /\ dialer.at = "idle" <=> dialer.conn = 0
    /\ dialer.at = "dialing" => socket[dialer.conn] \notin Live
    /\ wire.at = "idle" <=> wire.conn = 0

\* Once Close has begun nothing is published, and once it is done nothing runs.
ShutSound ==
    /\ shut # "no" => link = 0
    /\ closer # 0 => shut = "begun"
    /\ shut = "done" => AllReturned

TransportInv == TransportTypes /\ EchoesOnce /\ AnswersSound /\ WaitersSound /\ GateSound /\ SocketsSound /\ ShutSound

\* The transport starts well.
LEMMA TransportInitKeeps == TransportInit => TransportInv
  <1> SUFFICES ASSUME TransportInit PROVE TransportInv
    OBVIOUS
  <1>1. /\ socket = [s \in Sockets |-> "none"] /\ link = 0 /\ dialer = [at |-> "idle", conn |-> 0]
        /\ wire = [at |-> "idle", conn |-> 0, frame |-> [kind |-> "none", echo |-> 0, of |-> 0]]
        /\ req = [c \in Calls |-> [at |-> "new", echo |-> 0, conn |-> 0, ch |-> "empty", got |-> 0, result |-> "none"]]
        /\ pending = {} /\ seq = 0 /\ writeGate = 0 /\ server = {} /\ events = 0 /\ closer = 0 /\ shut = "no"
    BY DEF TransportInit, Idle, NoFrame, None
  <1>2. 0 \in 0 .. MaxSockets /\ 0 \in 0 .. MaxEvents
    BY TransportAssumption
  <1>3. [kind |-> "none", echo |-> 0, of |-> 0] \in FrameStates
    BY DEF FrameStates, None
  <1>4. wire \in WireStates /\ dialer \in DialerStates
    BY <1>1, <1>2, <1>3 DEF WireStates, DialerStates
  <1>5. req \in [Calls -> ReqStates]
    BY <1>1, <1>2 DEF ReqStates, None
  <1>6. TransportTypes
    BY <1>1, <1>2, <1>4, <1>5 DEF TransportTypes, SocketStates, None
  <1>7. \A c \in Calls : req[c].at = "new" /\ req[c].echo = 0 /\ req[c].ch = "empty" /\ req[c].result = "none"
    BY <1>1
  <1>8. EchoesOnce /\ AnswersSound /\ WaitersSound /\ GateSound
    BY <1>1, <1>7 DEF EchoesOnce, AnswersSound, OwnAnswer, WaitersSound, WaitersKnown, Waiting, GateSound, None
  <1>9. SocketsSound /\ ShutSound
    BY <1>1, <1>4 DEF SocketsSound, ShutSound, Live, DialerStates, WireStates
  <1> QED BY <1>6, <1>8, <1>9 DEF TransportInv

\* One request goes on, with the same echo or with a new one.
LEMMA RequestMoves ==
  ASSUME TransportInv, NEW c \in Calls, NEW m \in ReqStates, req' = [req EXCEPT ![c] = m],
         UNCHANGED <<socket, link, dialer, wire, events, closer, shut>>, seq' \in Nat, seq <= seq',
         m.at # "new", m.echo # 0, m.echo <= seq', m.echo = req[c].echo \/ (req[c].at = "new" /\ m.echo > seq),
         server \subseteq server', server' \subseteq server \cup {c},
         m.at \in Waiting /\ m.ch = "full" => m.got = c, m.result = "ok" => m.got = c,
         IF m.at \in Waiting /\ m.ch = "empty" THEN m.conn = link /\ m.echo \in pending' ELSE m.echo \notin pending',
         \A e : e # m.echo => (e \in pending' <=> e \in pending),
         m.at \in Waiting => m.conn # 0 /\ shut # "done", m.at = "encoded" => m.ch = "empty",
         writeGate' \in Calls \cup {None}, m.at = "writing" <=> writeGate' = c, \A d \in Calls : d # c => (writeGate' = d <=> writeGate = d)
  PROVE  TransportInv'
  <1>1. req'[c] = m /\ (\A d \in Calls : d # c => req'[d] = req[d]) /\ req' \in [Calls -> ReqStates]
    BY DEF TransportInv, TransportTypes
  <1>2. TransportTypes'
    BY <1>1 DEF TransportInv, TransportTypes
  <1>3. \A d \in Calls : req[d].echo \in Nat /\ req[d].echo <= seq /\ seq \in Nat /\ m.echo \in Nat
    BY DEF TransportInv, TransportTypes, EchoesOnce, ReqStates
  <1>4. \A d \in Calls : d # c /\ req[d].at # "new" => req[d].echo # m.echo
    BY <1>3 DEF TransportInv, EchoesOnce
  <1>5. EchoesOnce'
    <2>1. \A d \in Calls : req'[d].echo <= seq' /\ (req'[d].at = "new" <=> req'[d].echo = 0)
      BY <1>1, <1>3 DEF TransportInv, EchoesOnce
    <2>2. \A d, b \in Calls : req'[d].at # "new" /\ req'[d].echo = req'[b].echo => d = b
      BY <1>1, <1>4 DEF TransportInv, EchoesOnce
    <2> QED BY <2>1, <2>2 DEF EchoesOnce
  <1>6. AnswersSound'
    <2>1. \A d \in server' : req'[d].at # "new"
      BY <1>1, <1>2 DEF TransportInv, AnswersSound, TransportTypes
    <2>2. wire.at = "holding" /\ wire.frame.kind = "answer" => wire.frame.of \in server' /\ wire.frame.echo = req'[wire.frame.of].echo
      <3> SUFFICES ASSUME wire.at = "holding", wire.frame.kind = "answer"
                   PROVE  wire.frame.of \in server' /\ wire.frame.echo = req'[wire.frame.of].echo
        OBVIOUS
      <3>1. wire.frame.of \in server /\ wire.frame.of \in Calls /\ req[wire.frame.of].at # "new" /\ wire.frame.echo = req[wire.frame.of].echo
        BY DEF TransportInv, AnswersSound, TransportTypes
      <3>2. server \subseteq server'
        OBVIOUS
      <3> QED BY <1>1, <3>1, <3>2
    <2>3. \A d \in Calls : req'[d].at \in Waiting /\ req'[d].ch = "full" => req'[d].got = d
      BY <1>1 DEF TransportInv, AnswersSound
    <2>4. OwnAnswer'
      BY <1>1 DEF TransportInv, AnswersSound, OwnAnswer
    <2> QED BY <2>1, <2>2, <2>3, <2>4 DEF AnswersSound
  <1>7. WaitersSound'
    <2>1. \A d \in Calls : req'[d].at \in Waiting /\ req'[d].ch = "empty" => req'[d].conn = link' /\ req'[d].echo \in pending'
      <3>1. \A d \in Calls : req[d].at \in Waiting => req[d].at # "new"
        BY DEF Waiting
      <3> QED BY <1>1, <1>4, <3>1 DEF TransportInv, WaitersSound, WaitersKnown
    <2>2. ASSUME NEW e \in pending'
          PROVE  \E d \in Calls : req'[d].echo = e /\ req'[d].at \in Waiting /\ req'[d].ch = "empty" /\ req'[d].conn = link'
      <3>1. CASE e = m.echo
        BY <1>1, <2>2, <3>1
      <3>2. CASE e # m.echo
        <4>1. PICK d \in Calls : req[d].echo = e /\ req[d].at \in Waiting /\ req[d].ch = "empty" /\ req[d].conn = link
          BY <2>2, <3>2 DEF TransportInv, WaitersSound, WaitersKnown
        <4>2. d # c
          BY <3>2, <4>1 DEF Waiting
        <4> QED BY <1>1, <4>1, <4>2
      <3> QED BY <3>1, <3>2
    <2>3. \A d \in Calls : /\ req'[d].at \in Waiting => req'[d].conn # 0
                           /\ req'[d].at \in {"new", "encoded"} => req'[d].ch = "empty"
      BY <1>1 DEF TransportInv, WaitersSound
    <2> QED BY <2>1, <2>2, <2>3 DEF WaitersSound, WaitersKnown
  <1>8. GateSound'
    BY <1>1 DEF TransportInv, GateSound
  <1>9. SocketsSound'
    BY DEF TransportInv, SocketsSound
  <1>10. ShutSound'
    BY <1>1 DEF TransportInv, ShutSound, AllReturned
  <1> QED BY <1>2, <1>5, <1>6, <1>7, <1>8, <1>9, <1>10 DEF TransportInv

\* The published connection is given up: every waiter is told, and only who writes may return.
LEMMA LinkLost ==
  ASSUME TransportInv, link' = 0, pending' = {}, req' \in [Calls -> ReqStates],
         \A c \in Calls : /\ req'[c].echo = req[c].echo /\ req'[c].conn = req[c].conn /\ req'[c].got = req[c].got
                          /\ req'[c].at = req[c].at \/ (req[c].at = "writing" /\ req'[c].at = "returned")
                          /\ req'[c].result = "ok" => req[c].result = "ok"
                          /\ req'[c].ch = "full" => req[c].ch = "full"
                          /\ req'[c].at \in Waiting => req'[c].ch # "empty"
                          /\ req[c].at \in {"new", "encoded"} => req'[c].ch = req[c].ch,
         writeGate' \in Calls \cup {None}, GateSound',
         socket' \in [Sockets -> SocketStates], \A s \in Sockets : socket'[s] \in Live => socket[s] \in Live /\ (s # link \/ s = closer'),
         closer' \in 0 .. MaxSockets, closer' = closer \/ closer = 0, closer' # 0 => shut' = "begun",
         UNCHANGED <<dialer, seq, server, events>>,
         wire' \in WireStates, wire' = wire \/ (wire'.at = "idle" /\ wire'.conn = 0),
         shut' \in {"no", "begun", "socket", "done"}, shut' = "done" => shut = "done"
  PROVE  TransportInv'
  <1>1. TransportTypes'
    BY TransportAssumption DEF TransportInv, TransportTypes
  <1>2. \A c \in Calls : req'[c].at = "new" <=> req[c].at = "new"
    OBVIOUS
  <1>3. \A c \in Calls : req'[c].at \in Waiting => req[c].at \in Waiting
    BY DEF Waiting
  <1>4. EchoesOnce'
    BY <1>2 DEF TransportInv, EchoesOnce
  <1>5. AnswersSound'
    <2>1. \A c \in server' : req'[c].at # "new"
      BY <1>2 DEF TransportInv, AnswersSound, TransportTypes
    <2>2. ASSUME wire'.at = "holding", wire'.frame.kind = "answer"
          PROVE  wire'.frame.of \in server' /\ wire'.frame.echo = req'[wire'.frame.of].echo
      <3>1. wire' = wire
        BY <2>2
      <3>2. wire.frame.of \in server /\ wire.frame.echo = req[wire.frame.of].echo
        BY <2>2, <3>1 DEF TransportInv, AnswersSound
      <3> QED BY <3>1, <3>2 DEF TransportInv, TransportTypes
    <2>3. \A c \in Calls : req'[c].at \in Waiting /\ req'[c].ch = "full" => req'[c].got = c
      BY <1>3 DEF TransportInv, AnswersSound
    <2>4. OwnAnswer'
      BY DEF TransportInv, AnswersSound, OwnAnswer
    <2> QED BY <2>1, <2>2, <2>3, <2>4 DEF AnswersSound
  <1>6. WaitersSound'
    <2>1. \A c \in Calls : /\ req'[c].at \in Waiting => req'[c].conn # 0
                           /\ req'[c].at \in {"new", "encoded"} => req'[c].ch = "empty"
      BY <1>3 DEF TransportInv, WaitersSound
    <2> QED BY <2>1 DEF WaitersSound, WaitersKnown
  <1>7. SocketsSound'
    <2>1. \A s \in Sockets : socket'[s] \in Live => s \in {link', dialer'.conn, closer'}
      BY DEF TransportInv, SocketsSound, Sockets
    <2>2. dialer'.at = "idle" <=> dialer'.conn = 0
      BY DEF TransportInv, SocketsSound
    <2>3. dialer'.at = "dialing" => socket'[dialer'.conn] \notin Live
      <3>1. dialer.at = "dialing" => dialer.conn \in Sockets
        BY DEF TransportInv, TransportTypes, SocketsSound, DialerStates, Sockets
      <3> QED BY <3>1 DEF TransportInv, SocketsSound
    <2>4. wire'.at = "idle" <=> wire'.conn = 0
      BY DEF TransportInv, SocketsSound
    <2> QED BY <2>1, <2>2, <2>3, <2>4 DEF SocketsSound
  <1>8. ShutSound'
    <2>1. ASSUME shut' = "done" PROVE AllReturned'
      <3>1. AllReturned
        BY <2>1 DEF TransportInv, ShutSound
      <3>2. \A c \in Calls : req'[c].at \notin Waiting
        BY <3>1, <1>3 DEF AllReturned
      <3> QED BY <3>1, <3>2 DEF AllReturned
    <2> QED BY <2>1 DEF ShutSound
  <1> QED BY <1>1, <1>4, <1>5, <1>6, <1>7, <1>8 DEF TransportInv

\* What closing the channels does to the requests that wait as before.
LEMMA WaitersTold ==
  ASSUME TransportInv, NEW rq \in [Calls -> ReqStates],
         \A c \in Calls : rq[c].at \in Waiting => rq[c] = req[c]
  PROVE  /\ ChannelsClosed(rq) \in [Calls -> ReqStates]
         /\ \A c \in Calls : /\ ChannelsClosed(rq)[c].echo = rq[c].echo /\ ChannelsClosed(rq)[c].conn = rq[c].conn
                             /\ ChannelsClosed(rq)[c].got = rq[c].got /\ ChannelsClosed(rq)[c].at = rq[c].at
                             /\ ChannelsClosed(rq)[c].result = rq[c].result
                             /\ ChannelsClosed(rq)[c].ch = "full" => rq[c].ch = "full"
                             /\ ChannelsClosed(rq)[c].at \in Waiting => ChannelsClosed(rq)[c].ch # "empty"
                             /\ rq[c].at \notin Waiting => ChannelsClosed(rq)[c] = rq[c]
  <1> DEFINE new(c) == IF rq[c].echo \in pending /\ rq[c].at \in Waiting THEN [rq[c] EXCEPT !.ch = "closed"] ELSE rq[c]
  <1>1. ASSUME NEW c \in Calls
        PROVE  /\ new(c) \in ReqStates /\ new(c).echo = rq[c].echo /\ new(c).conn = rq[c].conn /\ new(c).got = rq[c].got
               /\ new(c).at = rq[c].at /\ new(c).result = rq[c].result
               /\ new(c).ch = "full" => rq[c].ch = "full"
               /\ new(c).at \in Waiting => new(c).ch # "empty"
               /\ rq[c].at \notin Waiting => new(c) = rq[c]
    <2>1. rq[c] \in ReqStates
      OBVIOUS
    <2>2. CASE rq[c].echo \in pending /\ rq[c].at \in Waiting
      BY <2>1, <2>2 DEF ReqStates
    <2>3. CASE ~(rq[c].echo \in pending /\ rq[c].at \in Waiting)
      <3>1. rq[c].at \in Waiting => rq[c].ch # "empty"
        BY <2>3 DEF TransportInv, WaitersSound, WaitersKnown
      <3> QED BY <2>1, <2>3, <3>1
    <2> QED BY <2>2, <2>3
  <1>2. ChannelsClosed(rq) = [c \in Calls |-> new(c)]
    BY DEF ChannelsClosed
  <1> HIDE DEF new
  <1> QED BY <1>1, <1>2

\* Only the reader moves.
LEMMA OnlyReads ==
  ASSUME TransportInv, UNCHANGED <<socket, link, dialer, req, pending, seq, writeGate, server, closer, shut>>, events' \in 0 .. MaxEvents,
         wire' \in WireStates, wire'.at = "idle" <=> wire'.conn = 0, shut = "done" => wire'.at = "idle",
         wire'.at = "holding" /\ wire'.frame.kind = "answer" => wire'.frame.of \in server /\ wire'.frame.echo = req[wire'.frame.of].echo
  PROVE  TransportInv'
  <1>1. TransportTypes' /\ EchoesOnce' /\ WaitersSound' /\ GateSound'
    BY DEF TransportInv, TransportTypes, EchoesOnce, WaitersSound, WaitersKnown, GateSound
  <1>2. AnswersSound'
    BY DEF TransportInv, AnswersSound, OwnAnswer
  <1>3. SocketsSound' /\ ShutSound'
    BY DEF TransportInv, SocketsSound, ShutSound, AllReturned
  <1> QED BY <1>1, <1>2, <1>3 DEF TransportInv

\* Sockets, the dial and what is published change, and nobody waits on another connection because of it.
LEMMA LinkStepKeeps ==
  ASSUME TransportInv, UNCHANGED <<wire, req, seq, writeGate, server, events>>,
         socket' \in [Sockets -> SocketStates], dialer' \in DialerStates, link' \in 0 .. MaxSockets, closer' \in 0 .. MaxSockets,
         UNCHANGED <<link, pending>> \/ (link = 0 /\ pending' = {}), link' = link \/ shut' = "no",
         \A s \in Sockets : socket'[s] \in Live => s \in {link', dialer'.conn, closer'},
         dialer'.at = "idle" <=> dialer'.conn = 0, dialer'.at = "dialing" => socket'[dialer'.conn] \notin Live,
         shut' \in {"no", "begun", "socket", "done"}, shut' = "no" <=> shut = "no", closer' # 0 => shut' = "begun",
         shut' = "done" => AllReturned'
  PROVE  TransportInv'
  <1>1. TransportTypes' /\ EchoesOnce' /\ AnswersSound' /\ GateSound'
    BY DEF TransportInv, TransportTypes, EchoesOnce, AnswersSound, OwnAnswer, GateSound
  <1>2. WaitersSound'
    <2>1. CASE UNCHANGED <<link, pending>>
      BY <2>1 DEF TransportInv, WaitersSound, WaitersKnown
    <2>2. CASE link = 0 /\ pending' = {}
      <3>1. \A c \in Calls : ~(req[c].at \in Waiting /\ req[c].ch = "empty")
        BY <2>2 DEF TransportInv, WaitersSound, WaitersKnown
      <3> QED BY <2>2, <3>1 DEF TransportInv, WaitersSound, WaitersKnown
    <2> QED BY <2>1, <2>2
  <1>3. SocketsSound'
    BY DEF TransportInv, SocketsSound
  <1>4. ShutSound'
    BY DEF TransportInv, ShutSound
  <1> QED BY <1>1, <1>2, <1>3, <1>4 DEF TransportInv

-----------------------------------------------------------------------------
(* The steps of the transport.                                              *)

\* Connections: the peer, Connect, and what Close does after it has begun.
LEMMA LinksKeep ==
  ASSUME TransportInv, (\E s \in Sockets : BreakSocket(s)) \/ DialBegin \/ Dialed \/ Publish \/ CloseSocket \/ CloseDone
  PROVE  TransportInv'
  <1>1. /\ socket \in [Sockets -> SocketStates] /\ dialer \in DialerStates /\ link \in 0 .. MaxSockets /\ closer \in 0 .. MaxSockets
        /\ 0 \in 0 .. MaxSockets /\ Sockets = 1 .. MaxSockets /\ Sockets \subseteq 0 .. MaxSockets /\ 0 \notin Sockets
    BY TransportAssumption DEF TransportInv, TransportTypes, Sockets
  <1>2. /\ \A s \in Sockets : socket[s] \in Live => s \in {link, dialer.conn, closer}
        /\ dialer.at = "idle" <=> dialer.conn = 0
        /\ dialer.at = "dialing" => socket[dialer.conn] \notin Live
        /\ shut # "no" => link = 0
        /\ closer # 0 => shut = "begun"
        /\ shut = "done" => AllReturned
        /\ shut \in {"no", "begun", "socket", "done"}
    BY DEF TransportInv, TransportTypes, SocketsSound, ShutSound
  <1>3. ASSUME NEW s \in Sockets, BreakSocket(s) PROVE TransportInv'
    <2>1. /\ socket' = [socket EXCEPT ![s] = "broken"] /\ socket[s] = "open"
          /\ UNCHANGED <<link, dialer, wire, req, pending, seq, writeGate, server, events, closer, shut>>
      BY <1>3 DEF BreakSocket
    <2>2. socket' \in [Sockets -> SocketStates] /\ \A r \in Sockets : socket'[r] \in Live => socket[r] \in Live
      BY <1>1, <2>1 DEF SocketStates, Live
    <2>3. dialer.at = "dialing" => dialer.conn \in Sockets
      BY <1>1, <1>2 DEF DialerStates
    <2>4. AllReturned' <=> AllReturned
      BY <2>1 DEF AllReturned
    <2> QED BY <1>1, <1>2, <2>1, <2>2, <2>3, <2>4, LinkStepKeeps
  <1>4. CASE DialBegin
    <2>1. PICK s \in Sockets : socket[s] = "none" /\ dialer' = [at |-> "dialing", conn |-> s]
      BY <1>4 DEF DialBegin
    <2>2. dialer' \in DialerStates /\ dialer'.at = "dialing" /\ dialer'.conn = s /\ dialer.conn = 0
      BY <1>1, <1>2, <1>4, <2>1 DEF DialerStates, DialBegin
    <2>3. UNCHANGED <<socket, link, wire, req, pending, seq, writeGate, server, events, closer, shut>> /\ shut = "no"
      BY <1>4 DEF DialBegin
    <2> QED BY <1>1, <1>2, <2>1, <2>2, <2>3, LinkStepKeeps DEF Live
  <1>5. CASE Dialed
    <2>1. UNCHANGED <<link, wire, req, pending, seq, writeGate, server, events, closer, shut>> /\ dialer.at = "dialing"
      BY <1>5 DEF Dialed
    <2>2. dialer.conn \in Sockets /\ shut # "done"
      BY <1>1, <1>2, <2>1 DEF DialerStates, AllReturned
    <2>3. CASE dialer' = Idle /\ UNCHANGED socket
      <3>1. dialer' \in DialerStates /\ dialer'.at = "idle" /\ dialer'.conn = 0
        BY <1>1, <2>3 DEF Idle, DialerStates
      <3> QED BY <1>1, <1>2, <2>1, <2>2, <2>3, <3>1, LinkStepKeeps
    <2>4. CASE dialer' = [dialer EXCEPT !.at = "dialed"] /\ socket' = [socket EXCEPT ![dialer.conn] = "open"]
      <3>1. dialer' \in DialerStates /\ dialer'.at = "dialed" /\ dialer'.conn = dialer.conn
        BY <1>1, <2>4 DEF DialerStates
      <3>2. socket' \in [Sockets -> SocketStates] /\ \A r \in Sockets : socket'[r] \in Live => r = dialer.conn \/ socket[r] \in Live
        BY <1>1, <2>4 DEF SocketStates
      <3> QED BY <1>1, <1>2, <2>1, <2>2, <3>1, <3>2, LinkStepKeeps
    <2> QED BY <1>5, <2>3, <2>4 DEF Dialed
  <1>6. CASE Publish
    <2>1. UNCHANGED <<wire, req, seq, writeGate, server, events, closer, shut>> /\ dialer.at = "dialed" /\ dialer' = Idle
      BY <1>6 DEF Publish
    <2>2. dialer.conn \in Sockets /\ shut # "done" /\ dialer' \in DialerStates /\ dialer'.at = "idle" /\ dialer'.conn = 0
      BY <1>1, <1>2, <2>1 DEF DialerStates, AllReturned, Idle
    <2>3. CASE Publishable
      <3>1. link' = dialer.conn /\ pending' = {} /\ UNCHANGED socket /\ link = 0 /\ shut = "no"
        BY <1>6, <2>3 DEF Publish, Publishable
      <3> QED BY <1>1, <1>2, <2>1, <2>2, <3>1, LinkStepKeeps
    <2>4. CASE ~Publishable
      <3>1. socket' = [socket EXCEPT ![dialer.conn] = "closed"] /\ UNCHANGED <<link, pending>>
        BY <1>6, <2>4 DEF Publish
      <3>2. socket' \in [Sockets -> SocketStates] /\ \A r \in Sockets : socket'[r] \in Live => r # dialer.conn /\ socket[r] \in Live
        BY <1>1, <3>1 DEF SocketStates, Live
      <3> QED BY <1>1, <1>2, <2>1, <2>2, <3>1, <3>2, LinkStepKeeps
    <2> QED BY <2>3, <2>4
  <1>7. CASE CloseSocket
    <2>1. /\ shut = "begun" /\ shut' = "socket" /\ closer' = 0 /\ socket' = [s \in Sockets |-> IF s = closer THEN "closed" ELSE socket[s]]
          /\ UNCHANGED <<link, dialer, wire, req, pending, seq, writeGate, server, events>>
      BY <1>7 DEF CloseSocket
    <2>2. socket' \in [Sockets -> SocketStates] /\ \A r \in Sockets : socket'[r] \in Live => r # closer /\ socket[r] \in Live
      BY <1>1, <2>1 DEF SocketStates, Live
    <2>3. dialer.at = "dialing" => dialer.conn \in Sockets
      BY <1>1, <1>2 DEF DialerStates
    <2> QED BY <1>1, <1>2, <2>1, <2>2, <2>3, LinkStepKeeps
  <1>8. CASE CloseDone
    <2>1. /\ shut = "socket" /\ shut' = "done" /\ AllReturned
          /\ UNCHANGED <<socket, link, dialer, wire, req, pending, seq, writeGate, server, events, closer>>
      BY <1>8 DEF CloseDone
    <2>2. AllReturned'
      BY <2>1 DEF AllReturned
    <2> QED BY <1>1, <1>2, <2>1, <2>2, LinkStepKeeps
  <1> QED BY <1>3, <1>4, <1>5, <1>6, <1>7, <1>8

\* The connection is given up by who saw it fail: only if it is still the published one.
LEMMA DisconnectKeeps ==
  ASSUME TransportInv, NEW s \in Sockets, NEW rq \in [Calls -> ReqStates], link = s,
         /\ link' = 0 /\ pending' = {} /\ req' = ChannelsClosed(rq)
         /\ socket' = [socket EXCEPT ![s] = "closed"],
         \A c \in Calls : rq[c] = req[c] \/ (/\ req[c].at = "writing" /\ rq[c].at = "returned" /\ rq[c].result = "error"
                                             /\ rq[c].echo = req[c].echo /\ rq[c].conn = req[c].conn /\ rq[c].got = req[c].got
                                             /\ rq[c].ch = req[c].ch),
         writeGate' \in Calls \cup {None}, \A c \in Calls : rq[c].at = "writing" <=> writeGate' = c,
         UNCHANGED <<dialer, seq, server, events, closer, shut>>,
         wire' \in WireStates, wire' = wire \/ (wire'.at = "idle" /\ wire'.conn = 0)
  PROVE  TransportInv'
  <1>1. \A c \in Calls : rq[c].at \in Waiting => rq[c] = req[c]
    BY DEF Waiting
  <1>2. /\ req' \in [Calls -> ReqStates]
        /\ \A c \in Calls : /\ req'[c].echo = rq[c].echo /\ req'[c].conn = rq[c].conn /\ req'[c].got = rq[c].got /\ req'[c].at = rq[c].at
                            /\ req'[c].result = rq[c].result
                            /\ req'[c].ch = "full" => rq[c].ch = "full"
                            /\ req'[c].at \in Waiting => req'[c].ch # "empty"
                            /\ rq[c].at \notin Waiting => req'[c] = rq[c]
    BY <1>1, WaitersTold
  <1>3. \A c \in Calls : /\ req'[c].echo = req[c].echo /\ req'[c].conn = req[c].conn /\ req'[c].got = req[c].got
                         /\ req'[c].at = req[c].at \/ (req[c].at = "writing" /\ req'[c].at = "returned")
                         /\ req'[c].result = "ok" => req[c].result = "ok"
                         /\ req'[c].ch = "full" => req[c].ch = "full"
                         /\ req'[c].at \in Waiting => req'[c].ch # "empty"
                         /\ req[c].at \in {"new", "encoded"} => req'[c].ch = req[c].ch
    BY <1>2 DEF Waiting
  <1>4. GateSound'
    BY <1>2 DEF GateSound
  <1>5. socket' \in [Sockets -> SocketStates] /\ \A r \in Sockets : socket'[r] \in Live => socket[r] \in Live /\ r # link
    BY DEF TransportInv, TransportTypes, SocketStates, Live
  <1>6. /\ closer' \in 0 .. MaxSockets /\ (closer' # 0 => shut' = "begun") /\ shut' \in {"no", "begun", "socket", "done"}
    BY DEF TransportInv, TransportTypes, ShutSound
  <1> QED BY <1>2, <1>3, <1>4, <1>5, <1>6, LinkLost

\* Close takes the connection, whoever waits on it.
LEMMA CloseTransportKeeps ==
  ASSUME TransportInv, CloseTransport
  PROVE  TransportInv'
  <1>1. /\ shut = "no" /\ shut' = "begun" /\ link' = 0 /\ pending' = {} /\ req' = ChannelsClosed(req) /\ closer' = link
        /\ UNCHANGED <<socket, dialer, wire, seq, writeGate, server, events>>
    BY DEF CloseTransport
  <1>2. req \in [Calls -> ReqStates] /\ \A c \in Calls : req[c].at \in Waiting => req[c] = req[c]
    BY DEF TransportInv, TransportTypes
  <1>3. /\ req' \in [Calls -> ReqStates]
        /\ \A c \in Calls : /\ req'[c].echo = req[c].echo /\ req'[c].conn = req[c].conn /\ req'[c].got = req[c].got /\ req'[c].at = req[c].at
                            /\ req'[c].result = req[c].result
                            /\ req'[c].ch = "full" => req[c].ch = "full"
                            /\ req'[c].at \in Waiting => req'[c].ch # "empty"
                            /\ req[c].at \notin Waiting => req'[c] = req[c]
    BY <1>1, <1>2, WaitersTold
  <1>4. \A c \in Calls : req[c].at \in {"new", "encoded"} => req'[c].ch = req[c].ch
    BY <1>3 DEF Waiting
  <1>5. GateSound' /\ writeGate' \in Calls \cup {None}
    BY <1>1, <1>3 DEF TransportInv, TransportTypes, GateSound
  <1>6. /\ socket' \in [Sockets -> SocketStates] /\ closer' \in 0 .. MaxSockets /\ closer = 0 /\ wire' \in WireStates
        /\ \A r \in Sockets : socket'[r] \in Live => socket[r] \in Live /\ (r # link \/ r = closer')
    BY <1>1 DEF TransportInv, TransportTypes, ShutSound
  <1> QED BY <1>1, <1>3, <1>4, <1>5, <1>6, LinkLost

\* Read: what it begins with, takes in, hands out and gives up.
LEMMA ReadsKeep ==
  ASSUME TransportInv, ReadBegin \/ ReadStep
  PROVE  TransportInv'
  <1>1. wire \in WireStates /\ req \in [Calls -> ReqStates] /\ server \subseteq Calls /\ link \in 0 .. MaxSockets /\ events \in 0 .. MaxEvents
        /\ 0 \in 0 .. MaxSockets /\ writeGate \in Calls \cup {None}
    BY TransportAssumption DEF TransportInv, TransportTypes
  <1>2. /\ wire.at = "idle" <=> wire.conn = 0
        /\ shut = "done" => wire.at = "idle"
        /\ shut # "no" => link = 0
    BY DEF TransportInv, SocketsSound, ShutSound, AllReturned
  <1>3. wire.at # "idle" => wire.conn \in Sockets
    BY <1>1, <1>2 DEF WireStates, Sockets
  <1>4. CASE ReadBegin
    <2>1. wire' = [wire EXCEPT !.at = "reading", !.conn = link] /\ link # 0 /\ shut = "no" /\ events' = events
          /\ UNCHANGED <<socket, link, dialer, req, pending, seq, writeGate, server, closer, shut>>
      BY <1>4 DEF ReadBegin
    <2>2. wire' \in WireStates /\ wire'.at = "reading" /\ wire'.conn = link
      BY <1>1, <2>1 DEF WireStates
    <2> QED BY <1>1, <2>1, <2>2, OnlyReads
  <1>5. CASE ReadFrame
    <2>1. PICK f \in FrameStates : /\ wire' = [wire EXCEPT !.at = "holding", !.frame = f]
                                   /\ f.kind = "answer" => f.of \in server /\ f.echo = req[f.of].echo
      <3>1. CASE \E c \in server : wire' = [wire EXCEPT !.at = "holding", !.frame = [kind |-> "answer", echo |-> req[c].echo, of |-> c]]
        <4>1. PICK c \in server : wire' = [wire EXCEPT !.at = "holding", !.frame = [kind |-> "answer", echo |-> req[c].echo, of |-> c]]
          BY <3>1
        <4>2. req[c].echo \in Nat /\ c \in Calls
          BY <1>1 DEF ReqStates
        <4>3. [kind |-> "answer", echo |-> req[c].echo, of |-> c] \in FrameStates
          BY <4>2 DEF FrameStates
        <4> QED BY <4>1, <4>3
      <3>2. CASE \E k \in {"event", "bad"} : wire' = [wire EXCEPT !.at = "holding", !.frame = [NoFrame EXCEPT !.kind = k]]
        <4>1. PICK k \in {"event", "bad"} : wire' = [wire EXCEPT !.at = "holding", !.frame = [NoFrame EXCEPT !.kind = k]]
          BY <3>2
        <4>2. [NoFrame EXCEPT !.kind = k] \in FrameStates /\ [NoFrame EXCEPT !.kind = k].kind = k
          BY DEF NoFrame, FrameStates
        <4> QED BY <4>1, <4>2
      <3> QED BY <1>5, <3>1, <3>2 DEF ReadFrame
    <2>2. events' \in 0 .. MaxEvents
      <3>1. events' = events \/ (events < MaxEvents /\ events' = events + 1)
        BY <1>5 DEF ReadFrame
      <3> QED BY <1>1, <3>1, TransportAssumption
    <2>3. wire.at = "reading" /\ UNCHANGED <<socket, link, dialer, req, pending, seq, writeGate, server, closer, shut>>
      BY <1>5 DEF ReadFrame
    <2>4. wire' \in WireStates /\ wire'.at = "holding" /\ wire'.conn = wire.conn /\ wire'.frame = f
      BY <1>1, <2>1 DEF WireStates
    <2> QED BY <1>2, <2>1, <2>2, <2>3, <2>4, OnlyReads
  <1>6. \A c \in Calls : req[c].at = "writing" <=> writeGate = c
    BY <1>1 DEF TransportInv, GateSound, None, Calls
  <1>7. ASSUME NEW s \in Sockets, Disconnect(s, req), UNCHANGED <<dialer, seq, writeGate, server, events, closer, shut>>,
               wire' \in WireStates, wire'.at = "idle", wire'.conn = 0
        PROVE  TransportInv'
    <2>1. CASE link = s
      BY <1>1, <1>6, <1>7, <2>1, DisconnectKeeps DEF Disconnect
    <2>2. CASE link # s
      BY <1>1, <1>7, <2>2, OnlyReads DEF Disconnect
    <2> QED BY <2>1, <2>2
  <1>8. CASE ReadError
    <2>1. wire' = [wire EXCEPT !.at = "idle", !.conn = 0] /\ wire.conn \in Sockets /\ Disconnect(wire.conn, req)
          /\ UNCHANGED <<dialer, seq, writeGate, server, events, closer, shut>>
      BY <1>3, <1>8 DEF ReadError
    <2>2. wire' \in WireStates /\ wire'.at = "idle" /\ wire'.conn = 0
      BY <1>1, <2>1 DEF WireStates
    <2> QED BY <1>7, <2>1, <2>2
  <1>9. ReadDone => wire' \in WireStates /\ wire'.at = "idle" /\ wire'.conn = 0
    BY <1>1 DEF ReadDone, WireStates, NoFrame, FrameStates
  <1>10. CASE DecodeEvent
    <2>1. wire' \in WireStates /\ wire'.at = "idle" /\ wire'.conn = 0 /\ wire.conn \in Sockets
          /\ UNCHANGED <<dialer, seq, writeGate, server, events, closer, shut>>
      BY <1>3, <1>9, <1>10 DEF DecodeEvent
    <2>2. CASE wire.frame.kind = "bad"
      BY <1>7, <1>10, <2>1, <2>2 DEF DecodeEvent
    <2>3. CASE wire.frame.kind # "bad"
      BY <1>1, <1>10, <2>1, <2>3, OnlyReads DEF DecodeEvent
    <2> QED BY <2>2, <2>3
  <1>11. CASE DispatchResponse
    <2> DEFINE e == wire.frame.echo
               w == wire.frame.of
    <2>1. /\ wire' \in WireStates /\ wire'.at = "idle" /\ wire'.conn = 0 /\ wire.at = "holding" /\ wire.frame.kind = "answer"
          /\ pending' = pending \ {e}
          /\ req' = [c \in Calls |-> IF req[c].at \in Waiting /\ req[c].echo = e /\ e \in pending
                                     THEN [req[c] EXCEPT !.ch = "full", !.got = w] ELSE req[c]]
          /\ UNCHANGED <<socket, link, dialer, seq, writeGate, server, events, closer, shut>>
      BY <1>9, <1>11 DEF DispatchResponse, Delivered
    <2>2. w \in server /\ w \in Calls /\ req[w].at # "new" /\ e = req[w].echo
      BY <1>1, <2>1 DEF TransportInv, AnswersSound
    <2>3. \A c \in Calls : req[c].echo = e => c = w
      BY <2>2 DEF TransportInv, EchoesOnce
    <2>4. CASE req[w].at \in Waiting /\ e \in pending
      <3> DEFINE m == [req[w] EXCEPT !.ch = "full", !.got = w]
      <3>1. req[w] \in ReqStates
        BY <1>1, <2>2
      <3>2. m \in ReqStates /\ m.at = req[w].at /\ m.echo = e /\ m.conn = req[w].conn /\ m.ch = "full" /\ m.got = w /\ m.result = req[w].result
        BY <2>2, <3>1 DEF ReqStates
      <3>3. req' = [req EXCEPT ![w] = m]
        BY <1>1, <2>1, <2>2, <2>3, <2>4
      <3> HIDE DEF m, e, w
      <3>4. req'[w] = m /\ (\A c \in Calls : c # w => req'[c] = req[c]) /\ req' \in [Calls -> ReqStates]
        BY <1>1, <2>2, <3>2, <3>3
      <3>12. \A c \in Calls : req'[c].at = req[c].at /\ req'[c].echo = req[c].echo /\ req'[c].result = req[c].result
        BY <2>2, <3>2, <3>4
      <3>5. TransportTypes'
        BY <2>1, <3>4 DEF TransportInv, TransportTypes
      <3>6. EchoesOnce'
        <4>1. \A c \in Calls : req'[c].echo <= seq' /\ (req'[c].at = "new" <=> req'[c].echo = 0)
          BY <2>1, <3>12 DEF TransportInv, EchoesOnce
        <4>2. \A c, d \in Calls : req'[c].at # "new" /\ req'[c].echo = req'[d].echo => c = d
          BY <3>12 DEF TransportInv, EchoesOnce
        <4> QED BY <4>1, <4>2 DEF EchoesOnce
      <3>7. AnswersSound'
        <4>1. \A c \in server' : req'[c].at # "new"
          BY <1>1, <2>1, <3>12 DEF TransportInv, AnswersSound
        <4>2. \A c \in Calls : req'[c].at \in Waiting /\ req'[c].ch = "full" => req'[c].got = c
          BY <3>2, <3>4 DEF TransportInv, AnswersSound
        <4>3. OwnAnswer'
          <5>1. \A c \in Calls : c # w => (req'[c].result = "ok" => req'[c].got = c)
            BY <3>4 DEF TransportInv, AnswersSound, OwnAnswer
          <5> QED BY <3>2, <3>4, <5>1 DEF OwnAnswer
        <4> QED BY <2>1, <4>1, <4>2, <4>3 DEF AnswersSound
      <3>8. WaitersSound'
        <4>1. \A c \in Calls : req'[c].at \in Waiting /\ req'[c].ch = "empty" => c # w /\ req[c].conn = link /\ req[c].echo \in pending
          BY <3>2, <3>4 DEF TransportInv, WaitersSound, WaitersKnown
        <4>2. \A c \in Calls : req'[c].at \in Waiting /\ req'[c].ch = "empty" => req'[c].conn = link' /\ req'[c].echo \in pending'
          BY <2>1, <2>3, <3>4, <4>1
        <4>3. ASSUME NEW x \in pending'
              PROVE  \E c \in Calls : req'[c].echo = x /\ req'[c].at \in Waiting /\ req'[c].ch = "empty" /\ req'[c].conn = link'
          <5>1. PICK c \in Calls : req[c].echo = x /\ req[c].at \in Waiting /\ req[c].ch = "empty" /\ req[c].conn = link
            BY <2>1, <4>3 DEF TransportInv, WaitersSound, WaitersKnown
          <5>2. c # w
            BY <2>1, <2>2, <4>3, <5>1
          <5> QED BY <2>1, <3>4, <5>1, <5>2
        <4>4. \A c \in Calls : /\ req'[c].at \in Waiting => req'[c].conn # 0
                               /\ req'[c].at \in {"new", "encoded"} => req'[c].ch = "empty"
          <5>1. req[w].at \notin {"new", "encoded"}
            BY <2>4 DEF Waiting
          <5> QED BY <3>2, <3>4, <5>1 DEF TransportInv, WaitersSound
        <4> QED BY <4>2, <4>3, <4>4 DEF WaitersSound, WaitersKnown
      <3>9. GateSound'
        <4>1. writeGate # None => writeGate \in Calls
          BY <1>1
        <4> QED BY <2>1, <3>12, <4>1 DEF TransportInv, GateSound
      <3>10. SocketsSound'
        BY <2>1 DEF TransportInv, SocketsSound
      <3>11. ShutSound'
        BY <2>1, <2>4, <3>2, <3>4 DEF TransportInv, ShutSound, AllReturned
      <3> QED BY <3>5, <3>6, <3>7, <3>8, <3>9, <3>10, <3>11 DEF TransportInv
    <2>5. CASE ~(req[w].at \in Waiting /\ e \in pending)
      <3>1. req' = req
        BY <1>1, <2>1, <2>3, <2>5
      <3>2. e \notin pending
        <4>1. \A x \in pending : \E c \in Calls : req[c].echo = x /\ req[c].at \in Waiting
          BY DEF TransportInv, WaitersSound, WaitersKnown
        <4> QED BY <2>3, <2>5, <4>1
      <3>3. pending' = pending
        BY <2>1, <3>2
      <3> QED BY <1>1, <2>1, <3>1, <3>3, OnlyReads
    <2> QED BY <2>4, <2>5
  <1> QED BY <1>4, <1>5, <1>8, <1>10, <1>11 DEF ReadStep

\* A call returns with an error or with its own answer, and waits no longer.
LEMMA ReturnKeeps ==
  ASSUME TransportInv, NEW c \in Calls, NEW r \in {"ok", "error"}, NEW g \in Calls \cup {None}, Returned(c, r, g), r = "ok" => g = c,
         req[c].at # "new",
         UNCHANGED <<socket, link, dialer, wire, seq, events, closer, shut>>, server' = server \/ server' = server \cup {c},
         writeGate' \in Calls \cup {None}, writeGate' # c, \A d \in Calls : d # c => (writeGate' = d <=> writeGate = d)
  PROVE  TransportInv'
  <1> DEFINE m == [req[c] EXCEPT !.at = "returned", !.result = r, !.got = g]
  <1>1. req \in [Calls -> ReqStates] /\ req[c] \in ReqStates /\ seq \in Nat
    BY DEF TransportInv, TransportTypes
  <1>2. req' = [req EXCEPT ![c] = m] /\ pending' = pending \ {req[c].echo}
    BY <1>1 DEF Returned
  <1>3. m \in ReqStates /\ m.at = "returned" /\ m.result = r /\ m.got = g
    BY <1>1 DEF ReqStates
  <1>4. m.echo = req[c].echo /\ req[c].echo # 0 /\ req[c].echo <= seq
    BY <1>1 DEF ReqStates, TransportInv, EchoesOnce
  <1> HIDE DEF m
  <1>5. m.at \notin Waiting /\ server \subseteq server' /\ server' \subseteq server \cup {c}
    BY <1>3 DEF Waiting
  <1>6. m.echo \notin pending' /\ \A e : e # m.echo => (e \in pending' <=> e \in pending)
    BY <1>2, <1>4
  <1>7. seq' \in Nat /\ seq <= seq' /\ m.echo <= seq'
    BY <1>1, <1>4
  <1> QED BY <1>2, <1>3, <1>4, <1>5, <1>6, <1>7, RequestMoves

\* call, up to the answer.
LEMMA CallsKeep ==
  ASSUME TransportInv, NEW c \in Calls, CallBegin(c) \/ CallStep(c) \/ CallWrite(c) \/ CallLimit(c)
  PROVE  TransportInv'
  <1>1. req \in [Calls -> ReqStates] /\ req[c] \in ReqStates /\ seq \in Nat /\ link \in 0 .. MaxSockets /\ writeGate \in Calls \cup {None}
        /\ server \subseteq Calls /\ None \notin Calls
    BY DEF TransportInv, TransportTypes, None, Calls
  <1>2. /\ req[c].echo <= seq /\ (req[c].at = "new" <=> req[c].echo = 0)
        /\ req[c].at \in Waiting /\ req[c].ch = "full" => req[c].got = c
        /\ req[c].result = "ok" => req[c].got = c
        /\ req[c].at \in Waiting /\ req[c].ch = "empty" => req[c].conn = link /\ req[c].echo \in pending
        /\ req[c].at \in Waiting => req[c].conn # 0
        /\ req[c].at \in {"new", "encoded"} => req[c].ch = "empty"
        /\ shut = "done" => req[c].at \notin Waiting
        /\ shut # "no" => link = 0
    BY DEF TransportInv, EchoesOnce, AnswersSound, OwnAnswer, WaitersSound, WaitersKnown, ShutSound, AllReturned
  <1>3. \A d \in Calls : req[d].at = "writing" <=> writeGate = d
    BY <1>1 DEF TransportInv, GateSound
  <1>4. ~(req[c].at \in Waiting /\ req[c].ch = "empty") => req[c].echo \notin pending
    <2> SUFFICES ASSUME req[c].echo \in pending PROVE req[c].at \in Waiting /\ req[c].ch = "empty"
      OBVIOUS
    <2>1. PICK d \in Calls : req[d].echo = req[c].echo /\ req[d].at \in Waiting /\ req[d].ch = "empty"
      BY DEF TransportInv, WaitersSound, WaitersKnown
    <2>2. d = c
      BY <2>1 DEF TransportInv, EchoesOnce, Waiting
    <2> QED BY <2>1, <2>2
  <1>5. CASE CallBegin(c)
    <2>9. PICK n \in Nat : n = seq + 1
      BY <1>1
    <2> DEFINE m == [req[c] EXCEPT !.at = "encoded", !.echo = n]
    <2>1. req' = [req EXCEPT ![c] = m] /\ seq' = n /\ req[c].at = "new"
          /\ UNCHANGED <<socket, link, dialer, wire, pending, writeGate, server, events, closer, shut>>
      BY <1>1, <1>5, <2>9 DEF CallBegin, NextEcho
    <2>2. m \in ReqStates /\ m.at = "encoded" /\ m.echo = n /\ m.ch = req[c].ch
      BY <1>1 DEF ReqStates
    <2>3. m.result = req[c].result /\ m.got = req[c].got
      BY <1>1 DEF ReqStates
    <2> HIDE DEF m
    <2>4. \A e \in pending : e <= seq
      <3>1. \A e \in pending : \E d \in Calls : req[d].echo = e
        BY DEF TransportInv, WaitersSound, WaitersKnown
      <3> QED BY <3>1 DEF TransportInv, EchoesOnce
    <2>5. m.echo \notin pending' /\ m.at \notin Waiting /\ m.echo # 0 /\ m.echo <= seq' /\ m.echo > seq /\ seq' \in Nat /\ seq <= seq'
      BY <1>1, <2>1, <2>2, <2>4, <2>9 DEF Waiting
    <2>6. writeGate' # c
      BY <1>3, <2>1
    <2>7. m.result = "ok" => m.got = c
      BY <1>2, <2>3
    <2>8. m.ch = "empty"
      BY <1>2, <2>1, <2>2
    <2> QED BY <1>1, <2>1, <2>2, <2>5, <2>6, <2>7, <2>8, RequestMoves
  <1>6. ASSUME NEW a \in Waiting, NEW k \in 0 .. MaxSockets, NEW m \in ReqStates, req' = [req EXCEPT ![c] = m],
               m.at = a, m.conn = k, m.echo = req[c].echo, m.ch = req[c].ch, m.got = req[c].got, m.result = req[c].result,
               UNCHANGED <<socket, link, dialer, wire, seq, events, closer, shut>>, server' = server \/ server' = server \cup {c},
               IF req[c].at = "encoded" THEN k = link /\ link # 0 /\ pending' = pending \cup {req[c].echo}
                                        ELSE req[c].at \in Waiting /\ k = req[c].conn /\ pending' = pending,
               a = "writing" <=> writeGate' = c, writeGate' \in Calls \cup {None}, \A d \in Calls : d # c => (writeGate' = d <=> writeGate = d)
        PROVE  TransportInv'
    <2>1. req[c].at # "new" /\ a # "new" /\ a # "encoded"
      BY <1>6 DEF Waiting
    <2>2. m.echo # 0 /\ m.echo <= seq'
      BY <1>2, <1>6, <2>1
    <2>3. seq' \in Nat /\ seq <= seq'
      BY <1>1, <1>6
    <2>4. m.ch = "full" => m.got = c
      BY <1>2, <1>6
    <2>5. m.ch = "empty" => m.conn = link /\ m.echo \in pending'
      BY <1>2, <1>6
    <2>6. m.ch # "empty" => m.echo \notin pending'
      BY <1>2, <1>4, <1>6
    <2>7. \A e : e # m.echo => (e \in pending' <=> e \in pending)
      BY <1>6
    <2>8. m.conn # 0 /\ shut # "done"
      BY <1>2, <1>6
    <2>9. server \subseteq server' /\ server' \subseteq server \cup {c} /\ (m.result = "ok" => m.got = c)
      BY <1>2, <1>6
    <2> QED BY <1>6, <2>1, <2>2, <2>3, <2>4, <2>5, <2>6, <2>7, <2>8, <2>9, RequestMoves
  <1>7. \A d \in Calls : writeGate = c => d = c \/ writeGate # d
    OBVIOUS
  <1>8. CASE CallRegister(c)
    <2>1. req[c].at = "encoded" /\ UNCHANGED <<socket, link, dialer, wire, seq, writeGate, server, events, closer, shut>> /\ writeGate # c
      BY <1>3, <1>8 DEF CallRegister
    <2>2. CASE Returned(c, "error", None)
      BY <1>1, <2>1, <2>2, ReturnKeeps
    <2>3. CASE link # 0 /\ req' = [req EXCEPT ![c].at = "registered", ![c].conn = link] /\ pending' = pending \cup {req[c].echo}
      <3> DEFINE m == [req[c] EXCEPT !.at = "registered", !.conn = link]
      <3>1. m \in ReqStates /\ m.at = "registered" /\ m.conn = link /\ "registered" \in Waiting
        BY <1>1 DEF ReqStates, Waiting
      <3>2. m.echo = req[c].echo /\ m.ch = req[c].ch /\ m.got = req[c].got /\ m.result = req[c].result
        BY <1>1 DEF ReqStates
      <3>3. req' = [req EXCEPT ![c] = m]
        BY <1>1, <2>3
      <3> HIDE DEF m
      <3> QED BY <1>1, <1>6, <2>1, <2>3, <3>1, <3>2, <3>3
    <2> QED BY <1>8, <2>2, <2>3 DEF CallRegister
  <1>9. CASE CallAcquire(c)
    <2>1. req[c].at = "registered" /\ writeGate = None /\ UNCHANGED <<socket, link, dialer, wire, seq, server, events, closer, shut>>
      BY <1>9 DEF CallAcquire
    <2>2. CASE Returned(c, "error", None) /\ UNCHANGED writeGate
      BY <1>1, <2>1, <2>2, ReturnKeeps
    <2>3. CASE writeGate' = c /\ req' = [req EXCEPT ![c].at = "writing"] /\ UNCHANGED pending
      <3> DEFINE m == [req[c] EXCEPT !.at = "writing"]
      <3>1. m \in ReqStates /\ m.at = "writing" /\ m.conn = req[c].conn /\ "writing" \in Waiting /\ req[c].at \in Waiting
        BY <1>1, <2>1 DEF ReqStates, Waiting
      <3>2. m.echo = req[c].echo /\ m.ch = req[c].ch /\ m.got = req[c].got /\ m.result = req[c].result /\ req[c].conn \in 0 .. MaxSockets
        BY <1>1 DEF ReqStates
      <3>3. req' = [req EXCEPT ![c] = m]
        BY <1>1, <2>3
      <3> HIDE DEF m
      <3>4. req[c].at # "encoded" /\ pending' = pending /\ writeGate' = c /\ \A d \in Calls : d # c => writeGate' # d /\ writeGate # d
        BY <1>1, <2>1, <2>3
      <3>5. server' = server \/ server' = server \cup {c}
        BY <2>1
      <3>6. writeGate' \in Calls \cup {None} /\ UNCHANGED <<socket, link, dialer, wire, seq, events, closer, shut>>
        BY <1>1, <2>1, <2>3
      <3> QED BY <1>6, <3>1, <3>2, <3>3, <3>4, <3>5, <3>6
    <2> QED BY <1>9, <2>2, <2>3 DEF CallAcquire
  <1>10. CASE CallTimeout(c)
    <2>1. Returned(c, "error", None) /\ UNCHANGED <<socket, link, dialer, wire, seq, writeGate, server, events, closer, shut>>
          /\ req[c].at \notin {"new", "writing"}
      BY <1>10 DEF CallTimeout
    <2> QED BY <1>1, <1>3, <2>1, ReturnKeeps
  <1>11. CASE CallDisconnected(c)
    <2>1. Returned(c, "error", None) /\ UNCHANGED <<socket, link, dialer, wire, seq, writeGate, server, events, closer, shut>>
          /\ req[c].at \notin {"new", "writing"}
      BY <1>11 DEF CallDisconnected
    <2> QED BY <1>1, <1>3, <2>1, ReturnKeeps
  <1>12. CASE CallAnswered(c)
    <2>1. PICK r \in {"ok", "error"} : Returned(c, r, req[c].got)
      BY <1>12 DEF CallAnswered
    <2>2. /\ UNCHANGED <<socket, link, dialer, wire, seq, writeGate, server, events, closer, shut>>
          /\ req[c].at \notin {"new", "writing"} /\ req[c].got = c
      BY <1>2, <1>12 DEF CallAnswered, Waiting
    <2> QED BY <1>1, <1>3, <2>1, <2>2, ReturnKeeps
  <1>13. CASE CallWrite(c)
    <2>1. req[c].at = "writing" /\ writeGate' = None /\ server' = server \cup {c} /\ writeGate = c
          /\ UNCHANGED <<socket, link, dialer, wire, seq, events, closer, shut>>
      BY <1>3, <1>13 DEF CallWrite, GateAfter
    <2>2. CASE Returned(c, "error", None)
      BY <1>1, <2>1, <2>2, ReturnKeeps
    <2>3. CASE req' = [req EXCEPT ![c].at = "sent"] /\ UNCHANGED pending
      <3> DEFINE m == [req[c] EXCEPT !.at = "sent"]
      <3>1. m \in ReqStates /\ m.at = "sent" /\ m.conn = req[c].conn /\ "sent" \in Waiting /\ req[c].at \in Waiting
        BY <1>1, <2>1 DEF ReqStates, Waiting
      <3>2. m.echo = req[c].echo /\ m.ch = req[c].ch /\ m.got = req[c].got /\ m.result = req[c].result /\ req[c].conn \in 0 .. MaxSockets
        BY <1>1 DEF ReqStates
      <3>3. req' = [req EXCEPT ![c] = m]
        BY <1>1, <2>3
      <3> HIDE DEF m
      <3>4. req[c].at # "encoded" /\ pending' = pending /\ writeGate' # c /\ \A d \in Calls : d # c => writeGate' # d /\ writeGate # d
        BY <1>1, <2>1, <2>3
      <3>5. server' = server \/ server' = server \cup {c}
        BY <2>1
      <3>6. writeGate' \in Calls \cup {None} /\ UNCHANGED <<socket, link, dialer, wire, seq, events, closer, shut>>
        BY <1>1, <2>1, <2>3
      <3> QED BY <1>6, <3>1, <3>2, <3>3, <3>4, <3>5, <3>6
    <2> QED BY <1>13, <2>2, <2>3 DEF CallWrite
  <1>14. CASE CallWriteFails(c)
    <2> DEFINE rq == [req EXCEPT ![c].at = "returned", ![c].result = "error"]
               m == [req[c] EXCEPT !.at = "returned", !.result = "error"]
    <2>1. req[c].at = "writing" /\ writeGate' = None /\ writeGate = c /\ Disconnect(req[c].conn, rq)
          /\ UNCHANGED <<dialer, wire, seq, server, events, closer, shut>>
      BY <1>3, <1>14 DEF CallWriteFails, GateAfter
    <2>2. m \in ReqStates /\ m.at = "returned" /\ m.result = "error"
      BY <1>1 DEF ReqStates
    <2>3. m.echo = req[c].echo /\ m.conn = req[c].conn /\ m.got = req[c].got /\ m.ch = req[c].ch
      BY <1>1 DEF ReqStates
    <2>4. rq = [req EXCEPT ![c] = m]
      BY <1>1
    <2> HIDE DEF m, rq
    <2>5. rq \in [Calls -> ReqStates] /\ rq[c] = m /\ \A d \in Calls : d # c => rq[d] = req[d]
      BY <1>1, <2>2, <2>4
    <2>6. req[c].conn \in Sockets
      BY <1>1, <1>2, <2>1 DEF ReqStates, Waiting, Sockets
    <2>7. CASE link = req[c].conn
      <3>1. \A d \in Calls : rq[d] = req[d] \/ (/\ req[d].at = "writing" /\ rq[d].at = "returned" /\ rq[d].result = "error"
                                                /\ rq[d].echo = req[d].echo /\ rq[d].conn = req[d].conn /\ rq[d].got = req[d].got
                                                /\ rq[d].ch = req[d].ch)
        BY <2>1, <2>2, <2>3, <2>5
      <3>2. \A d \in Calls : rq[d].at = "writing" <=> writeGate' = d
        BY <1>1, <1>3, <2>1, <2>2, <2>5
      <3>3. wire' \in WireStates /\ wire' = wire
        BY <2>1 DEF TransportInv, TransportTypes
      <3>4. link' = 0 /\ pending' = {} /\ req' = ChannelsClosed(rq) /\ socket' = [socket EXCEPT ![req[c].conn] = "closed"]
        BY <2>1, <2>7 DEF Disconnect
      <3> QED BY <1>1, <2>1, <2>5, <2>6, <2>7, <3>1, <3>2, <3>3, <3>4, DisconnectKeeps
    <2>8. CASE link # req[c].conn
      <3>1. req' = [req EXCEPT ![c] = m] /\ UNCHANGED <<link, pending, socket>>
        BY <2>1, <2>4, <2>8 DEF Disconnect
      <3>2. req[c].at \in Waiting /\ req[c].ch # "empty" /\ m.at \notin Waiting
        BY <1>2, <2>1, <2>2, <2>8 DEF Waiting
      <3>3. m.echo \notin pending'
        BY <1>4, <2>3, <3>1, <3>2
      <3>4. m.echo # 0 /\ m.echo <= seq' /\ seq' \in Nat /\ seq <= seq'
        BY <1>1, <1>2, <2>1, <2>3
      <3> QED BY <1>1, <2>1, <2>2, <2>3, <3>1, <3>2, <3>3, <3>4, RequestMoves
    <2> QED BY <2>7, <2>8
  <1> QED BY <1>5, <1>8, <1>9, <1>10, <1>11, <1>12, <1>13, <1>14 DEF CallStep, CallLimit

\* Every step keeps it.
LEMMA TransportStepKeeps == TransportInv /\ [TransportNext]_transportVars => TransportInv'
  <1> SUFFICES ASSUME TransportInv, [TransportNext]_transportVars PROVE TransportInv'
    OBVIOUS
  <1>1. CASE UNCHANGED transportVars
    BY <1>1 DEF transportVars, TransportInv, TransportTypes, EchoesOnce, AnswersSound, OwnAnswer, WaitersSound, WaitersKnown, GateSound,
                SocketsSound, ShutSound, AllReturned
  <1>2. CASE TransportNext
    BY <1>2, LinksKeep, ReadsKeep, CallsKeep, CloseTransportKeeps DEF TransportNext, DialStep
  <1> QED BY <1>1, <1>2

\* What the invariant says of the properties that TLC checks.
LEMMA TransportSafe == TransportInv => TransportTypeOK /\ OwnAnswer /\ WaitersKnown /\ NoSocketLeft /\ TransportDoneLast
  <1> SUFFICES ASSUME TransportInv PROVE TransportTypeOK /\ OwnAnswer /\ WaitersKnown /\ NoSocketLeft /\ TransportDoneLast
    OBVIOUS
  <1>1. TransportTypes /\ OwnAnswer /\ WaitersKnown /\ GateSound /\ SocketsSound /\ ShutSound /\ EchoesOnce
    BY DEF TransportInv, AnswersSound, WaitersSound
  <1>2. TransportTypeOK
    <2>1. pending \subseteq 1 .. seq
      <3>1. \A e \in pending : \E c \in Calls : req[c].echo = e /\ req[c].at \in Waiting
        BY <1>1 DEF WaitersKnown
      <3>2. \A c \in Calls : req[c].at \in Waiting => req[c].echo \in 1 .. seq
        BY <1>1 DEF EchoesOnce, TransportTypes, ReqStates, Waiting
      <3> QED BY <3>1, <3>2
    <2>2. wire.at \in {"idle", "reading", "holding"} /\ wire.conn \in 0 .. MaxSockets /\ wire.frame \in FrameStates
      BY <1>1 DEF TransportTypes, WireStates
    <2> QED BY <1>1, <2>1, <2>2 DEF TransportTypeOK, TransportTypes, SocketStates, DialerStates, ReqStates, FrameStates, GateSound
  <1>3. NoSocketLeft
    <2>1. ASSUME shut = "done" PROVE \A s \in Sockets : socket[s] \notin Live
      <3>1. link = 0 /\ closer = 0 /\ dialer.conn = 0
        BY <1>1, <2>1 DEF ShutSound, SocketsSound, AllReturned
      <3> QED BY <1>1, <3>1 DEF SocketsSound, Sockets
    <2>2. \A s \in Sockets : socket[s] \in SocketStates
      BY <1>1 DEF TransportTypes
    <2> QED BY <1>1, <2>1, <2>2 DEF NoSocketLeft, SocketsSound, Live, SocketStates
  <1>4. TransportDoneLast
    <2> SUFFICES ASSUME shut = "done"
                 PROVE  /\ dialer = Idle /\ wire.at = "idle" /\ pending = {} /\ writeGate = None
                        /\ \A c \in Calls : req[c].at \notin Waiting
      BY DEF TransportDoneLast
    <2>1. dialer.at = "idle" /\ dialer.conn = 0 /\ wire.at = "idle" /\ \A c \in Calls : req[c].at \notin Waiting
      BY <1>1 DEF ShutSound, SocketsSound, AllReturned
    <2>2. dialer = Idle
      BY <1>1, <2>1 DEF TransportTypes, DialerStates, Idle
    <2>3. pending = {}
      BY <1>1, <2>1 DEF WaitersKnown
    <2>4. writeGate = None
      BY <1>1, <2>1 DEF GateSound, Waiting, TransportTypes
    <2> QED BY <2>1, <2>2, <2>3, <2>4
  <1> QED BY <1>1, <1>2, <1>3, <1>4

\* Only who sees the published connection fail gives it up.
LEMMA TransportGivesUp ==
  ASSUME TransportInv, TransportNext, link # 0, link' = 0, shut' = "no"
  PROVE  \/ wire.conn = link /\ (socket[link] # "open" \/ wire.frame.kind = "bad")
         \/ \E c \in Calls : writeGate = c /\ req[c].conn = link
  <1>1. ~Publish /\ ~CloseTransport
    BY DEF Publish, Publishable, CloseTransport, TransportInv, TransportTypes, SocketsSound, DialerStates
  <1>2. ASSUME NEW s, NEW rq, Disconnect(s, rq) PROVE link = s
    BY <1>2 DEF Disconnect
  <1>3. CASE ReadError
    BY <1>2, <1>3 DEF ReadError, Failed
  <1>4. CASE DecodeEvent
    <2>1. CASE wire.frame.kind = "bad"
      BY <1>2, <1>4, <2>1 DEF DecodeEvent
    <2>2. CASE wire.frame.kind # "bad"
      BY <1>4, <2>2 DEF DecodeEvent
    <2> QED BY <2>1, <2>2
  <1>5. ASSUME NEW c \in Calls, CallWriteFails(c) PROVE writeGate = c /\ req[c].conn = link
    BY <1>2, <1>5 DEF CallWriteFails, TransportInv, GateSound
  <1>6. ASSUME NEW c \in Calls, CallBegin(c) \/ CallStep(c) \/ CallWrite(c) \/ CallTimeout(c) PROVE FALSE
    BY <1>6 DEF CallBegin, CallStep, CallRegister, CallAcquire, CallAnswered, CallDisconnected, CallWrite, CallTimeout
  <1>7. ~((\E s \in Sockets : BreakSocket(s)) \/ DialBegin \/ Dialed \/ ReadBegin \/ ReadFrame \/ DispatchResponse \/ CloseSocket \/ CloseDone)
    BY DEF BreakSocket, DialBegin, Dialed, ReadBegin, ReadFrame, DispatchResponse, CloseSocket, CloseDone
  <1> QED BY <1>1, <1>3, <1>4, <1>5, <1>6, <1>7 DEF TransportNext, DialStep, ReadStep, CallLimit

\* The OneBot transport (call, dispatchResponse, disconnect, Close): a request gets the answer to itself, whatever was
\* answered late, twice or on a later connection; who waits is known; and every socket is closed in the end.
THEOREM TransportInductive ==
  TransportSpec => [](TransportTypeOK /\ OwnAnswer /\ WaitersKnown /\ NoSocketLeft /\ TransportDoneLast)
  BY TransportInitKeeps, TransportStepKeeps, TransportSafe, PTL DEF TransportSpec

\* disconnect: the failure of an old connection leaves the one that was dialled since alone.
THEOREM TransportLateErrorHarmless == TransportSpec => LateErrorHarmless
  <1>1. TransportInv /\ [TransportNext]_transportVars =>
          [link # 0 /\ link' = 0 /\ shut' = "no" =>
             \/ wire.conn = link /\ (socket[link] # "open" \/ wire.frame.kind = "bad")
             \/ \E c \in Calls : writeGate = c /\ req[c].conn = link]_transportVars
    BY TransportGivesUp DEF transportVars
  <1> QED BY <1>1, TransportInitKeeps, TransportStepKeeps, PTL DEF TransportSpec, LateErrorHarmless

-----------------------------------------------------------------------------
(* The OneBot adapter.  Its stages, and the message it saw last.            *)

TaskRows == [id : MessageIDs, at : Busy \cup {"dropped", "handled"}, recorded : BOOLEAN]

AllAtRest == \A i \in DOMAIN tasks : tasks[i].at \notin Busy

\* The adapter's stages, one after the other, and what each has ended.
AdapterStages ==
    /\ ~oneBot.started <=> redial = "off"
    /\ oneBot.done => oneBot.closing /\ redial \in {"off", "ended"} /\ AllAtRest
    /\ oneBot.release # "no" => oneBot.done /\ ~linked /\ side # "sending"
    /\ oneBot.release = "done" => inbound # "reading" /\ side \in {"none", "gone"}
    /\ linked => inbound = "reading"

\* The last message with an id is remembered.
LastRemembered == tasks # <<>> /\ tasks[Len(tasks)].id # 0 => lastID = tasks[Len(tasks)].id

OneBotInv == OneBotTypeOK /\ AdapterStages /\ LastRemembered /\ NoRepeatedMessage

\* The adapter starts well.
LEMMA OneBotInitKeeps == OneBotInit => OneBotInv
  <1> SUFFICES ASSUME OneBotInit PROVE OneBotInv
    OBVIOUS
  <1>1. OneBotTypeOK
    <2>1. 0 \in 0 .. MaxDials /\ Base \in Base .. Cap
      BY OneBotAssumption
    <2>2. tasks \in Seq([id : MessageIDs, at : Busy \cup {"dropped", "handled"}, recorded : BOOLEAN])
      BY DEF OneBotInit
    <2>3. oneBot \in [started : BOOLEAN, closing : BOOLEAN, done : BOOLEAN, release : {"no", "begun", "done"}]
      BY DEF OneBotInit
    <2> QED BY <2>1, <2>2, <2>3 DEF OneBotInit, OneBotTypeOK
  <1>2. AdapterStages
    BY DEF OneBotInit, AdapterStages, AllAtRest
  <1>3. LastRemembered /\ NoRepeatedMessage
    BY DEF OneBotInit, LastRemembered, NoRepeatedMessage
  <1> QED BY <1>1, <1>2, <1>3 DEF OneBotInv

\* The life of the adapter.
LEMMA AdapterMoves ==
  ASSUME OneBotInv, (\E e \in BOOLEAN : OneBotStart(e)) \/ OneBotBeginClose \/ ParentEnds \/ IngressDone \/ ReleaseBegin \/ ReleaseDone
  PROVE  OneBotInv'
  <1>1. UNCHANGED <<dials, inbound, lastID, tasks, delay>>
    BY DEF OneBotStart, OneBotBeginClose, ParentEnds, IngressDone, ReleaseBegin, ReleaseDone
  <1>2. LastRemembered' /\ NoRepeatedMessage' /\ (AllAtRest' <=> AllAtRest)
    BY <1>1 DEF OneBotInv, LastRemembered, NoRepeatedMessage, AllAtRest
  <1>3. OneBotTypeOK' /\ AdapterStages'
    <2>1. CASE \E e \in BOOLEAN : OneBotStart(e)
      <3>1. PICK e \in BOOLEAN : OneBotStart(e)
        BY <2>1
      <3>2. CASE e /\ parent
        BY <3>1, <3>2, <1>1, <1>2 DEF OneBotStart, OneBotInv, OneBotTypeOK, AdapterStages
      <3>3. CASE ~(e /\ parent)
        <4>1. /\ ~oneBot.started /\ ~oneBot.closing /\ redial' = "ended" /\ UNCHANGED <<parent, linked, side>>
              /\ oneBot' = [[oneBot EXCEPT !.started = TRUE] EXCEPT !.closing = TRUE]
          BY <3>1, <3>3 DEF OneBotStart, Closing
        <4> DEFINE o == [oneBot EXCEPT !.started = TRUE]
        <4>2. /\ o \in [started : BOOLEAN, closing : BOOLEAN, done : BOOLEAN, release : {"no", "begun", "done"}]
              /\ o.started /\ o.done = oneBot.done /\ o.release = oneBot.release
          BY DEF OneBotInv, OneBotTypeOK
        <4>3. oneBot' = [o EXCEPT !.closing = TRUE]
          BY <4>1
        <4> HIDE DEF o
        <4>4. /\ oneBot' \in [started : BOOLEAN, closing : BOOLEAN, done : BOOLEAN, release : {"no", "begun", "done"}]
              /\ oneBot'.started /\ oneBot'.closing /\ oneBot'.done = oneBot.done /\ oneBot'.release = oneBot.release
          BY <4>2, <4>3
        <4> QED BY <4>1, <4>4, <1>1, <1>2 DEF OneBotInv, OneBotTypeOK, AdapterStages
      <3> QED BY <3>2, <3>3
    <2>2. CASE OneBotBeginClose
      BY <2>2, <1>1, <1>2 DEF OneBotBeginClose, Closing, OneBotInv, OneBotTypeOK, AdapterStages
    <2>3. CASE ParentEnds
      BY <2>3, <1>1, <1>2 DEF ParentEnds, OneBotInv, OneBotTypeOK, AdapterStages
    <2>4. CASE IngressDone
      BY <2>4, <1>1, <1>2 DEF IngressDone, IngressOver, AllAtRest, OneBotInv, OneBotTypeOK, AdapterStages
    <2>5. CASE ReleaseBegin
      BY <2>5, <1>1, <1>2 DEF ReleaseBegin, MayRelease, OneBotInv, OneBotTypeOK, AdapterStages
    <2>6. CASE ReleaseDone
      BY <2>6, <1>1, <1>2 DEF ReleaseDone, TransportsOver, OneBotInv, OneBotTypeOK, AdapterStages
    <2> QED BY <2>1, <2>2, <2>3, <2>4, <2>5, <2>6
  <1> QED BY <1>2, <1>3 DEF OneBotInv

\* The delay stays between its bounds.
LEMMA NextDelayBounded ==
  ASSUME NEW d \in Base .. Cap
  PROVE  NextDelay(d) \in Base .. Cap
  BY OneBotAssumption DEF NextDelay

\* The connections of the adapter.
LEMMA ConnectionMoves ==
  ASSUME OneBotInv, Connected \/ RedialStep \/ LinkBreaks \/ ReadLoopEnds \/ SideDial \/ SideStep
  PROVE  OneBotInv'
  <1>1. UNCHANGED <<parent, oneBot, tasks>> /\ lastID' = lastID
    BY DEF Connected, AfterConnect, RedialStep, ConnectFails, Disconnected, Redial, StopDialing, LinkBreaks, ReadLoopEnds,
           SideDial, SideStep, SideDialed, SideSent, SideOver
  <1>2. LastRemembered' /\ NoRepeatedMessage' /\ (AllAtRest' <=> AllAtRest)
    BY <1>1 DEF OneBotInv, LastRemembered, NoRepeatedMessage, AllAtRest
  <1>3. NextDelay(delay) \in Base .. Cap
    BY NextDelayBounded DEF OneBotInv, OneBotTypeOK
  <1>4. OneBotTypeOK' /\ AdapterStages'
    <2>1. CASE Connected
      BY <2>1, <1>1, <1>2, OneBotAssumption DEF Connected, WorkLive, OneBotInv, OneBotTypeOK, AdapterStages
    <2>2. CASE RedialStep
      BY <2>2, <1>1, <1>2, <1>3 DEF RedialStep, ConnectFails, Disconnected, Redial, StopDialing, WorkLive, OneBotInv, OneBotTypeOK, AdapterStages
    <2>3. CASE LinkBreaks \/ ReadLoopEnds
      <3>1. CASE LinkBreaks
        BY <3>1, <1>1, <1>2 DEF LinkBreaks, OneBotInv, OneBotTypeOK, AdapterStages
      <3>2. CASE ReadLoopEnds
        BY <3>2, <1>1, <1>2 DEF ReadLoopEnds, OneBotInv, OneBotTypeOK, AdapterStages
      <3> QED BY <2>3, <3>1, <3>2
    <2>4. CASE SideDial \/ SideStep
      BY <2>4, <1>1, <1>2 DEF SideDial, SideAdmitted, SideStep, SideDialed, SideSent, SideOver, OneBotInv, OneBotTypeOK, AdapterStages
    <2> QED BY <2>1, <2>2, <2>3, <2>4
  <1> QED BY <1>2, <1>4 DEF OneBotInv

\* A message is accepted: not the one just seen, and not while the adapter closes.
LEMMA AcceptMessageKeeps ==
  ASSUME OneBotInv, NEW id \in MessageIDs, AcceptMessage(id)
  PROVE  OneBotInv'
  <1> DEFINE row == [id |-> id, at |-> "accepted", recorded |-> FALSE]
  <1>1. /\ ~oneBot.closing /\ (id = 0 \/ id # lastID)
        /\ lastID' = (IF id = 0 THEN lastID ELSE id) /\ tasks' = Append(tasks, row)
        /\ UNCHANGED <<parent, oneBot, redial, dials, linked, inbound, delay, side>>
    BY DEF AcceptMessage, TakesMessage
  <1>2. row \in TaskRows /\ row.id = id /\ tasks \in Seq(TaskRows)
    BY DEF TaskRows, Busy, OneBotInv, OneBotTypeOK
  <1> HIDE DEF row
  <1>3. /\ tasks' \in Seq(TaskRows) /\ Len(tasks) \in Nat /\ Len(tasks') = Len(tasks) + 1
        /\ tasks'[Len(tasks) + 1] = row /\ \A i \in 1 .. Len(tasks) : tasks'[i] = tasks[i]
    BY <1>1, <1>2
  <1>4. OneBotTypeOK'
    BY <1>1, <1>3 DEF OneBotInv, OneBotTypeOK, TaskRows
  <1>5. AdapterStages'
    BY <1>1 DEF OneBotInv, AdapterStages
  <1>6. LastRemembered'
    BY <1>1, <1>2, <1>3 DEF LastRemembered
  <1>7. NoRepeatedMessage'
    <2>1. \A i \in 1 .. Len(tasks) - 1 : tasks'[i].id = tasks'[i + 1].id => tasks'[i].id = 0
      BY <1>3 DEF OneBotInv, NoRepeatedMessage
    <2>2. Len(tasks) # 0 /\ tasks'[Len(tasks)].id = tasks'[Len(tasks) + 1].id => tasks'[Len(tasks)].id = 0
      <3>1. Len(tasks) # 0 => tasks # <<>> /\ tasks'[Len(tasks)] = tasks[Len(tasks)]
        BY <1>2, <1>3
      <3> QED BY <3>1, <1>1, <1>2, <1>3 DEF OneBotInv, LastRemembered
    <2>3. \A i \in 1 .. Len(tasks') - 1 : i \in 1 .. Len(tasks) - 1 \/ (i = Len(tasks) /\ Len(tasks) # 0)
      BY <1>3
    <2> QED BY <2>1, <2>2, <2>3 DEF NoRepeatedMessage
  <1> QED BY <1>4, <1>5, <1>6, <1>7 DEF OneBotInv

\* A message goes on or ends.
LEMMA MessageStepKeeps ==
  ASSUME OneBotInv, MessageStep
  PROVE  OneBotInv'
  <1>1. PICK i \in DOMAIN tasks : DropMessage(i) \/ PrepareMessage(i) \/ HandleMessage(i)
    BY DEF MessageStep
  <1>2. UNCHANGED <<parent, oneBot, redial, dials, linked, inbound, lastID, delay, side>> /\ tasks[i].at \in Busy
    BY <1>1 DEF DropMessage, PrepareMessage, HandleMessage, Busy
  <1>3. tasks \in Seq(TaskRows) /\ tasks[i] \in TaskRows
    <2>1. tasks \in Seq(TaskRows)
      BY DEF OneBotInv, OneBotTypeOK, TaskRows
    <2> QED BY <2>1, <1>1
  <1>4. PICK x \in TaskRows : tasks' = [tasks EXCEPT ![i] = x] /\ x.id = tasks[i].id
    <2>1. CASE DropMessage(i)
      <3>1. tasks' = [tasks EXCEPT ![i] = [tasks[i] EXCEPT !.at = "dropped"]]
        BY <2>1 DEF DropMessage
      <3>2. [tasks[i] EXCEPT !.at = "dropped"] \in TaskRows /\ [tasks[i] EXCEPT !.at = "dropped"].id = tasks[i].id
        BY <1>3 DEF TaskRows
      <3> QED BY <3>1, <3>2
    <2>2. CASE PrepareMessage(i)
      <3>1. PICK stored \in BOOLEAN : tasks' = [tasks EXCEPT ![i].at = "ready", ![i].recorded = stored /\ tasks[i].id # 0]
        BY <2>2 DEF PrepareMessage
      <3> DEFINE b == stored /\ tasks[i].id # 0
      <3>2. tasks' = [tasks EXCEPT ![i] = [tasks[i] EXCEPT !.at = "ready", !.recorded = b]]
        BY <3>1
      <3>3. b \in BOOLEAN
        OBVIOUS
      <3> HIDE DEF b
      <3>4. [tasks[i] EXCEPT !.at = "ready", !.recorded = b] \in TaskRows /\ [tasks[i] EXCEPT !.at = "ready", !.recorded = b].id = tasks[i].id
        BY <1>3, <3>3 DEF TaskRows, Busy
      <3> QED BY <3>2, <3>4
    <2>3. CASE HandleMessage(i)
      <3>1. tasks' = [tasks EXCEPT ![i] = [tasks[i] EXCEPT !.at = "handled"]]
        BY <2>3 DEF HandleMessage
      <3>2. [tasks[i] EXCEPT !.at = "handled"] \in TaskRows /\ [tasks[i] EXCEPT !.at = "handled"].id = tasks[i].id
        BY <1>3 DEF TaskRows
      <3> QED BY <3>1, <3>2
    <2> QED BY <2>1, <2>2, <2>3, <1>1
  <1>5. tasks' \in Seq(TaskRows) /\ Len(tasks') = Len(tasks) /\ (tasks' # <<>> <=> tasks # <<>>)
    BY <1>3, <1>4
  <1>6. \A j \in 1 .. Len(tasks) : tasks'[j].id = tasks[j].id
    BY <1>3, <1>4
  <1>7. OneBotTypeOK'
    BY <1>2, <1>5 DEF OneBotInv, OneBotTypeOK, TaskRows
  <1>8. AdapterStages'
    <2>1. ~AllAtRest
      BY <1>1, <1>2 DEF AllAtRest
    <2> QED BY <1>2, <2>1 DEF OneBotInv, AdapterStages
  <1>9. LastRemembered' /\ NoRepeatedMessage'
    <2>1. Len(tasks) \in Nat /\ (tasks # <<>> => Len(tasks) \in 1 .. Len(tasks))
      BY <1>3
    <2>2. LastRemembered'
      <3>1. tasks # <<>> => tasks'[Len(tasks)].id = tasks[Len(tasks)].id
        BY <2>1, <1>6
      <3> QED BY <3>1, <1>2, <1>5 DEF OneBotInv, LastRemembered
    <2>3. NoRepeatedMessage'
      <3> SUFFICES ASSUME NEW j \in 1 .. Len(tasks) - 1, tasks'[j].id = tasks'[j + 1].id PROVE tasks'[j].id = 0
        BY <1>5 DEF NoRepeatedMessage
      <3>1. j \in 1 .. Len(tasks) /\ j + 1 \in 1 .. Len(tasks)
        BY <2>1
      <3>2. tasks'[j].id = tasks[j].id /\ tasks'[j + 1].id = tasks[j + 1].id
        BY <3>1, <1>6
      <3> QED BY <3>2 DEF OneBotInv, NoRepeatedMessage
    <2> QED BY <2>2, <2>3
  <1> QED BY <1>7, <1>8, <1>9 DEF OneBotInv

\* Every step keeps it.
LEMMA OneBotStepKeeps == OneBotInv /\ [OneBotNext]_oneBotVars => OneBotInv'
  <1>1. ASSUME OneBotInv, OneBotNext PROVE OneBotInv'
    BY <1>1, AdapterMoves, ConnectionMoves, AcceptMessageKeeps, MessageStepKeeps DEF OneBotNext
  <1>2. ASSUME OneBotInv, UNCHANGED oneBotVars PROVE OneBotInv'
    BY <1>2 DEF oneBotVars, OneBotInv, OneBotTypeOK, AdapterStages, AllAtRest, LastRemembered, NoRepeatedMessage
  <1> QED BY <1>1, <1>2

LEMMA OneBotSafe == OneBotInv => OneBotTypeOK /\ OneBotQuiet /\ LinkOutlivesWork /\ OneBotReleased /\ NoRepeatedMessage
  BY DEF OneBotInv, AdapterStages, AllAtRest, OneBotQuiet, LinkOutlivesWork, OneBotReleased

\* BeginClose, Wait and Close: the adapter is done after every accepted message was handled, its link lasts until
\* then, it is released with nothing at work, and a message is not handed on twice in a row.
THEOREM OneBotInductive ==
  OneBotSpec => [](OneBotTypeOK /\ OneBotQuiet /\ LinkOutlivesWork /\ OneBotReleased /\ NoRepeatedMessage)
  BY OneBotSafe, OneBotInitKeeps, OneBotStepKeeps, PTL DEF OneBotSpec

-----------------------------------------------------------------------------
(* The QQ client.  A number in flight is nobody else's and was not posted;  *)
(* the token under way is the newest.                                       *)

PostStates == [at : {"new", "gate", "fetch", "issued", "ready", "over", "failed"}, output : 1 .. Len(Posting) + 1,
               upload : BOOLEAN, token : 0 .. MaxTokens, retried : BOOLEAN, force : BOOLEAN, number : Nat]
TokenStates == [value : 0 .. MaxTokens, until : 0 .. MaxTicks + Lifetime]
PostedRows == [by : Posts, output : 1 .. Len(Posting), number : Nat]

ClientTypes ==
    /\ post \in [Posts -> PostStates]
    /\ cached \in TokenStates /\ issued \in TokenStates
    /\ refreshing \in Posts \cup {NoPost} /\ ticks \in 0 .. MaxTicks /\ replySeq \in Nat
    /\ posted \in Seq(PostedRows) /\ receipts \in [Posts -> SUBSET (1 .. Len(Posting))]

\* A post that has a number which the server has not seen.
PostGoing(p) == post[p].at \in {"gate", "fetch", "issued", "ready"} /\ post[p].number # 0

NumbersSound ==
    /\ \A p \in Posts : post[p].number <= replySeq
    /\ \A i \in DOMAIN posted : posted[i].number <= replySeq
    /\ \A p \in Posts, i \in DOMAIN posted : PostGoing(p) => post[p].number # posted[i].number
    /\ \A p, q \in Posts : PostGoing(p) /\ PostGoing(q) /\ post[p].number = post[q].number => p = q

\* What a post has posted lies behind it.
PostsAdvance ==
    /\ \A p \in Posts : post[p].at \in {"gate", "fetch", "issued", "ready"} => post[p].output <= Len(Posting)
    /\ \A i \in DOMAIN posted : posted[i].output < post[posted[i].by].output

\* One refresh at a time, and it has the newest token.
TokensSound ==
    /\ \A p \in Posts : post[p].at \in {"fetch", "issued"} => refreshing = p
    /\ \A p \in Posts : post[p].at = "issued" => post[p].token = issued.value
    /\ cached.value <= issued.value

QQClientInv == ClientTypes /\ NumbersSound /\ PostsAdvance /\ TokensSound /\ ReplyNumbersUnique /\ PostedOnce

\* The client starts well.
LEMMA QQClientInitKeeps == QQClientInit => QQClientInv
  <1> SUFFICES ASSUME QQClientInit PROVE QQClientInv
    OBVIOUS
  <1>1. ClientTypes
    BY QQClientAssumption DEF QQClientInit, ClientTypes, PostStates, TokenStates, NoToken, NoPost
  <1> QED BY <1>1, QQClientAssumption DEF QQClientInit, QQClientInv, NumbersSound, PostGoing, PostsAdvance, TokensSound, ReplyNumbersUnique, PostedOnce,
     NoToken, NoPost

\* Only p changes, and neither its number nor its output.
Reworked(p) ==
    /\ post' \in [Posts -> PostStates]
    /\ \A q \in Posts : q # p => post'[q] = post[q]
    /\ post'[p].number = post[p].number /\ post'[p].output = post[p].output

\* A step that changes neither numbers nor what was posted.
LEMMA ReworkedKeeps ==
  ASSUME QQClientInv, NEW p \in Posts, Reworked(p), UNCHANGED <<replySeq, posted, receipts>>,
         PostGoing(p)' => PostGoing(p),
         post'[p].at \in {"gate", "fetch", "issued", "ready"} => post[p].at \in {"gate", "fetch", "issued", "ready"}
  PROVE  NumbersSound' /\ PostsAdvance' /\ ReplyNumbersUnique' /\ PostedOnce'
  <1>1. \A q \in Posts : (PostGoing(q)' => PostGoing(q)) /\ post'[q].number = post[q].number /\ post'[q].output = post[q].output
    BY DEF PostGoing, Reworked
  <1>2. NumbersSound'
    BY <1>1 DEF QQClientInv, NumbersSound
  <1>3. PostsAdvance'
    <2>1. \A i \in DOMAIN posted : posted[i].by \in Posts
      <3>1. posted \in Seq(PostedRows)
        BY DEF QQClientInv, ClientTypes
      <3>2. \A i \in DOMAIN posted : posted[i] \in PostedRows
        BY <3>1
      <3> QED BY <3>2 DEF PostedRows
    <2>2. \A q \in Posts : post'[q].at \in {"gate", "fetch", "issued", "ready"} => post[q].at \in {"gate", "fetch", "issued", "ready"}
      BY DEF Reworked
    <2> QED BY <1>1, <2>1, <2>2 DEF QQClientInv, PostsAdvance
  <1> QED BY <1>2, <1>3 DEF QQClientInv, ReplyNumbersUnique, PostedOnce

\* Steps with the token: numbers and what was posted stay.
LEMMA TokenStepKeeps ==
  ASSUME QQClientInv, NEW p \in Posts, TokenStep(p)
  PROVE  QQClientInv' /\ (cached'.value = 0 \/ cached'.value >= cached.value)
  <1>0. /\ post \in [Posts -> PostStates] /\ cached \in TokenStates /\ issued \in TokenStates /\ ticks \in 0 .. MaxTicks
        /\ refreshing \in Posts \cup {NoPost} /\ post[p] \in PostStates
    BY DEF QQClientInv, ClientTypes
  <1>1. UNCHANGED <<ticks, replySeq, posted, receipts>> /\ post[p].at \in {"gate", "fetch", "issued"}
    BY DEF TokenStep, AskToken, IssueToken, StoreToken, TokenFails
  <1>2. CASE AskToken(p)
    <2>1. /\ cached' \in TokenStates /\ refreshing' \in Posts \cup {NoPost} /\ issued' = issued /\ refreshing = NoPost
          /\ cached' = cached \/ (cached' = NoToken /\ cached'.value = 0)
      BY <1>0, <1>2, QQClientAssumption DEF AskToken, GateOpen, TokenStates, NoToken
    <2>2. CASE Fresh /\ ~post[p].force
      <3>1. post' = [post EXCEPT ![p].at = "ready", ![p].token = cached.value] /\ refreshing' = refreshing /\ cached' = cached
        BY <1>2, <2>2 DEF AskToken
      <3>2. cached.value \in 0 .. MaxTokens
        BY <1>0 DEF TokenStates
      <3>3. Reworked(p) /\ post'[p].at = "ready"
        BY <1>0, <3>1, <3>2 DEF PostStates, Reworked
      <3>4. TokensSound'
        BY <3>1, <3>3, <2>1 DEF QQClientInv, TokensSound, Reworked
      <3>5. NumbersSound' /\ PostsAdvance' /\ ReplyNumbersUnique' /\ PostedOnce'
        BY <3>3, <1>1, ReworkedKeeps DEF PostGoing, Reworked
      <3> QED BY <1>0, <1>1, <2>1, <3>1, <3>3, <3>4, <3>5 DEF QQClientInv, ClientTypes, Reworked, TokenStates
    <2>3. CASE ~(Fresh /\ ~post[p].force)
      <3>1. post' = [post EXCEPT ![p].at = "fetch"] /\ refreshing' = p
        BY <1>2, <2>3 DEF AskToken
      <3>3. Reworked(p) /\ post'[p].at = "fetch"
        BY <1>0, <3>1 DEF PostStates, Reworked
      <3>4. TokensSound'
        <4>1. \A q \in Posts : post[q].at \in {"fetch", "issued"} => q = NoPost
          BY <2>1 DEF QQClientInv, TokensSound
        <4>2. cached'.value <= issued'.value
          BY <2>1, <1>0 DEF QQClientInv, TokensSound, TokenStates
        <4>3. \A q \in Posts : q # NoPost
          BY QQClientAssumption DEF NoPost
        <4> QED BY <3>1, <3>3, <2>1, <4>1, <4>2, <4>3 DEF TokensSound, Reworked
      <3>5. NumbersSound' /\ PostsAdvance' /\ ReplyNumbersUnique' /\ PostedOnce'
        BY <3>3, <1>1, ReworkedKeeps DEF PostGoing, Reworked
      <3>6. cached'.value = 0 \/ cached'.value >= cached.value
        BY <2>1, <1>0 DEF TokenStates
      <3> QED BY <1>0, <1>1, <2>1, <3>1, <3>3, <3>4, <3>5, <3>6 DEF QQClientInv, ClientTypes, Reworked
    <2> QED BY <2>2, <2>3
  <1>3. CASE IssueToken(p)
    <2>1. /\ post[p].at = "fetch" /\ issued.value < MaxTokens /\ cached' = cached /\ refreshing' = refreshing
          /\ issued' = [value |-> issued.value + 1, until |-> ticks + Lifetime]
          /\ post' = [post EXCEPT ![p].at = "issued", ![p].token = issued.value + 1]
      BY <1>3 DEF IssueToken
    <2>2. issued.value + 1 \in 0 .. MaxTokens /\ ticks + Lifetime \in 0 .. MaxTicks + Lifetime /\ issued.value \in Nat
      BY <2>1, <1>0, QQClientAssumption DEF TokenStates
    <2>3. issued' \in TokenStates /\ issued'.value = issued.value + 1
      BY <2>1, <2>2 DEF TokenStates
    <2>4. Reworked(p) /\ post'[p].at = "issued" /\ post'[p].token = issued.value + 1
      BY <1>0, <2>1, <2>2 DEF PostStates, Reworked
    <2>5. TokensSound'
      <3>1. refreshing = p /\ \A q \in Posts : q # p => post[q].at \notin {"fetch", "issued"}
        BY <2>1 DEF QQClientInv, TokensSound
      <3>2. cached.value <= issued.value /\ cached.value \in Nat
        BY <1>0 DEF QQClientInv, TokensSound, TokenStates
      <3>3. cached'.value <= issued'.value
        BY <3>2, <2>1, <2>2, <2>3
      <3> QED BY <3>1, <3>3, <2>1, <2>3, <2>4 DEF TokensSound, Reworked
    <2>6. NumbersSound' /\ PostsAdvance' /\ ReplyNumbersUnique' /\ PostedOnce'
      BY <2>4, <1>1, ReworkedKeeps DEF PostGoing, Reworked
    <2> QED BY <1>0, <1>1, <2>1, <2>3, <2>4, <2>5, <2>6 DEF QQClientInv, ClientTypes, Reworked, TokenStates
  <1>4. CASE StoreToken(p)
    <2>1. /\ post[p].at = "issued" /\ issued' = issued /\ refreshing' = NoPost
          /\ cached' = [value |-> post[p].token, until |-> ticks + Lifetime]
          /\ post' = [post EXCEPT ![p].at = IF post[p].force THEN "gate" ELSE "ready", ![p].force = FALSE]
      BY <1>4 DEF StoreToken
    <2>2. post[p].token \in 0 .. MaxTokens /\ ticks + Lifetime \in 0 .. MaxTicks + Lifetime
      BY <1>0, QQClientAssumption DEF PostStates
    <2>3. cached' \in TokenStates /\ cached'.value = post[p].token /\ post[p].token = issued.value
      BY <2>1, <2>2 DEF TokenStates, QQClientInv, TokensSound
    <2>4. Reworked(p) /\ post'[p].at \in {"gate", "ready"}
      BY <1>0, <2>1 DEF PostStates, Reworked
    <2>5. cached.value <= issued.value /\ cached.value \in Nat /\ issued.value \in Nat
      BY <1>0 DEF QQClientInv, TokensSound, TokenStates
    <2>6. TokensSound'
      <3>1. \A q \in Posts : q # p => post[q].at \notin {"fetch", "issued"}
        BY <2>1 DEF QQClientInv, TokensSound
      <3> QED BY <3>1, <2>1, <2>3, <2>4, <2>5 DEF TokensSound, Reworked
    <2>7. NumbersSound' /\ PostsAdvance' /\ ReplyNumbersUnique' /\ PostedOnce'
      BY <2>4, <1>1, ReworkedKeeps DEF PostGoing, Reworked
    <2>8. cached'.value >= cached.value
      BY <2>3, <2>5
    <2> QED BY <1>0, <1>1, <2>1, <2>3, <2>4, <2>6, <2>7, <2>8 DEF QQClientInv, ClientTypes, Reworked
  <1>5. CASE TokenFails(p)
    <2>1. post' = [post EXCEPT ![p].at = "failed"] /\ refreshing' \in {NoPost, refreshing} /\ UNCHANGED <<cached, issued>>
          /\ (refreshing' = refreshing \/ refreshing = p)
      BY <1>5 DEF TokenFails, FailPost
    <2>2. Reworked(p) /\ post'[p].at = "failed"
      BY <1>0, <2>1 DEF PostStates, Reworked
    <2>3. TokensSound'
      BY <2>1, <2>2 DEF QQClientInv, TokensSound, Reworked
    <2>4. NumbersSound' /\ PostsAdvance' /\ ReplyNumbersUnique' /\ PostedOnce'
      BY <2>2, <1>1, ReworkedKeeps DEF PostGoing, Reworked
    <2> QED BY <1>0, <1>1, <2>1, <2>2, <2>3, <2>4 DEF QQClientInv, ClientTypes, Reworked, TokenStates
  <1> QED BY <1>2, <1>3, <1>4, <1>5 DEF TokenStep

\* A post takes the next number.
LEMMA PostBeginKeeps ==
  ASSUME QQClientInv, NEW p \in Posts, PostBegin(p)
  PROVE  QQClientInv'
  <1> DEFINE up == Posting[post[p].output] = "media" /\ ~post[p].upload
             n == IF up THEN 0 ELSE replySeq + 1
  <1>1. /\ post[p].at = "new" /\ post[p].output <= Len(Posting)
        /\ post' = [post EXCEPT ![p].at = "gate", ![p].upload = up, ![p].retried = FALSE, ![p].force = FALSE, ![p].number = n]
        /\ replySeq' = IF up THEN replySeq ELSE replySeq + 1
        /\ UNCHANGED <<cached, issued, refreshing, ticks, posted, receipts>>
    BY DEF PostBegin, NextNumber
  <1>0. up \in BOOLEAN /\ post \in [Posts -> PostStates]
    BY DEF QQClientInv, ClientTypes
  <1>2. n \in Nat /\ replySeq' \in Nat /\ replySeq' >= replySeq /\ n <= replySeq' /\ (n # 0 => n = replySeq + 1 /\ replySeq' = replySeq + 1)
    BY <1>1 DEF QQClientInv, ClientTypes
  <1> HIDE DEF n, up
  <1>3. /\ post' \in [Posts -> PostStates]
        /\ \A q \in Posts : q # p => post'[q] = post[q]
        /\ post'[p].at = "gate" /\ post'[p].number = n /\ post'[p].output = post[p].output
    <2>1. post'[p] = [post[p] EXCEPT !.at = "gate", !.upload = up, !.retried = FALSE, !.force = FALSE, !.number = n]
      BY <1>0, <1>1
    <2>2. \A q \in Posts : q # p => post'[q] = post[q]
      BY <1>0, <1>1
    <2>3. post'[p] \in PostStates /\ post'[p].at = "gate" /\ post'[p].number = n /\ post'[p].output = post[p].output
      <3>1. post[p] \in PostStates
        BY <1>0
      <3> QED BY <2>1, <3>1, <1>0, <1>2 DEF PostStates
    <2>4. post' \in [Posts -> PostStates]
      BY <2>2, <2>3, <1>0, <1>1
    <2> QED BY <2>2, <2>3, <2>4
  <1>4. NumbersSound'
    <2>1. \A q \in Posts : q # p => (PostGoing(q)' <=> PostGoing(q)) /\ post'[q].number = post[q].number
      BY <1>3 DEF PostGoing
    <2>2. PostGoing(p)' => post'[p].number = replySeq + 1
      BY <1>2, <1>3 DEF PostGoing
    <2>3. \A q \in Posts : post[q].number \in Nat /\ post[q].number <= replySeq
      BY DEF QQClientInv, NumbersSound, ClientTypes, PostStates
    <2>4. \A i \in DOMAIN posted : posted[i].number \in Nat /\ posted[i].number <= replySeq
      <3>1. posted \in Seq(PostedRows)
        BY DEF QQClientInv, ClientTypes
      <3>2. \A i \in DOMAIN posted : posted[i] \in PostedRows
        BY <3>1
      <3> QED BY <3>2 DEF PostedRows, QQClientInv, NumbersSound
    <2>5. \A q \in Posts : post'[q].number <= replySeq'
      BY <2>1, <2>3, <1>2, <1>3 DEF QQClientInv, ClientTypes
    <2>6. \A i \in DOMAIN posted' : posted'[i].number <= replySeq'
      BY <2>4, <1>1, <1>2 DEF QQClientInv, ClientTypes
    <2>7. \A q \in Posts, i \in DOMAIN posted' : PostGoing(q)' => post'[q].number # posted'[i].number
      BY <2>1, <2>2, <2>4, <1>1 DEF QQClientInv, NumbersSound, ClientTypes
    <2>8. \A q, r \in Posts : PostGoing(q)' /\ PostGoing(r)' /\ post'[q].number = post'[r].number => q = r
      BY <2>1, <2>2, <2>3 DEF QQClientInv, NumbersSound, ClientTypes
    <2> QED BY <2>5, <2>6, <2>7, <2>8 DEF NumbersSound
  <1>5. PostsAdvance'
    <2>1. \A i \in DOMAIN posted : posted[i] \in PostedRows
      <3>1. posted \in Seq(PostedRows)
        BY DEF QQClientInv, ClientTypes
      <3> QED BY <3>1
    <2>2. \A q \in Posts : post'[q].output = post[q].output
      BY <1>3
    <2>3. \A q \in Posts : post'[q].at \in {"gate", "fetch", "issued", "ready"} => post'[q].output <= Len(Posting)
      BY <1>1, <1>3 DEF QQClientInv, PostsAdvance
    <2>4. \A i \in DOMAIN posted : posted[i].output < post[posted[i].by].output /\ posted[i].by \in Posts
      BY <2>1 DEF QQClientInv, PostsAdvance, PostedRows
    <2> QED BY <1>1, <2>2, <2>3, <2>4 DEF PostsAdvance
  <1>6. TokensSound'
    BY <1>1, <1>3 DEF QQClientInv, TokensSound
  <1> QED BY <1>1, <1>2, <1>3, <1>4, <1>5, <1>6 DEF QQClientInv, ClientTypes, ReplyNumbersUnique, PostedOnce

\* The server accepts: an upload, or the message with its number.
LEMMA PostAcceptedKeeps ==
  ASSUME QQClientInv, NEW p \in Posts, PostAccepted(p)
  PROVE  QQClientInv'
  <1> DEFINE x == post[p]
  <1>0. x \in PostStates /\ x.at = "ready" /\ Len(Posting) \in Nat /\ x.output \in 1 .. Len(Posting)
    BY QQClientAssumption DEF PostAccepted, QQClientInv, ClientTypes, PostStates, PostsAdvance
  <1>1. CASE x.number = 0
    <2>1. /\ post' = [post EXCEPT ![p] = [x EXCEPT !.at = "new"]]
          /\ UNCHANGED <<posted, receipts, cached, issued, refreshing, ticks, replySeq>>
      BY <1>1 DEF PostAccepted, QQClientInv, ClientTypes
    <2>2. /\ post' \in [Posts -> PostStates]
          /\ \A q \in Posts : q # p => post'[q] = post[q]
          /\ post'[p].at = "new" /\ post'[p].number = x.number /\ post'[p].output = x.output
      BY <2>1, <1>0 DEF QQClientInv, ClientTypes, PostStates
    <2>3. \A q \in Posts : (PostGoing(q)' => PostGoing(q)) /\ post'[q].number = post[q].number /\ post'[q].output = post[q].output
      BY <2>2 DEF PostGoing
    <2>4. NumbersSound'
      BY <2>1, <2>3 DEF QQClientInv, NumbersSound
    <2>5. PostsAdvance' /\ TokensSound'
      BY <2>1, <2>2, <2>3 DEF QQClientInv, PostsAdvance, TokensSound, ClientTypes, PostedRows
    <2> QED BY <2>1, <2>2, <2>4, <2>5 DEF QQClientInv, ClientTypes, ReplyNumbersUnique, PostedOnce
  <1>2. CASE x.number # 0
    <2> DEFINE row == [by |-> p, output |-> x.output, number |-> x.number]
    <2>1. /\ \E at \in {"over", "new"} : post' = [post EXCEPT ![p].at = at, ![p].output = x.output + 1, ![p].upload = FALSE]
          /\ posted' = Append(posted, row)
          /\ receipts' = [receipts EXCEPT ![p] = receipts[p] \cup {x.output}]
          /\ UNCHANGED <<cached, issued, refreshing, ticks, replySeq>>
      BY <1>2 DEF PostAccepted, NextOutput, QQClientInv, ClientTypes
    <2>2. /\ post' \in [Posts -> PostStates]
          /\ \A q \in Posts : q # p => post'[q] = post[q]
          /\ post'[p].at \in {"over", "new"} /\ post'[p].number = x.number /\ post'[p].output = x.output + 1
      <3>1. x.output + 1 \in 1 .. Len(Posting) + 1 /\ post \in [Posts -> PostStates] /\ x = post[p]
        BY <1>0 DEF QQClientInv, ClientTypes
      <3>2. PICK at \in {"over", "new"} : post' = [post EXCEPT ![p].at = at, ![p].output = x.output + 1, ![p].upload = FALSE]
        BY <2>1
      <3> DEFINE o == x.output + 1
      <3>3. post' = [post EXCEPT ![p].at = at, ![p].output = o, ![p].upload = FALSE] /\ o \in 1 .. Len(Posting) + 1
        BY <3>1, <3>2
      <3> HIDE DEF o, x
      <3>4. post' \in [Posts -> PostStates] /\ (\A q \in Posts : q # p => post'[q] = post[q])
            /\ post'[p].at = at /\ post'[p].number = post[p].number /\ post'[p].output = o
        <4>1. post'[p] = [post[p] EXCEPT !.at = at, !.output = o, !.upload = FALSE]
          BY <3>1, <3>3
        <4>2. \A q \in Posts : q # p => post'[q] = post[q]
          BY <3>1, <3>3
        <4>3. post'[p] \in PostStates /\ post'[p].at = at /\ post'[p].number = post[p].number /\ post'[p].output = o
          <5>1. post[p] \in PostStates
            BY <3>1
          <5>2. o \in 1 .. Len(Posting) + 1
            BY <3>3
          <5> QED BY <4>1, <5>1, <5>2 DEF PostStates
        <4>4. post' \in [Posts -> PostStates]
          BY <4>2, <4>3, <3>1, <3>3
        <4> QED BY <4>2, <4>3, <4>4
      <3> QED BY <3>1, <3>4 DEF o
    <2>3. row \in PostedRows /\ row.by = p /\ row.output = x.output /\ row.number = x.number
      BY <1>0 DEF PostedRows, PostStates
    <2>4. posted \in Seq(PostedRows)
      BY DEF QQClientInv, ClientTypes
    <2> HIDE DEF row, x
    <2>5. /\ posted' \in Seq(PostedRows) /\ DOMAIN posted = 1 .. Len(posted) /\ Len(posted) \in Nat
          /\ DOMAIN posted' = 1 .. Len(posted) + 1
          /\ \A i \in 1 .. Len(posted) : posted'[i] = posted[i]
          /\ posted'[Len(posted) + 1] = row
      BY <2>1, <2>3, <2>4
    <2>6. \A i \in DOMAIN posted' : (i \in DOMAIN posted /\ posted'[i] = posted[i]) \/ (i = Len(posted) + 1 /\ posted'[i] = row)
      BY <2>5
    <2>7. PostGoing(p) /\ ~PostGoing(p)' /\ \A q \in Posts : (PostGoing(q)' => PostGoing(q) /\ q # p) /\ post'[q].number = post[q].number
      BY <2>2, <1>0, <1>2 DEF PostGoing, x
    <2>8. \A i \in DOMAIN posted : posted[i].number # row.number
      BY <2>7, <2>3 DEF QQClientInv, NumbersSound, x
    <2>9. NumbersSound'
      <3>1. \A i \in DOMAIN posted' : posted'[i].number <= replySeq'
        BY <2>6, <2>1, <2>3 DEF QQClientInv, NumbersSound, x
      <3>2. \A q \in Posts : post'[q].number <= replySeq'
        BY <2>1, <2>7 DEF QQClientInv, NumbersSound
      <3>3. \A q \in Posts, i \in DOMAIN posted' : PostGoing(q)' => post'[q].number # posted'[i].number
        BY <2>6, <2>7, <2>3 DEF QQClientInv, NumbersSound, x
      <3>4. \A q, r \in Posts : PostGoing(q)' /\ PostGoing(r)' /\ post'[q].number = post'[r].number => q = r
        BY <2>7 DEF QQClientInv, NumbersSound
      <3> QED BY <3>1, <3>2, <3>3, <3>4 DEF NumbersSound
    <2>10. ReplyNumbersUnique'
      BY <2>5, <2>6, <2>8 DEF QQClientInv, ReplyNumbersUnique
    <2>11. \A i \in DOMAIN posted : posted[i].by \in Posts /\ posted[i].output \in Nat /\ posted[i].output < post[posted[i].by].output
      <3>1. \A i \in DOMAIN posted : posted[i] \in PostedRows
        BY <2>4
      <3> QED BY <3>1 DEF QQClientInv, PostsAdvance, PostedRows
    <2>12. PostsAdvance'
      <3>1. \A i \in DOMAIN posted' : posted'[i].output < post'[posted'[i].by].output
        <4> SUFFICES ASSUME NEW i \in DOMAIN posted' PROVE posted'[i].output < post'[posted'[i].by].output
          OBVIOUS
        <4>1. CASE i \in DOMAIN posted /\ posted'[i] = posted[i]
          <5>1. CASE posted[i].by = p
            BY <4>1, <5>1, <2>11, <2>2, <1>0 DEF x
          <5>2. CASE posted[i].by # p
            BY <4>1, <5>2, <2>11, <2>2
          <5> QED BY <5>1, <5>2
        <4>2. CASE posted'[i] = row
          BY <4>2, <2>2, <2>3, <1>0
        <4> QED BY <4>1, <4>2, <2>6
      <3>2. \A q \in Posts : post'[q].at \in {"gate", "fetch", "issued", "ready"} => post'[q].output <= Len(Posting)
        BY <2>2 DEF QQClientInv, PostsAdvance
      <3> QED BY <3>1, <3>2 DEF PostsAdvance
    <2>13. \A i \in DOMAIN posted : posted[i].by = p => posted[i].output # x.output
      BY <2>11, <1>0 DEF x
    <2>14. PostedOnce'
      <3>1. \A i, j \in DOMAIN posted' : posted'[i].by = posted'[j].by /\ posted'[i].output = posted'[j].output => i = j
        BY <2>6, <2>13, <2>3 DEF QQClientInv, PostedOnce
      <3>2. ASSUME NEW q \in Posts
            PROVE receipts'[q] = {posted'[i].output : i \in {k \in DOMAIN posted' : posted'[k].by = q}}
        <4>1. receipts[q] = {posted[i].output : i \in {k \in DOMAIN posted : posted[k].by = q}}
          BY DEF QQClientInv, PostedOnce
        <4>2. CASE q = p
          <5>1. receipts'[q] = receipts[q] \cup {x.output}
            BY <2>1, <4>2 DEF QQClientInv, ClientTypes
          <5>2. {posted'[i].output : i \in {k \in DOMAIN posted' : posted'[k].by = q}}
                  = {posted[i].output : i \in {k \in DOMAIN posted : posted[k].by = q}} \cup {x.output}
            BY <2>5, <2>6, <2>3, <4>2
          <5> QED BY <5>1, <5>2, <4>1
        <4>3. CASE q # p
          <5>1. receipts'[q] = receipts[q]
            BY <2>1, <4>3 DEF QQClientInv, ClientTypes
          <5>2. {k \in DOMAIN posted' : posted'[k].by = q} = {k \in DOMAIN posted : posted[k].by = q}
            BY <2>5, <2>6, <2>3, <4>3
          <5>3. \A k \in {k \in DOMAIN posted : posted[k].by = q} : posted'[k] = posted[k]
            BY <2>5
          <5> QED BY <5>1, <5>2, <5>3, <4>1
        <4> QED BY <4>2, <4>3
      <3> QED BY <3>1, <3>2 DEF PostedOnce
    <2>15. TokensSound'
      BY <2>1, <2>2 DEF QQClientInv, TokensSound
    <2>16. ClientTypes'
      <3>1. receipts' \in [Posts -> SUBSET (1 .. Len(Posting))]
        BY <2>1, <1>0 DEF QQClientInv, ClientTypes
      <3> QED BY <3>1, <2>1, <2>2, <2>5 DEF QQClientInv, ClientTypes
    <2> QED BY <2>9, <2>10, <2>12, <2>14, <2>15, <2>16 DEF QQClientInv
  <1> QED BY <1>1, <1>2

\* A refused or failed post: its number stays its own.
LEMMA PostRefusedKeeps ==
  ASSUME QQClientInv, NEW p \in Posts, PostUnauthorized(p) \/ PostFails(p)
  PROVE  QQClientInv'
  <1>0. post \in [Posts -> PostStates]
    BY DEF QQClientInv, ClientTypes
  <1>1. post[p].at = "ready" /\ UNCHANGED <<cached, issued, refreshing, ticks, replySeq, posted, receipts>>
    BY DEF PostUnauthorized, PostFails
  <1>2. Reworked(p) /\ post'[p].at \in {"gate", "failed"}
    <2>1. CASE PostUnauthorized(p)
      <3>1. \E at \in {"gate", "failed"} : post' = [post EXCEPT ![p].at = at, ![p].retried = TRUE, ![p].force = TRUE]
        BY <2>1 DEF PostUnauthorized
      <3>2. PICK at \in {"gate", "failed"} : post' = [post EXCEPT ![p].at = at, ![p].retried = TRUE, ![p].force = TRUE]
        BY <3>1
      <3>3. post'[p] = [post[p] EXCEPT !.at = at, !.retried = TRUE, !.force = TRUE]
        BY <1>0, <3>2
      <3>4. \A q \in Posts : q # p => post'[q] = post[q]
        BY <1>0, <3>2
      <3>5. post'[p] \in PostStates /\ post'[p].at = at /\ post'[p].number = post[p].number /\ post'[p].output = post[p].output
        <4>1. post[p] \in PostStates
          BY <1>0
        <4> QED BY <3>3, <4>1 DEF PostStates
      <3>6. post' \in [Posts -> PostStates]
        BY <3>4, <3>5, <1>0, <3>2
      <3> QED BY <3>4, <3>5, <3>6 DEF Reworked
    <2>2. CASE PostFails(p)
      <3>1. post' = [post EXCEPT ![p].at = "failed"]
        BY <2>2 DEF PostFails, FailPost
      <3> QED BY <3>1, <1>0 DEF PostStates, Reworked
    <2> QED BY <2>1, <2>2
  <1>3. NumbersSound' /\ PostsAdvance' /\ ReplyNumbersUnique' /\ PostedOnce'
    BY <1>1, <1>2, ReworkedKeeps DEF PostGoing, Reworked
  <1>4. TokensSound'
    BY <1>1, <1>2 DEF QQClientInv, TokensSound, Reworked
  <1> QED BY <1>1, <1>2, <1>3, <1>4 DEF QQClientInv, ClientTypes, Reworked

\* Time passes, and nothing else.
LEMMA ClockKeeps ==
  ASSUME QQClientInv, QQTick \/ Revoke
  PROVE  QQClientInv'
  <1>1. /\ UNCHANGED <<post, cached, refreshing, replySeq, posted, receipts>>
        /\ ticks' \in 0 .. MaxTicks /\ issued' \in TokenStates /\ issued'.value = issued.value
    <2>1. CASE QQTick
      BY <2>1, QQClientAssumption DEF QQTick, QQClientInv, ClientTypes
    <2>2. CASE Revoke
      BY <2>2, QQClientAssumption DEF Revoke, QQClientInv, ClientTypes, TokenStates
    <2> QED BY <2>1, <2>2
  <1> QED BY <1>1 DEF QQClientInv, ClientTypes, NumbersSound, PostGoing, PostsAdvance, TokensSound, ReplyNumbersUnique, PostedOnce

\* Every step keeps it, and what is cached is only ever replaced by something newer.
LEMMA QQClientStepKeeps ==
  QQClientInv /\ [QQClientNext]_clientVars => QQClientInv' /\ [cached'.value = 0 \/ cached'.value >= cached.value]_clientVars
  <1>1. ASSUME QQClientInv, NEW p \in Posts, TokenStep(p) PROVE QQClientInv' /\ (cached'.value = 0 \/ cached'.value >= cached.value)
    BY <1>1, TokenStepKeeps
  <1>2. ASSUME QQClientInv, NEW p \in Posts, PostStep(p) PROVE QQClientInv' /\ cached' = cached
    BY <1>2, PostBeginKeeps, PostAcceptedKeeps, PostRefusedKeeps DEF PostStep, PostBegin, PostAccepted, PostUnauthorized, PostFails
  <1>3. ASSUME QQClientInv, QQTick \/ Revoke PROVE QQClientInv' /\ cached' = cached
    BY <1>3, ClockKeeps DEF QQTick, Revoke
  <1>4. ASSUME QQClientInv, UNCHANGED clientVars PROVE QQClientInv'
    BY <1>4 DEF clientVars, QQClientInv, ClientTypes, NumbersSound, PostGoing, PostsAdvance, TokensSound, ReplyNumbersUnique, PostedOnce
  <1>5. QQClientInv => cached.value >= cached.value
    BY DEF QQClientInv, ClientTypes, TokenStates
  <1> QED BY <1>1, <1>2, <1>3, <1>4, <1>5 DEF QQClientNext

LEMMA QQClientSafe == QQClientInv => QQClientTypeOK /\ ReplyNumbersUnique /\ PostedOnce
  <1> SUFFICES ASSUME QQClientInv PROVE QQClientTypeOK
    BY DEF QQClientInv
  <1>1. ClientTypes /\ \A p \in Posts : post[p].at \in {"fetch", "issued"} => refreshing = p
    BY DEF QQClientInv, TokensSound
  <1>2. \A i \in DOMAIN posted : posted[i] \in PostedRows
    BY <1>1 DEF ClientTypes
  <1>3. \A i \in DOMAIN posted : posted[i].by \in Posts
    BY <1>2 DEF PostedRows
  <1> QED BY <1>1, <1>3 DEF ClientTypes, QQClientTypeOK, PostStates, TokenStates

\* The QQ client (nextReplySequence, do, accessToken): no two messages share a number, however often they are
\* retried with a fresh token, and every message is posted at most once for each of its outputs.
THEOREM QQClientInductive == QQClientSpec => [](QQClientTypeOK /\ ReplyNumbersUnique /\ PostedOnce)
  BY QQClientInitKeeps, QQClientStepKeeps, QQClientSafe, PTL DEF QQClientSpec

\* A slow refresh never puts an older token back over a newer one (token.go, refreshGate).
THEOREM QQClientNewest == QQClientSpec => CacheNewest
  BY QQClientInitKeeps, QQClientStepKeeps, PTL DEF QQClientSpec, CacheNewest

-----------------------------------------------------------------------------
(* The QQ gateway.  A session that can be resumed is the newest one, and    *)
(* its number is the last that was dispatched.                              *)

ChatRows == [s : 1 .. MaxQQSessions, n : 1 .. MaxQQEvents, busy : BOOLEAN]
AllHandled == \A i \in DOMAIN chats : ~chats[i].busy

\* The stages of the adapter, and what each has ended.
QQStages ==
    /\ ~qq.started <=> gw.at = "off"
    /\ qq.done => qq.closing /\ gw.at \in {"off", "ended"} /\ AllHandled
    /\ qq.release # "no" => qq.done
    /\ QQReleasedLast /\ OneHeartbeat

\* What is known of the session, while it may go on and on a connection.
SessionSound ==
    /\ session.id # 0 => session.id = hub.newest /\ session.resume /\ session.seq # 0
    /\ gw.at \in {"off", "opening", "sleeping", "online"} \/ (gw.at = "leaving" /\ gw.why = "resume") => (session.id = 0 => session.seq = 0)
    /\ gw.at = "online" => hub.bound = hub.newest /\ hub.sent = session.seq
    /\ hub.newest = 0 => hub.last = 0

\* The accepted messages belong to sessions up to the newest; those of the newest end at its number.
ChatsSound ==
    /\ \A i \in DOMAIN chats : chats[i].s <= hub.newest
    /\ gw.at = "online" \/ session.id # 0 =>
          /\ \A i \in DOMAIN chats : chats[i].s = hub.newest => chats[i].n <= session.seq
          /\ ~qq.closing /\ chats # <<>> /\ chats[Len(chats)].s = hub.newest => chats[Len(chats)].n = session.seq

GatewayInv == QQTypeOK /\ QQStages /\ SessionSound /\ ChatsSound /\ QQEventsOnce

\* The adapter starts well.
LEMMA GatewayInitKeeps == QQInit => GatewayInv
  <1> SUFFICES ASSUME QQInit PROVE GatewayInv
    OBVIOUS
  <1>1. MaxQQSessions \in Nat /\ MaxQQEvents \in Nat
    BY QQAssumption
  <1>2. chats = <<>> /\ DOMAIN chats = {} /\ Len(chats) = 0
    BY DEF QQInit
  <1>3. QQTypeOK
    <2>1. session \in [id : 0 .. MaxQQSessions, seq : 0 .. MaxQQEvents, resume : BOOLEAN] /\ session.seq = 0
      BY <1>1 DEF QQInit, NoSession
    <2>2. hub \in [newest : 0 .. MaxQQSessions, last : 0 .. MaxQQEvents, bound : 0 .. MaxQQSessions, sent : 0 .. MaxQQEvents]
      BY <1>1 DEF QQInit
    <2>3. chats \in Seq([s : 1 .. MaxQQSessions, n : 1 .. MaxQQEvents, busy : BOOLEAN])
      BY DEF QQInit
    <2> QED BY <2>1, <2>2, <2>3 DEF QQInit, QQTypeOK, Modes
  <1>4. QQStages /\ SessionSound /\ ChatsSound
    BY <1>2 DEF QQInit, QQStages, AllHandled, QQReleasedLast, OneHeartbeat, SessionSound, ChatsSound, NoSession
  <1>5. QQEventsOnce
    BY <1>2 DEF QQEventsOnce
  <1> QED BY <1>3, <1>4, <1>5 DEF GatewayInv

\* The life of the adapter and its sends.
LEMMA AdapterKeeps ==
  ASSUME GatewayInv,
         \/ \E e \in BOOLEAN : QQStart(e)
         \/ QQBeginClose \/ QQDone \/ QQRelease \/ QQReleased
         \/ \E p \in QQSenders : BeginSend(p) \/ EndSend(p)
  PROVE  GatewayInv'
  <1>1. UNCHANGED <<session, hub, beating, broken, chats>>
    BY DEF QQStart, QQBeginClose, QQDone, QQRelease, QQReleased, BeginSend, EndSend
  <1>2. QQEventsOnce' /\ (AllHandled' <=> AllHandled)
    BY <1>1 DEF GatewayInv, QQEventsOnce, AllHandled
  <1>3. CASE \E e \in BOOLEAN : QQStart(e)
    <2>1. /\ ~qq.started /\ ~qq.closing /\ qq' = [qq EXCEPT !.started = TRUE] /\ sending' = sending
          /\ \E at \in {"opening", "ended"} : gw' = [gw EXCEPT !.at = at]
      BY <1>3 DEF QQStart
    <2>2. QQTypeOK' /\ QQStages' /\ SessionSound'
      BY <2>1, <1>1, <1>2 DEF GatewayInv, QQTypeOK, QQStages, QQReleasedLast, OneHeartbeat, SessionSound
    <2>3. ChatsSound'
      BY <2>1, <1>1 DEF GatewayInv, QQTypeOK, QQStages, ChatsSound
    <2> QED BY <2>2, <2>3, <1>2 DEF GatewayInv
  <1>4. CASE QQBeginClose \/ QQDone \/ QQRelease \/ QQReleased
    <2>1. gw' = gw /\ sending' = sending /\ (qq.closing => qq'.closing)
      BY <1>4 DEF QQBeginClose, QQDone, QQRelease, QQReleased, GatewayInv, QQTypeOK
    <2>2. /\ qq' \in [started : BOOLEAN, closing : BOOLEAN, done : BOOLEAN, failed : BOOLEAN, release : {"no", "begun", "done"}]
          /\ qq'.started = qq.started
          /\ qq'.done => qq'.closing /\ gw.at \in {"off", "ended"} /\ AllHandled
          /\ qq'.release # "no" => qq'.done
          /\ qq'.release = "done" => \A p \in QQSenders : sending[p] # "sending"
      <3>1. CASE QQBeginClose
        BY <3>1 DEF QQBeginClose, GatewayInv, QQTypeOK, QQStages, QQReleasedLast
      <3>2. CASE QQDone
        <4>1. /\ qq' = [qq EXCEPT !.done = TRUE] /\ qq.closing /\ ~qq.done /\ AllHandled /\ (qq.started => gw.at = "ended")
          BY <3>2 DEF QQDone, QQIngressOver, AllHandled
        <4> QED BY <4>1 DEF GatewayInv, QQTypeOK, QQStages, QQReleasedLast
      <3>3. CASE QQRelease
        BY <3>3 DEF QQRelease, GatewayInv, QQTypeOK, QQStages, QQReleasedLast
      <3>4. CASE QQReleased
        BY <3>4 DEF QQReleased, GatewayInv, QQTypeOK, QQStages, QQReleasedLast
      <3> QED BY <1>4, <3>1, <3>2, <3>3, <3>4
    <2>4. QQTypeOK'
      BY <2>1, <2>2, <1>1 DEF GatewayInv, QQTypeOK
    <2>5. QQStages'
      BY <2>1, <2>2, <1>1, <1>2 DEF GatewayInv, QQStages, QQReleasedLast, OneHeartbeat
    <2>3. SessionSound' /\ ChatsSound'
      BY <2>1, <1>1 DEF GatewayInv, SessionSound, ChatsSound
    <2> QED BY <2>3, <2>4, <2>5, <1>2 DEF GatewayInv
  <1>5. CASE \E p \in QQSenders : BeginSend(p) \/ EndSend(p)
    <2>1. gw' = gw /\ qq' = qq
      BY <1>5 DEF BeginSend, EndSend
    <2>2. sending' \in [QQSenders -> {"no", "sending", "over"}] /\ QQReleasedLast'
      BY <1>5, <2>1 DEF BeginSend, EndSend, SendAdmitted, GatewayInv, QQTypeOK, QQStages, QQReleasedLast
    <2>3. QQTypeOK' /\ QQStages'
      BY <2>1, <2>2, <1>1, <1>2 DEF GatewayInv, QQTypeOK, QQStages, OneHeartbeat
    <2>4. SessionSound' /\ ChatsSound'
      BY <2>1, <1>1 DEF GatewayInv, SessionSound, ChatsSound
    <2> QED BY <2>3, <2>4, <1>2 DEF GatewayInv
  <1> QED BY <1>3, <1>4, <1>5

\* A connection is made: it resumes the newest session, or begins a newer one.
LEMMA GatewayOpenKeeps ==
  ASSUME GatewayInv, GatewayOpen
  PROVE  GatewayInv'
  <1>0. MaxQQSessions \in Nat /\ MaxQQEvents \in Nat /\ 1 <= MaxQQEvents
    BY QQAssumption
  <1>1. /\ gw.at = "opening" /\ ~qq.closing /\ gw' = [at |-> "online", why |-> "none"] /\ beating' = TRUE /\ broken' = FALSE
        /\ UNCHANGED <<qq, session, chats, sending>>
    BY DEF GatewayOpen
  <1>2. hub' \in [newest : 0 .. MaxQQSessions, last : 0 .. MaxQQEvents, bound : 0 .. MaxQQSessions, sent : 0 .. MaxQQEvents]
        /\ hub'.bound = hub'.newest /\ hub'.sent = session.seq /\ (hub'.newest = 0 => hub'.last = 0)
        /\ IF session.id # 0 THEN hub'.newest = hub.newest ELSE hub'.newest = hub.newest + 1
    <2>1. CASE Resumes
      <3>1. hub' = [hub EXCEPT !.bound = session.id, !.sent = session.seq] /\ session.id # 0 /\ session.id = hub.newest
        BY <2>1 DEF GatewayOpen, Resumes, GatewayInv, SessionSound
      <3> QED BY <3>1 DEF GatewayInv, QQTypeOK, SessionSound
    <2>2. CASE ~Resumes
      <3>1. session.id = 0 /\ session.seq = 0
        BY <2>2, <1>1 DEF Resumes, GatewayInv, SessionSound
      <3>2. hub.newest < MaxQQSessions /\ hub' = [newest |-> hub.newest + 1, last |-> 1, bound |-> hub.newest + 1, sent |-> 0]
        BY <2>2 DEF GatewayOpen, NewHubSession
      <3>3. hub.newest \in 0 .. MaxQQSessions
        BY DEF GatewayInv, QQTypeOK
      <3>4. hub.newest + 1 \in 0 .. MaxQQSessions /\ 1 \in 0 .. MaxQQEvents /\ 0 \in 0 .. MaxQQEvents /\ hub.newest + 1 # 0
        BY <3>2, <3>3, <1>0
      <3> QED BY <3>1, <3>2, <3>4
    <2> QED BY <2>1, <2>2
  <1>3. QQTypeOK'
    BY <1>1, <1>2 DEF GatewayInv, QQTypeOK, Modes
  <1>4. QQStages'
    BY <1>1 DEF GatewayInv, QQStages, AllHandled, QQReleasedLast, OneHeartbeat
  <1>5. SessionSound'
    BY <1>1, <1>2 DEF GatewayInv, SessionSound
  <1>6. ChatsSound'
    <2>1. CASE session.id # 0
      BY <2>1, <1>1, <1>2 DEF GatewayInv, ChatsSound
    <2>2. CASE session.id = 0
      <3>1. \A i \in DOMAIN chats : chats[i].s \in Nat /\ chats[i].s <= hub.newest
        <4>1. chats \in Seq(ChatRows)
          BY DEF GatewayInv, QQTypeOK, ChatRows
        <4>2. \A i \in DOMAIN chats : chats[i] \in ChatRows
          BY <4>1
        <4> QED BY <4>2, <1>0 DEF GatewayInv, ChatsSound, ChatRows
      <3>2. hub'.newest = hub.newest + 1 /\ hub.newest \in Nat
        BY <2>2, <1>2, <1>0 DEF GatewayInv, QQTypeOK
      <3>3. \A i \in DOMAIN chats : chats[i].s < hub'.newest
        BY <3>1, <3>2
      <3>4. chats # <<>> => Len(chats) \in DOMAIN chats
        <4>1. chats \in Seq(ChatRows)
          BY DEF GatewayInv, QQTypeOK, ChatRows
        <4> QED BY <4>1
      <3> QED BY <3>1, <3>2, <3>3, <3>4, <1>1 DEF ChatsSound
    <2> QED BY <2>1, <2>2
  <1>7. QQEventsOnce'
    BY <1>1 DEF GatewayInv, QQEventsOnce
  <1> QED BY <1>3, <1>4, <1>5, <1>6, <1>7 DEF GatewayInv

\* The next event of the session.
LEMMA HubDispatchKeeps ==
  ASSUME GatewayInv, HubDispatch
  PROVE  GatewayInv'
  <1> DEFINE n == hub.sent + 1
             row == [s |-> hub.bound, n |-> n, busy |-> TRUE]
  <1>0. MaxQQSessions \in Nat /\ MaxQQEvents \in Nat /\ chats \in Seq(ChatRows)
    BY QQAssumption DEF GatewayInv, QQTypeOK, ChatRows
  <1>1. /\ gw.at = "online" /\ hub.bound = hub.newest /\ hub.sent < hub.last
        /\ hub' = [hub EXCEPT !.sent = n]
        /\ session' = IF n = 1 THEN [id |-> hub.bound, seq |-> n, resume |-> TRUE] ELSE [session EXCEPT !.seq = n]
        /\ chats' = IF n > 1 /\ ~qq.closing THEN Append(chats, row) ELSE chats
        /\ UNCHANGED <<qq, gw, beating, broken, sending>>
    BY DEF HubDispatch, AcceptsChat, SeqStored
  <1>2. /\ n \in 1 .. MaxQQEvents /\ hub.newest \in 1 .. MaxQQSessions /\ session.seq = hub.sent /\ n = session.seq + 1
        /\ hub.sent \in Nat /\ (n # 1 => session.id = hub.newest)
    <2>1. /\ hub.newest \in 0 .. MaxQQSessions /\ hub.last \in 0 .. MaxQQEvents /\ hub.sent \in 0 .. MaxQQEvents
          /\ session.seq = hub.sent /\ (hub.newest = 0 => hub.last = 0)
          /\ (session.id = 0 => session.seq = 0) /\ (session.id # 0 => session.id = hub.newest)
      BY <1>1 DEF GatewayInv, QQTypeOK, SessionSound
    <2> QED BY <2>1, <1>0, <1>1
  <1> HIDE DEF n
  <1>3. /\ hub'.newest = hub.newest /\ hub'.bound = hub.newest /\ hub'.last = hub.last /\ hub'.sent = n
        /\ hub' \in [newest : 0 .. MaxQQSessions, last : 0 .. MaxQQEvents, bound : 0 .. MaxQQSessions, sent : 0 .. MaxQQEvents]
    BY <1>1, <1>2, <1>0 DEF GatewayInv, QQTypeOK
  <1>4. /\ session' \in [id : 0 .. MaxQQSessions, seq : 0 .. MaxQQEvents, resume : BOOLEAN]
        /\ session'.id = hub.newest /\ session'.seq = n /\ session'.resume
    <2>1. CASE n = 1
      BY <2>1, <1>1, <1>2, <1>0
    <2>2. CASE n # 1
      <3>1. session' = [session EXCEPT !.seq = n] /\ session.id = hub.newest /\ session.resume
        BY <2>2, <1>1, <1>2 DEF GatewayInv, SessionSound
      <3> QED BY <3>1, <1>2, <1>0 DEF GatewayInv, QQTypeOK
    <2> QED BY <2>1, <2>2
  <1>5. row \in ChatRows /\ row.s = hub.newest /\ row.n = n
    BY <1>1, <1>2 DEF ChatRows
  <1> HIDE DEF row
  <1>6. chats' \in Seq(ChatRows)
    BY <1>0, <1>1, <1>5
  <1>7. QQTypeOK'
    BY <1>1, <1>3, <1>4, <1>6 DEF GatewayInv, QQTypeOK, ChatRows
  <1>8. QQStages'
    BY <1>1 DEF GatewayInv, QQStages, AllHandled, QQReleasedLast, OneHeartbeat
  <1>9. SessionSound'
    BY <1>1, <1>2, <1>3, <1>4 DEF GatewayInv, SessionSound
  <1>10. /\ \A i \in DOMAIN chats : chats[i].s <= hub.newest /\ (chats[i].s = hub.newest => chats[i].n <= session.seq)
         /\ \A i \in DOMAIN chats : chats[i].s \in Nat /\ chats[i].n \in Nat
         /\ ~qq.closing /\ chats # <<>> /\ chats[Len(chats)].s = hub.newest => chats[Len(chats)].n = session.seq
    <2>1. \A i \in DOMAIN chats : chats[i] \in ChatRows
      BY <1>0
    <2> QED BY <1>0, <1>1, <2>1 DEF GatewayInv, ChatsSound, ChatRows
  <1>11. CASE n > 1 /\ ~qq.closing
    <2>1. /\ Len(chats) \in Nat /\ chats' = Append(chats, row) /\ Len(chats') = Len(chats) + 1 /\ DOMAIN chats = 1 .. Len(chats)
          /\ DOMAIN chats' = 1 .. Len(chats) + 1 /\ chats'[Len(chats) + 1] = row /\ \A i \in 1 .. Len(chats) : chats'[i] = chats[i]
      BY <1>0, <1>1, <1>5, <1>11
    <2>2. \A i \in DOMAIN chats' : (i \in DOMAIN chats /\ chats'[i] = chats[i]) \/ (i = Len(chats) + 1 /\ chats'[i] = row)
      BY <2>1
    <2>3. session.seq \in Nat /\ n = session.seq + 1 /\ hub.newest \in Nat
      BY <1>2, <1>0
    <2>4. ChatsSound'
      <3>1. \A i \in DOMAIN chats' : chats'[i].s <= hub.newest /\ (chats'[i].s = hub.newest => chats'[i].n <= n)
        BY <2>2, <2>3, <1>5, <1>10
      <3>2. chats'[Len(chats')].n = n
        BY <2>1, <1>5
      <3> QED BY <3>1, <3>2, <1>3, <1>4 DEF ChatsSound
    <2>5. QQEventsOnce'
      <3>1. \A i \in DOMAIN chats', j \in DOMAIN chats' : i < j =>
               chats'[i].s < chats'[j].s \/ (chats'[i].s = chats'[j].s /\ chats'[i].n < chats'[j].n)
        <4> SUFFICES ASSUME NEW i \in DOMAIN chats', NEW j \in DOMAIN chats', i < j
                     PROVE  chats'[i].s < chats'[j].s \/ (chats'[i].s = chats'[j].s /\ chats'[i].n < chats'[j].n)
          OBVIOUS
        <4>1. i \in DOMAIN chats /\ chats'[i] = chats[i]
          BY <2>1
        <4>2. CASE j \in DOMAIN chats /\ chats'[j] = chats[j]
          BY <4>1, <4>2 DEF GatewayInv, QQEventsOnce
        <4>3. CASE chats'[j] = row
          BY <4>1, <4>3, <1>5, <1>10, <2>3
        <4> QED BY <4>2, <4>3, <2>2
      <3>2. \A i \in 1 .. Len(chats') - 1 : chats'[i].s = chats'[i + 1].s => chats'[i + 1].n = chats'[i].n + 1
        <4> SUFFICES ASSUME NEW i \in 1 .. Len(chats') - 1, chats'[i].s = chats'[i + 1].s
                     PROVE  chats'[i + 1].n = chats'[i].n + 1
          OBVIOUS
        <4>1. i \in 1 .. Len(chats) /\ chats'[i] = chats[i]
          BY <2>1
        <4>2. CASE i = Len(chats)
          <5>1. chats'[i + 1] = row /\ chats # <<>> /\ chats'[i] = chats[Len(chats)]
            BY <4>1, <4>2, <2>1
          <5> QED BY <5>1, <1>5, <1>10, <1>11, <2>3
        <4>3. CASE i # Len(chats)
          <5>1. i \in 1 .. Len(chats) - 1 /\ chats'[i + 1] = chats[i + 1]
            BY <4>1, <4>3, <2>1
          <5> QED BY <5>1, <4>1 DEF GatewayInv, QQEventsOnce
        <4> QED BY <4>2, <4>3
      <3> QED BY <3>1, <3>2 DEF QQEventsOnce
    <2> QED BY <2>4, <2>5, <1>7, <1>8, <1>9 DEF GatewayInv
  <1>12. CASE ~(n > 1 /\ ~qq.closing)
    <2>1. chats' = chats
      BY <1>12, <1>1
    <2>2. QQEventsOnce'
      BY <2>1 DEF GatewayInv, QQEventsOnce
    <2>3. n \in Nat /\ session.seq \in Nat /\ n = session.seq + 1
      BY <1>2, <1>0
    <2>4. \A i \in DOMAIN chats : chats[i].s = hub.newest => chats[i].n <= n
      BY <1>10, <2>3
    <2>5. ~qq.closing => n = 1
      BY <1>12, <1>2, <2>3
    <2>6. n = 1 => \A i \in DOMAIN chats : chats[i].s # hub.newest
      <3>1. \A i \in DOMAIN chats : chats[i] \in ChatRows
        BY <1>0
      <3>2. \A i \in DOMAIN chats : chats[i].n \in Nat /\ chats[i].n >= 1
        BY <3>1, <1>0 DEF ChatRows
      <3> QED BY <3>2, <1>10, <2>3
    <2>7. chats # <<>> => Len(chats) \in DOMAIN chats
      BY <1>0
    <2>8. ChatsSound'
      BY <2>1, <2>4, <2>5, <2>6, <2>7, <1>1, <1>3, <1>4, <1>10 DEF ChatsSound
    <2> QED BY <2>2, <2>8, <1>7, <1>8, <1>9 DEF GatewayInv
  <1> QED BY <1>11, <1>12

\* The server, the heartbeat, and the ways of losing a connection.
LEMMA GatewayMoves ==
  ASSUME GatewayInv,
         \/ GatewayFails \/ HubEvent \/ ReceiveReconnect \/ ReceiveInvalid \/ HeartbeatFails \/ HeartbeatStops \/ GatewayStep
         \/ \E why \in Modes : ReadFails(why)
  PROVE  GatewayInv'
  <1>0. MaxQQSessions \in Nat /\ MaxQQEvents \in Nat
    BY QQAssumption
  <1>1. UNCHANGED <<qq, chats, sending>>
    BY DEF GatewayFails, HubEvent, ReceiveReconnect, ReceiveInvalid, HeartbeatFails, HeartbeatStops, GatewayStep, GatewayWakes, GatewayStops, ReadFails
  <1>2. QQEventsOnce' /\ (AllHandled' <=> AllHandled) /\ QQReleasedLast'
    BY <1>1 DEF GatewayInv, QQEventsOnce, AllHandled, QQStages, QQReleasedLast
  <1>3. CASE HubEvent
    <2>1. /\ hub' = [hub EXCEPT !.last = hub.last + 1] /\ hub.newest > 0 /\ hub.last < MaxQQEvents
          /\ UNCHANGED <<gw, session, beating, broken>>
      BY <1>3 DEF HubEvent
    <2>2. /\ hub' \in [newest : 0 .. MaxQQSessions, last : 0 .. MaxQQEvents, bound : 0 .. MaxQQSessions, sent : 0 .. MaxQQEvents]
          /\ hub'.newest = hub.newest /\ hub'.bound = hub.bound /\ hub'.sent = hub.sent /\ hub.newest # 0
      <3>1. hub.last + 1 \in 0 .. MaxQQEvents /\ hub.newest # 0
        BY <2>1, <1>0 DEF GatewayInv, QQTypeOK
      <3> DEFINE l == hub.last + 1
      <3>2. hub' = [hub EXCEPT !.last = l] /\ l \in 0 .. MaxQQEvents
        BY <2>1, <3>1
      <3> HIDE DEF l
      <3> QED BY <3>1, <3>2 DEF GatewayInv, QQTypeOK
    <2>3. QQTypeOK' /\ QQStages'
      BY <2>1, <2>2, <1>1, <1>2 DEF GatewayInv, QQTypeOK, QQStages, OneHeartbeat
    <2>4. SessionSound' /\ ChatsSound'
      BY <2>1, <2>2, <1>1 DEF GatewayInv, SessionSound, ChatsSound
    <2> QED BY <2>3, <2>4, <1>2 DEF GatewayInv
  <1>4. CASE HeartbeatFails \/ HeartbeatStops
    <2>1. UNCHANGED <<gw, session, hub>> /\ beating' = FALSE /\ broken' \in {TRUE, broken}
      BY <1>4 DEF HeartbeatFails, HeartbeatStops
    <2>2. QQTypeOK' /\ QQStages' /\ SessionSound' /\ ChatsSound'
      BY <2>1, <1>1, <1>2 DEF GatewayInv, QQTypeOK, QQStages, OneHeartbeat, SessionSound, ChatsSound
    <2> QED BY <2>2, <1>2 DEF GatewayInv
  <1>5. CASE GatewayWakes \/ (GatewayStops /\ gw.at # "online")
    <2>1. /\ UNCHANGED <<session, hub, beating, broken>> /\ gw.at \in {"opening", "sleeping"} /\ (gw.at = "opening" => qq.closing)
          /\ \E at \in {"opening", "ended"} : gw' = [gw EXCEPT !.at = at]
      BY <1>5 DEF GatewayWakes, GatewayStops
    <2>2. gw'.at \in {"opening", "ended"}
      BY <2>1 DEF GatewayInv, QQTypeOK
    <2>3. QQTypeOK'
      BY <2>1, <1>1 DEF GatewayInv, QQTypeOK
    <2>4. QQStages'
      BY <2>1, <2>2, <1>1, <1>2 DEF GatewayInv, QQStages, OneHeartbeat
    <2>5. SessionSound' /\ ChatsSound'
      BY <2>1, <2>2, <1>1 DEF GatewayInv, SessionSound, ChatsSound
    <2> QED BY <2>3, <2>4, <2>5, <1>2 DEF GatewayInv
  <1>6. CASE GatewayFails \/ (\E why \in Modes : ReadFails(why)) \/ (GatewayStops /\ gw.at = "online")
    <2>1. /\ UNCHANGED <<session, hub, beating, broken>> /\ gw.at \in {"opening", "online"}
          /\ \E why \in Modes : gw' = [at |-> "leaving", why |-> why]
      BY <1>6 DEF GatewayFails, ReadFails, GatewayStops, LeaveFor, Modes
    <2>2. QQTypeOK' /\ QQStages' /\ SessionSound' /\ ChatsSound'
      BY <2>1, <1>1, <1>2 DEF GatewayInv, QQTypeOK, QQStages, OneHeartbeat, SessionSound, ChatsSound
    <2> QED BY <2>2, <1>2 DEF GatewayInv
  <1>7. CASE ReceiveReconnect
    <2>1. gw.at = "online" /\ gw' = [at |-> "leaving", why |-> "resume"] /\ session' = [session EXCEPT !.resume = TRUE]
          /\ UNCHANGED <<hub, beating, broken>>
      BY <1>7 DEF ReceiveReconnect, LeaveFor
    <2>2. QQTypeOK' /\ QQStages' /\ SessionSound' /\ ChatsSound'
      BY <2>1, <1>1, <1>2 DEF GatewayInv, QQTypeOK, QQStages, OneHeartbeat, SessionSound, ChatsSound, Modes
    <2> QED BY <2>2, <1>2 DEF GatewayInv
  <1>8. CASE ReceiveInvalid
    <2>1. gw.at = "online" /\ gw' = [at |-> "leaving", why |-> "identify"] /\ session' = [session EXCEPT !.resume = FALSE, !.id = 0]
          /\ UNCHANGED <<hub, beating, broken>>
      BY <1>8 DEF ReceiveInvalid, LeaveFor
    <2>2. /\ session' \in [id : 0 .. MaxQQSessions, seq : 0 .. MaxQQEvents, resume : BOOLEAN] /\ session'.id = 0
      <3>1. session \in [id : 0 .. MaxQQSessions, seq : 0 .. MaxQQEvents, resume : BOOLEAN]
        BY DEF GatewayInv, QQTypeOK
      <3>2. 0 \in 0 .. MaxQQSessions
        BY <1>0
      <3>3. session' = [session EXCEPT !.resume = FALSE, !.id = 0]
        BY <2>1
      <3> QED BY <3>1, <3>2, <3>3
    <2>3. QQTypeOK'
      BY <2>1, <2>2, <1>1 DEF GatewayInv, QQTypeOK, Modes
    <2>4. QQStages'
      BY <2>1, <1>1, <1>2 DEF GatewayInv, QQStages, OneHeartbeat
    <2>5. SessionSound' /\ ChatsSound'
      BY <2>1, <2>2, <1>1 DEF GatewayInv, SessionSound, ChatsSound
    <2> QED BY <2>3, <2>4, <2>5, <1>2 DEF GatewayInv
  <1> QED BY <1>3, <1>4, <1>5, <1>6, <1>7, <1>8 DEF GatewayStep

\* A connection has been left: its session is kept or forgotten.
LEMMA GatewayLeftKeeps ==
  ASSUME GatewayInv, GatewayLeft
  PROVE  GatewayInv'
  <1>1. gw.at = "leaving" /\ ~beating /\ UNCHANGED <<hub, beating, broken, chats, sending>>
    BY DEF GatewayLeft, HeartJoined
  <1>2. QQEventsOnce' /\ (AllHandled' <=> AllHandled)
    BY <1>1 DEF GatewayInv, QQEventsOnce, AllHandled
  <1>3. CASE gw.why = "fatal"
    <2>1. qq' = [qq EXCEPT !.failed = TRUE, !.closing = TRUE] /\ gw' = [at |-> "ended", why |-> "none"] /\ session' = session
      BY <1>3 DEF GatewayLeft
    <2>2. QQTypeOK' /\ QQStages' /\ SessionSound' /\ ChatsSound'
      BY <2>1, <1>1, <1>2 DEF GatewayInv, QQTypeOK, QQStages, QQReleasedLast, OneHeartbeat, SessionSound, ChatsSound, Modes
    <2> QED BY <2>2, <1>2 DEF GatewayInv
  <1>4. CASE gw.why # "fatal"
    <2>1. gw' = [at |-> "sleeping", why |-> "none"] /\ qq' = qq
      BY <1>4 DEF GatewayLeft
    <2>2. /\ session' \in [id : 0 .. MaxQQSessions, seq : 0 .. MaxQQEvents, resume : BOOLEAN]
          /\ session'.id # 0 => session'.id = session.id /\ session'.seq = session.seq /\ session'.resume
          /\ session'.id = 0 => session'.seq = 0
      <3>1. CASE gw.why = "resume"
        <4>1. session' = [session EXCEPT !.resume = TRUE]
          BY <3>1, <1>4 DEF GatewayLeft, KeptSession
        <4>2. session.id = 0 => session.seq = 0
          BY <3>1, <1>1 DEF GatewayInv, SessionSound
        <4> QED BY <4>1, <4>2 DEF GatewayInv, QQTypeOK
      <3>2. CASE gw.why # "resume"
        <4>1. session' = [id |-> 0, seq |-> 0, resume |-> FALSE]
          BY <3>2, <1>4 DEF GatewayLeft, ForgottenSession, NoSession
        <4>2. MaxQQSessions \in Nat /\ MaxQQEvents \in Nat
          BY QQAssumption
        <4> QED BY <4>1, <4>2
      <3> QED BY <3>1, <3>2
    <2>3. QQTypeOK'
      BY <2>1, <2>2, <1>1 DEF GatewayInv, QQTypeOK, Modes
    <2>4. QQStages'
      BY <2>1, <1>1, <1>2 DEF GatewayInv, QQStages, QQReleasedLast, OneHeartbeat
    <2>5. SessionSound' /\ ChatsSound'
      BY <2>1, <2>2, <1>1 DEF GatewayInv, SessionSound, ChatsSound
    <2> QED BY <2>3, <2>4, <2>5, <1>2 DEF GatewayInv
  <1> QED BY <1>3, <1>4

\* A message has been handled.
LEMMA ChatOverKeeps ==
  ASSUME GatewayInv, NEW i \in DOMAIN chats, ChatOver(i)
  PROVE  GatewayInv'
  <1>1. chats[i].busy /\ chats' = [chats EXCEPT ![i].busy = FALSE] /\ UNCHANGED <<qq, gw, session, hub, beating, broken, sending>>
    BY DEF ChatOver
  <1>2. chats \in Seq(ChatRows) /\ chats[i] \in ChatRows
    <2>1. chats \in Seq(ChatRows)
      BY DEF GatewayInv, QQTypeOK, ChatRows
    <2> QED BY <2>1
  <1> DEFINE x == [chats[i] EXCEPT !.busy = FALSE]
  <1>3. x \in ChatRows /\ x.s = chats[i].s /\ x.n = chats[i].n
    BY <1>2 DEF ChatRows
  <1>4. chats' = [chats EXCEPT ![i] = x]
    BY <1>1
  <1> HIDE DEF x
  <1>5. /\ chats' \in Seq(ChatRows) /\ Len(chats') = Len(chats) /\ DOMAIN chats' = DOMAIN chats /\ (chats' # <<>> <=> chats # <<>>)
        /\ DOMAIN chats = 1 .. Len(chats) /\ Len(chats) \in Nat
    BY <1>2, <1>3, <1>4
  <1>6. \A j \in DOMAIN chats : chats'[j].s = chats[j].s /\ chats'[j].n = chats[j].n
    BY <1>2, <1>3, <1>4
  <1>7. QQTypeOK'
    BY <1>1, <1>5 DEF GatewayInv, QQTypeOK, ChatRows
  <1>8. QQStages'
    <2>1. ~AllHandled
      BY <1>1 DEF AllHandled
    <2> QED BY <2>1, <1>1 DEF GatewayInv, QQStages, QQReleasedLast, OneHeartbeat
  <1>9. SessionSound'
    BY <1>1 DEF GatewayInv, SessionSound
  <1>10. ChatsSound'
    <2>1. chats # <<>> => Len(chats) \in DOMAIN chats
      BY <1>2
    <2> QED BY <2>1, <1>1, <1>5, <1>6 DEF GatewayInv, ChatsSound
  <1>11. QQEventsOnce'
    <2>1. \A j \in 1 .. Len(chats) - 1 : j \in DOMAIN chats /\ j + 1 \in DOMAIN chats
      BY <1>5
    <2>2. \A j \in DOMAIN chats' : \A k \in DOMAIN chats' : j < k =>
             chats'[j].s < chats'[k].s \/ (chats'[j].s = chats'[k].s /\ chats'[j].n < chats'[k].n)
      BY <1>5, <1>6 DEF GatewayInv, QQEventsOnce
    <2>3. \A j \in 1 .. Len(chats') - 1 : chats'[j].s = chats'[j + 1].s => chats'[j + 1].n = chats'[j].n + 1
      <3> SUFFICES ASSUME NEW j \in 1 .. Len(chats) - 1, chats'[j].s = chats'[j + 1].s PROVE chats'[j + 1].n = chats'[j].n + 1
        BY <1>5
      <3>1. chats[j].s = chats[j + 1].s
        BY <2>1, <1>6
      <3>2. chats[j + 1].n = chats[j].n + 1
        BY <3>1 DEF GatewayInv, QQEventsOnce
      <3> QED BY <3>2, <2>1, <1>6
    <2> QED BY <2>2, <2>3 DEF QQEventsOnce
  <1> QED BY <1>7, <1>8, <1>9, <1>10, <1>11 DEF GatewayInv

\* Every step keeps it.
LEMMA GatewayStepKeeps == GatewayInv /\ [QQNext]_qqVars => GatewayInv'
  <1>1. ASSUME GatewayInv, QQNext PROVE GatewayInv'
    BY <1>1, AdapterKeeps, GatewayOpenKeeps, HubDispatchKeeps, GatewayMoves, GatewayLeftKeeps, ChatOverKeeps
       DEF QQNext, OpenStep, LeaveStep
  <1>2. ASSUME GatewayInv, UNCHANGED qqVars PROVE GatewayInv'
    BY <1>2 DEF qqVars, GatewayInv, QQTypeOK, QQStages, AllHandled, QQReleasedLast, OneHeartbeat, SessionSound, ChatsSound, QQEventsOnce
  <1> QED BY <1>1, <1>2

LEMMA GatewaySafe == GatewayInv => QQTypeOK /\ QQEventsOnce /\ OneHeartbeat /\ QQQuiet /\ QQReleasedLast
  BY DEF GatewayInv, QQStages, AllHandled, OneHeartbeat, QQQuiet

\* handleDispatch, runGateway and Close: the gateway hands no event on twice whatever it resumes, one heartbeat runs at a time
\* and only on a connection, and the adapter is done and released after what it accepted and sends.
THEOREM GatewayInductive ==
  QQSpec => [](QQTypeOK /\ QQEventsOnce /\ OneHeartbeat /\ QQQuiet /\ QQReleasedLast)
  BY GatewaySafe, GatewayInitKeeps, GatewayStepKeeps, PTL DEF QQSpec

-----------------------------------------------------------------------------
(* The Telegram adapter.  What was asked for lies before the offset, and    *)
(* while the adapter is open all of it was accepted.                        *)

BotTypes ==
    /\ bot \in [started : BOOLEAN, closing : BOOLEAN, done : BOOLEAN, release : {"no", "begun", "done"}]
    /\ poll \in [at : {"off", "hello", "asking", "batch", "sleeping", "ended"}, offset : 0 .. MaxUpdates + 1,
                 batch : Seq(1 .. MaxUpdates)]
    /\ updates \in 0 .. MaxUpdates /\ confirmed \in 0 .. MaxUpdates
    /\ accepted \in Seq(1 .. MaxUpdates) /\ working \subseteq 1 .. MaxUpdates /\ taken \subseteq 1 .. MaxUpdates
    /\ operation \in [Operations -> {"no", "running", "over"}] /\ bots \in 0 .. MaxBots

\* The batch is consecutive and begins at or after the offset; what was accepted lies before it.
BatchSound ==
    /\ \A i \in DOMAIN poll.batch : poll.batch[i] >= poll.offset /\ poll.batch[i] = poll.batch[1] + i - 1
    /\ \A i \in DOMAIN accepted : accepted[i] < poll.offset

\* Until it closes, the adapter has accepted whatever the next poll confirms.
OpenTakesAll ==
    ~bot.closing => /\ \A u \in 1 .. MaxUpdates : u < poll.offset => u \in taken
                    /\ \A u \in 1 .. MaxUpdates : poll.batch # <<>> /\ u < poll.batch[1] => u \in taken

\* The stages of the adapter and of its loop.
BotStages ==
    /\ ~bot.started <=> poll.at = "off"
    /\ bot.done => bot.closing /\ poll.at \in {"off", "ended"} /\ working = {}
    /\ bot.release # "no" => bot.done

TelegramInv ==
    /\ BotTypes /\ BatchSound /\ OpenTakesAll /\ BotStages
    /\ UpdatesOnce /\ NoUpdateLost /\ OperationsJoined

\* The adapter starts well.
LEMMA TelegramInitKeeps == TelegramInit => TelegramInv
  BY TelegramAssumption DEF TelegramInit, TelegramInv, BotTypes, BatchSound, OpenTakesAll, BotStages, UpdatesOnce, NoUpdateLost,
     OperationsJoined, NewBot, NewPoll

\* A poll: what it confirms was accepted, and what it brings comes next.
LEMMA GetUpdatesKeeps ==
  ASSUME TelegramInv, GetUpdates
  PROVE  TelegramInv'
  <1> DEFINE c == IF poll.offset > confirmed + 1 THEN poll.offset - 1 ELSE confirmed
  <1>1. PICK n \in IF updates > c THEN c + 1 .. updates ELSE {c} :
          poll' = [poll EXCEPT !.at = "batch", !.batch = [i \in 1 .. n - c |-> c + i]]
    BY DEF GetUpdates
  <1>2. /\ ~bot.closing /\ poll.at = "asking" /\ confirmed' = c /\ bot' = bot /\ updates' = updates /\ accepted' = accepted
        /\ working' = working /\ taken' = taken /\ operation' = operation /\ bots' = bots
    BY DEF GetUpdates
  <1>3. c \in 0 .. MaxUpdates /\ n \in 0 .. MaxUpdates /\ n >= c /\ poll.offset - 1 <= c
    BY <1>1, TelegramAssumption DEF TelegramInv, BotTypes
  <1> DEFINE b == [i \in 1 .. n - c |-> c + i]
  <1>4. b \in Seq(1 .. MaxUpdates) /\ DOMAIN b = 1 .. n - c /\ \A i \in DOMAIN b : b[i] = c + i
    BY <1>3, TelegramAssumption
  <1>5. poll'.at = "batch" /\ poll'.batch = b /\ poll'.offset = poll.offset
    BY <1>1 DEF TelegramInv, BotTypes
  <1>6. \A u \in 1 .. MaxUpdates : u <= c => u \in taken
    BY <1>2, <1>3, TelegramAssumption DEF TelegramInv, OpenTakesAll, NoUpdateLost, BotTypes
  <1>7. BotTypes'
    <2>1. poll' \in [at : {"off", "hello", "asking", "batch", "sleeping", "ended"}, offset : 0 .. MaxUpdates + 1,
                 batch : Seq(1 .. MaxUpdates)]
      BY <1>1, <1>4 DEF TelegramInv, BotTypes
    <2> QED BY <2>1, <1>2, <1>3 DEF TelegramInv, BotTypes
  <1>8. BatchSound'
    <2>1. \A i \in DOMAIN b : b[i] = c + i /\ i \in Nat /\ i >= 1
      BY <1>4, <1>3
    <2>2. \A i \in DOMAIN b : 1 \in DOMAIN b
      BY <1>4, <1>3
    <2>3. c \in Nat /\ poll.offset \in Nat /\ c + 1 >= poll.offset
      BY <1>3 DEF TelegramInv, BotTypes
    <2> HIDE DEF b, c
    <2>4. \A i \in DOMAIN b : b[i] >= poll.offset /\ b[i] = b[1] + i - 1
      BY <2>1, <2>2, <2>3
    <2> QED BY <2>4, <1>2, <1>5 DEF TelegramInv, BatchSound
  <1>9. OpenTakesAll'
    <2>1. b # <<>> => b[1] = c + 1
      BY <1>3, <1>4
    <2> HIDE DEF b, c
    <2> QED BY <2>1, <1>2, <1>3, <1>5, <1>6 DEF TelegramInv, BotTypes, OpenTakesAll
  <1>10. NoUpdateLost'
    <2> HIDE DEF c
    <2> QED BY <1>2, <1>3, <1>6, TelegramAssumption DEF NoUpdateLost
  <1>11. BotStages' /\ UpdatesOnce' /\ OperationsJoined'
    BY <1>2, <1>5 DEF TelegramInv, BotStages, UpdatesOnce, OperationsJoined, BotTypes
  <1> QED BY <1>7, <1>8, <1>9, <1>10, <1>11 DEF TelegramInv

\* A failed poll: the server may have seen the offset.
LEMMA GetUpdatesFailsKeeps ==
  ASSUME TelegramInv, GetUpdatesFails
  PROVE  TelegramInv'
  <1>1. poll' = [poll EXCEPT !.at = "sleeping"] /\ poll.at = "asking"
    BY DEF GetUpdatesFails
  <1>2. /\ bot' = bot /\ updates' = updates /\ accepted' = accepted
        /\ working' = working /\ taken' = taken /\ operation' = operation /\ bots' = bots
    BY DEF GetUpdatesFails
  <1>3. confirmed' \in 0 .. MaxUpdates /\ \A u \in 1 .. confirmed' : u \in taken
    <2>1. /\ poll.offset \in 0 .. MaxUpdates + 1 /\ confirmed \in 0 .. MaxUpdates
          /\ confirmed' = confirmed \/ (confirmed' = poll.offset - 1 /\ poll.offset > confirmed + 1 /\ ~bot.closing)
      BY TelegramAssumption DEF GetUpdatesFails, TelegramInv, BotTypes
    <2>2. CASE confirmed' = confirmed
      BY <2>1, <2>2 DEF TelegramInv, NoUpdateLost
    <2>3. CASE confirmed' = poll.offset - 1 /\ poll.offset > confirmed + 1 /\ ~bot.closing
      BY <2>1, <2>3, TelegramAssumption DEF TelegramInv, OpenTakesAll
    <2> QED BY <2>1, <2>2, <2>3
  <1> QED BY <1>1, <1>2, <1>3 DEF TelegramInv, BotTypes, BatchSound, OpenTakesAll, BotStages, UpdatesOnce, NoUpdateLost, OperationsJoined

\* An update is handed on, or refused once the adapter closes.
LEMMA AcceptUpdateKeeps ==
  ASSUME TelegramInv, AcceptUpdate
  PROVE  TelegramInv'
  <1> DEFINE u == Head(poll.batch)
  <1>1. /\ poll.at = "batch" /\ poll.batch # <<>> /\ poll.batch \in Seq(1 .. MaxUpdates)
        /\ poll' = [poll EXCEPT !.offset = NextOffset(u), !.batch = Tail(poll.batch)]
        /\ IF AcceptsUpdate THEN /\ accepted' = Append(accepted, u) /\ taken' = taken \cup {u}
                                 /\ working' = working \cup {u}
                            ELSE UNCHANGED <<accepted, taken, working>>
        /\ UNCHANGED <<bot, updates, confirmed, operation, bots>>
    BY DEF AcceptUpdate, TelegramInv, BotTypes
  <1>2. u \in 1 .. MaxUpdates /\ u = poll.batch[1] /\ u >= poll.offset /\ NextOffset(u) = u + 1 /\ 1 \in DOMAIN poll.batch
    <2> DEFINE s == poll.batch
    <2>1. s[1] \in 1 .. MaxUpdates /\ 1 \in DOMAIN s /\ Head(s) = s[1]
      <3> DEFINE U == 1 .. MaxUpdates
      <3>1. s \in Seq(U) /\ s # <<>>
        BY <1>1
      <3> HIDE DEF s, U
      <3>2. Len(s) \in Nat /\ Len(s) # 0 /\ DOMAIN s = 1 .. Len(s)
        BY <3>1
      <3>3. 1 \in DOMAIN s
        BY <3>2
      <3>4. s[1] \in U
        BY <3>1, <3>3
      <3>5. Head(s) = s[1]
        BY <3>1
      <3> QED BY <3>3, <3>4, <3>5 DEF U
    <2>2. u >= poll.offset /\ poll.offset \in Nat
      BY <2>1 DEF TelegramInv, BatchSound, BotTypes
    <2> QED BY <2>1, <2>2 DEF NextOffset
  <1>3. /\ Tail(poll.batch) \in Seq(1 .. MaxUpdates) /\ DOMAIN Tail(poll.batch) = 1 .. Len(poll.batch) - 1
        /\ \A i \in 1 .. Len(poll.batch) - 1 : Tail(poll.batch)[i] = u + i
    <2>1. Tail(poll.batch) \in Seq(1 .. MaxUpdates) /\ Len(Tail(poll.batch)) = Len(poll.batch) - 1
      <3> DEFINE s == poll.batch
      <3>1. s \in Seq(1 .. MaxUpdates) /\ s # <<>>
        BY <1>1
      <3> HIDE DEF s
      <3>2. Tail(s) \in Seq(1 .. MaxUpdates) /\ Len(Tail(s)) = Len(s) - 1
        BY <3>1
      <3> QED BY <3>2 DEF s
    <2>2. \A i \in 1 .. Len(poll.batch) - 1 : Tail(poll.batch)[i] = poll.batch[i + 1] /\ i + 1 \in DOMAIN poll.batch
      BY <1>1
    <2>3. \A i \in 1 .. Len(poll.batch) - 1 : poll.batch[i + 1] = u + i
      BY <2>2, <1>2 DEF TelegramInv, BatchSound
    <2> QED BY <2>1, <2>2, <2>3
  <1>4. poll'.at = "batch" /\ poll'.offset = u + 1 /\ poll'.batch = Tail(poll.batch)
    BY <1>1, <1>2 DEF TelegramInv, BotTypes
  <1>5. Tail(poll.batch) # <<>> => Tail(poll.batch)[1] = u + 1
    BY <1>3, <1>1
  <1>6. BotTypes'
    <2>1. poll' \in [at : {"off", "hello", "asking", "batch", "sleeping", "ended"}, offset : 0 .. MaxUpdates + 1,
                 batch : Seq(1 .. MaxUpdates)]
      <3>1. u + 1 \in 0 .. MaxUpdates + 1
        BY <1>2, TelegramAssumption
      <3>2. poll' = [poll EXCEPT !.offset = u + 1, !.batch = Tail(poll.batch)]
        BY <1>1, <1>2
      <3> HIDE DEF u
      <3> QED BY <3>1, <3>2, <1>3 DEF TelegramInv, BotTypes
    <2>2. accepted' \in Seq(1 .. MaxUpdates) /\ taken' \subseteq 1 .. MaxUpdates /\ working' \subseteq 1 .. MaxUpdates
      <3>1. u \in 1 .. MaxUpdates /\ accepted \in Seq(1 .. MaxUpdates) /\ taken \subseteq 1 .. MaxUpdates /\ working \subseteq 1 .. MaxUpdates
        BY <1>2 DEF TelegramInv, BotTypes
      <3>2. CASE AcceptsUpdate
        <4>1. accepted' = Append(accepted, u) /\ taken' = taken \cup {u} /\ working' = working \cup {u}
          BY <1>1, <3>2
        <4> HIDE DEF u
        <4> QED BY <3>1, <4>1
      <3>3. CASE ~AcceptsUpdate
        BY <3>1, <3>3, <1>1
      <3> QED BY <3>2, <3>3
    <2> QED BY <2>1, <2>2, <1>1 DEF TelegramInv, BotTypes
  <1>7. /\ \A i \in DOMAIN accepted' : accepted'[i] < u + 1
        /\ UpdatesOnce'
    <2>1. \A i \in DOMAIN accepted : accepted[i] < u /\ accepted[i] \in Nat
      <3> SUFFICES ASSUME NEW i \in DOMAIN accepted PROVE accepted[i] < u /\ accepted[i] \in Nat
        OBVIOUS
      <3>1. accepted \in Seq(1 .. MaxUpdates)
        BY DEF TelegramInv, BotTypes
      <3>2. accepted[i] \in 1 .. MaxUpdates
        <4> DEFINE U == 1 .. MaxUpdates
        <4>1. accepted \in Seq(U)
          BY <3>1
        <4> HIDE DEF U, u
        <4>2. accepted[i] \in U
          BY <4>1
        <4> QED BY <4>2 DEF U
      <3>3. accepted[i] < poll.offset
        BY DEF TelegramInv, BatchSound
      <3>4. poll.offset \in Nat
        BY TelegramAssumption DEF TelegramInv, BotTypes
      <3> HIDE DEF u
      <3> QED BY <3>2, <3>3, <3>4, <1>2
    <2>2. CASE AcceptsUpdate
      <3>1. /\ accepted \in Seq(1 .. MaxUpdates) /\ accepted' = Append(accepted, u) /\ DOMAIN accepted' = 1 .. Len(accepted) + 1
            /\ \A i \in 1 .. Len(accepted) : accepted'[i] = accepted[i]
            /\ accepted'[Len(accepted) + 1] = u
        BY <2>2, <1>1, <1>2 DEF TelegramInv, BotTypes
      <3> QED BY <3>1, <2>1, <1>2 DEF TelegramInv, UpdatesOnce
    <2>3. CASE ~AcceptsUpdate
      BY <2>3, <2>1, <1>1, <1>2 DEF TelegramInv, UpdatesOnce
    <2> QED BY <2>2, <2>3
  <1>8. BatchSound'
    <2>1. \A i \in 1 .. Len(poll.batch) - 1 : Tail(poll.batch)[i] >= u + 1 /\ Tail(poll.batch)[i] = u + 1 + i - 1
      <3>1. u \in Nat /\ Len(poll.batch) \in Nat
        BY <1>1, <1>2, TelegramAssumption
      <3> HIDE DEF u
      <3> QED BY <3>1, <1>3
    <2>2. \A i \in 1 .. Len(poll.batch) - 1 : Tail(poll.batch)[1] = u + 1
      BY <1>2, <1>3
    <2> HIDE DEF u
    <2> QED BY <2>1, <2>2, <1>7, <1>4, <1>3 DEF BatchSound
  <1>9. OpenTakesAll'
    <2> SUFFICES ASSUME ~bot.closing PROVE \A v \in 1 .. MaxUpdates : v < u + 1 => v \in taken'
      BY <1>1, <1>4, <1>5 DEF OpenTakesAll
    <2>1. taken' = taken \cup {u}
      BY <1>1 DEF AcceptsUpdate
    <2>2. \A v \in 1 .. MaxUpdates : v < u => v \in taken
      BY <1>1, <1>2 DEF TelegramInv, OpenTakesAll
    <2> HIDE DEF u
    <2> QED BY <2>1, <2>2, <1>2
  <1>10. NoUpdateLost'
    BY <1>1 DEF NoUpdateLost, TelegramInv
  <1>11. BotStages' /\ OperationsJoined'
    BY <1>1, <1>4 DEF TelegramInv, BotStages, OperationsJoined, BotTypes
  <1> QED BY <1>6, <1>7, <1>8, <1>9, <1>10, <1>11 DEF TelegramInv

\* Steps of the loop that leave the offset and the batch as they are.
LEMMA PollMoves ==
  ASSUME TelegramInv, Hello \/ HelloFails \/ BatchOver \/ PollWakes \/ PollStops
  PROVE  TelegramInv'
  <1>1. \E at \in {"hello", "asking", "sleeping", "ended"} : poll' = [poll EXCEPT !.at = at]
    BY DEF Hello, HelloFails, BatchOver, PollWakes, PollStops
  <1>2. UNCHANGED <<bot, updates, confirmed, accepted, working, taken, operation, bots>> /\ poll.at \notin {"off", "ended"}
    BY DEF Hello, HelloFails, BatchOver, PollWakes, PollStops, StopsAt
  <1> QED BY <1>1, <1>2 DEF TelegramInv, BotTypes, BatchSound, OpenTakesAll, BotStages, UpdatesOnce, NoUpdateLost, OperationsJoined

\* The life of the adapter, its operations, and the server.
LEMMA BotMoves ==
  ASSUME TelegramInv,
         \/ \E e \in BOOLEAN : TelegramStart(e)
         \/ TelegramBeginClose \/ TelegramDone \/ TelegramRelease \/ TelegramReleased
  PROVE  TelegramInv'
  <1>1. CASE \E e \in BOOLEAN : TelegramStart(e)
    <2>1. /\ ~bot.started /\ ~bot.closing /\ bot' = [bot EXCEPT !.started = TRUE]
          /\ \E at \in {"hello", "ended"} : poll' = [poll EXCEPT !.at = at]
          /\ UNCHANGED <<updates, confirmed, accepted, working, taken, operation, bots>>
      BY <1>1 DEF TelegramStart
    <2>2. BotTypes'
      BY <2>1 DEF TelegramInv, BotTypes
    <2>3. bot'.started /\ bot'.closing = bot.closing /\ bot'.done = bot.done /\ bot'.release = bot.release
      BY <2>1 DEF TelegramInv, BotTypes
    <2>4. poll'.at \notin {"off"} /\ poll'.offset = poll.offset /\ poll'.batch = poll.batch
      BY <2>1 DEF TelegramInv, BotTypes
    <2> QED BY <2>1, <2>2, <2>3, <2>4 DEF TelegramInv, BatchSound, OpenTakesAll, BotStages, UpdatesOnce, NoUpdateLost, OperationsJoined
  <1>2. CASE TelegramBeginClose
    BY <1>2 DEF TelegramBeginClose, TelegramInv, BotTypes, BatchSound, OpenTakesAll, BotStages, UpdatesOnce, NoUpdateLost, OperationsJoined
  <1>3. CASE TelegramDone
    BY <1>3 DEF TelegramDone, PollOver, TelegramInv, BotTypes, BatchSound, OpenTakesAll, BotStages, UpdatesOnce, NoUpdateLost, OperationsJoined
  <1>4. CASE TelegramRelease
    BY <1>4 DEF TelegramRelease, TelegramInv, BotTypes, BatchSound, OpenTakesAll, BotStages, UpdatesOnce, NoUpdateLost, OperationsJoined
  <1>5. CASE TelegramReleased
    BY <1>5 DEF TelegramReleased, TelegramInv, BotTypes, BatchSound, OpenTakesAll, BotStages, UpdatesOnce, NoUpdateLost, OperationsJoined
  <1> QED BY <1>1, <1>2, <1>3, <1>4, <1>5

\* What happens around the loop: the adapter, its workers and its operations.
LEMMA AroundMoves ==
  ASSUME TelegramInv,
         \/ \E o \in Operations : BeginOperation(o) \/ EndOperation(o)
         \/ \E u \in 1 .. MaxUpdates : UpdateOver(u)
         \/ NewUpdate \/ RestartBot
  PROVE  TelegramInv'
  <1>1. CASE \E o \in Operations : BeginOperation(o) \/ EndOperation(o)
    <2>1. UNCHANGED <<bot, poll, updates, confirmed, accepted, working, taken, bots>>
      BY <1>1 DEF BeginOperation, EndOperation
    <2>2. operation' \in [Operations -> {"no", "running", "over"}] /\ OperationsJoined'
      BY <1>1, <2>1 DEF BeginOperation, EndOperation, OperationAdmitted, TelegramInv, BotTypes, OperationsJoined
    <2> QED BY <2>1, <2>2 DEF TelegramInv, BotTypes, BatchSound, OpenTakesAll, BotStages, UpdatesOnce, NoUpdateLost
  <1>2. CASE \E u \in 1 .. MaxUpdates : UpdateOver(u)
    BY <1>2 DEF UpdateOver, TelegramInv, BotTypes, BatchSound, OpenTakesAll, BotStages, UpdatesOnce, NoUpdateLost, OperationsJoined
  <1>3. CASE NewUpdate
    <2>1. updates' \in 0 .. MaxUpdates
      BY <1>3, TelegramAssumption DEF NewUpdate, TelegramInv, BotTypes
    <2> QED BY <1>3, <2>1 DEF NewUpdate, TelegramInv, BotTypes, BatchSound, OpenTakesAll, BotStages, UpdatesOnce, NoUpdateLost, OperationsJoined
  <1>4. CASE RestartBot
    BY <1>4, TelegramAssumption DEF RestartBot, NewBot, NewPoll, TelegramInv, BotTypes, BatchSound, OpenTakesAll, BotStages, UpdatesOnce, NoUpdateLost, OperationsJoined
  <1> QED BY <1>1, <1>2, <1>3, <1>4

\* Every step keeps it.
LEMMA TelegramStepKeeps == TelegramInv /\ [TelegramNext]_tgVars => TelegramInv'
  <1>1. ASSUME TelegramInv, TelegramNext PROVE TelegramInv'
    BY <1>1, GetUpdatesKeeps, GetUpdatesFailsKeeps, AcceptUpdateKeeps, PollMoves, BotMoves, AroundMoves DEF TelegramNext, PollStep
  <1>2. ASSUME TelegramInv, UNCHANGED tgVars PROVE TelegramInv'
    BY <1>2 DEF tgVars, TelegramInv, BotTypes, BatchSound, OpenTakesAll, BotStages, UpdatesOnce, NoUpdateLost, OperationsJoined
  <1> QED BY <1>1, <1>2

LEMMA TelegramSafe == TelegramInv => TelegramTypeOK /\ UpdatesOnce /\ NoUpdateLost /\ TelegramQuiet /\ OperationsJoined
  BY DEF TelegramInv, BotTypes, BotStages, TelegramTypeOK, TelegramQuiet

\* acceptUpdate, runPolling and Close: updates are accepted in order and once, none that the server dropped was
\* refused, and the adapter is done after what it accepted and released after its operations.
THEOREM TelegramInductive ==
  TelegramSpec => [](TelegramTypeOK /\ UpdatesOnce /\ NoUpdateLost /\ TelegramQuiet /\ OperationsJoined)
  BY TelegramInitKeeps, TelegramStepKeeps, TelegramSafe, PTL DEF TelegramSpec

-----------------------------------------------------------------------------
(* The command line over a connection.  Every hold has one owner: whoever   *)
(* is about to publish its end, the task that is about to register it or    *)
(* that uses it, or the registered connection it was granted to.            *)

CliT == DOMAIN CliTasks
Holders == CliT \cup CliConns \cup {"close"}
HoldKinds == {"grant", "use"}

Ends(w, t, k) == <<w, <<t, k>> >> \in releasing
KeptHold(t, k) == <<t, k>> \in held

CliServerStates == [start : {"no", "listening", "started", "failed"}, listener : {"none", "open", "closed"}, serve : {"no", "on", "over"},
                    frontend : BOOLEAN, closing : BOOLEAN, done : BOOLEAN, release : {"no", "begun", "done"}, failed : BOOLEAN]
LinkStates == [at : {"away", "hello", "greeting", "reading", "leaving", "removed", "gone"}, online : BOOLEAN, broken : BOOLEAN]
ClientStates == [setup : {W.setup : W \in CliWorlds}, at : {"new", "dial", "hello", "running", "stopping", "over"},
                 err : {"none", "unconfigured", "unavailable", "failed", "canceled"}, reads : BOOLEAN, ui : BOOLEAN]
TaskPlaces == {"new", "import", "hold", "register", "respond", "take", "check", "borrow", "run", "ending", "over"}

CliTypes ==
    /\ cliServer \in CliServerStates /\ cliLink \in [CliConns -> LinkStates]
    /\ cliGranted \in [CliConns -> SUBSET CliT]
    /\ held \subseteq CliT \X HoldKinds /\ releasing \subseteq Holders \X (CliT \X HoldKinds)
    /\ cliTask \in [CliT -> TaskPlaces] /\ cli \in ClientStates /\ cliFaults \in 0 .. MaxCliFaults

\* What the first stage of closing waits for, one by one.
WorkOver ==
    /\ \A c \in CliConns : cliLink[c].at # "hello"
    /\ \A t \in CliT : cliTask[t] \in TaskOver \/ Is(t, {"output"})
    /\ ~cliServer.frontend

\* The stages of the server, and its listener.
ServerSound ==
    /\ cliServer.start \in {"no", "listening"} => cliServer.listener = "none" /\ cliServer.serve = "no" /\ ~cliServer.frontend
    /\ cliServer.start = "started" => cliServer.listener # "none" /\ cliServer.serve # "no"
    /\ cliServer.start = "failed" => cliServer.serve = "over" /\ cliServer.listener = "none" /\ ~cliServer.frontend
    /\ cliServer.closing => cliServer.listener # "open"
    /\ cliServer.done => cliServer.closing /\ cliServer.serve # "on" /\ ~Starting
    /\ cliServer.release # "no" => cliServer.done
    /\ CleanStop

DoneOver == cliServer.done => WorkOver

\* What runs at each place, and where a connection is registered.
PlacesSound ==
    /\ \A t \in CliT : /\ cliTask[t] = "import" => Is(t, {"upload"})
                       /\ cliTask[t] \in {"hold", "register", "respond"} => Is(t, {"upload", "output"})
                       /\ cliTask[t] = "take" => Is(t, {"revoke"})
                       /\ cliTask[t] \in {"check", "borrow"} => Is(t, {"input", "download"})
                       /\ cliTask[t] = "run" => Is(t, {"input", "download", "complete"})
    /\ \A c \in CliConns : cliLink[c].online => cliLink[c].at \in {"greeting", "reading", "leaving"}

\* Places after the registration of a grant.
Told == {"respond", "ending", "over"}

\* Who publishes the end of a hold: one holder, of a hold that is held, once it is nobody else's.
EndsHeld == \A w \in Holders, t \in CliT, k \in HoldKinds : Ends(w, t, k) => KeptHold(t, k)
EndsOnce == \A w, v \in Holders, t \in CliT, k \in HoldKinds : Ends(w, t, k) /\ Ends(v, t, k) => w = v
EndsTold == \A w \in Holders, t \in CliT : Ends(w, t, "grant") => cliTask[t] \in Told /\ \A c \in CliConns : t \notin cliGranted[c]
EndsOwnUse == \A w \in Holders, t \in CliT : Ends(w, t, "use") => w = t
EndsAtTask == \A w \in CliT, t \in CliT, k \in HoldKinds : Ends(w, t, k) => cliTask[w] = "ending"
EndsAtConn == \A c \in CliConns, t \in CliT, k \in HoldKinds : Ends(c, t, k) => cliLink[c].at = "removed"

\* What is granted is held, for the registered connection that asked.
GrantsSound ==
    \A c \in CliConns, t \in CliT : t \in cliGranted[c] => c = Conn(t) /\ cliTask[t] \in Told /\ cliLink[c].online /\ KeptHold(t, "grant")

\* The holds that tasks work with.
TasksHold ==
    \A t \in CliT : /\ cliTask[t] = "register" => KeptHold(t, "grant")
                    /\ cliTask[t] = "run" /\ ~Is(t, {"complete"}) => KeptHold(t, "use")
                    /\ KeptHold(t, "use") => ~Is(t, {"complete"})

HaveOwner ==
    \A t \in CliT : /\ KeptHold(t, "grant") => cliTask[t] = "register" \/ t \in cliGranted[Conn(t)] \/ \E w \in Holders : Ends(w, t, "grant")
                    /\ KeptHold(t, "use") => cliTask[t] = "run" \/ \E w \in Holders : Ends(w, t, "use")

HoldsSound ==
    /\ EndsHeld /\ EndsOnce /\ EndsTold /\ EndsOwnUse /\ EndsAtTask /\ EndsAtConn /\ GrantsSound /\ TasksHold /\ HaveOwner

\* At the end no connection is left and its closing has published everything.
ReleaseSound ==
    cliServer.release = "done" => /\ \A c \in CliConns : ~cliLink[c].online /\ cliLink[c].at \in {"away", "gone"}
                                  /\ Published("close")

\* A client that ends as if no server were there has not reached one.
ClientSound ==
    /\ cli.at = "new" \/ (cli.at = "over" /\ cli.err \in {"unconfigured", "unavailable"}) => cliLink[CliClient].at = "away"
    /\ cli.at \in {"new", "dial", "hello", "running"} => cli.err = "none"
    /\ cli.at = "stopping" => cli.err \notin {"unconfigured", "unavailable"}
    /\ cli.reads \/ cli.ui => cli.at \notin {"new", "dial", "hello"}

CliInv == CliTypes /\ ServerSound /\ DoneOver /\ PlacesSound /\ HoldsSound /\ ReleaseSound /\ ClientSound

\* The server starts well.
LEMMA CliInitKeeps == CliInit => CliInv
  <1> SUFFICES ASSUME CliInit PROVE CliInv
    OBVIOUS
  <1>1. CliTypes
    <2>1. cliServer \in CliServerStates
      BY DEF CliInit, CliServerStates
    <2>2. cliLink \in [CliConns -> LinkStates] /\ cliGranted \in [CliConns -> SUBSET CliT] /\ cliTask \in [CliT -> TaskPlaces]
      BY DEF CliInit, LinkStates, CliT, TaskPlaces
    <2>3. cli \in ClientStates
      BY DEF CliInit, ClientStates
    <2>4. cliFaults \in 0 .. MaxCliFaults
      BY CliAssumption DEF CliInit
    <2> QED BY <2>1, <2>2, <2>3, <2>4 DEF CliInit, CliTypes
  <1>2. ServerSound /\ DoneOver /\ PlacesSound /\ ReleaseSound
    BY DEF CliInit, ServerSound, CleanStop, DoneOver, PlacesSound, ReleaseSound, Starting, CliT
  <1>3. HoldsSound
    BY DEF CliInit, HoldsSound, EndsHeld, EndsOnce, EndsTold, EndsOwnUse, EndsAtTask, EndsAtConn, GrantsSound, TasksHold, HaveOwner,
       CliT, Ends, KeptHold
  <1>4. ClientSound
    BY CliAssumption DEF CliInit, ClientSound
  <1> QED BY <1>1, <1>2, <1>3, <1>4 DEF CliInv

\* Whoever has published everything is about to publish nothing.
LEMMA PublishedAll ==
  ASSUME CliTypes, NEW w \in Holders
  PROVE  Published(w) <=> \A t \in CliT, k \in HoldKinds : ~Ends(w, t, k)
  <1>1. Published(w) => \A t \in CliT, k \in HoldKinds : ~Ends(w, t, k)
    BY DEF Published, Ends
  <1>2. ASSUME \A t \in CliT, k \in HoldKinds : ~Ends(w, t, k), NEW x \in releasing PROVE x[1] # w
    <2>1. releasing \subseteq Holders \X (CliT \X HoldKinds)
      BY DEF CliTypes
    <2>2. x \in Holders \X (CliT \X HoldKinds)
      BY <2>1
    <2>3. PICK v \in Holders, t \in CliT, k \in HoldKinds : x = <<v, <<t, k>> >>
      BY <2>2
    <2> QED BY <1>2, <2>3 DEF Ends
  <1> QED BY <1>1, <1>2 DEF Published

\* The members of one group are not in the other.
LEMMA HoldersApart == CliT \cap CliConns = {} /\ "close" \notin CliT /\ "close" \notin CliConns
  BY CliAssumption DEF CliT

\* What the server counts is what the conditions say.
LEMMA WorkIsOver == CliWork = {} <=> WorkOver
  BY DEF CliWork, WorkOver, CliT

-----------------------------------------------------------------------------
(* Steps that leave the holds alone.                                        *)

\* Links move, and no owner is lost.
LEMMA HoldsKeptByLinks ==
  ASSUME CliTypes, HoldsSound, UNCHANGED <<cliGranted, held, releasing, cliTask>>,
         \A c \in CliConns : cliLink[c].online => cliLink'[c].online,
         \A c \in CliConns : cliLink[c].at = "removed" => cliLink'[c].at = "removed" \/ Published(c)
  PROVE  HoldsSound'
  <1>1. \A w \in Holders, t \in CliT, k \in HoldKinds : (Ends(w, t, k)' <=> Ends(w, t, k)) /\ (KeptHold(t, k)' <=> KeptHold(t, k))
    BY DEF Ends, KeptHold
  <1>2. ASSUME NEW c \in CliConns, NEW t \in CliT, NEW k \in HoldKinds, Ends(c, t, k) PROVE cliLink'[c].at = "removed"
    <2>1. ~Published(c)
      BY <1>2, PublishedAll DEF Holders
    <2> QED BY <1>2, <2>1 DEF HoldsSound, EndsAtConn, Ends, KeptHold
  <1>3. CliConns \subseteq Holders /\ CliT \subseteq Holders
    BY DEF Holders
  <1>4. EndsHeld' /\ EndsOnce' /\ EndsOwnUse'
    BY <1>1 DEF HoldsSound, EndsHeld, EndsOnce, EndsOwnUse, Ends, KeptHold
  <1>5. EndsTold' /\ EndsAtTask'
    BY <1>1, <1>3 DEF HoldsSound, EndsTold, EndsAtTask, Ends, KeptHold
  <1>6. EndsAtConn'
    BY <1>1, <1>2, <1>3 DEF EndsAtConn, Ends, KeptHold
  <1>7. GrantsSound' /\ TasksHold' /\ HaveOwner'
    BY <1>1 DEF HoldsSound, GrantsSound, TasksHold, HaveOwner, Ends, KeptHold
  <1> QED BY <1>4, <1>5, <1>6, <1>7 DEF HoldsSound

\* A task moves on without a hold.
LEMMA HoldsKeptByTask ==
  ASSUME CliTypes, HoldsSound, NEW t \in CliT, NEW to \in TaskPlaces,
         UNCHANGED <<cliGranted, held, releasing, cliLink>>, cliTask' = [cliTask EXCEPT ![t] = to],
         cliTask[t] # "register", cliTask[t] = "run" => Is(t, {"complete"}),
         to # "register", to = "run" => Is(t, {"complete"}),
         cliTask[t] \in Told => to \in Told, cliTask[t] = "ending" => Published(t)
  PROVE  HoldsSound'
  <1>1. \A w \in Holders, u \in CliT, k \in HoldKinds : (Ends(w, u, k)' <=> Ends(w, u, k)) /\ (KeptHold(u, k)' <=> KeptHold(u, k))
    BY DEF Ends, KeptHold
  <1>2. cliTask'[t] = to /\ \A u \in CliT : u # t => cliTask'[u] = cliTask[u]
    BY DEF CliTypes
  <1>3. t \in Holders /\ CliConns \subseteq Holders /\ CliT \subseteq Holders
    BY DEF Holders
  <1>4. ASSUME NEW u \in CliT, NEW k \in HoldKinds, Ends(t, u, k) PROVE FALSE
    <2>1. cliTask[t] = "ending"
      BY <1>4, <1>3 DEF HoldsSound, EndsAtTask, Ends, KeptHold
    <2> QED BY <1>3, <1>4, <2>1, PublishedAll
  <1>5. \A u \in CliT : cliTask[u] \in Told => cliTask'[u] \in Told
    BY <1>2
  <1>6. \A u \in CliT : cliTask'[u] = "register" <=> cliTask[u] = "register"
    BY <1>2
  <1>7. \A u \in CliT : ~Is(u, {"complete"}) => (cliTask'[u] = "run" <=> cliTask[u] = "run")
    BY <1>2
  <1>8. EndsHeld' /\ EndsOnce' /\ EndsOwnUse' /\ EndsAtConn'
    BY <1>1, <1>3 DEF HoldsSound, EndsHeld, EndsOnce, EndsOwnUse, EndsAtConn, Ends, KeptHold
  <1>9. EndsTold'
    BY <1>1, <1>5 DEF HoldsSound, EndsTold, Ends, KeptHold
  <1>10. EndsAtTask'
    <2>1. \A w \in CliT, u \in CliT, k \in HoldKinds : Ends(w, u, k) => w # t
      BY <1>4
    <2> QED BY <1>1, <1>2, <1>3, <2>1 DEF HoldsSound, EndsAtTask, Ends, KeptHold
  <1>11. GrantsSound'
    BY <1>1, <1>5 DEF HoldsSound, GrantsSound, Ends, KeptHold
  <1>12. TasksHold'
    BY <1>1, <1>6, <1>7 DEF HoldsSound, TasksHold, Ends, KeptHold
  <1>13. HaveOwner'
    <2>1. \A u \in CliT : KeptHold(u, "use") => ~Is(u, {"complete"})
      BY DEF HoldsSound, TasksHold, Ends, KeptHold
    <2>2. ASSUME NEW u \in CliT, KeptHold(u, "grant")'
          PROVE cliTask'[u] = "register" \/ u \in cliGranted'[Conn(u)] \/ \E w \in Holders : Ends(w, u, "grant")'
      BY <1>1, <1>6, <2>2 DEF HoldsSound, HaveOwner, HoldKinds, Ends, KeptHold
    <2>3. ASSUME NEW u \in CliT, KeptHold(u, "use")' PROVE cliTask'[u] = "run" \/ \E w \in Holders : Ends(w, u, "use")'
      BY <1>1, <1>7, <2>1, <2>3 DEF HoldsSound, HaveOwner, HoldKinds, Ends, KeptHold
    <2> QED BY <2>2, <2>3 DEF HaveOwner, Ends, KeptHold
  <1> QED BY <1>8, <1>9, <1>10, <1>11, <1>12, <1>13 DEF HoldsSound

\* Nothing that the holds depend on moves.
LEMMA HoldsKept ==
  ASSUME HoldsSound, UNCHANGED <<cliGranted, held, releasing, cliTask, cliLink>>
  PROVE  HoldsSound'
  BY DEF HoldsSound, EndsHeld, EndsOnce, EndsTold, EndsOwnUse, EndsAtTask, EndsAtConn, GrantsSound, TasksHold, HaveOwner, Ends, KeptHold

-----------------------------------------------------------------------------
(* The life of the server.                                                  *)

\* Everything but the server itself.
RestKept == UNCHANGED <<cliLink, cliGranted, held, releasing, cliTask, cli>>

\* The steps of the server itself.
LEMMA ServerLifeKeeps ==
  ASSUME CliInv, CliStart \/ CliListen \/ FrontendReady \/ ServeEnds \/ CliBeginClose \/ CliDone \/ CliClose \/ CliCloseDone
  PROVE  CliInv'
  <1>1. RestKept
    BY DEF RestKept, CliStart, CliListen, FrontendReady, ServeEnds, CliBeginClose, CliDone, CliClose, CliCloseDone
  <1>2. cliServer \in CliServerStates /\ cliFaults \in 0 .. MaxCliFaults
    BY DEF CliInv, CliTypes
  <1>3. cliFaults' \in 0 .. MaxCliFaults /\ (cliFaults' = 0 => cliFaults = 0)
    BY <1>2, CliAssumption DEF CliStart, CliListen, FrontendReady, ServeEnds, CliBeginClose, CliDone, CliClose, CliCloseDone, CliFault
  <1>4. HoldsSound' /\ PlacesSound' /\ ClientSound'
    <2>1. HoldsSound'
      BY <1>1, HoldsKept DEF RestKept, CliInv
    <2> QED BY <2>1, <1>1 DEF RestKept, CliInv, PlacesSound, ClientSound
  <1>5. /\ cliServer' \in CliServerStates /\ ServerSound'
        /\ cliServer'.frontend => cliServer.frontend \/ ~cliServer'.done
        /\ cliServer'.done => cliServer.done \/ WorkOver
        /\ cliServer'.release = "done" => cliServer.release = "done" \/ (ConnsOver /\ Published("close") /\ \A c \in CliConns : ~cliLink[c].online)
    <2>1. CASE CliStart
      BY <1>2, <2>1, <1>1 DEF CliStart, CliServerStates, CliInv, ServerSound, CleanStop, Starting
    <2>2. CASE CliListen
      <3>1. CASE cliServer' = [cliServer EXCEPT !.start = "started", !.listener = ListenerOpened, !.serve = "on", !.frontend = ~cliServer.closing]
                 /\ UNCHANGED cliFaults
        <4>1. cliServer.start = "listening" /\ ListenerOpened = IF cliServer.closing THEN "closed" ELSE "open"
          BY <2>2 DEF CliListen, Starting, ListenerOpened
        <4> HIDE DEF ListenerOpened
        <4>2. /\ cliServer' \in CliServerStates /\ cliServer'.start = "started" /\ cliServer'.listener = ListenerOpened /\ cliServer'.serve = "on"
              /\ (cliServer'.closing <=> cliServer.closing) /\ (cliServer'.done <=> cliServer.done) /\ cliServer'.release = cliServer.release
              /\ (cliServer'.failed <=> cliServer.failed)
          BY <3>1, <4>1, <1>2 DEF CliServerStates
        <4> QED BY <3>1, <4>1, <4>2, <1>2 DEF CliInv, ServerSound, CleanStop, Starting
      <3>2. CASE cliServer.closing /\ cliServer' = [cliServer EXCEPT !.start = "failed", !.serve = "over"] /\ UNCHANGED cliFaults
        BY <2>2, <3>2, <1>2 DEF CliListen, CliServerStates, CliInv, ServerSound, CleanStop, Starting
      <3>3. CASE cliServer' = [cliServer EXCEPT !.start = "failed", !.serve = "over", !.closing = TRUE, !.failed = TRUE] /\ cliFaults' = cliFaults + 1
        <4>1. /\ cliServer' \in CliServerStates /\ cliServer'.start = "failed" /\ cliServer'.serve = "over" /\ cliServer'.closing
              /\ cliServer'.listener = cliServer.listener /\ (cliServer'.done <=> cliServer.done) /\ cliServer'.release = cliServer.release
              /\ (cliServer'.frontend <=> cliServer.frontend)
          BY <3>3, <1>2 DEF CliServerStates
        <4>2. cliServer.start = "listening" /\ cliFaults' # 0
          BY <2>2, <3>3, <1>2, CliAssumption DEF CliListen, Starting
        <4> QED BY <4>1, <4>2, <1>2 DEF CliInv, ServerSound, CleanStop, Starting
      <3> QED BY <2>2, <3>1, <3>2, <3>3 DEF CliListen, CliFault
    <2>3. CASE FrontendReady
      <3>1. cliServer' = [cliServer EXCEPT !.frontend = FALSE] /\ cliFaults' = cliFaults
        BY <2>3 DEF FrontendReady
      <3>2. /\ cliServer' \in CliServerStates /\ cliServer'.listener = cliServer.listener /\ cliServer'.start = cliServer.start
            /\ cliServer'.serve = cliServer.serve /\ cliServer'.release = cliServer.release /\ ~cliServer'.frontend
            /\ (cliServer'.closing <=> cliServer.closing) /\ (cliServer'.done <=> cliServer.done) /\ (cliServer'.failed <=> cliServer.failed)
        BY <3>1, <1>2 DEF CliServerStates
      <3>3. ServerSound'
        BY <3>1, <3>2, <1>2 DEF CliInv, ServerSound, CleanStop, Starting
      <3>4. cliServer'.done => cliServer.done \/ WorkOver
        BY <3>1, <3>2
      <3>5. cliServer'.frontend => cliServer.frontend \/ ~cliServer'.done
        BY <3>1, <3>2
      <3>6. cliServer'.release = "done" => cliServer.release = "done"
        BY <3>2
      <3> QED BY <3>2, <3>3, <3>4, <3>5, <3>6
    <2>4. CASE ServeEnds
      <3>1. cliServer.serve = "on" /\ cliServer.start = "started"
        BY <2>4, <1>2 DEF ServeEnds, CliInv, ServerSound, CliServerStates
      <3>2. PICK f \in BOOLEAN : cliServer' = [cliServer EXCEPT !.serve = "over", !.failed = f] /\ (f /\ ~cliServer.failed => cliFaults' # 0)
        <4>1. CASE cliServer.closing /\ cliServer' = [cliServer EXCEPT !.serve = "over", !.failed = @ \/ cliServer.listener # "closed"]
          <5>1. cliServer.listener = "closed" /\ cliServer.failed \in BOOLEAN
            BY <3>1, <4>1, <1>2 DEF CliInv, ServerSound, CliServerStates
          <5>2. cliServer' = [cliServer EXCEPT !.serve = "over", !.failed = cliServer.failed]
            BY <4>1, <5>1
          <5> QED BY <5>1, <5>2
        <4>2. CASE cliFaults' = cliFaults + 1 /\ cliServer' = [cliServer EXCEPT !.serve = "over", !.failed = TRUE]
          <5>1. cliFaults' # 0
            BY <4>2, <1>2, CliAssumption
          <5> WITNESS TRUE \in BOOLEAN
          <5> QED BY <4>2, <5>1
        <4> QED BY <2>4, <4>1, <4>2 DEF ServeEnds, CliFault
      <3>3. /\ cliServer' \in CliServerStates /\ cliServer'.serve = "over" /\ cliServer'.failed = f /\ cliServer'.start = "started"
            /\ cliServer'.listener = cliServer.listener /\ (cliServer'.done <=> cliServer.done) /\ cliServer'.release = cliServer.release
            /\ (cliServer'.frontend <=> cliServer.frontend) /\ (cliServer'.closing <=> cliServer.closing)
        BY <3>1, <3>2, <1>2 DEF CliServerStates
      <3> QED BY <3>1, <3>2, <3>3, <1>2, <1>3 DEF CliInv, ServerSound, CleanStop, Starting
    <2>5. CASE CliBeginClose
      <3>1. PICK l \in {"none", "closed"} : cliServer' = [cliServer EXCEPT !.closing = TRUE, !.listener = l]
                                            /\ (l = "none" <=> cliServer.listener = "none") /\ cliFaults' = cliFaults
        BY <2>5, <1>2 DEF CliBeginClose, CliServerStates
      <3>2. /\ cliServer' \in CliServerStates /\ cliServer'.listener = l /\ cliServer'.closing /\ cliServer'.start = cliServer.start
            /\ cliServer'.serve = cliServer.serve /\ (cliServer'.done <=> cliServer.done) /\ cliServer'.release = cliServer.release
            /\ (cliServer'.frontend <=> cliServer.frontend) /\ (cliServer'.failed <=> cliServer.failed)
        BY <3>1, <1>2 DEF CliServerStates
      <3>3. ServerSound'
        BY <3>1, <3>2, <1>2 DEF CliInv, ServerSound, CleanStop, Starting
      <3>4. cliServer'.done => cliServer.done \/ WorkOver
        BY <3>1, <3>2
      <3>5. cliServer'.frontend => cliServer.frontend \/ ~cliServer'.done
        BY <3>1, <3>2
      <3>6. cliServer'.release = "done" => cliServer.release = "done"
        BY <3>2
      <3> QED BY <3>2, <3>3, <3>4, <3>5, <3>6
    <2>6. CASE CliDone
      <3>1. /\ cliServer.closing /\ WorkOver /\ (cliServer.start # "no" => ~Starting /\ cliServer.serve = "over")
            /\ cliServer' = [cliServer EXCEPT !.done = TRUE] /\ cliFaults' = cliFaults
        BY <2>6, WorkIsOver DEF CliDone, IntakeIsOver
      <3>2. /\ cliServer' \in CliServerStates /\ cliServer'.listener = cliServer.listener /\ cliServer'.closing /\ cliServer'.start = cliServer.start
            /\ cliServer'.serve = cliServer.serve /\ cliServer'.done /\ cliServer'.release = cliServer.release
            /\ (cliServer'.frontend <=> cliServer.frontend) /\ (cliServer'.failed <=> cliServer.failed)
        BY <3>1, <1>2 DEF CliServerStates
      <3>3. ServerSound'
        BY <3>1, <3>2, <1>2 DEF CliInv, ServerSound, CleanStop, Starting
      <3>4. cliServer'.done => cliServer.done \/ WorkOver
        BY <3>1, <3>2
      <3>5. cliServer'.frontend => cliServer.frontend \/ ~cliServer'.done
        BY <3>1, <3>2
      <3>6. cliServer'.release = "done" => cliServer.release = "done"
        BY <3>2
      <3> QED BY <3>2, <3>3, <3>4, <3>5, <3>6
    <2>7. CASE CliClose
      <3>1. cliServer.done /\ cliServer' = [cliServer EXCEPT !.release = "begun"] /\ cliFaults' = cliFaults
        BY <2>7 DEF CliClose
      <3> QED BY <3>1, <1>2 DEF CliServerStates, CliInv, ServerSound, CleanStop, Starting
    <2>8. CASE CliCloseDone
      <3>1. /\ cliServer' = [cliServer EXCEPT !.release = "done"] /\ cliFaults' = cliFaults /\ cliServer.release = "begun"
            /\ ConnsOver /\ Published("close") /\ \A c \in CliConns : ~cliLink[c].online
        BY <2>8 DEF CliCloseDone
      <3> QED BY <3>1, <1>2 DEF CliServerStates, CliInv, ServerSound, CleanStop, Starting
    <2> QED BY <2>1, <2>2, <2>3, <2>4, <2>5, <2>6, <2>7, <2>8
  <1>6. DoneOver'
    BY <1>1, <1>5 DEF RestKept, CliInv, DoneOver, WorkOver
  <1>7. ReleaseSound'
    BY <1>1, <1>5 DEF RestKept, CliInv, ReleaseSound, ConnsOver, Published
  <1> QED BY <1>1, <1>3, <1>4, <1>5, <1>6, <1>7 DEF RestKept, CliInv, CliTypes

-----------------------------------------------------------------------------
(* Steps that move a hold from one owner to another.                        *)

\* PublishUsageFinished: the hold and its end go together.
LEMMA PublishUsageKeeps ==
  ASSUME CliInv, NEW x \in releasing, PublishUsage(x)
  PROVE  CliInv'
  <1>1. PICK v \in Holders, s \in CliT, j \in HoldKinds : x = <<v, <<s, j>> >>
    <2>1. releasing \subseteq Holders \X (CliT \X HoldKinds)
      BY DEF CliInv, CliTypes
    <2>2. x \in Holders \X (CliT \X HoldKinds)
      BY <2>1
    <2> QED BY <2>2
  <1>2. releasing' = releasing \ {x} /\ held' = held \ {<<s, j>>} /\ Ends(v, s, j)
    BY <1>1 DEF PublishUsage, Ends
  <1>3. UNCHANGED <<cliServer, cliLink, cliGranted, cliTask, cli, cliFaults>>
    BY DEF PublishUsage
  <1>4. \A w \in Holders, t \in CliT, k \in HoldKinds : Ends(w, t, k)' <=> Ends(w, t, k) /\ ~(w = v /\ t = s /\ k = j)
    BY <1>1, <1>2 DEF Ends
  <1>5. \A t \in CliT, k \in HoldKinds : KeptHold(t, k)' <=> KeptHold(t, k) /\ ~(t = s /\ k = j)
    BY <1>2 DEF KeptHold
  <1>6. EndsHeld' /\ EndsOnce'
    BY <1>2, <1>4, <1>5 DEF CliInv, HoldsSound, EndsHeld, EndsOnce, Ends, KeptHold
  <1>7. EndsTold' /\ EndsOwnUse' /\ EndsAtTask' /\ EndsAtConn'
    BY <1>3, <1>2 DEF CliInv, HoldsSound, EndsTold, EndsOwnUse, EndsAtTask, EndsAtConn, Ends
  <1>8. GrantsSound'
    <2>1. j = "grant" => \A c \in CliConns : s \notin cliGranted[c]
      BY <1>2 DEF CliInv, HoldsSound, EndsTold
    <2> QED BY <1>3, <1>5, <2>1 DEF CliInv, HoldsSound, GrantsSound, HoldKinds, KeptHold
  <1>9. TasksHold'
    <2>1. j = "grant" => cliTask[s] # "register"
      BY <1>2 DEF CliInv, HoldsSound, EndsTold, Told
    <2>2. j = "use" => cliTask[s] # "run"
      BY <1>2 DEF CliInv, HoldsSound, EndsOwnUse, EndsAtTask
    <2> QED BY <1>3, <1>5, <2>1, <2>2 DEF CliInv, HoldsSound, TasksHold, HoldKinds, KeptHold
  <1>10. HaveOwner'
    BY <1>3, <1>4, <1>5 DEF CliInv, HoldsSound, HaveOwner, HoldKinds, KeptHold, Ends
  <1>11. HoldsSound'
    BY <1>6, <1>7, <1>8, <1>9, <1>10 DEF HoldsSound
  <1>12. CliTypes'
    BY <1>2, <1>3 DEF CliInv, CliTypes
  <1>13. ServerSound' /\ DoneOver' /\ PlacesSound' /\ ClientSound'
    BY <1>3 DEF CliInv, ServerSound, CleanStop, Starting, DoneOver, WorkOver, PlacesSound, ClientSound
  <1>14. ReleaseSound'
    BY <1>2, <1>3 DEF CliInv, ReleaseSound, Published
  <1> QED BY <1>11, <1>12, <1>13, <1>14 DEF CliInv

\* Some files of a connection are taken from it, by a holder that is about to publish.
LEMMA FilesTaken ==
  ASSUME CliTypes, HoldsSound, NEW w \in Holders, NEW c \in CliConns, NEW F \in SUBSET cliGranted[c],
         \A d \in CliConns : cliGranted'[d] = IF d = c THEN cliGranted[c] \ F ELSE cliGranted[d],
         releasing' = releasing \cup {<<w, <<f, "grant">> >> : f \in F}, held' = held,
         \A d \in CliConns : cliLink[d].online => cliLink'[d].online \/ cliGranted'[d] = {},
         \A d \in CliConns : cliLink[d].at = "removed" => cliLink'[d].at = "removed",
         w \in CliConns => cliLink'[w].at = "removed",
         w \in CliT => cliTask'[w] = "ending" /\ cliTask[w] \in {"respond", "take"},
         \A u \in CliT : u # w => cliTask'[u] = cliTask[u]
  PROVE  HoldsSound'
  <1>1. F \subseteq CliT /\ \A f \in F : c = Conn(f) /\ cliTask[f] \in Told /\ KeptHold(f, "grant") /\ f \in cliGranted[c]
    BY DEF CliTypes, HoldsSound, GrantsSound
  <1>2. \A f \in F, v \in Holders : ~Ends(v, f, "grant")
    BY <1>1 DEF HoldsSound, EndsTold
  <1>3. \A v \in Holders, t \in CliT, k \in HoldKinds : Ends(v, t, k)' <=> Ends(v, t, k) \/ (v = w /\ t \in F /\ k = "grant")
    BY DEF Ends
  <1>4. \A t \in CliT, k \in HoldKinds : KeptHold(t, k)' <=> KeptHold(t, k)
    BY DEF KeptHold
  <1>5. \A t \in CliT : cliTask[t] \in Told => cliTask'[t] \in Told
    BY DEF Told
  <1>6. \A d \in CliConns : cliGranted'[d] \subseteq cliGranted[d]
    OBVIOUS
  <1>7. CliT \subseteq Holders /\ CliConns \subseteq Holders
    BY DEF Holders
  <1>8. EndsHeld'
    BY <1>1, <1>3, <1>4 DEF HoldsSound, EndsHeld, Ends, KeptHold
  <1>9. EndsOnce'
    BY <1>2, <1>3 DEF HoldsSound, EndsOnce, Ends
  <1>10. EndsTold'
    <2>1. ASSUME NEW v \in Holders, NEW t \in CliT, Ends(v, t, "grant")' PROVE cliTask'[t] \in Told /\ \A d \in CliConns : t \notin cliGranted'[d]
      <3>1. CASE Ends(v, t, "grant")
        BY <3>1, <1>5, <1>6 DEF HoldsSound, EndsTold
      <3>2. CASE t \in F
        <4>1. cliTask'[t] \in Told
          BY <3>2, <1>1, <1>5
        <4>2. \A d \in CliConns : t \in cliGranted[d] => d = c
          BY <3>2, <1>1 DEF HoldsSound, GrantsSound
        <4> QED BY <4>1, <4>2, <3>2, <1>6
      <3> QED BY <2>1, <3>1, <3>2, <1>3 DEF HoldKinds
    <2> QED BY <2>1 DEF EndsTold
  <1>11. EndsOwnUse'
    BY <1>3 DEF HoldsSound, EndsOwnUse, Ends, HoldKinds
  <1>12. EndsAtTask'
    BY <1>3, <1>7 DEF HoldsSound, EndsAtTask, Ends
  <1>13. EndsAtConn'
    BY <1>3, <1>7 DEF HoldsSound, EndsAtConn, Ends
  <1>14. GrantsSound'
    BY <1>4, <1>5, <1>6 DEF HoldsSound, GrantsSound, KeptHold, HoldKinds
  <1>15. TasksHold'
    BY <1>4 DEF HoldsSound, TasksHold, KeptHold, HoldKinds
  <1>16. HaveOwner'
    <2>1. ASSUME NEW t \in CliT, KeptHold(t, "grant")
          PROVE  cliTask'[t] = "register" \/ t \in cliGranted'[Conn(t)] \/ \E v \in Holders : Ends(v, t, "grant")'
      <3>1. CASE cliTask[t] = "register"
        BY <3>1
      <3>2. CASE t \in cliGranted[Conn(t)]
        <4>1. Conn(t) \in CliConns
          BY CliAssumption DEF Conn, CliT
        <4> QED BY <3>2, <4>1, <1>3 DEF HoldKinds
      <3>3. CASE \E v \in Holders : Ends(v, t, "grant")
        BY <3>3, <1>3 DEF HoldKinds
      <3> QED BY <2>1, <3>1, <3>2, <3>3 DEF HoldsSound, HaveOwner
    <2>2. ASSUME NEW t \in CliT, KeptHold(t, "use") PROVE cliTask'[t] = "run" \/ \E v \in Holders : Ends(v, t, "use")'
      <3>1. cliTask[t] = "run" \/ \E v \in Holders : Ends(v, t, "use")
        BY <2>2 DEF HoldsSound, HaveOwner
      <3> QED BY <3>1, <1>3 DEF HoldKinds
    <2> QED BY <2>1, <2>2, <1>4 DEF HaveOwner, KeptHold, Ends, HoldKinds
  <1> QED BY <1>8, <1>9, <1>10, <1>11, <1>12, <1>13, <1>14, <1>15, <1>16 DEF HoldsSound

\* A task is about to publish the end of its own hold.
LEMMA OwnHoldEnds ==
  ASSUME CliTypes, HoldsSound, NEW t \in CliT, NEW k \in HoldKinds,
         k = "grant" => cliTask[t] = "register", k = "use" => cliTask[t] = "run" /\ ~Is(t, {"complete"}),
         UNCHANGED <<cliLink, cliGranted, held>>, releasing' = releasing \cup {<<t, <<t, k>> >>},
         cliTask' = [cliTask EXCEPT ![t] = "ending"]
  PROVE  HoldsSound'
  <1>1. t \in Holders /\ CliT \subseteq Holders /\ CliConns \subseteq Holders /\ t \notin CliConns
    BY HoldersApart DEF Holders
  <1>2. KeptHold(t, k)
    BY DEF HoldsSound, TasksHold, HoldKinds
  <1>3. \A v \in Holders : ~Ends(v, t, k)
    BY <1>1 DEF HoldsSound, EndsTold, EndsOwnUse, EndsAtTask, Told, HoldKinds
  <1>4. \A v \in Holders, u \in CliT, j \in HoldKinds : Ends(v, u, j)' <=> Ends(v, u, j) \/ (v = t /\ u = t /\ j = k)
    BY DEF Ends
  <1>5. \A u \in CliT, j \in HoldKinds : KeptHold(u, j)' <=> KeptHold(u, j)
    BY DEF KeptHold
  <1>6. cliTask'[t] = "ending" /\ \A u \in CliT : u # t => cliTask'[u] = cliTask[u]
    BY DEF CliTypes
  <1>7. \A u \in CliT : cliTask[u] \in Told => cliTask'[u] \in Told
    BY <1>6 DEF Told
  <1>8. EndsHeld' /\ EndsOnce' /\ EndsOwnUse'
    BY <1>2, <1>3, <1>4, <1>5 DEF HoldsSound, EndsHeld, EndsOnce, EndsOwnUse, Ends, KeptHold, HoldKinds
  <1>9. EndsTold'
    <2>1. k = "grant" => \A c \in CliConns : t \notin cliGranted[c]
      BY DEF HoldsSound, GrantsSound, Told
    <2>2. cliTask'[t] \in Told
      BY <1>6 DEF Told
    <2> QED BY <1>4, <1>7, <2>1, <2>2 DEF HoldsSound, EndsTold, Ends, HoldKinds
  <1>10. EndsAtTask' /\ EndsAtConn'
    BY <1>1, <1>4, <1>6 DEF HoldsSound, EndsAtTask, EndsAtConn, Ends
  <1>11. GrantsSound'
    BY <1>5, <1>7 DEF HoldsSound, GrantsSound, KeptHold, HoldKinds
  <1>12. TasksHold'
    BY <1>5, <1>6 DEF HoldsSound, TasksHold, KeptHold, HoldKinds
  <1>13. HaveOwner'
    <2>1. ASSUME NEW u \in CliT, KeptHold(u, "grant")
          PROVE  cliTask'[u] = "register" \/ u \in cliGranted'[Conn(u)] \/ \E v \in Holders : Ends(v, u, "grant")'
      <3>1. cliTask[u] = "register" \/ u \in cliGranted[Conn(u)] \/ \E v \in Holders : Ends(v, u, "grant")
        BY <2>1 DEF HoldsSound, HaveOwner
      <3>2. cliTask[u] = "register" /\ u = t => k = "grant"
        BY DEF HoldKinds
      <3> QED BY <3>1, <3>2, <1>1, <1>4, <1>6 DEF HoldKinds
    <2>2. ASSUME NEW u \in CliT, KeptHold(u, "use") PROVE cliTask'[u] = "run" \/ \E v \in Holders : Ends(v, u, "use")'
      <3>1. cliTask[u] = "run" \/ \E v \in Holders : Ends(v, u, "use")
        BY <2>2 DEF HoldsSound, HaveOwner
      <3>2. cliTask[u] = "run" /\ u = t => k = "use"
        BY DEF HoldKinds
      <3> QED BY <3>1, <3>2, <1>1, <1>4, <1>6 DEF HoldKinds
    <2> QED BY <2>1, <2>2, <1>5 DEF HaveOwner, KeptHold, Ends, HoldKinds
  <1> QED BY <1>8, <1>9, <1>10, <1>11, <1>12, <1>13 DEF HoldsSound

\* A task has taken a hold of its own.
LEMMA HoldTaken ==
  ASSUME CliTypes, HoldsSound, NEW t \in CliT, NEW k \in HoldKinds, NEW to \in TaskPlaces,
         cliTask[t] \in {"hold", "borrow"}, k = "grant" => to = "register", k = "use" => to = "run" /\ ~Is(t, {"complete"}),
         UNCHANGED <<cliLink, cliGranted, releasing>>, held' = held \cup {<<t, k>>}, cliTask' = [cliTask EXCEPT ![t] = to]
  PROVE  HoldsSound'
  <1>1. CliT \subseteq Holders /\ CliConns \subseteq Holders
    BY DEF Holders
  <1>2. \A v \in Holders, u \in CliT, j \in HoldKinds : Ends(v, u, j)' <=> Ends(v, u, j)
    BY DEF Ends
  <1>3. \A u \in CliT, j \in HoldKinds : KeptHold(u, j)' <=> KeptHold(u, j) \/ (u = t /\ j = k)
    BY DEF KeptHold
  <1>4. cliTask'[t] = to /\ \A u \in CliT : u # t => cliTask'[u] = cliTask[u]
    BY DEF CliTypes
  <1>5. \A u \in CliT : cliTask[u] \in Told => cliTask'[u] \in Told
    BY <1>4 DEF Told
  <1>6. \A u \in CliT, j \in HoldKinds : ~Ends(t, u, j)
    BY <1>1 DEF HoldsSound, EndsAtTask
  <1>7. EndsHeld' /\ EndsOnce' /\ EndsOwnUse' /\ EndsAtConn'
    BY <1>1, <1>2, <1>3 DEF HoldsSound, EndsHeld, EndsOnce, EndsOwnUse, EndsAtConn, Ends, KeptHold
  <1>8. EndsTold' /\ EndsAtTask'
    BY <1>1, <1>4, <1>5, <1>6 DEF HoldsSound, EndsTold, EndsAtTask, Ends, HoldKinds
  <1>9. GrantsSound'
    BY <1>3, <1>5 DEF HoldsSound, GrantsSound, KeptHold, HoldKinds
  <1>10. TasksHold'
    BY <1>3, <1>4 DEF HoldsSound, TasksHold, KeptHold, HoldKinds
  <1>11. HaveOwner'
    <2>1. ASSUME NEW u \in CliT, KeptHold(u, "grant")'
          PROVE  cliTask'[u] = "register" \/ u \in cliGranted'[Conn(u)] \/ \E v \in Holders : Ends(v, u, "grant")'
      <3>1. CASE u = t /\ k = "grant"
        BY <3>1, <1>4
      <3>2. CASE KeptHold(u, "grant")
        <4>1. cliTask[u] = "register" \/ u \in cliGranted[Conn(u)] \/ \E v \in Holders : Ends(v, u, "grant")
          BY <3>2 DEF HoldsSound, HaveOwner
        <4> QED BY <4>1, <1>2, <1>4 DEF HoldKinds
      <3> QED BY <2>1, <3>1, <3>2, <1>3 DEF HoldKinds
    <2>2. ASSUME NEW u \in CliT, KeptHold(u, "use")' PROVE cliTask'[u] = "run" \/ \E v \in Holders : Ends(v, u, "use")'
      <3>1. CASE u = t /\ k = "use"
        BY <3>1, <1>4
      <3>2. CASE KeptHold(u, "use")
        <4>1. cliTask[u] = "run" \/ \E v \in Holders : Ends(v, u, "use")
          BY <3>2 DEF HoldsSound, HaveOwner
        <4> QED BY <4>1, <1>2, <1>4 DEF HoldKinds
      <3> QED BY <2>2, <3>1, <3>2, <1>3 DEF HoldKinds
    <2> QED BY <2>1, <2>2 DEF HaveOwner, KeptHold, Ends, HoldKinds
  <1> QED BY <1>7, <1>8, <1>9, <1>10, <1>11 DEF HoldsSound

\* The file of a task is granted to its connection.
LEMMA FileGranted ==
  ASSUME CliTypes, HoldsSound, NEW t \in CliT, cliTask[t] = "register", cliLink[Conn(t)].online,
         cliGranted' = [cliGranted EXCEPT ![Conn(t)] = @ \cup {t}],
         UNCHANGED <<cliLink, held, releasing>>, cliTask' = [cliTask EXCEPT ![t] = "respond"]
  PROVE  HoldsSound'
  <1>1. Conn(t) \in CliConns
    BY CliAssumption DEF Conn, CliT
  <1>2. cliGranted'[Conn(t)] = cliGranted[Conn(t)] \cup {t} /\ \A c \in CliConns : c # Conn(t) => cliGranted'[c] = cliGranted[c]
    BY <1>1 DEF CliTypes
  <1>3. cliTask'[t] = "respond" /\ \A u \in CliT : u # t => cliTask'[u] = cliTask[u]
    BY DEF CliTypes
  <1>4. \A u \in CliT : cliTask[u] \in Told => cliTask'[u] \in Told
    BY <1>3 DEF Told
  <1>5. \A v \in Holders : ~Ends(v, t, "grant")
    BY DEF HoldsSound, EndsTold, Told
  <1>6. EndsHeld' /\ EndsOnce' /\ EndsOwnUse' /\ EndsAtConn'
    BY DEF HoldsSound, EndsHeld, EndsOnce, EndsOwnUse, EndsAtConn, Ends, KeptHold
  <1>7. EndsTold'
    BY <1>2, <1>4, <1>5 DEF HoldsSound, EndsTold, Ends
  <1>8. EndsAtTask'
    BY <1>3 DEF HoldsSound, EndsAtTask, Ends
  <1>9. GrantsSound'
    <2>1. KeptHold(t, "grant")
      BY DEF HoldsSound, TasksHold
    <2>2. cliTask'[t] \in Told
      BY <1>3 DEF Told
    <2> QED BY <1>1, <1>2, <1>4, <2>1, <2>2 DEF HoldsSound, GrantsSound, KeptHold
  <1>10. TasksHold'
    BY <1>3 DEF HoldsSound, TasksHold, KeptHold
  <1>11. HaveOwner'
    <2>1. \A u \in CliT : Conn(u) \in CliConns
      BY CliAssumption DEF Conn, CliT
    <2> QED BY <1>2, <1>3, <2>1 DEF HoldsSound, HaveOwner, KeptHold, Ends
  <1> QED BY <1>6, <1>7, <1>8, <1>9, <1>10, <1>11 DEF HoldsSound

-----------------------------------------------------------------------------
(* Connections.                                                             *)

\* A step of a connection that takes no files: only its link moves, on one of the ways handleWebSocket goes.
LEMMA LinkMoves ==
  ASSUME CliInv, NEW c \in CliConns, NEW l \in LinkStates, cliLink' = [cliLink EXCEPT ![c] = l],
         UNCHANGED <<cliServer, cliGranted, held, releasing, cliTask, cli>>,
         cliFaults' \in 0 .. MaxCliFaults, cliFaults' = 0 => cliFaults = 0,
         cliLink[c].online => l.online, l.online => l.at \in {"greeting", "reading", "leaving"},
         cliLink[c].at = "removed" => l.at = "removed" \/ Published(c),
         cliLink[c].at = "away" => Dialing(c) /\ (l.at = "gone" \/ ~cliServer.closing) /\ ~l.online,
         l.at \in {"away", "hello"} => cliLink[c].at \in {"away", "hello"} /\ (cliLink[c].at = "hello" \/ ~cliServer.closing),
         cliLink[c].at \in {"away", "gone"} => l.at \in {"hello", "gone"} /\ ~l.online
  PROVE  CliInv'
  <1>1. cliLink'[c] = l /\ \A d \in CliConns : d # c => cliLink'[d] = cliLink[d]
    BY DEF CliInv, CliTypes
  <1>2. cliLink' \in [CliConns -> LinkStates]
    BY DEF CliInv, CliTypes
  <1>3. HoldsSound'
    BY <1>1, HoldsKeptByLinks DEF CliInv
  <1>4. CliTypes'
    BY <1>2 DEF CliInv, CliTypes
  <1>5. ServerSound' /\ PlacesSound'
    BY <1>1 DEF CliInv, ServerSound, CleanStop, Starting, PlacesSound
  <1>6. DoneOver'
    BY <1>1 DEF CliInv, DoneOver, WorkOver, ServerSound
  <1>7. ReleaseSound'
    BY <1>1 DEF CliInv, ReleaseSound, ServerSound, Published
  <1>8. ClientSound'
    BY <1>1 DEF CliInv, ClientSound, Dialing
  <1> QED BY <1>3, <1>4, <1>5, <1>6, <1>7, <1>8 DEF CliInv

\* removeClient, for the goroutine of the connection itself or the closing of all.
LEMMA RemovedKeeps ==
  ASSUME CliInv, NEW c \in CliConns, NEW w \in {c, "close"}, NEW l \in LinkStates,
         RemoveClient(w, c, l), UNCHANGED <<cliServer, held, cliTask, cli, cliFaults>>,
         cliLink[c].at \notin {"away", "gone"}, cliServer.release # "done",
         l.at = (IF w = c THEN "removed" ELSE cliLink[c].at), cliLink[c].at # "removed"
  PROVE  CliInv'
  <1>1. /\ cliLink' = [cliLink EXCEPT ![c] = [l EXCEPT !.online = FALSE]] /\ cliGranted' = [cliGranted EXCEPT ![c] = {}]
        /\ releasing' = releasing \cup TakenFiles(w, c)
    BY DEF RemoveClient
  <1>2. [l EXCEPT !.online = FALSE] \in LinkStates /\ [l EXCEPT !.online = FALSE].at = l.at /\ ~[l EXCEPT !.online = FALSE].online
    BY DEF LinkStates
  <1>3. /\ cliLink'[c].at = l.at /\ ~cliLink'[c].online /\ cliLink' \in [CliConns -> LinkStates]
        /\ \A d \in CliConns : d # c => cliLink'[d] = cliLink[d]
    BY <1>1, <1>2 DEF CliInv, CliTypes
  <1>4. \A d \in CliConns : cliGranted'[d] = IF d = c THEN {} ELSE cliGranted[d]
    BY <1>1 DEF CliInv, CliTypes
  <1>5. w \in Holders /\ w \notin CliT
    BY HoldersApart DEF Holders
  <1>6. cliGranted[c] \in SUBSET cliGranted[c] /\ cliGranted[c] \ cliGranted[c] = {}
    OBVIOUS
  <1>7. releasing' = releasing \cup {<<w, <<f, "grant">> >> : f \in cliGranted[c]}
    BY <1>1 DEF TakenFiles
  <1>8. HoldsSound'
    <2>1. w \in CliConns => cliLink'[w].at = "removed"
      BY <1>3, <1>5, HoldersApart
    <2>2. \A d \in CliConns : cliLink[d].at = "removed" => cliLink'[d].at = "removed"
      BY <1>3
    <2>3. \A d \in CliConns : cliLink[d].online => cliLink'[d].online \/ cliGranted'[d] = {}
      BY <1>3, <1>4
    <2>4. \A d \in CliConns : cliGranted'[d] = IF d = c THEN cliGranted[c] \ cliGranted[c] ELSE cliGranted[d]
      BY <1>4, <1>6
    <2> QED BY <1>5, <1>6, <1>7, <2>1, <2>2, <2>3, <2>4, FilesTaken DEF CliInv
  <1>9. CliTypes'
    <2>1. cliGranted' \in [CliConns -> SUBSET CliT]
      BY <1>1 DEF CliInv, CliTypes
    <2>2. TakenFiles(w, c) \subseteq Holders \X (CliT \X HoldKinds)
      BY <1>5 DEF TakenFiles, CliInv, CliTypes, HoldKinds
    <2> QED BY <1>1, <1>3, <2>1, <2>2 DEF CliInv, CliTypes
  <1>10. ServerSound' /\ PlacesSound'
    BY <1>3 DEF CliInv, ServerSound, CleanStop, Starting, PlacesSound
  <1>11. DoneOver'
    BY <1>3 DEF CliInv, DoneOver, WorkOver
  <1>12. ReleaseSound'
    BY DEF ReleaseSound
  <1>13. ClientSound'
    <2>1. cliLink[CliClient].at = "away" => cliLink'[CliClient].at = "away"
      BY <1>3, CliAssumption
    <2> QED BY <2>1 DEF CliInv, ClientSound
  <1> QED BY <1>8, <1>9, <1>10, <1>11, <1>12, <1>13 DEF CliInv

\* The steps of a connection.
LEMMA ConnStepKeeps ==
  ASSUME CliInv, NEW c \in CliConns, ConnSteps(c)
  PROVE  CliInv'
  <1> DEFINE l == cliLink[c]
  <1>1. l \in LinkStates /\ cliFaults \in 0 .. MaxCliFaults
    BY DEF CliInv, CliTypes
  <1>2. l.online => l.at \in {"greeting", "reading", "leaving"}
    BY DEF CliInv, PlacesSound
  <1>3. CASE CloseConn(c)
    <2>1. RemoveClient("close", c, [l EXCEPT !.broken = TRUE]) /\ l.online /\ cliServer.release = "begun"
      BY <1>3 DEF CloseConn
    <2>2. [l EXCEPT !.broken = TRUE] \in LinkStates /\ [l EXCEPT !.broken = TRUE].at = l.at
      BY <1>1 DEF LinkStates
    <2>3. "close" # c
      BY HoldersApart
    <2> QED BY <1>2, <1>3, <2>1, <2>2, <2>3, RemovedKeeps DEF CloseConn
  <1>4. CASE Accept(c)
    <2>1. PICK a \in {"gone", "hello"} : cliLink' = [cliLink EXCEPT ![c].at = a] /\ (a = "gone" \/ ~cliServer.closing)
      BY <1>4 DEF Accept
    <2>2. [l EXCEPT !.at = a] \in LinkStates /\ [l EXCEPT !.at = a].at = a /\ ([l EXCEPT !.at = a].online <=> l.online)
      BY <1>1 DEF LinkStates
    <2>3. cliLink' = [cliLink EXCEPT ![c] = [l EXCEPT !.at = a]]
      BY <2>1 DEF CliInv, CliTypes
    <2>4. l.at = "away" /\ ~l.online /\ Dialing(c)
      BY <1>2, <1>4 DEF Accept
    <2> QED BY <1>1, <1>4, <2>1, <2>2, <2>3, <2>4, LinkMoves DEF Accept
  <1>5. CASE ServeHello(c)
    <2>1. PICK a \in {"gone", "greeting"}, o \in BOOLEAN : cliLink' = [cliLink EXCEPT ![c] = [l EXCEPT !.at = a, !.online = o]]
                                                           /\ (l.online => o) /\ (o => a = "greeting")
      <3>1. l.at = "hello" /\ ~l.online
        BY <1>2, <1>5 DEF ServeHello
      <3>2. CASE cliLink' = [cliLink EXCEPT ![c].at = "greeting", ![c].online = TRUE]
        <4>1. cliLink' = [cliLink EXCEPT ![c] = [l EXCEPT !.at = "greeting", !.online = TRUE]]
          BY <3>2 DEF CliInv, CliTypes
        <4> QED BY <4>1
      <3>3. CASE cliLink' = [cliLink EXCEPT ![c].at = "gone"]
        <4>1. cliLink' = [cliLink EXCEPT ![c] = [l EXCEPT !.at = "gone"]]
          BY <3>3 DEF CliInv, CliTypes
        <4>2. [l EXCEPT !.at = "gone"] = [l EXCEPT !.at = "gone", !.online = FALSE]
          BY <3>1, <1>1 DEF LinkStates
        <4> QED BY <4>1, <4>2, <3>1
      <3> QED BY <1>5, <3>2, <3>3 DEF ServeHello
    <2> DEFINE m == [l EXCEPT !.at = a, !.online = o]
    <2>2. m \in LinkStates /\ m.at = a /\ (m.online <=> o)
      BY <1>1 DEF LinkStates
    <2>3. l.at = "hello"
      BY <1>5 DEF ServeHello
    <2>4. cliLink' = [cliLink EXCEPT ![c] = m]
      BY <2>1
    <2> HIDE DEF m
    <2> QED BY <1>1, <1>5, <2>1, <2>2, <2>3, <2>4, LinkMoves DEF ServeHello
  <1>6. ASSUME NEW a \in {"leaving", "reading", "gone"}, cliLink' = [cliLink EXCEPT ![c].at = a],
               UNCHANGED <<cliServer, cliGranted, held, releasing, cliTask, cli, cliFaults>>,
               l.at \in {"greeting", "reading", "removed"}, l.at = "removed" => Published(c) /\ a = "gone", a = "gone" => l.at = "removed"
        PROVE  CliInv'
    <2>1. [l EXCEPT !.at = a] \in LinkStates /\ [l EXCEPT !.at = a].at = a /\ ([l EXCEPT !.at = a].online <=> l.online)
      BY <1>1 DEF LinkStates
    <2>2. cliLink' = [cliLink EXCEPT ![c] = [l EXCEPT !.at = a]]
      BY <1>6 DEF CliInv, CliTypes
    <2> QED BY <1>1, <1>2, <1>6, <2>1, <2>2, LinkMoves
  <1>7. CASE Greet(c)
    BY <1>6, <1>7 DEF Greet
  <1>8. CASE ReadEnds(c)
    BY <1>6, <1>8 DEF ReadEnds
  <1>9. CASE ConnLeaves(c)
    <2>1. RemoveClient(c, c, [l EXCEPT !.at = "removed"]) /\ l.at = "leaving"
      BY <1>9 DEF ConnLeaves
    <2>2. [l EXCEPT !.at = "removed"] \in LinkStates /\ [l EXCEPT !.at = "removed"].at = "removed"
      BY <1>1 DEF LinkStates
    <2>3. cliServer.release # "done"
      BY <2>1 DEF CliInv, ReleaseSound
    <2> QED BY <1>9, <2>1, <2>2, <2>3, RemovedKeeps DEF ConnLeaves
  <1>10. CASE ConnGone(c)
    BY <1>6, <1>10 DEF ConnGone
  <1>11. CASE Breaks(c)
    <2>1. [l EXCEPT !.broken = TRUE] \in LinkStates /\ [l EXCEPT !.broken = TRUE].at = l.at /\ ([l EXCEPT !.broken = TRUE].online <=> l.online)
      BY <1>1 DEF LinkStates
    <2>2. cliLink' = [cliLink EXCEPT ![c] = [l EXCEPT !.broken = TRUE]]
      BY <1>11 DEF Breaks, CliInv, CliTypes
    <2>3. cliFaults' \in 0 .. MaxCliFaults /\ cliFaults' # 0
      BY <1>1, <1>11, CliAssumption DEF Breaks, CliFault
    <2>4. l.at \notin {"away", "gone"}
      BY <1>11 DEF Breaks
    <2> QED BY <1>2, <1>11, <2>1, <2>2, <2>3, <2>4, LinkMoves DEF Breaks
  <1> QED BY <1>3, <1>4, <1>5, <1>7, <1>8, <1>9, <1>10, <1>11 DEF ConnSteps

-----------------------------------------------------------------------------
(* Tasks.                                                                   *)

\* A task goes on to where its kind may be; links only go offline, and the holds are sound.
LEMMA TaskMoves ==
  ASSUME CliInv, NEW t \in CliT, NEW to \in TaskPlaces, cliTask' = [cliTask EXCEPT ![t] = to], HoldsSound',
         UNCHANGED <<cliServer, cli>>, cliFaults' \in 0 .. MaxCliFaults, cliFaults' = 0 => cliFaults = 0,
         cliLink' \in [CliConns -> LinkStates],
         \A c \in CliConns : cliLink'[c].at = cliLink[c].at /\ (cliLink'[c].online => cliLink[c].online),
         cliGranted' \in [CliConns -> SUBSET CliT], held' \subseteq CliT \X HoldKinds, releasing' \subseteq Holders \X (CliT \X HoldKinds),
         Published("close") => Published("close")',
         cliTask[t] # "over", cliTask[t] = "new" => to \in TaskOver \/ Is(t, {"output"}) \/ ~cliServer.closing,
         to = "import" => Is(t, {"upload"}), to \in {"hold", "register", "respond"} => Is(t, {"upload", "output"}),
         to = "take" => Is(t, {"revoke"}), to \in {"check", "borrow"} => Is(t, {"input", "download"}),
         to = "run" => Is(t, {"input", "download", "complete"})
  PROVE  CliInv'
  <1>1. cliTask'[t] = to /\ (\A u \in CliT : u # t => cliTask'[u] = cliTask[u]) /\ cliTask' \in [CliT -> TaskPlaces]
    BY DEF CliInv, CliTypes
  <1>2. CliTypes'
    BY <1>1 DEF CliInv, CliTypes
  <1>3. ServerSound'
    BY DEF CliInv, ServerSound, CleanStop, Starting
  <1>4. PlacesSound'
    <2>1. \A u \in CliT : /\ cliTask'[u] = "import" => Is(u, {"upload"})
                          /\ cliTask'[u] \in {"hold", "register", "respond"} => Is(u, {"upload", "output"})
                          /\ cliTask'[u] = "take" => Is(u, {"revoke"})
                          /\ cliTask'[u] \in {"check", "borrow"} => Is(u, {"input", "download"})
                          /\ cliTask'[u] = "run" => Is(u, {"input", "download", "complete"})
      BY <1>1 DEF CliInv, PlacesSound
    <2>2. \A c \in CliConns : cliLink'[c].online => cliLink'[c].at \in {"greeting", "reading", "leaving"}
      BY DEF CliInv, PlacesSound
    <2> QED BY <2>1, <2>2 DEF PlacesSound
  <1>5. DoneOver'
    <2>1. ASSUME cliServer.done PROVE \A u \in CliT : cliTask'[u] \in TaskOver \/ Is(u, {"output"})
      <3>1. \A u \in CliT : cliTask[u] \in TaskOver \/ Is(u, {"output"})
        BY <2>1 DEF CliInv, DoneOver, WorkOver
      <3>2. cliServer.closing
        BY <2>1 DEF CliInv, ServerSound
      <3>3. to \in TaskOver \/ Is(t, {"output"})
        BY <3>1, <3>2 DEF TaskOver
      <3> QED BY <3>1, <3>3, <1>1
    <2> QED BY <2>1 DEF CliInv, DoneOver, WorkOver
  <1>6. ReleaseSound' /\ ClientSound'
    BY CliAssumption DEF CliInv, ReleaseSound, ClientSound
  <1> QED BY <1>2, <1>3, <1>4, <1>5, <1>6 DEF CliInv

\* A task that moves on without a hold of its own.
LEMMA TaskFreeMoves ==
  ASSUME CliInv, NEW t \in CliT, NEW to \in TaskPlaces, cliTask' = [cliTask EXCEPT ![t] = to],
         UNCHANGED <<cliServer, cli, cliLink, cliGranted, held, releasing>>, cliFaults' \in 0 .. MaxCliFaults, cliFaults' = 0 => cliFaults = 0,
         cliTask[t] \notin {"register", "over"}, cliTask[t] = "run" => Is(t, {"complete"}),
         cliTask[t] = "respond" => to \in Told, cliTask[t] = "ending" => Published(t) /\ to = "over",
         cliTask[t] = "new" => to \in TaskOver \/ Is(t, {"output"}) \/ ~cliServer.closing,
         to # "register", to = "run" => Is(t, {"complete"}),
         to = "import" => Is(t, {"upload"}), to \in {"hold", "respond"} => Is(t, {"upload", "output"}),
         to = "take" => Is(t, {"revoke"}), to \in {"check", "borrow"} => Is(t, {"input", "download"})
  PROVE  CliInv'
  <1>1. HoldsSound'
    BY HoldsKeptByTask DEF CliInv, Told
  <1>2. to = "run" => Is(t, {"input", "download", "complete"})
    BY DEF Is
  <1>3. /\ cliLink' \in [CliConns -> LinkStates] /\ cliGranted' \in [CliConns -> SUBSET CliT] /\ held' \subseteq CliT \X HoldKinds
        /\ releasing' \subseteq Holders \X (CliT \X HoldKinds)
    BY DEF CliInv, CliTypes
  <1>4. Published("close") => Published("close")'
    BY DEF Published
  <1> QED BY <1>1, <1>2, <1>3, <1>4, TaskMoves

\* What a task publishes, the closing of all has published or not as before.
LEMMA OthersPublished ==
  ASSUME NEW t \in CliT, \A x \in releasing' : x \in releasing \/ x[1] = t
  PROVE  Published("close") => Published("close")'
  BY HoldersApart DEF Published

\* What a request or the agent cannot tell of a grant is taken back.
LEMMA RespondKeeps ==
  ASSUME CliInv, NEW t \in CliT, Respond(t)
  PROVE  CliInv'
  <1> DEFINE c == Conn(t)
  <1>1. c \in CliConns /\ cliFaults \in 0 .. MaxCliFaults /\ cliTask[t] = "respond"
    BY CliAssumption DEF CliInv, CliTypes, Conn, CliT, Respond
  <1>2. cliFaults' \in 0 .. MaxCliFaults /\ (cliFaults' = 0 => cliFaults = 0)
    BY <1>1, CliAssumption DEF Respond, CliFault
  <1>3. UNCHANGED <<cliServer, held, cli>>
    BY DEF Respond
  <1>4. CASE TaskAt(t, "over") /\ UNCHANGED <<cliLink, cliGranted, releasing>>
    BY <1>1, <1>2, <1>3, <1>4, TaskFreeMoves DEF TaskAt, TaskPlaces, Told
  <1>5. CASE TaskAt(t, "ending") /\ ~Is(t, {"upload"}) /\ RemoveClient(t, c, [cliLink[c] EXCEPT !.broken = TRUE])
    <2> DEFINE m == [[cliLink[c] EXCEPT !.broken = TRUE] EXCEPT !.online = FALSE]
    <2>1. /\ cliLink' = [cliLink EXCEPT ![c] = m] /\ cliGranted' = [cliGranted EXCEPT ![c] = {}]
          /\ releasing' = releasing \cup TakenFiles(t, c)
      BY <1>5 DEF RemoveClient
    <2>2. m \in LinkStates /\ m.at = cliLink[c].at /\ ~m.online
      <3>1. cliLink[c] \in LinkStates
        BY <1>1 DEF CliInv, CliTypes
      <3> QED BY <3>1 DEF LinkStates
    <2> HIDE DEF m
    <2>3. /\ cliLink' \in [CliConns -> LinkStates] /\ cliGranted' \in [CliConns -> SUBSET CliT] /\ ~cliLink'[c].online
          /\ \A d \in CliConns : cliLink'[d].at = cliLink[d].at /\ (cliLink'[d].online => cliLink[d].online) /\ (d # c => cliLink'[d] = cliLink[d])
      <3>1. cliLink' \in [CliConns -> LinkStates] /\ cliGranted' \in [CliConns -> SUBSET CliT]
        BY <2>1, <2>2 DEF CliInv, CliTypes
      <3>2. cliLink'[c] = m /\ \A d \in CliConns : d # c => cliLink'[d] = cliLink[d]
        BY <2>1, <1>1 DEF CliInv, CliTypes
      <3> QED BY <3>1, <3>2, <2>2
    <2>4. \A d \in CliConns : cliGranted'[d] = IF d = c THEN {} ELSE cliGranted[d]
      BY <2>1 DEF CliInv, CliTypes
    <2>5. TakenFiles(t, c) = {<<t, <<f, "grant">> >> : f \in cliGranted[c]} /\ cliGranted[c] \subseteq CliT /\ t \in Holders /\ t \notin CliConns
      BY <1>1, HoldersApart DEF TakenFiles, CliInv, CliTypes, Holders
    <2>6. HoldsSound'
      <3>1. cliGranted[c] \in SUBSET cliGranted[c] /\ \A d \in CliConns : cliGranted'[d] = IF d = c THEN cliGranted[c] \ cliGranted[c] ELSE cliGranted[d]
        BY <2>4
      <3>2. \A d \in CliConns : cliLink[d].online => cliLink'[d].online \/ cliGranted'[d] = {}
        BY <2>3, <2>4
      <3>3. cliTask'[t] = "ending" /\ \A u \in CliT : u # t => cliTask'[u] = cliTask[u]
        BY <1>5 DEF TaskAt, CliInv, CliTypes
      <3>4. releasing' = releasing \cup {<<t, <<f, "grant">> >> : f \in cliGranted[c]}
        BY <2>1, <2>5
      <3>5. CliTypes /\ HoldsSound /\ held' = held /\ \A d \in CliConns : cliLink[d].at = "removed" => cliLink'[d].at = "removed"
        BY <1>3, <2>3 DEF CliInv
      <3> QED BY <1>1, <2>5, <3>1, <3>2, <3>3, <3>4, <3>5, FilesTaken
    <2>7. releasing' \subseteq Holders \X (CliT \X HoldKinds) /\ held' \subseteq CliT \X HoldKinds
      BY <2>1, <2>5, <1>3 DEF CliInv, CliTypes, HoldKinds
    <2>8. Published("close") => Published("close")'
      <3>1. \A x \in releasing' : x \in releasing \/ x[1] = t
        BY <2>1, <2>5
      <3> QED BY <3>1, OthersPublished
    <2> QED BY <1>1, <1>2, <1>3, <1>5, <2>3, <2>6, <2>7, <2>8, TaskMoves DEF TaskAt, TaskPlaces, TaskOver
  <1>6. CASE TaskAt(t, "ending") /\ Is(t, {"upload"}) /\ cliGranted' = [cliGranted EXCEPT ![c] = @ \ {t}]
             /\ releasing' = releasing \cup {<<t, <<f, "grant">> >> : f \in cliGranted[c] \cap {t}} /\ UNCHANGED cliLink
    <2> DEFINE F == cliGranted[c] \cap {t}
    <2>1. F \in SUBSET cliGranted[c] /\ cliGranted[c] \ {t} = cliGranted[c] \ F /\ F \subseteq CliT
      OBVIOUS
    <2>2. /\ \A d \in CliConns : cliGranted'[d] = IF d = c THEN cliGranted[c] \ F ELSE cliGranted[d]
          /\ cliGranted' \in [CliConns -> SUBSET CliT]
      BY <1>1, <1>6, <2>1 DEF CliInv, CliTypes
    <2>3. releasing' = releasing \cup {<<t, <<f, "grant">> >> : f \in F} /\ t \in Holders /\ t \notin CliConns
      BY <1>6, HoldersApart DEF Holders
    <2> HIDE DEF F
    <2>4. HoldsSound'
      <3>1. cliTask'[t] = "ending" /\ \A u \in CliT : u # t => cliTask'[u] = cliTask[u]
        BY <1>6 DEF TaskAt, CliInv, CliTypes
      <3> QED BY <1>1, <1>3, <1>6, <2>1, <2>2, <2>3, <3>1, FilesTaken DEF CliInv
    <2>5. releasing' \subseteq Holders \X (CliT \X HoldKinds) /\ held' \subseteq CliT \X HoldKinds /\ cliLink' \in [CliConns -> LinkStates]
      BY <2>1, <2>3, <1>3, <1>6 DEF CliInv, CliTypes, HoldKinds
    <2>6. Published("close") => Published("close")'
      <3>1. \A x \in releasing' : x \in releasing \/ x[1] = t
        BY <2>3
      <3> QED BY <3>1, OthersPublished
    <2> QED BY <1>1, <1>2, <1>3, <1>6, <2>2, <2>4, <2>5, <2>6, TaskMoves DEF TaskAt, TaskPlaces, TaskOver
  <1> QED BY <1>4, <1>5, <1>6 DEF Respond

\* The revocation of a file takes it from its connection.
LEMMA TakeKeeps ==
  ASSUME CliInv, NEW t \in CliT, Take(t)
  PROVE  CliInv'
  <1> DEFINE c == Conn(t)
             F == cliGranted[c] \cap {FileOf(t)}
  <1>1. c \in CliConns /\ cliFaults' \in 0 .. MaxCliFaults /\ cliTask[t] = "take"
    BY CliAssumption DEF CliInv, CliTypes, Conn, CliT, Take
  <1>2. F \in SUBSET cliGranted[c] /\ cliGranted[c] \ {FileOf(t)} = cliGranted[c] \ F /\ F \subseteq CliT
    BY <1>1 DEF CliInv, CliTypes
  <1>3. /\ \A d \in CliConns : cliGranted'[d] = IF d = c THEN cliGranted[c] \ F ELSE cliGranted[d]
        /\ cliGranted' \in [CliConns -> SUBSET CliT]
    BY <1>1, <1>2 DEF CliInv, CliTypes, Take
  <1>4. releasing' = releasing \cup {<<t, <<f, "grant">> >> : f \in F} /\ t \in Holders /\ t \notin CliConns
    BY HoldersApart DEF Holders, Take
  <1>5. UNCHANGED <<cliServer, cliLink, held, cli, cliFaults>> /\ cliTask' = [cliTask EXCEPT ![t] = "ending"]
    BY DEF Take, TaskAt
  <1> HIDE DEF F
  <1>6. HoldsSound'
    <2>1. cliTask'[t] = "ending" /\ \A u \in CliT : u # t => cliTask'[u] = cliTask[u]
      BY <1>5 DEF CliInv, CliTypes
    <2> QED BY <1>1, <1>2, <1>3, <1>4, <1>5, <2>1, FilesTaken DEF CliInv
  <1>7. releasing' \subseteq Holders \X (CliT \X HoldKinds) /\ held' \subseteq CliT \X HoldKinds /\ cliLink' \in [CliConns -> LinkStates]
    BY <1>2, <1>4, <1>5 DEF CliInv, CliTypes, HoldKinds
  <1>8. Published("close") => Published("close")'
    <2>1. \A x \in releasing' : x \in releasing \/ x[1] = t
      BY <1>4
    <2> QED BY <2>1, OthersPublished
  <1> QED BY <1>1, <1>3, <1>5, <1>6, <1>7, <1>8, TaskMoves DEF TaskPlaces, TaskOver

\* A hold that is taken, registered, given up or used: the other steps of a task that move one.
LEMMA HoldStepKeeps ==
  ASSUME CliInv, NEW t \in CliT, Hold(t) \/ RegisterGrant(t) \/ Borrow(t) \/ RunTask(t)
  PROVE  CliInv'
  <1>1. cliFaults \in 0 .. MaxCliFaults /\ CliTypes /\ HoldsSound
    BY DEF CliInv, CliTypes
  <1>2. cliFaults' \in 0 .. MaxCliFaults /\ (cliFaults' = 0 => cliFaults = 0)
    BY <1>1, CliAssumption DEF Hold, RegisterGrant, Borrow, RunTask, CliFault
  <1>3. UNCHANGED <<cliServer, cliLink, cli>>
    BY DEF Hold, RegisterGrant, Borrow, RunTask
  <1>4. /\ cliLink' \in [CliConns -> LinkStates] /\ t \in Holders
        /\ \A c \in CliConns : cliLink'[c].at = cliLink[c].at /\ (cliLink'[c].online => cliLink[c].online)
    BY <1>1, <1>3 DEF CliTypes, Holders
  <1>5. ASSUME cliTask[t] \in {"hold", "borrow"}, TaskAt(t, "over"), UNCHANGED <<cliGranted, held, releasing>> PROVE CliInv'
    BY <1>2, <1>3, <1>5, TaskFreeMoves DEF TaskAt, TaskPlaces, TaskOver
  <1>6. ASSUME NEW k \in HoldKinds, NEW to \in {"register", "run"}, cliTask[t] \in {"hold", "borrow"}, TaskAt(t, to),
               k = "grant" <=> to = "register", held' = held \cup {<<t, k>>}, UNCHANGED <<cliGranted, releasing>>,
               to = "register" <=> cliTask[t] = "hold"
        PROVE  CliInv'
    <2>1. /\ to = "register" => Is(t, {"upload", "output"})
          /\ to = "run" => Is(t, {"input", "download", "complete"}) /\ ~Is(t, {"complete"})
      BY <1>6 DEF CliInv, PlacesSound, Is
    <2>2. to \in TaskPlaces /\ (k = "use" => to = "run") /\ cliTask' = [cliTask EXCEPT ![t] = to]
      BY <1>6 DEF TaskPlaces, TaskAt
    <2>3. HoldsSound'
      BY <1>1, <1>3, <1>6, <2>1, <2>2, HoldTaken
    <2>4. /\ cliGranted' \in [CliConns -> SUBSET CliT] /\ held' \subseteq CliT \X HoldKinds /\ releasing' \subseteq Holders \X (CliT \X HoldKinds)
          /\ (Published("close") => Published("close")')
      BY <1>1, <1>6 DEF CliTypes, Published
    <2> QED BY <1>2, <1>3, <1>4, <1>6, <2>1, <2>2, <2>3, <2>4, TaskMoves
  <1>7. ASSUME NEW k \in HoldKinds, k = "grant" => cliTask[t] = "register", k = "use" => cliTask[t] = "run" /\ ~Is(t, {"complete"}),
               TaskAt(t, "ending"), UNCHANGED <<cliGranted, held>>, releasing' = releasing \cup {<<t, <<t, k>> >>}
        PROVE  CliInv'
    <2>1. cliTask' = [cliTask EXCEPT ![t] = "ending"] /\ "ending" \in TaskPlaces /\ cliTask[t] \notin {"new", "over"}
      BY <1>7 DEF TaskAt, TaskPlaces, HoldKinds
    <2>2. HoldsSound'
      BY <1>1, <1>3, <1>7, <2>1, OwnHoldEnds
    <2>3. cliGranted' \in [CliConns -> SUBSET CliT] /\ held' \subseteq CliT \X HoldKinds /\ releasing' \subseteq Holders \X (CliT \X HoldKinds)
      BY <1>1, <1>4, <1>7 DEF CliTypes
    <2>4. Published("close") => Published("close")'
      <3>1. \A x \in releasing' : x \in releasing \/ x[1] = t
        BY <1>7
      <3> QED BY <3>1, OthersPublished
    <2> QED BY <1>2, <1>3, <1>4, <1>7, <2>1, <2>2, <2>3, <2>4, TaskMoves DEF TaskOver
  <1>8. CASE Hold(t)
    <2>1. cliTask[t] = "hold" /\ UNCHANGED <<cliGranted, releasing>> /\ "grant" \in HoldKinds
      BY <1>8 DEF Hold, HoldKinds
    <2>2. CASE held' = held \cup {<<t, "grant">>} /\ TaskAt(t, "register")
      BY <1>6, <2>1, <2>2
    <2>3. CASE TaskAt(t, "over") /\ UNCHANGED held
      BY <1>5, <2>1, <2>3
    <2> QED BY <1>8, <2>2, <2>3 DEF Hold
  <1>9. CASE Borrow(t)
    <2>1. cliTask[t] = "borrow" /\ UNCHANGED <<cliGranted, releasing>> /\ "use" \in HoldKinds
      BY <1>9 DEF Borrow, HoldKinds
    <2>2. CASE held' = held \cup {<<t, "use">>} /\ TaskAt(t, "run")
      BY <1>6, <2>1, <2>2
    <2>3. CASE TaskAt(t, "over") /\ UNCHANGED held
      BY <1>5, <2>1, <2>3
    <2> QED BY <1>9, <2>2, <2>3 DEF Borrow
  <1>10. CASE RegisterGrant(t)
    <2>1. cliTask[t] = "register" /\ UNCHANGED held /\ "grant" \in HoldKinds
      BY <1>10 DEF RegisterGrant, HoldKinds
    <2>2. CASE StillOnline(t) /\ cliGranted' = [cliGranted EXCEPT ![Conn(t)] = @ \cup {t}] /\ TaskAt(t, "respond") /\ UNCHANGED releasing
      <3>1. cliTask' = [cliTask EXCEPT ![t] = "respond"] /\ "respond" \in TaskPlaces
        BY <2>2 DEF TaskAt, TaskPlaces
      <3>2. HoldsSound'
        BY <1>1, <1>3, <2>1, <2>2, <3>1, FileGranted DEF StillOnline
      <3>3. cliGranted' \in [CliConns -> SUBSET CliT] /\ held' \subseteq CliT \X HoldKinds /\ releasing' \subseteq Holders \X (CliT \X HoldKinds)
        BY <1>1, <2>1, <2>2 DEF CliTypes
      <3>4. Is(t, {"upload", "output"}) /\ (Published("close") => Published("close")')
        BY <2>1, <2>2 DEF CliInv, PlacesSound, Published
      <3> QED BY <1>2, <1>3, <1>4, <2>1, <3>1, <3>2, <3>3, <3>4, TaskMoves
    <2>3. CASE releasing' = releasing \cup {<<t, <<t, "grant">> >>} /\ TaskAt(t, "ending") /\ UNCHANGED cliGranted
      BY <1>7, <2>1, <2>3
    <2> QED BY <1>10, <2>2, <2>3 DEF RegisterGrant
  <1>11. CASE RunTask(t)
    <2>1. cliTask[t] = "run" /\ UNCHANGED <<cliGranted, held>> /\ "use" \in HoldKinds
      BY <1>11 DEF RunTask, HoldKinds
    <2>2. CASE Is(t, {"complete"}) /\ TaskAt(t, "over") /\ UNCHANGED releasing
      BY <1>2, <1>3, <2>1, <2>2, TaskFreeMoves DEF TaskAt, TaskPlaces, TaskOver
    <2>3. CASE ~Is(t, {"complete"}) /\ releasing' = releasing \cup {<<t, <<t, "use">> >>} /\ TaskAt(t, "ending")
      BY <1>7, <2>1, <2>3
    <2> QED BY <1>11, <2>2, <2>3 DEF RunTask
  <1> QED BY <1>8, <1>9, <1>10, <1>11

\* The steps of a task.
LEMMA TaskStepKeeps ==
  ASSUME CliInv, NEW t \in CliT, TaskSteps(t)
  PROVE  CliInv'
  <1>1. cliFaults \in 0 .. MaxCliFaults
    BY DEF CliInv, CliTypes
  <1>2. CASE Message(t)
    <2> DEFINE to == IF ~LetsIn(t) THEN "over" ELSE IF Is(t, {"input"}) THEN "check" ELSE "run"
    <2>1. cliTask' = [cliTask EXCEPT ![t] = to] /\ cliTask[t] = "new" /\ Is(t, {"input", "complete"})
          /\ UNCHANGED <<cliServer, cliLink, cliGranted, held, releasing, cli, cliFaults>>
      BY <1>2 DEF Message, TaskAt
    <2>2. /\ to \in {"over", "check", "run"} /\ (to = "over" \/ ~cliServer.closing)
          /\ to = "check" => Is(t, {"input", "download"})
          /\ to = "run" => Is(t, {"complete"})
      BY <2>1 DEF LetsIn, Is
    <2> HIDE DEF to
    <2> QED BY <1>1, <2>1, <2>2, TaskFreeMoves DEF TaskPlaces, TaskOver
  <1>3. CASE Request(t)
    <2> DEFINE to == IF ~LetsIn(t) \/ ~cliLink[Conn(t)].online THEN "over"
                     ELSE CASE Is(t, {"upload"}) -> "import" [] Is(t, {"download"}) -> "check" [] OTHER -> "take"
    <2>1. cliTask' = [cliTask EXCEPT ![t] = to] /\ cliTask[t] = "new" /\ Is(t, {"upload", "download", "revoke"})
          /\ UNCHANGED <<cliServer, cliLink, cliGranted, held, releasing, cli, cliFaults>>
      BY <1>3 DEF Request, TaskAt
    <2>2. /\ to \in {"over", "import", "check", "take"} /\ (to = "over" \/ ~cliServer.closing)
          /\ to = "check" => Is(t, {"input", "download"})
          /\ to = "import" => Is(t, {"upload"})
          /\ to = "take" => Is(t, {"revoke"})
      BY <2>1 DEF LetsIn, Is
    <2> HIDE DEF to
    <2> QED BY <1>1, <2>1, <2>2, TaskFreeMoves DEF TaskPlaces, TaskOver
  <1>4. CASE Output(t)
    <2>1. cliTask' = [cliTask EXCEPT ![t] = "hold"] /\ cliTask[t] = "new" /\ Is(t, {"output"}) /\ Is(t, {"upload", "output"})
          /\ UNCHANGED <<cliServer, cliLink, cliGranted, held, releasing, cli, cliFaults>>
      BY <1>4 DEF Output, TaskAt, Is
    <2> QED BY <1>1, <2>1, TaskFreeMoves DEF TaskPlaces
  <1>5. CASE Import(t)
    <2>1. PICK to \in {"hold", "over"} : cliTask' = [cliTask EXCEPT ![t] = to]
      BY <1>5 DEF Import, TaskAt
    <2>2. cliFaults' \in 0 .. MaxCliFaults /\ (cliFaults' = 0 => cliFaults = 0) /\ cliTask[t] = "import"
          /\ UNCHANGED <<cliServer, cliLink, cliGranted, held, releasing, cli>>
      BY <1>1, <1>5, CliAssumption DEF Import, CliFault
    <2>3. Is(t, {"upload", "output"})
      BY <2>2 DEF CliInv, PlacesSound, Is
    <2> QED BY <2>1, <2>2, <2>3, TaskFreeMoves DEF TaskPlaces, TaskOver
  <1>6. CASE Check(t)
    <2>1. PICK to \in {"borrow", "over"} : cliTask' = [cliTask EXCEPT ![t] = to]
      BY <1>6 DEF Check, TaskAt
    <2>2. cliTask[t] = "check" /\ UNCHANGED <<cliServer, cliLink, cliGranted, held, releasing, cli, cliFaults>>
      BY <1>6 DEF Check
    <2>3. Is(t, {"input", "download"})
      BY <2>2 DEF CliInv, PlacesSound
    <2> QED BY <1>1, <2>1, <2>2, <2>3, TaskFreeMoves DEF TaskPlaces, TaskOver
  <1>7. CASE CliTaskEnds(t)
    <2>1. cliTask' = [cliTask EXCEPT ![t] = "over"] /\ cliTask[t] = "ending" /\ Published(t)
          /\ UNCHANGED <<cliServer, cliLink, cliGranted, held, releasing, cli, cliFaults>>
      BY <1>7 DEF CliTaskEnds, TaskAt
    <2> QED BY <1>1, <2>1, TaskFreeMoves DEF TaskPlaces, TaskOver
  <1> QED BY <1>2, <1>3, <1>4, <1>5, <1>6, <1>7, HoldStepKeeps, RespondKeeps, TakeKeeps DEF TaskSteps

-----------------------------------------------------------------------------
(* The client, and the whole.                                               *)

\* A step of the client, which at most hangs up.
LEMMA ClientMoves ==
  ASSUME CliInv, cli' \in ClientStates, ClientOnly, UNCHANGED cliLink \/ HangUp,
         cliFaults' \in 0 .. MaxCliFaults, cliFaults' = 0 => cliFaults = 0,
         cli'.at = "new" \/ (cli'.at = "over" /\ cli'.err \in {"unconfigured", "unavailable"}) => cliLink[CliClient].at = "away",
         cli'.at \in {"new", "dial", "hello", "running"} => cli'.err = "none",
         cli'.at = "stopping" => cli'.err \notin {"unconfigured", "unavailable"},
         cli'.reads \/ cli'.ui => cli'.at \notin {"new", "dial", "hello"}
  PROVE  CliInv'
  <1>1. UNCHANGED <<cliServer, cliGranted, held, releasing, cliTask>>
    BY DEF ClientOnly
  <1>2. /\ cliLink' \in [CliConns -> LinkStates]
        /\ \A c \in CliConns : cliLink'[c].at = cliLink[c].at /\ (cliLink'[c].online <=> cliLink[c].online)
    <2>1. CASE UNCHANGED cliLink
      BY <2>1 DEF CliInv, CliTypes
    <2>2. CASE HangUp
      <3> DEFINE m == [cliLink[CliClient] EXCEPT !.broken = TRUE]
      <3>1. cliLink[CliClient] \in LinkStates /\ CliClient \in CliConns
        BY CliAssumption DEF CliInv, CliTypes
      <3>2. m \in LinkStates /\ m.at = cliLink[CliClient].at /\ (m.online <=> cliLink[CliClient].online)
        BY <3>1 DEF LinkStates
      <3>3. cliLink' = [cliLink EXCEPT ![CliClient] = m]
        BY <2>2 DEF HangUp, CliInv, CliTypes
      <3> HIDE DEF m
      <3> QED BY <3>1, <3>2, <3>3 DEF CliInv, CliTypes
    <2> QED BY <2>1, <2>2
  <1>3. HoldsSound'
    BY <1>1, <1>2, HoldsKeptByLinks DEF CliInv
  <1>4. CliTypes'
    BY <1>1, <1>2 DEF CliInv, CliTypes
  <1>5. ServerSound' /\ PlacesSound'
    BY <1>1, <1>2 DEF CliInv, ServerSound, CleanStop, Starting, PlacesSound
  <1>6. DoneOver'
    BY <1>1, <1>2 DEF CliInv, DoneOver, WorkOver
  <1>7. ReleaseSound'
    BY <1>1, <1>2 DEF CliInv, ReleaseSound, Published
  <1>8. ClientSound'
    BY <1>2, CliAssumption DEF ClientSound
  <1> QED BY <1>3, <1>4, <1>5, <1>6, <1>7, <1>8 DEF CliInv

\* The steps of the client.
LEMMA ClientStepKeeps ==
  ASSUME CliInv, ClientSteps
  PROVE  CliInv'
  <1>1. cli \in ClientStates /\ cliFaults \in 0 .. MaxCliFaults
    BY DEF CliInv, CliTypes
  <1>2. cliFaults' \in 0 .. MaxCliFaults /\ (cliFaults' = 0 => cliFaults = 0)
    BY <1>1, CliAssumption DEF ClientSteps, CliSelect, Dial, Greeted, ClientReadEnds, DisplayEnds, CliInterrupted, ClientOver, CliFault
  <1>3. ClientOnly /\ (UNCHANGED cliLink \/ HangUp)
    BY DEF ClientSteps, CliSelect, Dial, Greeted, ClientReadEnds, DisplayEnds, CliInterrupted, ClientOver, ClientStops
  <1>4. ASSUME NEW a \in {"dial", "hello", "running", "stopping", "over"}, NEW e \in {"none", "unconfigured", "unavailable", "failed", "canceled"},
               NEW r \in BOOLEAN, NEW u \in BOOLEAN, cli' = [setup |-> cli.setup, at |-> a, err |-> e, reads |-> r, ui |-> u],
               a = "over" /\ e \in {"unconfigured", "unavailable"} => cliLink[CliClient].at = "away",
               a \in {"dial", "hello", "running"} => e = "none", a = "stopping" => e \notin {"unconfigured", "unavailable"},
               r \/ u => a \notin {"dial", "hello"}
        PROVE  CliInv'
    <2>1. cli' \in ClientStates /\ cli'.at = a /\ cli'.err = e /\ (cli'.reads <=> r) /\ (cli'.ui <=> u)
      BY <1>1, <1>4 DEF ClientStates
    <2> QED BY <1>2, <1>3, <1>4, <2>1, ClientMoves
  <1>5. ASSUME cli' = cli PROVE CliInv'
    BY <1>1, <1>2, <1>3, <1>5, ClientMoves DEF CliInv, ClientSound
  <1>6. cli = [setup |-> cli.setup, at |-> cli.at, err |-> cli.err, reads |-> cli.reads, ui |-> cli.ui]
        /\ cli.err \in {"none", "unconfigured", "unavailable", "failed", "canceled"} /\ cli.reads \in BOOLEAN /\ cli.ui \in BOOLEAN
    BY <1>1 DEF ClientStates
  <1>7. ASSUME NEW e \in {"none", "unconfigured", "unavailable", "failed", "canceled"}, ClientEnds(e),
               e \in {"unconfigured", "unavailable"} => cliLink[CliClient].at = "away"
        PROVE  CliInv'
    <2>1. cli' = [setup |-> cli.setup, at |-> "over", err |-> e, reads |-> cli.reads, ui |-> cli.ui]
      BY <1>1, <1>7 DEF ClientEnds, ClientStates
    <2> QED BY <1>4, <1>6, <1>7, <2>1
  <1>8. CASE CliSelect
    <2>1. cli.at = "new" /\ cliLink[CliClient].at = "away" /\ cli.err = "none" /\ ~cli.reads /\ ~cli.ui
      BY <1>8 DEF CliSelect, CliInv, ClientSound
    <2>2. CASE ClientEnds("unconfigured") \/ ClientEnds("failed")
      BY <1>7, <2>1, <2>2
    <2>3. CASE cli' = [cli EXCEPT !.at = "dial"]
      <3>1. cli' = [setup |-> cli.setup, at |-> "dial", err |-> "none", reads |-> cli.reads, ui |-> cli.ui]
        BY <1>1, <2>1, <2>3 DEF ClientStates
      <3> QED BY <1>4, <1>6, <2>1, <3>1
    <2> QED BY <1>8, <2>2, <2>3 DEF CliSelect
  <1>9. CASE Dial
    <2>1. cli.at = "dial" /\ cli.err = "none" /\ ~cli.reads /\ ~cli.ui
      BY <1>9 DEF Dial, CliInv, ClientSound
    <2>2. CASE cli' = [cli EXCEPT !.at = "hello"]
      <3>1. cli' = [setup |-> cli.setup, at |-> "hello", err |-> "none", reads |-> cli.reads, ui |-> cli.ui]
        BY <1>1, <2>1, <2>2 DEF ClientStates
      <3> QED BY <1>4, <1>6, <2>1, <3>1
    <2>3. CASE ClientEnds("failed")
      BY <1>7, <2>3
    <2>4. CASE cliLink[CliClient].at = "away" /\ \E e \in {"unavailable", "failed", "canceled"} : ClientEnds(e)
      BY <1>7, <2>4
    <2> QED BY <1>9, <2>2, <2>3, <2>4 DEF Dial
  <1>10. CASE Greeted
    <2>1. cli.at = "hello" /\ cli.err = "none"
      BY <1>10 DEF Greeted, CliInv, ClientSound
    <2>2. CASE cli' = [cli EXCEPT !.at = "running", !.reads = TRUE, !.ui = TRUE]
      <3>1. cli' = [setup |-> cli.setup, at |-> "running", err |-> "none", reads |-> TRUE, ui |-> TRUE]
        BY <1>1, <2>1, <2>2 DEF ClientStates
      <3> QED BY <1>4, <3>1
    <2>3. CASE ClientEnds("failed") \/ ClientEnds("canceled")
      BY <1>7, <2>3
    <2> QED BY <1>10, <2>2, <2>3 DEF Greeted
  <1>11. ASSUME NEW e \in {"none", "failed", "canceled"}, NEW m \in ClientStates, m.at = cli.at, m.err = cli.err, ClientStops(e, m),
                cli.at \notin {"new", "dial", "hello"}
         PROVE  CliInv'
    <2>1. CASE cli.at = "running"
      <3>1. cli' = [m EXCEPT !.at = "stopping", !.err = e]
        BY <1>11, <2>1 DEF ClientStops
      <3>2. cli' \in ClientStates /\ cli'.at = "stopping" /\ cli'.err = e
        BY <1>11, <3>1 DEF ClientStates
      <3> QED BY <1>2, <1>3, <1>11, <3>2, ClientMoves
    <2>2. CASE cli.at # "running"
      <3>1. cli' = m
        BY <1>11, <2>2 DEF ClientStops
      <3> QED BY <1>2, <1>3, <1>11, <3>1, ClientMoves DEF CliInv, ClientSound
    <2> QED BY <2>1, <2>2
  <1>16. cli.reads \/ cli.ui => cli.at \notin {"new", "dial", "hello"}
    BY DEF CliInv, ClientSound
  <1>12. CASE ClientReadEnds
    <2>1. [cli EXCEPT !.reads = FALSE] \in ClientStates /\ [cli EXCEPT !.reads = FALSE].at = cli.at /\ [cli EXCEPT !.reads = FALSE].err = cli.err
      BY <1>1 DEF ClientStates
    <2>2. ClientStops("failed", [cli EXCEPT !.reads = FALSE]) /\ cli.reads
      BY <1>12 DEF ClientReadEnds
    <2> QED BY <1>16, <1>11, <2>1, <2>2
  <1>13. CASE DisplayEnds
    <2>1. [cli EXCEPT !.ui = FALSE] \in ClientStates /\ [cli EXCEPT !.ui = FALSE].at = cli.at /\ [cli EXCEPT !.ui = FALSE].err = cli.err
      BY <1>1 DEF ClientStates
    <2>2. PICK e \in {"none", "failed"} : ClientStops(e, [cli EXCEPT !.ui = FALSE]) /\ cli.ui
      BY <1>13 DEF DisplayEnds
    <2> QED BY <1>16, <1>11, <2>1, <2>2
  <1>14. CASE CliInterrupted
    <2>1. ClientStops("canceled", cli) /\ cli.at = "running"
      BY <1>14 DEF CliInterrupted
    <2> QED BY <1>1, <1>11, <2>1
  <1>15. CASE ClientOver
    <2>1. cli.at = "stopping" /\ cli.err \notin {"unconfigured", "unavailable"}
      BY <1>15 DEF ClientOver, CliInv, ClientSound
    <2>2. cli' = [setup |-> cli.setup, at |-> "over", err |-> cli.err, reads |-> cli.reads, ui |-> cli.ui]
      BY <1>1, <1>15 DEF ClientOver, ClientStates
    <2> QED BY <1>4, <1>6, <2>1, <2>2
  <1> QED BY <1>8, <1>9, <1>10, <1>12, <1>13, <1>14, <1>15 DEF ClientSteps

\* Every step keeps it.
LEMMA CliStepKeeps == CliInv /\ [CliNext]_cliVars => CliInv'
  <1> SUFFICES ASSUME CliInv, [CliNext]_cliVars PROVE CliInv'
    OBVIOUS
  <1>1. CASE UNCHANGED cliVars
    <2>1. HoldsSound'
      BY <1>1, HoldsKept DEF cliVars, CliInv
    <2> QED BY <1>1, <2>1 DEF cliVars, CliInv, CliTypes, ServerSound, CleanStop, Starting, DoneOver, WorkOver, PlacesSound, ReleaseSound,
                              Published, ClientSound
  <1>2. CASE ServerSteps
    BY <1>2, ServerLifeKeeps, PublishUsageKeeps DEF ServerSteps
  <1>3. CASE ClientSteps
    BY <1>3, ClientStepKeeps
  <1>4. CASE \E c \in CliConns : ConnSteps(c)
    BY <1>4, ConnStepKeeps
  <1>5. CASE \E t \in DOMAIN CliTasks : TaskSteps(t)
    BY <1>5, TaskStepKeeps DEF CliT
  <1> QED BY <1>1, <1>2, <1>3, <1>4, <1>5 DEF CliNext

\* What the invariant says of the properties that TLC checks.
LEMMA CliSafe == CliInv => CliTypeOK /\ HoldsOwned /\ GrantsHeld /\ NobodyLeft /\ CliDoneLast /\ CleanStop /\ FallbackUnserved
  <1> SUFFICES ASSUME CliInv PROVE CliTypeOK /\ HoldsOwned /\ GrantsHeld /\ NobodyLeft /\ CliDoneLast /\ CleanStop /\ FallbackUnserved
    OBVIOUS
  <1>1. held \subseteq CliT \X HoldKinds /\ releasing \subseteq Holders \X (CliT \X HoldKinds) /\ CliTypes
    BY DEF CliInv, CliTypes
  <1>2. \A h \in held : \E t \in CliT, k \in HoldKinds : h = <<t, k>> /\ KeptHold(t, k)
    BY <1>1 DEF KeptHold
  <1>3. \A x \in releasing : \E w \in Holders, t \in CliT, k \in HoldKinds : x = <<w, <<t, k>> >> /\ Ends(w, t, k)
    <2> SUFFICES ASSUME NEW x \in releasing PROVE \E w \in Holders, t \in CliT, k \in HoldKinds : x = <<w, <<t, k>> >> /\ Ends(w, t, k)
      OBVIOUS
    <2>1. x \in Holders \X (CliT \X HoldKinds)
      BY <1>1
    <2>2. PICK w \in Holders, t \in CliT, k \in HoldKinds : x = <<w, <<t, k>> >>
      BY <2>1
    <2> QED BY <2>2 DEF Ends
  <1>4. CliTypeOK
    <2>1. cliServer \in CliServerStates /\ cliLink \in [CliConns -> LinkStates] /\ cliGranted \in [CliConns -> SUBSET CliT]
          /\ cli \in ClientStates /\ cliFaults \in 0 .. MaxCliFaults
      BY DEF CliInv, CliTypes
    <2>2. \A x \in releasing : x[1] \in Holders /\ x[2] \in held
      <3>1. \A w \in Holders, t \in CliT, k \in HoldKinds : Ends(w, t, k) => KeptHold(t, k)
        BY DEF CliInv, HoldsSound, EndsHeld
      <3> SUFFICES ASSUME NEW x \in releasing PROVE x[1] \in Holders /\ x[2] \in held
        OBVIOUS
      <3>2. PICK w \in Holders, t \in CliT, k \in HoldKinds : x = <<w, <<t, k>> >> /\ Ends(w, t, k)
        BY <1>3
      <3> QED BY <3>1, <3>2 DEF KeptHold
    <2>3. \A c \in CliConns : cliLink[c].at \in {"away", "hello", "greeting", "reading", "leaving", "removed", "gone"}
      BY <2>1 DEF LinkStates
    <2>4. /\ cliServer.start \in {"no", "listening", "started", "failed"} /\ cliServer.listener \in {"none", "open", "closed"}
          /\ cliServer.serve \in {"no", "on", "over"} /\ cliServer.release \in {"no", "begun", "done"}
          /\ cli.at \in {"new", "dial", "hello", "running", "stopping", "over"}
      BY <2>1 DEF CliServerStates, ClientStates
    <2> QED BY <2>1, <2>2, <2>3, <2>4 DEF CliTypeOK, Holders, CliT
  <1>5. HoldsOwned
    <2> SUFFICES ASSUME NEW h \in held PROVE HoldOwned(h)
      BY DEF HoldsOwned
    <2>1. PICK t \in CliT, k \in HoldKinds : h = <<t, k>> /\ KeptHold(t, k)
      BY <1>2
    <2>2. CASE \E w \in Holders : Ends(w, t, k)
      <3>1. PICK w \in Holders : <<w, h>> \in releasing
        BY <2>1, <2>2 DEF Ends
      <3>2. <<w, h>>[2] = h
        OBVIOUS
      <3> QED BY <3>1, <3>2 DEF HoldOwned
    <2>3. CASE ~\E w \in Holders : Ends(w, t, k)
      <3>1. h[1] = t /\ h[2] = k /\ Conn(t) \in CliConns
        BY <2>1, CliAssumption DEF Conn, CliT
      <3>2. CASE k = "use"
        <4>1. cliTask[t] = "run"
          BY <2>1, <2>3, <3>2 DEF CliInv, HoldsSound, HaveOwner
        <4> QED BY <3>1, <3>2, <4>1 DEF HoldOwned
      <3>3. CASE k = "grant"
        <4>1. cliTask[t] = "register" \/ t \in cliGranted[Conn(t)]
          BY <2>1, <2>3, <3>3 DEF CliInv, HoldsSound, HaveOwner
        <4>2. t \in cliGranted[Conn(t)] => cliLink[Conn(t)].online
          BY <3>1 DEF CliInv, HoldsSound, GrantsSound
        <4> QED BY <3>1, <3>3, <4>1, <4>2 DEF HoldOwned
      <3> QED BY <3>2, <3>3 DEF HoldKinds
    <2> QED BY <2>2, <2>3
  <1>6. GrantsHeld
    <2>1. cliGranted \in [CliConns -> SUBSET CliT]
      BY DEF CliInv, CliTypes
    <2>2. \A c \in CliConns, t \in CliT : t \in cliGranted[c] => cliLink[c].online /\ KeptHold(t, "grant")
      BY DEF CliInv, HoldsSound, GrantsSound
    <2> QED BY <2>1, <2>2 DEF GrantsHeld, KeptHold
  <1>7. NobodyLeft
    <2> SUFFICES ASSUME cliServer.release = "done"
                 PROVE  /\ \A c \in CliConns : ~cliLink[c].online /\ cliLink[c].at \in {"away", "gone"}
                        /\ \A h \in held : HeldByDelivery(h)
      BY DEF NobodyLeft
    <2>1. (\A c \in CliConns : ~cliLink[c].online /\ cliLink[c].at \in {"away", "gone"}) /\ Published("close")
      BY DEF CliInv, ReleaseSound
    <2>2. \A t \in CliT : cliTask[t] \in TaskOver \/ Is(t, {"output"})
      BY DEF CliInv, ServerSound, DoneOver, WorkOver
    <2>3. ASSUME NEW h \in held PROVE HeldByDelivery(h)
      <3>1. PICK t \in CliT, k \in HoldKinds : h = <<t, k>> /\ KeptHold(t, k)
        BY <1>2
      <3>2. h[1] = t /\ Conn(t) \in CliConns
        BY <3>1, CliAssumption DEF Conn, CliT
      <3>3. CASE \E w \in Holders : Ends(w, t, k)
        <4>1. PICK w \in Holders : Ends(w, t, k)
          BY <3>3
        <4>2. "close" \in Holders
          BY DEF Holders
        <4>3. w # "close"
          BY <1>1, <2>1, <4>1, <4>2, PublishedAll
        <4>4. w \notin CliConns
          BY <2>1, <4>1 DEF CliInv, HoldsSound, EndsAtConn
        <4>5. w \in CliT /\ cliTask[w] = "ending"
          BY <4>1, <4>3, <4>4 DEF Holders, CliInv, HoldsSound, EndsAtTask
        <4>6. Is(w, {"output"})
          BY <2>2, <4>5 DEF TaskOver
        <4>7. <<w, h>> \in releasing /\ <<w, h>>[1] = w /\ <<w, h>>[2] = h
          BY <3>1, <4>1 DEF Ends
        <4> QED BY <4>5, <4>6, <4>7 DEF HeldByDelivery, CliT
      <3>4. CASE ~\E w \in Holders : Ends(w, t, k)
        <4>1. cliTask[t] \in {"run", "register"} \/ t \in cliGranted[Conn(t)]
          BY <3>1, <3>4 DEF CliInv, HoldsSound, HaveOwner, HoldKinds
        <4>2. t \notin cliGranted[Conn(t)]
          BY <2>1, <3>2 DEF CliInv, HoldsSound, GrantsSound
        <4>3. Is(t, {"output"})
          BY <2>2, <4>1, <4>2 DEF TaskOver
        <4> QED BY <3>2, <4>3 DEF HeldByDelivery
      <3> QED BY <3>3, <3>4
    <2> QED BY <2>1, <2>3
  <1>8. CliDoneLast
    BY WorkIsOver DEF CliInv, DoneOver, ServerSound, CliDoneLast
  <1>9. CleanStop /\ FallbackUnserved
    BY DEF CliInv, ServerSound, ClientSound, FallbackUnserved, FallsBack
  <1> QED BY <1>4, <1>5, <1>6, <1>7, <1>8, <1>9

\* Nothing is let in once the closing has begun.
LEMMA CliLetIn == CliInv /\ [CliNext]_cliVars => [LetInBefore]_cliVars
  <1> SUFFICES ASSUME CliInv, CliNext, cliServer.closing
               PROVE  /\ \A c \in CliConns : cliLink'[c].online => cliLink[c].online
                      /\ \A t \in DOMAIN CliTasks : cliTask[t] = "new" /\ ~Is(t, {"output"}) => cliTask'[t] \in TaskOver
    BY DEF LetInBefore
  <1>1. cliLink \in [CliConns -> LinkStates] /\ cliTask \in [CliT -> TaskPlaces]
    BY DEF CliInv, CliTypes
  <1>2. CASE ServerSteps
    BY <1>1, <1>2 DEF ServerSteps, CliStart, CliListen, FrontendReady, ServeEnds, CliBeginClose, CliDone, CliClose, CliCloseDone, PublishUsage,
                      TaskOver
  <1>3. CASE ClientSteps
    <2>1. cliTask' = cliTask /\ (cliLink' = cliLink \/ cliLink' = [cliLink EXCEPT ![CliClient].broken = TRUE])
      BY <1>3 DEF ClientSteps, CliSelect, Dial, Greeted, ClientReadEnds, DisplayEnds, CliInterrupted, ClientOver, ClientStops, ClientOnly, HangUp
    <2>2. \A c \in CliConns : cliLink'[c].online <=> cliLink[c].online
      BY <1>1, <2>1 DEF LinkStates
    <2> QED BY <2>1, <2>2 DEF TaskOver
  <1>4. ASSUME NEW c \in CliConns, ConnSteps(c)
        PROVE  (\A d \in CliConns : cliLink'[d].online => cliLink[d].online) /\ cliTask' = cliTask
    <2>1. \A d \in CliConns : d # c => cliLink'[d] = cliLink[d]
      BY <1>1, <1>4 DEF ConnSteps, CloseConn, Accept, ServeHello, Greet, ReadEnds, ConnLeaves, ConnGone, Breaks, RemoveClient
    <2>2. cliLink[c] \in LinkStates
      BY <1>1
    <2>3. cliLink'[c].online => cliLink[c].online
      <3>1. ASSUME NEW l \in LinkStates, RemoveClient(c, c, l) \/ RemoveClient("close", c, l) PROVE ~cliLink'[c].online
        BY <1>1, <3>1 DEF RemoveClient, LinkStates
      <3>2. CASE CloseConn(c)
        <4>1. [cliLink[c] EXCEPT !.broken = TRUE] \in LinkStates
          BY <2>2 DEF LinkStates
        <4> QED BY <3>1, <3>2, <4>1 DEF CloseConn
      <3>3. CASE ConnLeaves(c)
        <4>1. [cliLink[c] EXCEPT !.at = "removed"] \in LinkStates
          BY <2>2 DEF LinkStates
        <4> QED BY <3>1, <3>3, <4>1 DEF ConnLeaves
      <3>4. CASE Accept(c)
        BY <1>1, <2>2, <3>4 DEF Accept, LinkStates
      <3>5. CASE ServeHello(c)
        BY <1>1, <2>2, <3>5 DEF ServeHello, AddsClient, LinkStates
      <3>6. CASE Greet(c) \/ ReadEnds(c) \/ ConnGone(c)
        BY <1>1, <2>2, <3>6 DEF Greet, ReadEnds, ConnGone, LinkStates
      <3>7. CASE Breaks(c)
        BY <1>1, <2>2, <3>7 DEF Breaks, LinkStates
      <3> QED BY <1>4, <3>2, <3>3, <3>4, <3>5, <3>6, <3>7 DEF ConnSteps
    <2> QED BY <1>4, <2>1, <2>3 DEF ConnSteps, CloseConn, Accept, ServeHello, Greet, ReadEnds, ConnLeaves, ConnGone, Breaks, RemoveClient
  <1>5. ASSUME NEW t \in CliT, TaskSteps(t)
        PROVE  /\ \A c \in CliConns : cliLink'[c].online => cliLink[c].online
               /\ \A u \in CliT : cliTask[u] = "new" /\ ~Is(u, {"output"}) => cliTask'[u] \in TaskOver
    <2>1. \A u \in CliT : u # t => cliTask'[u] = cliTask[u]
      BY <1>1, <1>5 DEF TaskSteps, Message, Request, Output, Import, Hold, RegisterGrant, Respond, Take, Check, Borrow, RunTask, CliTaskEnds, TaskAt
    <2>2. cliTask[t] = "new" => Message(t) \/ Request(t) \/ Output(t)
      BY <1>5 DEF TaskSteps, Import, Hold, RegisterGrant, Respond, Take, Check, Borrow, RunTask, CliTaskEnds
    <2>3. cliTask[t] = "new" /\ ~Is(t, {"output"}) => cliTask'[t] = "over"
      BY <1>1, <2>2 DEF Message, Request, Output, TaskAt, LetsIn
    <2>4. \A c \in CliConns : cliLink'[c].online => cliLink[c].online
      <3>1. CASE cliLink' = cliLink
        BY <3>1
      <3>2. CASE RemoveClient(t, Conn(t), [cliLink[Conn(t)] EXCEPT !.broken = TRUE])
        <4>1. cliLink[Conn(t)] \in LinkStates /\ Conn(t) \in CliConns
          BY <1>1, CliAssumption DEF Conn, CliT
        <4>2. ~[[cliLink[Conn(t)] EXCEPT !.broken = TRUE] EXCEPT !.online = FALSE].online
          BY <4>1 DEF LinkStates
        <4> QED BY <1>1, <3>2, <4>1, <4>2 DEF RemoveClient
      <3> QED BY <1>5, <3>1, <3>2 DEF TaskSteps, Message, Request, Output, Import, Hold, RegisterGrant, Respond, Take, Check, Borrow, RunTask,
                                      CliTaskEnds
    <2> QED BY <2>1, <2>3, <2>4 DEF TaskOver
  <1> QED BY <1>2, <1>3, <1>4, <1>5 DEF CliNext, CliT, TaskOver

\* The command line server (grantFile, removeClient, borrowFiles, closeResources): every hold of a medium has an owner
\* that ends it, and when the closing is done no connection is left and only a delivery of the agent may hold one; the
\* client lets the program run locally only where no server was reached.
THEOREM CliInductive ==
  CliSpec => [](CliTypeOK /\ HoldsOwned /\ GrantsHeld /\ NobodyLeft /\ CliDoneLast /\ CleanStop /\ FallbackUnserved)
  BY CliInitKeeps, CliStepKeeps, CliSafe, PTL DEF CliSpec

\* addClient and the gates of the handlers: once the closing has begun no connection is registered and no message or
\* request is let in.
THEOREM CliClosingLetsNothingIn == CliSpec => NothingNewWhenClosing
  BY CliInitKeeps, CliStepKeeps, CliLetIn, PTL DEF CliSpec, NothingNewWhenClosing
=============================================================================
