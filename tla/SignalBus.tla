----------------------------- MODULE SignalBus -----------------------------
(***************************************************************************)
(* A typed signal (internal/signal: signal.go, connection.go, result.go):  *)
(* connections come and go while emissions visit a frozen snapshot of      *)
(* them, callbacks run on the signal's queue or are forwarded to another   *)
(* signal, and the signal closes.  The queue is the one SignalQueue        *)
(* models, here by what it promises: an accepted task is finished once,    *)
(* and the queue is done after all of them.                                *)
(***************************************************************************)
EXTENDS Naturals, Sequences

CONSTANTS
    Conns,         \* connections
    Forwarding,    \* those made by ConnectForward; the others are handlers
    DrainConns,    \* those with the Drain policy
    Emissions      \* synchronous emissions

ASSUME BusAssumption == Forwarding \subseteq Conns /\ DrainConns \subseteq Conns

VARIABLES
    conn,      \* state of each connection
    snapshot,  \* the connected slots, in order
    bus,       \* the signal: "open", "closed", "done"
    closing,   \* connections BeginClose has still to close
    busQueue,  \* "open", "closed"
    emission,  \* each call of Emit
    item       \* one entry of an emission

busVars == <<conn, snapshot, bus, closing, busQueue, emission, item>>

Items == Emissions \X Conns
InQueue == {"queued", "running", "forwarding", "hooked"}
NewItem == [at |-> "none", child |-> "none", held |-> FALSE, result |-> "none", canceled |-> "no"]

BusTypeOK ==
    /\ conn \in [Conns -> {"out", "in", "cut", "closed", "gone"}]
    /\ snapshot \in Seq(Conns)
    /\ bus \in {"open", "closed", "done"} /\ busQueue \in {"open", "closed"}
    /\ closing \subseteq Conns
    /\ emission \in [Emissions -> [at : {"new", "admitting", "submitting", "admitted", "returned"},
                                   entries : Seq(Conns), next : Nat]]
    /\ \A e \in Emissions : emission[e].entries # <<>> => emission[e].next \in DOMAIN emission[e].entries
    /\ item \in [Items -> [at : {"none", "owned", "exited", "transferred"} \cup InQueue,
                           child : {"none", "working", "completed", "exited"}, held : BOOLEAN,
                           result : {"none", "value", "refused", "ctx"}, canceled : {"no", "outside", "own"}]]

BusInit ==
    /\ conn = [c \in Conns |-> "out"] /\ snapshot = <<>>
    /\ bus = "open" /\ closing = {} /\ busQueue = "open"
    /\ emission = [e \in Emissions |-> [at |-> "new", entries |-> <<>>, next |-> 1]]
    /\ item = [i \in Items |-> NewItem]

-----------------------------------------------------------------------------
(* Results, ownership and contexts of one entry.                            *)

\* Mutant: a later result replaces the first.
FinishAgain(x, r) == [x EXCEPT !.result = r]

\* finish: the first result of an entry counts.
Finish(x, r) == IF x.result = "none" THEN [x EXCEPT !.result = r] ELSE x

\* The context of an entry ends; once it has, it stays ended for its first reason.
CancelItem(x, why) == IF x.canceled = "no" THEN [x EXCEPT !.canceled = why] ELSE x

\* Finish of a task that was not forwarded: result, release, taskCancel, exit.
Exited(x, r) == [CancelItem(Finish(x, r), "own") EXCEPT !.at = "exited", !.held = FALSE]

\* Mutant: the connection is done as soon as it is closed.
ReleasedClosed(itm) == [c \in Conns |-> IF conn[c] = "closed" THEN "gone" ELSE conn[c]]

\* release: a closed connection is done with its last task.
Released(itm) ==
    [c \in Conns |-> IF conn[c] = "closed" /\ \A e \in Emissions : ~itm[<<e, c>>].held THEN "gone" ELSE conn[c]]

SetItem(i, x) ==
    LET itm == [item EXCEPT ![i] = x] IN item' = itm /\ conn' = Released(itm)

-----------------------------------------------------------------------------
(* Connections.                                                             *)

ConnectSlot(c) ==
    /\ conn[c] = "out" /\ bus = "open"
    /\ conn' = [conn EXCEPT ![c] = "in"]
    /\ snapshot' = Append(snapshot, c)
    /\ UNCHANGED <<bus, closing, busQueue, emission, item>>

\* remove: the closing snapshot is retained.
Without(c) == IF bus = "open" THEN SelectSeq(snapshot, LAMBDA d : d # c) ELSE snapshot

DisconnectSlot(c) ==
    /\ conn[c] = "in"
    /\ conn' = [conn EXCEPT ![c] = "cut"]
    /\ snapshot' = Without(c)
    /\ UNCHANGED <<bus, closing, busQueue, emission, item>>

\* Connection.BeginClose, by the subscriber or by the signal.
CloseSlot(c) ==
    LET itm == [i \in Items |-> IF i[2] = c /\ item[i].held /\ c \notin DrainConns
                                THEN CancelItem(item[i], "outside") ELSE item[i]]
    IN /\ conn[c] \in {"in", "cut"}
       /\ snapshot' = Without(c)
       /\ item' = itm
       /\ conn' = [conn EXCEPT ![c] = IF \A e \in Emissions : ~item[<<e, c>>].held THEN "gone" ELSE "closed"]
       /\ closing' = closing \ {c}
       /\ UNCHANGED <<bus, busQueue, emission>>

-----------------------------------------------------------------------------
(* Emit.                                                                    *)

\* The entries are those of one snapshot of an open signal.
EmitBegin(e) ==
    /\ emission[e].at = "new"
    /\ emission' = [emission EXCEPT ![e] =
          IF bus # "open" \/ snapshot = <<>> THEN [@ EXCEPT !.at = "returned"]
          ELSE [@ EXCEPT !.at = "admitting", !.entries = snapshot]]
    /\ UNCHANGED <<conn, snapshot, bus, closing, busQueue, item>>

\* The entries from the next one on are refused, and emit returns.
RefuseRest(e) ==
    LET m == emission[e]
        rest == {m.entries[j] : j \in m.next .. Len(m.entries)}
        itm == [i \in Items |-> IF i[1] = e /\ i[2] \in rest THEN Exited(item[i], "refused") ELSE item[i]]
    IN /\ item' = itm /\ conn' = Released(itm)
       /\ emission' = [emission EXCEPT ![e].at = "admitted"]

\* acquire succeeds
Accepts(c) == conn[c] \notin {"closed", "gone"}

EmitAcquire(e) ==
    LET c == emission[e].entries[emission[e].next] IN
    /\ emission[e].at = "admitting"
    /\ \/ /\ ~Accepts(c) /\ RefuseRest(e)
       \/ /\ Accepts(c)
          /\ SetItem(<<e, c>>, [item[<<e, c>>] EXCEPT !.at = "owned", !.held = TRUE])
          /\ emission' = [emission EXCEPT ![e].at = "submitting"]
    /\ UNCHANGED <<snapshot, bus, closing, busQueue>>

\* Mutant: the loop runs one entry too far.
NextEntryPast(m) == IF m.next > Len(m.entries) THEN [m EXCEPT !.at = "admitted"]
                    ELSE [m EXCEPT !.at = "admitting", !.next = @ + 1]

\* emit's loop over the entries
NextEntry(m) == IF m.next = Len(m.entries) THEN [m EXCEPT !.at = "admitted"]
                ELSE [m EXCEPT !.at = "admitting", !.next = m.next + 1]

\* queue.Submit: refused when the queue is closed or full or the context has ended.
EmitSubmit(e) ==
    LET m == emission[e]
        c == m.entries[m.next]
    IN /\ m.at = "submitting"
       /\ \/ RefuseRest(e)
          \/ /\ busQueue = "open" /\ item[<<e, c>>].canceled = "no"
             /\ SetItem(<<e, c>>, [item[<<e, c>>] EXCEPT !.at = "queued"])
             /\ emission' = [emission EXCEPT ![e] = NextEntry(m)]
       /\ UNCHANGED <<snapshot, bus, closing, busQueue>>

\* Mutant: the deadline is only watched while a callback waits.
UnderDeadlineQueued(x) == x.held /\ x.at = "queued"

\* The contexts that descend from the emission's.
UnderDeadline(x) == x.held

\* The emission's deadline, or its caller's context, ends.
EmitTimeout(e) ==
    /\ emission[e].at \notin {"new", "returned"}
    /\ item' = [i \in Items |-> IF i[1] = e /\ UnderDeadline(item[i]) THEN CancelItem(item[i], "outside") ELSE item[i]]
    /\ item' # item
    /\ UNCHANGED <<conn, snapshot, bus, closing, busQueue, emission>>

\* AfterFunc of an ended context: a goroutine of its own finishes the entry.
AfterCancel(i) ==
    /\ item[i].canceled # "no" /\ item[i].result = "none"
    /\ SetItem(i, Finish(item[i], "ctx"))
    /\ UNCHANGED <<snapshot, bus, closing, busQueue, emission>>

\* Emit's Wait: every entry has its result.
EmitReturn(e) ==
    /\ emission[e].at = "admitted"
    /\ \A j \in DOMAIN emission[e].entries : item[<<e, emission[e].entries[j]>>].result # "none"
    /\ emission' = [emission EXCEPT ![e].at = "returned"]
    /\ UNCHANGED <<conn, snapshot, bus, closing, busQueue, item>>

-----------------------------------------------------------------------------
(* The queue's worker with one task.                                        *)

\* A task whose context ended before it ran is finished without running.
RunItem(i) ==
    /\ item[i].at = "queued"
    /\ SetItem(i, IF item[i].canceled = "no" THEN [item[i] EXCEPT !.at = "running"]
                  ELSE Exited(item[i], "ctx"))
    /\ UNCHANGED <<snapshot, bus, closing, busQueue, emission>>

\* The handler returns, or the forwarder has no destination or is refused there.
ReturnItem(i) ==
    /\ item[i].at = "running"
    /\ SetItem(i, Exited(item[i], "value"))
    /\ UNCHANGED <<snapshot, bus, closing, busQueue, emission>>

\* target.emit: the child is at work elsewhere.
ForwardItem(i) ==
    /\ item[i].at = "running" /\ i[2] \in Forwarding
    /\ SetItem(i, [item[i] EXCEPT !.at = "forwarding", !.child = "working"])
    /\ UNCHANGED <<snapshot, bus, closing, busQueue, emission>>

\* Mutant: the upstream connection is not released.
OnExitKept(x) == CancelItem(x, "own")

\* The callback given to onExit, and the one given to onComplete.
OnExit(x) == [CancelItem(x, "own") EXCEPT !.held = FALSE]
OnComplete(x) == CancelItem(Finish(x, "value"), "own")

\* child.onExit: called at once when the child has already exited.
RegisterExit(i) ==
    /\ item[i].at = "forwarding"
    /\ SetItem(i, LET x == [item[i] EXCEPT !.at = "hooked"] IN IF x.child = "exited" THEN OnExit(x) ELSE x)
    /\ UNCHANGED <<snapshot, bus, closing, busQueue, emission>>

\* child.onComplete, and the task returns to the queue.
RegisterComplete(i) ==
    /\ item[i].at = "hooked"
    /\ SetItem(i, LET x == [item[i] EXCEPT !.at = "transferred"] IN
                  IF x.child \in {"completed", "exited"} THEN OnComplete(x) ELSE x)
    /\ UNCHANGED <<snapshot, bus, closing, busQueue, emission>>

ChildCompletes(i) ==
    /\ item[i].child = "working"
    /\ SetItem(i, LET x == [item[i] EXCEPT !.child = "completed"] IN
                  IF x.at = "transferred" THEN OnComplete(x) ELSE x)
    /\ UNCHANGED <<snapshot, bus, closing, busQueue, emission>>

ChildExits(i) ==
    /\ item[i].child = "completed"
    /\ SetItem(i, LET x == [item[i] EXCEPT !.child = "exited"] IN
                  IF x.at \in {"hooked", "transferred"} THEN OnExit(x) ELSE x)
    /\ UNCHANGED <<snapshot, bus, closing, busQueue, emission>>

-----------------------------------------------------------------------------
(* Closing the signal: the flag, the entries of its snapshot, the queue.    *)

BeginCloseSignal ==
    /\ bus = "open"
    /\ bus' = "closed"
    /\ closing' = {snapshot[j] : j \in DOMAIN snapshot}
    /\ UNCHANGED <<conn, snapshot, busQueue, emission, item>>

CloseBusQueue ==
    /\ bus = "closed" /\ busQueue = "open" /\ \A c \in closing : conn[c] \in {"closed", "gone"}
    /\ busQueue' = "closed"
    /\ item' = [i \in Items |-> IF item[i].at = "running" \/ (item[i].at = "queued" /\ i[2] \notin DrainConns)
                                THEN CancelItem(item[i], "outside") ELSE item[i]]
    /\ UNCHANGED <<conn, snapshot, bus, closing, emission>>

\* Mutant: the connections are not waited for.
JoinedQueue == \A i \in Items : item[i].at \notin InQueue

\* What the closing goroutine waits for: the queue, then the entries' connections.
Joined ==
    /\ \A i \in Items : item[i].at \notin InQueue
    /\ \A j \in DOMAIN snapshot : conn[snapshot[j]] = "gone"

SignalDone ==
    /\ bus = "closed" /\ busQueue = "closed" /\ Joined
    /\ bus' = "done"
    /\ UNCHANGED <<conn, snapshot, closing, busQueue, emission, item>>

CallbackStep(i) ==
    ReturnItem(i) \/ RegisterExit(i) \/ RegisterComplete(i) \/ ChildCompletes(i) \/ ChildExits(i)
\* A callback honours its context; what the framework does itself needs no such help.
CallbackEnds(i) ==
    \/ RegisterExit(i) \/ RegisterComplete(i) \/ ChildExits(i)
    \/ item[i].canceled # "no" /\ (ReturnItem(i) \/ ChildCompletes(i))
EmitStep(e) == EmitAcquire(e) \/ EmitSubmit(e) \/ EmitReturn(e)
CloseStep == CloseBusQueue \/ SignalDone \/ \E c \in Conns : c \in closing /\ CloseSlot(c)

BusNext ==
    \/ \E c \in Conns : ConnectSlot(c) \/ DisconnectSlot(c) \/ CloseSlot(c)
    \/ \E e \in Emissions : EmitBegin(e) \/ EmitStep(e) \/ EmitTimeout(e)
    \/ \E i \in Items : AfterCancel(i) \/ RunItem(i) \/ ForwardItem(i) \/ CallbackStep(i)
    \/ BeginCloseSignal \/ CloseStep

BusFairness ==
    /\ \A e \in Emissions : WF_busVars(EmitStep(e)) /\ WF_busVars(EmitTimeout(e))
    /\ \A i \in Items : WF_busVars(AfterCancel(i)) /\ WF_busVars(RunItem(i)) /\ WF_busVars(CallbackEnds(i))
    /\ WF_busVars(CloseStep)

BusSpec == BusInit /\ [][BusNext]_busVars /\ BusFairness

-----------------------------------------------------------------------------
(* Properties.                                                              *)

\* A connection is done only when none of its callbacks runs or can still run: the
\* subscriber may free what they use (connection.go, BeginClose and release).
ConnectionDoneLast ==
    \A i \in Items : conn[i[2]] = "gone" => ~item[i].held /\ item[i].at \in {"none", "exited", "hooked", "transferred"}

\* A closed signal is done after its queue's callbacks and those it handed to another
\* signal for connections still in its snapshot.
BusJoinsCallbacks ==
    bus = "done" => \A i \in Items :
        /\ item[i].at \notin InQueue
        /\ item[i].held => \A j \in DOMAIN snapshot : snapshot[j] # i[2]

\* The result an Emit has seen for a registration is never replaced by a late one.
ResultsKept == [][\A i \in Items : item[i].result # "none" => item'[i].result = item[i].result]_busVars

\* Every Emit returns, whatever its handlers do: it is bounded by its own deadline.
EmitReturns == \A e \in Emissions : emission[e].at = "admitting" ~> emission[e].at = "returned"

\* A closed signal is eventually done.
BusCloses == bus = "closed" ~> bus = "done"

\* A forwarded emission nobody cancelled reports what the destination answered.
ForwardedResult ==
    \A i \in Items : item[i].result = "ctx" => item[i].canceled = "outside"

\* Done is announced after all transferred callbacks have exited.
BusDoneLast == bus = "done" => \A i \in Items : ~item[i].held
=============================================================================
