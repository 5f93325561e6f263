------------------------ MODULE ExecutionCoordinator ------------------------
(***************************************************************************)
(* The execution coordinator (internal/agent/execution) as the goroutines  *)
(* that call the turn manager: one per inbound message (AcceptInput and,   *)
(* when the session is idle, Run), per "y" to an append question           *)
(* (ResumeAppend), per /stop and per /compact command, with the observer   *)
(* of each request's context and the shutdown.  The turn records and their *)
(* operations are those of TurnOps; Implements states that these callers   *)
(* keep to the protocol TurnLifecycle describes.                           *)
(*                                                                         *)
(* One scope is modelled.  gate is its admission lock (EnterActivation,    *)
(* EnterBinding and EnterSessions of the session manager, whose session    *)
(* locks are only taken with it or for the same session), current the      *)
(* session its binding points at.  The runner's own turn operations, the   *)
(* observer and the shutdown do not take the gate, so they interleave with *)
(* a holder between its steps.                                             *)
(*                                                                         *)
(* A message's own execution bears the message's name, for NewExecution is *)
(* called once per message.  An input is the sequence of messages merged.  *)
(***************************************************************************)
EXTENDS TurnOps, Naturals

CONSTANTS Resumers,    \* goroutines answering an append question with y
          Stoppers,    \* goroutines of /stop
          Compactors,  \* goroutines of /compact
          Compactions, \* the attempt identifiers that name compaction runs
          Decisions,   \* answers to a risk confirmation
          Inputs,      \* the inputs that merging can make
          MaxInput,    \* bound of TurnLifecycle, never reached here
          First,       \* the session the scope is bound to at the start
          Environment  \* which of EventKinds may happen

\* Local errors, request timeouts, shutdown; the model calls tools; the context
\* has grown so large that the next turn compacts it first.
EventKinds == {"error", "timeout", "shutdown", "tools", "compact"}

ASSUME ExecutionsAssumption == /\ Executions = Messages
                               /\ First \in Sessions
                               /\ Environment \subseteq EventKinds
                               /\ Compactions \subseteq Attempts
                               /\ Inputs \subseteq Input
                               /\ Nil \notin Decisions

Procs == Messages \cup Resumers \cup Stoppers \cup Compactors

ASSUME ProcsAssumption == Nil \notin Procs

VARIABLES
    turns, closed, outcome, used, canceled, waits,  \* as in TurnLifecycle
    procs,      \* the goroutines
    gate,       \* holder of the scope's admission lock
    current,    \* session the scope's binding points at
    opened,     \* sessions created so far
    reqs,       \* attempts whose request is registered
    observers,  \* state of each request's stop observer
    closing,    \* steps of BeginClose done
    taken,      \* messages some attempt received
    landed,     \* attempts whose reply or compacted session was committed
    halted      \* attempts a user was told are stopped

turnVars == <<turns, closed, outcome>>
scopeVars == <<gate, current, opened>>
ghosts == <<taken, landed, halted>>
vars == <<turns, closed, outcome, used, canceled, waits, procs, gate, current,
          opened, reqs, observers, closing, taken, landed, halted>>

\* Where a goroutine is, in the order of the code.
Pcs == {"new", "accept", "dispatch", "cancel", "join", "answer", "resume",
        "stop", "stopreq", "enter", "plan", "compact", "summarize", "commit",
        "handoff", "reserve", "uncompact", "compacted", "start", "recheck",
        "register", "prepare", "llm", "tools", "confirm", "reply", "complete",
        "ctxdone", "finish", "unobserve", "settle", "retire", "stopped",
        "release", "unregister", "return", "fail", "cleanup", "done"}

Errors == {"none", "canceled", "failed", "binding", "conflict", "refused"}

NoSnapshot == [phase |-> "idle", attempt |-> Nil, done |-> Nil]

\* The locals of a goroutine.  owns: its attempt is started and not yet released.
Proc == [pc : Pcs, session : Sessions \cup {Nil}, next : Sessions \cup {Nil},
         execution : Executions \cup {Nil}, attempt : Attempts \cup {Nil},
         owns : BOOLEAN, input : Input, wait : Waits \cup {Nil},
         seen : [phase : Phases, attempt : Attempts \cup {Nil},
                 done : Attempts \cup {Nil}],
         err : Errors, told : {"none", "queued", "append", "answer", "ran"}]

NewProc == [pc |-> "new", session |-> Nil, next |-> Nil, execution |-> Nil,
            attempt |-> Nil, owns |-> FALSE, input |-> << >>, wait |-> Nil,
            seen |-> NoSnapshot, err |-> "none", told |-> "none"]

\* The attempts whose goroutine still has them, as TurnLifecycle counts them.
Working ==
    [a \in Attempts |->
        IF \E p \in Procs : procs[p].owns /\ procs[p].attempt = a
        THEN procs[CHOOSE p \in Procs : procs[p].owns /\ procs[p].attempt = a].session
        ELSE Nil]

TL == INSTANCE TurnLifecycle WITH working <- Working

TypeOK == /\ turns \in [Sessions -> Turn]
          /\ procs \in [Procs -> Proc]
          /\ gate \in Procs \cup {Nil}
          /\ current \in opened /\ opened \subseteq Sessions
          /\ reqs \subseteq used /\ used \subseteq Attempts
          /\ observers \in [Attempts -> {"off", "armed", "checked"}]

Init == /\ procs = [p \in Procs |-> NewProc]
        /\ TL!Init
        /\ gate = Nil
        /\ current = First /\ opened = {First}
        /\ reqs = {}
        /\ observers = [a \in Attempts |-> "off"]
        /\ closing = 0
        /\ taken = {} /\ landed = {} /\ halted = {}

-----------------------------------------------------------------------------
At(p, l) == procs[p].pc = l

Set(p, r) == procs' = [procs EXCEPT ![p] = r]

Goto(p, l) == Set(p, [procs[p] EXCEPT !.pc = l])

\* The goroutine returns to its caller with what the user is told.
Leave(p, err, told) ==
    Set(p, [procs[p] EXCEPT !.pc = "done", !.err = err, !.told = told,
                            !.input = << >>, !.seen = NoSnapshot])

Fail(p, err) == Set(p, [procs[p] EXCEPT !.pc = "fail", !.err = err])

\* The attempt ends with a result; only a completed turn leaves pending input.
End(p, err) == Set(p, [procs[p] EXCEPT !.pc = "unobserve", !.err = err,
                                       !.input = << >>])

Faulty == "error" \in Environment

\* Requests of a session: each belongs to the goroutine that has its attempt.
Requests(s) ==
    {a \in reqs : \E p \in Procs : procs[p].attempt = a /\ procs[p].session = s}

CancelSession(s) == canceled' = canceled \cup Requests(s)

CompactActive(s) == \/ turns[s].phase = "compact"
                    \/ Requests(s) \cap Compactions # {}

Bound(p) == procs[p].session = current

Range(q) == {q[i] : i \in DOMAIN q}

Finish(e) == /\ outcome' = TL!Finished(outcome, {e}, "returned")
             /\ UNCHANGED <<turns, closed>>

-----------------------------------------------------------------------------
(* AcceptInput.                                                             *)

\* ResolveInput binds the message to the scope's current session.
Arrive(p) ==
    /\ At(p, "new")
    /\ Set(p, [procs[p] EXCEPT
                 !.session = current,
                 !.input = IF p \in Messages THEN <<p>> ELSE << >>,
                 !.pc = IF p \in Messages THEN "accept"
                        ELSE IF p \in Resumers THEN "resume"
                        ELSE IF p \in Stoppers THEN "stop" ELSE "compact"])
    /\ UNCHANGED <<turnVars, used, canceled, waits, scopeVars, reqs, observers,
                   closing, ghosts>>

EnterInput(p) ==
    LET s == procs[p].session
        refused == ~Bound(p) \/ (CompactActive(s) /\ turns[s].phase # "stopping")
    IN  /\ At(p, "accept")
        /\ gate = Nil
        /\ IF refused
           THEN Leave(p, "refused", "none") /\ UNCHANGED gate
           ELSE /\ Set(p, [procs[p] EXCEPT
                             !.pc = "dispatch",
                             !.seen = [phase   |-> turns[s].phase,
                                       attempt |-> turns[s].attempt,
                                       done    |-> turns[s].attemptDone]])
                /\ gate' = p
        /\ UNCHANGED <<turnVars, used, canceled, waits, current, opened, reqs,
                       observers, closing, ghosts>>

\* The snapshot's phase decides, though the runner may have moved on since.
Dispatching(p, phase) == At(p, "dispatch") /\ procs[p].seen.phase = phase

\* A stopping attempt is joined outside the gate; a confirmation is answered;
\* an idle session is run.
DispatchOut(p) ==
    /\ \/ Dispatching(p, "stopping") /\ Goto(p, "join")
       \/ Dispatching(p, "awaiting_risk_confirm") /\ Goto(p, "answer")
       \/ /\ Dispatching(p, "idle")
          /\ Set(p, [procs[p] EXCEPT !.pc = "enter", !.seen = NoSnapshot,
                       !.execution = IF @ = Nil THEN p ELSE @])
    /\ gate' = Nil
    /\ UNCHANGED <<turnVars, used, canceled, waits, current, opened, reqs,
                   observers, closing, ghosts>>

\* AppendPendingInput's verdict is not looked at.
DispatchPending(p) ==
    LET s == procs[p].session
    IN  /\ \/ Dispatching(p, "tool") /\ Leave(p, "none", "queued")
           \/ Dispatching(p, "awaiting_append_confirm") /\ Leave(p, "none", "append")
        /\ TL!Replace(s, IF CanAppendPending(turns[s])
                         THEN AppendPendingTurn(turns[s], procs[p].input)
                         ELSE turns[s])
        /\ gate' = Nil
        /\ UNCHANGED <<used, canceled, waits, current, opened, reqs, observers,
                       closing, ghosts>>

DispatchInterrupt(p) ==
    LET s == procs[p].session
    IN  /\ Dispatching(p, "llm")
        /\ IF CanBeginAppend(turns[s], procs[p].seen.attempt)
           THEN /\ TL!Replace(s, BeginAppendTurn(turns[s], procs[p].input))
                /\ Goto(p, "cancel") /\ UNCHANGED gate
           ELSE /\ Set(p, [procs[p] EXCEPT !.pc = "accept", !.seen = NoSnapshot])
                /\ gate' = Nil /\ UNCHANGED turnVars
        /\ UNCHANGED <<used, canceled, waits, current, opened, reqs, observers,
                       closing, ghosts>>

\* CancelSession, still inside the gate, then "stopped: append?".
InterruptCancels(p) ==
    LET s == procs[p].session
    IN  /\ At(p, "cancel")
        /\ CancelSession(s)
        /\ halted' = halted \cup Requests(s)
        /\ Leave(p, "none", "append")
        /\ gate' = Nil
        /\ UNCHANGED <<turnVars, used, waits, current, opened, reqs, observers,
                       closing, taken, landed>>

\* waitForAttempt: the attempt's channel, or the shutdown of such waits.
Join(p) ==
    /\ At(p, "join")
    /\ \/ closing = 3 /\ Leave(p, "canceled", "none")
       \/ /\ closing # 3
          /\ procs[p].seen.done \in closed
          /\ Set(p, [procs[p] EXCEPT !.seen = NoSnapshot,
                       !.pc = IF p \in Resumers THEN "resume" ELSE "accept"])
    /\ UNCHANGED <<turnVars, used, canceled, waits, scopeVars, reqs, observers,
                   closing, ghosts>>

\* SubmitResponse: a decision, an unclear answer, or nothing left to answer.
Answer(p) ==
    LET s == procs[p].session
    IN  /\ At(p, "answer")
        /\ Leave(p, "none", "answer")
        /\ UNCHANGED <<turnVars, used, canceled, scopeVars, reqs, observers,
                       closing, ghosts>>
        /\ \/ \E d \in Decisions : TL!ResolveRiskConfirmation(s, d)
           \/ TL!RefreshRiskConfirmation(s)
           \/ turns[s].phase # "awaiting_risk_confirm" /\ UNCHANGED waits

\* Mutant: the interrupted attempt is not joined.
ResumeAppendUnjoined(p) ==
    LET s == procs[p].session
        t == turns[s]
    IN  /\ At(p, "resume")
        /\ gate = Nil
        /\ Bound(p) /\ t.phase = "awaiting_append_confirm"
        /\ TL!Replace(s, ResumedTurn(t))
        /\ Set(p, [procs[p] EXCEPT !.pc = "enter", !.execution = t.execution,
                                   !.input = t.original \o t.pending])
        /\ UNCHANGED <<used, canceled, waits, scopeVars, reqs, observers,
                       closing, ghosts>>

ResumeAppend(p) ==
    LET s == procs[p].session
        t == turns[s]
    IN  /\ At(p, "resume")
        /\ gate = Nil
        /\ \/ /\ ~Bound(p) \/ t.phase # "awaiting_append_confirm"
              /\ Leave(p, "refused", "none")
              /\ UNCHANGED turnVars
           \/ /\ Bound(p) /\ t.phase = "awaiting_append_confirm"
              /\ t.attemptDone # Nil
              /\ Set(p, [procs[p] EXCEPT !.pc = "join",
                                         !.seen.done = t.attemptDone])
              /\ UNCHANGED turnVars
           \/ /\ Bound(p) /\ t.phase = "awaiting_append_confirm"
              /\ t.attemptDone = Nil
              /\ TL!Replace(s, ResumedTurn(t))
              /\ Set(p, [procs[p] EXCEPT !.pc = "enter",
                           !.execution = t.execution,
                           !.input = t.original \o t.pending])
        /\ UNCHANGED <<used, canceled, waits, scopeVars, reqs, observers,
                       closing, ghosts>>

-----------------------------------------------------------------------------
(* Run and runAttempt, up to the registered attempt.                        *)

\* Mutant: the binding is not checked again.
TurnRefusalUnbound(p) == IF outcome[procs[p].execution] # "open" THEN "canceled"
                         ELSE "none"

\* enterTurn: the error it returns, or "none" when the gate is entered.
TurnRefusal(p) == IF outcome[procs[p].execution] # "open" THEN "canceled"
                  ELSE IF ~Bound(p) THEN "binding" ELSE "none"

\* First entry: the selection is checked and its origin registered.
EnterTurn(p) ==
    /\ At(p, "enter")
    /\ gate = Nil
    /\ \/ TurnRefusal(p) # "none" /\ Fail(p, TurnRefusal(p))
       \/ TurnRefusal(p) = "none" /\ Goto(p, "plan")
       \/ TurnRefusal(p) = "none" /\ Faulty /\ Fail(p, "failed")
    /\ UNCHANGED <<turnVars, used, canceled, waits, scopeVars, reqs, observers,
                   closing, ghosts>>

\* compactBeforeTurn: whether the context is large is the environment's choice.
PlanCompaction(p) ==
    /\ At(p, "plan")
    /\ \/ Goto(p, "start")
       \/ /\ "compact" \in Environment
          /\ CanCompact(turns[procs[p].session], procs[p].execution)
          /\ Goto(p, "compact")
    /\ UNCHANGED <<turnVars, used, canceled, waits, scopeVars, reqs, observers,
                   closing, ghosts>>

\* Second entry: StartAttempt; the gate is kept until the request is registered.
\* AllocateAttempt can fail; identifiers that run out (the bound) are its error.
StartAttempt(p) ==
    LET s == procs[p].session
        e == procs[p].execution
        fresh == Attempts \ (used \cup Compactions)
        a == CHOOSE x \in fresh : TRUE
    IN  /\ At(p, "start")
        /\ gate = Nil
        /\ \/ /\ TurnRefusal(p) # "none" /\ Fail(p, TurnRefusal(p))
              /\ UNCHANGED <<turnVars, used, gate, taken>>
           \/ /\ TurnRefusal(p) = "none" /\ (fresh = {} \/ Faulty)
              /\ Fail(p, "failed")
              /\ UNCHANGED <<turnVars, used, gate, taken>>
           \/ /\ TurnRefusal(p) = "none" /\ fresh # {}
              /\ ~CanStartAttempt(turns[s], e)
              /\ Goto(p, "recheck")
              /\ UNCHANGED <<turnVars, used, gate, taken>>
           \/ /\ TurnRefusal(p) = "none" /\ fresh # {}
              /\ CanStartAttempt(turns[s], e)
              /\ TL!Replace(s, StartAttemptTurn(procs[p].input, e, a))
              /\ used' = used \cup {a}
              /\ taken' = taken \cup Range(procs[p].input)
              /\ gate' = p
              /\ Set(p, [procs[p] EXCEPT !.pc = "register", !.attempt = a,
                                         !.owns = TRUE])
        /\ UNCHANGED <<canceled, waits, current, opened, reqs, observers,
                       closing, landed, halted>>

\* Not started: the same execution is served by another goroutine, or lost.
Recheck(p) ==
    /\ At(p, "recheck")
    /\ IF turns[procs[p].session].execution = procs[p].execution
       THEN Set(p, [procs[p] EXCEPT !.pc = "return", !.input = << >>])
       ELSE Fail(p, "conflict")
    /\ UNCHANGED <<turnVars, used, canceled, waits, scopeVars, reqs, observers,
                   closing, ghosts>>

\* requests.Start and the observer; a failure finishes the attempt at once.
Register(p) ==
    LET s == procs[p].session
        a == procs[p].attempt
    IN  /\ At(p, "register")
        /\ gate' = Nil
        /\ \/ /\ reqs' = reqs \cup {a}
              /\ observers' = [observers EXCEPT ![a] = "armed"]
              /\ Goto(p, "prepare")
              /\ UNCHANGED turnVars
           \/ /\ Faulty
              /\ TL!Apply(s, FinishAttemptResult(turns[s], a))
              /\ Set(p, [procs[p] EXCEPT !.pc = "fail", !.err = "failed",
                                         !.owns = FALSE, !.attempt = Nil])
              /\ UNCHANGED <<reqs, observers>>
        /\ UNCHANGED <<used, canceled, waits, current, opened, closing, ghosts>>

-----------------------------------------------------------------------------
(* runTurn: the dialogue of one attempt.                                    *)

\* PrepareTurn, then the check that the attempt was not stopped before its
\* request existed.
PrepareTurn(p) ==
    LET t == turns[procs[p].session]
    IN  /\ At(p, "prepare")
        /\ \/ Faulty /\ End(p, "failed")
           \/ IF t.attempt # procs[p].attempt \/ t.phase = "stopping"
              THEN End(p, "canceled") ELSE Goto(p, "llm")
        /\ UNCHANGED <<turnVars, used, canceled, waits, scopeVars, reqs,
                       observers, closing, ghosts>>

Talking(p) == At(p, "llm") \/ At(p, "tools")

\* The model call ends: canceled, failed or with the final reply.
ModelEnds(p) ==
    /\ Talking(p)
    /\ \/ procs[p].attempt \in canceled /\ Goto(p, "ctxdone")
       \/ procs[p].attempt \notin canceled /\ Goto(p, "reply")
       \/ Faulty /\ End(p, "failed")
    /\ UNCHANGED <<turnVars, used, canceled, waits, scopeVars, reqs, observers,
                   closing, ghosts>>

\* The model asks for tools; the loop stops quietly if the phase has changed.
StartToolPhase(p) ==
    LET s == procs[p].session
    IN  /\ At(p, "llm")
        /\ "tools" \in Environment
        /\ procs[p].attempt \notin canceled
        /\ IF CanStartToolPhase(turns[s], procs[p].attempt)
           THEN /\ TL!Replace(s, [turns[s] EXCEPT !.phase = "tool"])
                /\ Goto(p, "tools")
           ELSE End(p, "none") /\ UNCHANGED turnVars
        /\ UNCHANGED <<used, canceled, waits, scopeVars, reqs, observers,
                       closing, ghosts>>

\* Before the next model call of the tool phase pending input joins it.
DrainPending(p) ==
    LET s == procs[p].session
        a == procs[p].attempt
    IN  /\ At(p, "tools")
        /\ DrainMergedInput(turns[s], a) # << >>
        /\ taken' = taken \cup Range(DrainMergedInput(turns[s], a))
        /\ TL!Replace(s, DrainedTurn(turns[s], a))
        /\ UNCHANGED <<used, canceled, waits, procs, scopeVars, reqs, observers,
                       closing, landed, halted>>

\* A tool that needs confirmation; a stopped turn cannot begin one.
AskRisk(p) ==
    LET s == procs[p].session
        a == procs[p].attempt
    IN  /\ At(p, "tools")
        /\ \E w \in {x \in Waits : waits[x].stage = "unused"} :
             IF CanBeginRisk(turns[s], a)
             THEN /\ Set(p, [procs[p] EXCEPT !.pc = "confirm", !.wait = w])
                  /\ waits' = [waits EXCEPT ![w] = [TL!NoWait EXCEPT
                                    !.stage = "waiting", !.owner = a]]
                  /\ TL!Replace(s, RiskTurn(turns[s], w))
             ELSE /\ IF a \in canceled THEN Goto(p, "ctxdone") ELSE End(p, "none")
                  /\ UNCHANGED <<turnVars, waits>>
        /\ UNCHANGED <<used, canceled, scopeVars, reqs, observers, closing, ghosts>>

\* WaitRisk returned: only an answer lets the tool loop go on.
Confirmed(p) ==
    LET r == waits[procs[p].wait].result
    IN  /\ At(p, "confirm")
        /\ waits[procs[p].wait].stage = "returned"
        /\ IF r = "answered"
           THEN Set(p, [procs[p] EXCEPT !.pc = "tools", !.wait = Nil])
           ELSE IF procs[p].attempt \in canceled
           THEN Set(p, [procs[p] EXCEPT !.pc = "ctxdone", !.wait = Nil])
           ELSE Set(p, [procs[p] EXCEPT !.pc = "unobserve", !.wait = Nil,
                                        !.input = << >>])
        /\ UNCHANGED <<turnVars, used, canceled, waits, scopeVars, reqs,
                       observers, closing, ghosts>>

\* Mutant: the write is not tied to the request's context.
CommitReplyDetached(p) ==
    LET t == turns[procs[p].session]
    IN  /\ At(p, "reply")
        /\ gate = Nil
        /\ IF t.attempt = procs[p].attempt
           THEN landed' = landed \cup {procs[p].attempt} /\ Goto(p, "complete")
           ELSE End(p, "failed") /\ UNCHANGED landed
        /\ UNCHANGED <<turnVars, used, canceled, waits, scopeVars, reqs,
                       observers, closing, taken, halted>>

\* The reply is persisted inside the gate by the current attempt only; the
\* write itself fails once the request is canceled.
CommitReply(p) ==
    LET t == turns[procs[p].session]
        a == procs[p].attempt
        current_attempt == /\ Bound(p)
                           /\ t.execution = procs[p].execution
                           /\ t.attempt = a
    IN  /\ At(p, "reply")
        /\ gate = Nil
        /\ \/ /\ a \in canceled /\ Goto(p, "ctxdone")
              /\ UNCHANGED landed
           \/ /\ a \notin canceled
              /\ ~current_attempt \/ Faulty
              /\ End(p, "failed")
              /\ UNCHANGED landed
           \/ /\ a \notin canceled /\ current_attempt
              /\ landed' = landed \cup {a}
              /\ Goto(p, "complete")
        /\ UNCHANGED <<turnVars, used, canceled, waits, scopeVars, reqs,
                       observers, closing, taken, halted>>

\* finishCompletedTurn: CompleteTurn hands the queued input to the next round.
CompleteTurn(p) ==
    LET s == procs[p].session
        a == procs[p].attempt
    IN  /\ At(p, "complete")
        /\ \/ /\ CanCompleteTurn(turns[s], a)
              /\ TL!Apply(s, CompleteTurnResult(turns[s]))
              /\ Set(p, [procs[p] EXCEPT !.pc = "unobserve", !.owns = FALSE,
                                         !.input = turns[s].pending])
           \/ /\ ~CanCompleteTurn(turns[s], a)
              /\ End(p, "none") /\ UNCHANGED turnVars
           \/ Faulty /\ End(p, "failed") /\ UNCHANGED turnVars
        /\ UNCHANGED <<used, canceled, waits, scopeVars, reqs, observers,
                       closing, ghosts>>

\* handleTurnContextDone: a paused execution lives on.
ContextDone(p) ==
    LET t == turns[procs[p].session]
    IN  /\ At(p, "ctxdone")
        /\ IF \/ t.execution # procs[p].execution
              \/ /\ t.phase # "awaiting_append_confirm"
                 /\ t.attempt = procs[p].attempt
           THEN Goto(p, "finish") ELSE End(p, "canceled")
        /\ UNCHANGED <<turnVars, used, canceled, waits, scopeVars, reqs,
                       observers, closing, ghosts>>

FinishCanceled(p) ==
    /\ At(p, "finish")
    /\ Finish(procs[p].execution)
    /\ End(p, "canceled")
    /\ UNCHANGED <<used, canceled, waits, scopeVars, reqs, observers, closing,
                   ghosts>>

-----------------------------------------------------------------------------
(* The end of an attempt and of Run.                                        *)

\* stopObserver: an observer that has begun is joined.
StopObserver(p) ==
    LET a == procs[p].attempt
    IN  /\ At(p, "unobserve") \/ At(p, "uncompact")
        /\ observers[a] # "checked"
        /\ observers' = [observers EXCEPT ![a] = "off"]
        /\ Goto(p, IF At(p, "unobserve") THEN "settle" ELSE "compacted")
        /\ UNCHANGED <<turnVars, used, canceled, waits, scopeVars, reqs,
                       closing, ghosts>>

\* finishAttempt: the error of a paused or superseded attempt is dropped.
Settle(p) ==
    LET t == turns[procs[p].session]
    IN  /\ At(p, "settle")
        /\ IF procs[p].err = "none" THEN Goto(p, "release")
           ELSE IF \/ t.attempt # procs[p].attempt
                   \/ t.phase = "awaiting_append_confirm"
           THEN Set(p, [procs[p] EXCEPT !.pc = "release", !.err = "none"])
           ELSE Goto(p, "retire")
        /\ UNCHANGED <<turnVars, used, canceled, waits, scopeVars, reqs,
                       observers, closing, ghosts>>

Retire(p) ==
    /\ At(p, "retire")
    /\ Finish(procs[p].execution)
    /\ Goto(p, "stopped")
    /\ UNCHANGED <<used, canceled, waits, scopeVars, reqs, observers, closing,
                   ghosts>>

StopFailed(p) ==
    LET s == procs[p].session
    IN  /\ At(p, "stopped")
        /\ TL!Apply(s, StopAttemptResult(turns[s], procs[p].attempt))
        /\ Goto(p, "release")
        /\ UNCHANGED <<used, canceled, waits, scopeVars, reqs, observers,
                       closing, ghosts>>

\* The deferred FinishAttempt, then done().
Release(p) ==
    LET s == procs[p].session
    IN  /\ At(p, "release")
        /\ TL!Apply(s, FinishAttemptResult(turns[s], procs[p].attempt))
        /\ Set(p, [procs[p] EXCEPT !.pc = "unregister", !.owns = FALSE])
        /\ UNCHANGED <<used, canceled, waits, scopeVars, reqs, observers,
                       closing, ghosts>>

\* Run goes round again with what CompleteTurn handed over.
Unregister(p) ==
    /\ At(p, "unregister")
    /\ reqs' = reqs \ {procs[p].attempt}
    /\ Set(p, [procs[p] EXCEPT
                 !.attempt = Nil,
                 !.pc = IF procs[p].err # "none" THEN "fail"
                        ELSE IF procs[p].input # << >> THEN "enter" ELSE "return"])
    /\ UNCHANGED <<turnVars, used, canceled, waits, scopeVars, observers,
                   closing, ghosts>>

\* Run returns nil; a paused execution is not finished.
Return(p) ==
    /\ At(p, "return")
    /\ IF turns[procs[p].session].execution # procs[p].execution
       THEN Finish(procs[p].execution) ELSE UNCHANGED turnVars
    /\ Leave(p, "none", "ran")
    /\ UNCHANGED <<used, canceled, waits, scopeVars, reqs, observers, closing,
                   ghosts>>

FailExecution(p) ==
    /\ At(p, "fail")
    /\ Finish(procs[p].execution)
    /\ Goto(p, "cleanup")
    /\ UNCHANGED <<used, canceled, waits, scopeVars, reqs, observers, closing,
                   ghosts>>

\* Mutant: the reservation is left behind.
CleanupLeaves(p) ==
    /\ At(p, "cleanup")
    /\ gate = Nil
    /\ IF procs[p].err = "conflict" /\ p \in Messages
       THEN Set(p, [procs[p] EXCEPT !.pc = "accept", !.err = "none"])
       ELSE Leave(p, procs[p].err, "none")
    /\ UNCHANGED <<turnVars, used, canceled, waits, scopeVars, reqs, observers,
                   closing, ghosts>>

\* Run's deferred cleanup retires a reservation of this execution; AcceptInput
\* dispatches a message that lost the admission again, with the same context
\* and so the same execution.
Cleanup(p) ==
    LET s == procs[p].session
        t == turns[s]
    IN  /\ At(p, "cleanup")
        /\ gate = Nil
        /\ IF t.execution = procs[p].execution /\ t.attempt = Nil
           THEN TL!Apply(s, StopAttemptResult(t, Nil)) ELSE UNCHANGED turnVars
        /\ IF procs[p].err = "conflict" /\ p \in Messages
           THEN Set(p, [procs[p] EXCEPT !.pc = "accept", !.err = "none"])
           ELSE Leave(p, procs[p].err, "none")
        /\ UNCHANGED <<used, canceled, waits, scopeVars, reqs, observers,
                       closing, ghosts>>

-----------------------------------------------------------------------------
(* runCompact.                                                              *)

EndCompact(p, err) == Set(p, [procs[p] EXCEPT !.pc = "uncompact", !.err = err])

\* A refusal before the run exists fails Run, or the /compact command.
RefuseCompact(p, err) ==
    IF procs[p].execution = Nil THEN Leave(p, err, "none") ELSE Fail(p, err)

\* Refused: the binding moved, a request or a turn is active, or (the bounds) an
\* identifier cannot be allocated.
StartCompact(p) ==
    LET s == procs[p].session
        e == procs[p].execution
        r == CHOOSE x \in Compactions \ used : TRUE
        admitted == /\ Bound(p) /\ Requests(s) = {} /\ CanCompact(turns[s], e)
                    /\ Compactions \ used # {} /\ Sessions \ opened # {}
    IN  /\ At(p, "compact")
        /\ gate = Nil
        /\ \/ /\ ~admitted
              /\ RefuseCompact(p, IF Bound(p) THEN "failed" ELSE "binding")
              /\ UNCHANGED <<turnVars, used, reqs, observers>>
           \/ /\ admitted
              /\ TL!Replace(s, CompactTurn(e, r))
              /\ used' = used \cup {r}
              /\ reqs' = reqs \cup {r}
              /\ observers' = [observers EXCEPT ![r] = "armed"]
              /\ Set(p, [procs[p] EXCEPT !.pc = "summarize", !.attempt = r,
                                         !.owns = TRUE])
        /\ UNCHANGED <<canceled, waits, scopeVars, closing, ghosts>>

Summarize(p) ==
    /\ At(p, "summarize")
    /\ \/ Goto(p, "commit")
       \/ procs[p].attempt \in canceled /\ EndCompact(p, "canceled")
       \/ Faulty /\ EndCompact(p, "failed")
    /\ UNCHANGED <<turnVars, used, canceled, waits, scopeVars, reqs, observers,
                   closing, ghosts>>

\* Mutant: the request's context is not checked inside the gate.
CommitCompactBlind(p) ==
    /\ At(p, "commit")
    /\ gate = Nil
    /\ IF ~Bound(p) THEN EndCompact(p, "binding") /\ UNCHANGED gate
       ELSE Goto(p, "handoff") /\ gate' = p
    /\ UNCHANGED <<turnVars, used, canceled, waits, current, opened, reqs,
                   observers, closing, ghosts>>

CommitCompact(p) ==
    /\ At(p, "commit")
    /\ gate = Nil
    /\ IF ~Bound(p) THEN EndCompact(p, "binding") /\ UNCHANGED gate
       ELSE IF procs[p].attempt \in canceled
       THEN EndCompact(p, "canceled") /\ UNCHANGED gate
       ELSE Goto(p, "handoff") /\ gate' = p
    /\ UNCHANGED <<turnVars, used, canceled, waits, current, opened, reqs,
                   observers, closing, ghosts>>

\* CompleteCompactRun frees the old session; the gate is still held.
HandOff(p) ==
    LET s == procs[p].session
    IN  /\ At(p, "handoff")
        /\ IF CanCompleteCompact(turns[s], procs[p].attempt)
           THEN /\ TL!Apply(s, removeTurn(turns[s], TRUE))
                /\ Set(p, [procs[p] EXCEPT !.pc = "reserve", !.owns = FALSE])
                /\ UNCHANGED gate
           ELSE EndCompact(p, "canceled") /\ gate' = Nil /\ UNCHANGED turnVars
        /\ UNCHANGED <<used, canceled, waits, current, opened, reqs, observers,
                       closing, ghosts>>

\* CreateCompacted moves the binding; ReserveExecution keeps the new session.
Reserve(p) ==
    LET e == procs[p].execution
    IN  /\ At(p, "reserve")
        /\ gate' = Nil
        /\ \/ /\ Faulty
              /\ EndCompact(p, "failed")
              /\ UNCHANGED <<turnVars, current, opened, landed>>
           \/ \E n \in Sessions \ opened :
                /\ current' = n
                /\ opened' = opened \cup {n}
                /\ landed' = landed \cup {procs[p].attempt}
                /\ Set(p, [procs[p] EXCEPT !.pc = "uncompact", !.next = n])
                /\ IF e # Nil THEN TL!Replace(n, ReservedTurn(procs[p].input, e))
                   ELSE UNCHANGED turnVars
        /\ UNCHANGED <<used, canceled, waits, reqs, observers, closing, taken,
                       halted>>

\* The deferred done() and CompleteCompactRun, a no-op after the handoff.
Compacted(p) ==
    LET s == procs[p].session
        r == procs[p].attempt
        left == [procs[p] EXCEPT !.attempt = Nil, !.owns = FALSE, !.next = Nil,
                                 !.session = IF procs[p].next = Nil THEN @
                                             ELSE procs[p].next]
    IN  /\ At(p, "compacted")
        /\ reqs' = reqs \ {r}
        /\ IF CanCompleteCompact(turns[s], r)
           THEN TL!Apply(s, removeTurn(turns[s], TRUE)) ELSE UNCHANGED turnVars
        /\ Set(p, [left EXCEPT
                     !.pc = IF procs[p].execution = Nil THEN "done"
                            ELSE IF procs[p].err # "none" THEN "fail" ELSE "start"])
        /\ UNCHANGED <<used, canceled, waits, scopeVars, observers, closing,
                       ghosts>>

-----------------------------------------------------------------------------
(* /stop, the observers, timeouts and the shutdown.                         *)

StopCommand(p) ==
    LET s == procs[p].session
    IN  /\ At(p, "stop")
        /\ gate = Nil
        /\ IF Bound(p)
           THEN /\ TL!Apply(s, StopSessionResult(turns[s]))
                /\ gate' = p /\ Goto(p, "stopreq")
           ELSE Leave(p, "binding", "none") /\ UNCHANGED <<turnVars, gate>>
        /\ UNCHANGED <<used, canceled, waits, current, opened, reqs, observers,
                       closing, ghosts>>

StopCancels(p) ==
    LET s == procs[p].session
    IN  /\ At(p, "stopreq")
        /\ CancelSession(s)
        /\ halted' = halted \cup Requests(s)
        /\ Leave(p, "none", "none")
        /\ gate' = Nil
        /\ UNCHANGED <<turnVars, used, waits, current, opened, reqs, observers,
                       closing, taken, landed>>

Home(a) == procs[CHOOSE p \in Procs : procs[p].attempt = a].session

\* observeRequestStop's callback: the snapshot, then StopAttempt.
ObserverChecks(a) ==
    /\ observers[a] = "armed"
    /\ a \in canceled
    /\ observers' = [observers EXCEPT ![a] =
          IF turns[Home(a)].phase = "awaiting_append_confirm" THEN "off"
          ELSE "checked"]
    /\ UNCHANGED <<turnVars, used, canceled, waits, procs, scopeVars, reqs,
                   closing, ghosts>>

ObserverStops(a) ==
    /\ observers[a] = "checked"
    /\ observers' = [observers EXCEPT ![a] = "off"]
    /\ TL!Apply(Home(a), StopAttemptResult(turns[Home(a)], a))
    /\ UNCHANGED <<used, canceled, waits, procs, scopeVars, reqs, closing, ghosts>>

Timeout(a) ==
    /\ "timeout" \in Environment
    /\ a \in reqs \ canceled
    /\ canceled' = canceled \cup {a}
    /\ UNCHANGED <<turnVars, used, waits, procs, scopeVars, reqs, observers,
                   closing, ghosts>>

\* BeginClose: cancel what runs, StopAll, then end the waits for attempts.
BeginClose ==
    /\ "shutdown" \in Environment
    /\ closing < 3
    /\ closing' = closing + 1
    /\ canceled' = IF closing = 0
                   THEN canceled \cup UNION {Requests(s) :
                            s \in {x \in Sessions : turns[x].phase # "idle"}}
                   ELSE canceled
    /\ UNCHANGED <<used, waits, procs, scopeVars, reqs, observers, ghosts>>
    /\ IF closing = 1 THEN TL!StopAll ELSE UNCHANGED turnVars

\* The goroutine inside WaitRisk, and its timer.
WaitRisk(w) ==
    /\ UNCHANGED <<procs, scopeVars, reqs, observers, closing, ghosts>>
    /\ \/ TL!WaitReceive(w) \/ TL!WaitDone(w) \/ TL!WaitComplete(w)
       \/ TL!WaitRefreshed(w) \/ TL!WaitExpires(w)
       \/ (waits[w].owner \in canceled \/ Faulty) /\ TL!WaitCanceled(w)

-----------------------------------------------------------------------------
AcceptInput(p) == \/ Arrive(p) \/ EnterInput(p) \/ DispatchOut(p)
                  \/ DispatchPending(p) \/ DispatchInterrupt(p)
                  \/ InterruptCancels(p) \/ Join(p) \/ Answer(p)
                  \/ ResumeAppend(p)

Admit(p) == \/ EnterTurn(p) \/ PlanCompaction(p) \/ StartAttempt(p)
            \/ Recheck(p) \/ Register(p)

Converse(p) == \/ PrepareTurn(p) \/ ModelEnds(p) \/ StartToolPhase(p)
               \/ DrainPending(p) \/ AskRisk(p) \/ Confirmed(p)
               \/ CommitReply(p) \/ CompleteTurn(p) \/ ContextDone(p)
               \/ FinishCanceled(p)

Wind(p) == \/ StopObserver(p) \/ Settle(p) \/ Retire(p) \/ StopFailed(p)
           \/ Release(p) \/ Unregister(p) \/ Return(p) \/ FailExecution(p)
           \/ Cleanup(p)

Compact(p) == \/ StartCompact(p) \/ Summarize(p) \/ CommitCompact(p)
              \/ HandOff(p) \/ Reserve(p) \/ Compacted(p)

Step(p) == \/ AcceptInput(p) \/ Admit(p) \/ Converse(p) \/ Wind(p)
           \/ Compact(p) \/ StopCommand(p) \/ StopCancels(p)

Observe(a) == ObserverChecks(a) \/ ObserverStops(a)

\* Nothing is left to do: every goroutine has returned.
Quiet == (\A p \in Procs : At(p, "done")) /\ UNCHANGED vars

Next == \/ \E p \in Procs : Step(p)
        \/ \E a \in Attempts : Observe(a) \/ Timeout(a)
        \/ \E w \in Waits : WaitRisk(w)
        \/ BeginClose
        \/ Quiet

Spec == Init /\ [][Next]_vars

\* Goroutines run, model calls and tools return, the confirmation timer fires.
Fairness == /\ \A p \in Procs : WF_vars(Step(p))
            /\ \A a \in Attempts : WF_vars(Observe(a))
            /\ \A w \in Waits : WF_vars(WaitRisk(w))

FairSpec == Spec /\ Fairness

-----------------------------------------------------------------------------
(* Properties.                                                              *)

\* The coordinator keeps to the turn manager's protocol: every step is a step
\* of TurnLifecycle or leaves its state alone, so the attempt's operations come
\* from the one goroutine that started it and ResumeAppend only after the join.
Implements == TL!Spec

\* A reserved session (queued input, resumed append, compaction handoff) always
\* has a goroutine of that execution on its way to start or to retire it; with
\* none, the session would stay busy for ever.
ReservationHasRunner ==
    \A s \in Sessions : turns[s].reserved /\ turns[s].phase = "llm" =>
        \E p \in Procs : /\ procs[p].execution = turns[s].execution
                         /\ s \in {procs[p].session, procs[p].next}
                         /\ procs[p].pc \notin {"done", "return", "new"}

\* The state of the coordinator and of its goroutines makes sense, and no reservation is
\* without the goroutine that takes it up.
CoordinatorSound == TypeOK /\ ReservationHasRunner

\* What a user was told is stopped commits nothing afterwards: no reply is saved
\* and no compacted session is created by an attempt that /stop or an append
\* question has canceled.
HaltedLandsNothing == [][(landed' \ landed) \cap halted = {}]_vars

\* No attempt runs in a session that compaction has left: the binding moves only
\* when the old session has no attempt, and nothing starts there afterwards.
RunsInCurrentSession == \A p \in Procs : procs[p].owns => Bound(p)

\* Every inbound message is settled: its goroutine returns, whatever it joined,
\* lost the admission to or was interrupted by.
EveryInputSettles ==
    \A m \in Messages : ~At(m, "new") ~> At(m, "done")

\* A turn asked to stop is removed, from inside a confirmation too: the wait
\* returns and the owner's deferred cleanup runs.
StoppedTurnEnds ==
    \A s \in Sessions : turns[s].phase = "stopping" ~> turns[s].phase # "stopping"

\* A message the user was told is queued for the next model call is in the turn,
\* on its way to the next attempt, or was received by one.
QueuedInputKept ==
    \A m \in Messages : procs[m].told = "queued" =>
        \/ m \in taken
        \/ \E s \in Sessions : m \in Range(turns[s].pending \o turns[s].original)
        \/ \E p \in Procs : m \in Range(procs[p].input)

\* A message added to a stopped turn is kept until the user answers, and goes to
\* an attempt once the answer is y (nobody stopping anything).
AppendedInputKept ==
    \A m \in Messages : procs[m].told = "append" =>
        \/ m \in taken
        \/ \E s \in Sessions : m \in Range(turns[s].pending \o turns[s].original)
        \/ \E p \in Procs : m \in Range(procs[p].input)
=============================================================================
