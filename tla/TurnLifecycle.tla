--------------------------- MODULE TurnLifecycle ---------------------------
(***************************************************************************)
(* The turn manager (internal/turn/lifecycle), the confirmation wait       *)
(* (internal/turn/confirmation) and the logical execution's completion     *)
(* (internal/turn/execution.go), called by every client the coordinator    *)
(* is.  Each manager operation runs under the manager's one mutex, so each *)
(* is one action.                                                          *)
(*                                                                         *)
(* What this module takes from its callers (and ExecutionCoordinator       *)
(* checks of the real ones): attempt and wait identifiers are fresh; the   *)
(* operations of an attempt are called by the goroutine that started it,   *)
(* which does nothing else while it waits for a confirmation; ResumeAppend *)
(* is called only after the stopped attempt has closed its channel.        *)
(* Everything else may be called at any time.                              *)
(***************************************************************************)
EXTENDS TurnOps, Naturals

CONSTANTS Compactions, \* the attempt identifiers that name compaction runs
          Decisions,   \* what a user may answer to a risk confirmation
          Inputs,      \* the inputs callers pass (finite for TLC)
          MaxInput     \* bound: messages a turn holds; Nil for none

ASSUME DecisionAssumption == Nil \notin Decisions
ASSUME InputsAssumption == Inputs \subseteq Input
ASSUME CompactionAssumption == Compactions \subseteq Attempts

VARIABLES
    turns,     \* the manager's table: [Sessions -> Turn]
    closed,    \* attemptDone and riskDone channels that have been closed
    outcome,   \* what each execution was finished with, "open" before
    used,      \* attempts that were started
    working,   \* session of an attempt its owner has not yet released
    canceled,  \* attempts whose request context is canceled
    waits      \* the confirmation waits

vars == <<turns, closed, outcome, used, working, canceled, waits>>

\* Finished by the run or its waiter, or by the manager with context.Canceled.
Outcomes == {"returned", "cancelled"}

\* share.RiskWait with the state of the goroutine inside WaitRisk.
Wait == [stage    : {"unused", "waiting", "received", "returned"},
         owner    : Attempts \cup {Nil},
         response : Decisions \cup {Nil},   \* buffered channel of one
         refresh  : BOOLEAN,                \* token channel of one
         decision : Decisions \cup {Nil},   \* taken from response
         result   : {"none", "answered", "canceled", "expired", "stale"}]

NoWait == [stage |-> "unused", owner |-> Nil, response |-> Nil,
           refresh |-> FALSE, decision |-> Nil, result |-> "none"]

TypeOK == /\ turns \in [Sessions -> Turn]
          /\ closed \subseteq Attempts \cup Waits \cup {Nil}
          /\ outcome \in [Executions -> Outcomes \cup {"open"}]
          /\ used \subseteq Attempts
          /\ working \in [Attempts -> Sessions \cup {Nil}]
          /\ canceled \subseteq Attempts
          /\ waits \in [Waits -> Wait]

Init == /\ turns = [s \in Sessions |-> NoTurn]
        /\ closed = {}
        /\ outcome = [e \in Executions |-> "open"]
        /\ used = {}
        /\ working = [a \in Attempts |-> Nil]
        /\ canceled = {}
        /\ waits = [w \in Waits |-> NoWait]

-----------------------------------------------------------------------------
\* Execution.Finish: the first result stays.
Finished(out, es, r) ==
    [e \in Executions |-> IF e \in es /\ out[e] = "open" THEN r ELSE out[e]]

\* Carry out what an operation decided for the entry of session s.
Apply(s, res) ==
    /\ turns' = [turns EXCEPT ![s] = res.turn]
    /\ closed' = closed \cup res.closes
    /\ outcome' = Finished(outcome, {res.cancels}, "cancelled")

Replace(s, t) == /\ turns' = [turns EXCEPT ![s] = t]
                 /\ UNCHANGED <<closed, outcome>>

\* The owner of a is inside WaitRisk.
Waiting(a) == \E w \in Waits : /\ waits[w].owner = a
                               /\ waits[w].stage \in {"waiting", "received"}

Owns(a, s) == working[a] = s /\ ~Waiting(a)

-----------------------------------------------------------------------------
(* Admission.                                                               *)

ReserveExecution(s, input, e) ==
    /\ CanReserve(turns[s])
    /\ Replace(s, ReservedTurn(input, e))
    /\ UNCHANGED <<used, working, canceled, waits>>

StartAttempt(s, input, e, a) ==
    /\ a \notin used \cup Compactions
    /\ CanStartAttempt(turns[s], e)
    /\ Replace(s, StartAttemptTurn(input, e, a))
    /\ used' = used \cup {a}
    /\ working' = [working EXCEPT ![a] = s]
    /\ UNCHANGED <<canceled, waits>>

StartCompactRun(s, r, e) ==
    /\ r \in Compactions \ used
    /\ CanCompact(turns[s], e)
    /\ Replace(s, CompactTurn(e, r))
    /\ used' = used \cup {r}
    /\ working' = [working EXCEPT ![r] = s]
    /\ UNCHANGED <<canceled, waits>>

CompleteCompactRun(s, r) ==
    /\ r \in Compactions
    /\ Owns(r, s)
    /\ CanCompleteCompact(turns[s], r)
    /\ Apply(s, removeTurn(turns[s], TRUE))
    /\ working' = [working EXCEPT ![r] = Nil]
    /\ UNCHANGED <<used, canceled, waits>>

-----------------------------------------------------------------------------
(* The attempt's own steps.                                                 *)

StartToolPhase(s, a) ==
    /\ Owns(a, s)
    /\ CanStartToolPhase(turns[s], a)
    /\ Replace(s, [turns[s] EXCEPT !.phase = "tool"])
    /\ UNCHANGED <<used, working, canceled, waits>>

Drain(s, a) ==
    /\ Owns(a, s)
    /\ DrainMergedInput(turns[s], a) # << >>
    /\ Replace(s, DrainedTurn(turns[s], a))
    /\ UNCHANGED <<used, working, canceled, waits>>

CompleteTurn(s, a) ==
    /\ Owns(a, s)
    /\ CanCompleteTurn(turns[s], a)
    /\ Apply(s, CompleteTurnResult(turns[s]))
    /\ working' = [working EXCEPT ![a] = Nil]
    /\ UNCHANGED <<used, canceled, waits>>

FinishAttempt(s, a) ==
    /\ Owns(a, s)
    /\ a \notin Compactions
    /\ Apply(s, FinishAttemptResult(turns[s], a))
    /\ working' = [working EXCEPT ![a] = Nil]
    /\ UNCHANGED <<used, canceled, waits>>

-----------------------------------------------------------------------------
(* Input and stop requests, from any goroutine.                             *)

HasRoom(s, input) ==
    \/ MaxInput = Nil
    \/ Len(turns[s].original) + Len(turns[s].pending) + Len(input) <= MaxInput

BeginAppend(s, a, input) ==
    /\ CanBeginAppend(turns[s], a)
    /\ HasRoom(s, input)
    /\ Replace(s, BeginAppendTurn(turns[s], input))
    /\ UNCHANGED <<used, working, canceled, waits>>

AppendPendingInput(s, input) ==
    /\ CanAppendPending(turns[s])
    /\ HasRoom(s, input)
    /\ Replace(s, AppendPendingTurn(turns[s], input))
    /\ UNCHANGED <<used, working, canceled, waits>>

ResumeAppend(s) ==
    /\ CanResumeAppend(turns[s])
    /\ turns[s].attemptDone = Nil
    /\ Replace(s, ResumedTurn(turns[s]))
    /\ UNCHANGED <<used, working, canceled, waits>>

StopAttempt(s, a) ==
    /\ Apply(s, StopAttemptResult(turns[s], a))
    /\ UNCHANGED <<used, working, canceled, waits>>

StopSession(s) ==
    /\ Apply(s, StopSessionResult(turns[s]))
    /\ UNCHANGED <<used, working, canceled, waits>>

StopAll ==
    LET res == [s \in Sessions |-> StopSessionResult(turns[s])]
    IN  /\ turns' = [s \in Sessions |-> res[s].turn]
        /\ closed' = closed \cup UNION {res[s].closes : s \in Sessions}
        /\ outcome' = Finished(outcome, {res[s].cancels : s \in Sessions},
                               "cancelled")
        /\ UNCHANGED <<used, working, canceled, waits>>

\* The request manager cancels contexts (one session's, a timeout, the parent's).
CancelRequests(as) ==
    /\ as \subseteq used \ canceled
    /\ canceled' = canceled \cup as
    /\ UNCHANGED <<turns, closed, outcome, used, working, waits>>

\* Execution.Finish, by Run with the attempt's result or by Wait's own context.
FinishExecution(e) ==
    /\ outcome[e] = "open"
    /\ outcome' = Finished(outcome, {e}, "returned")
    /\ UNCHANGED <<turns, closed, used, working, canceled, waits>>

-----------------------------------------------------------------------------
(* Risk confirmation.                                                       *)

BeginRiskConfirmation(s, a, w) ==
    /\ Owns(a, s)
    /\ waits[w].stage = "unused"
    /\ CanBeginRisk(turns[s], a)
    /\ Replace(s, RiskTurn(turns[s], w))
    /\ waits' = [waits EXCEPT ![w] =
                    [NoWait EXCEPT !.stage = "waiting", !.owner = a]]
    /\ UNCHANGED <<used, working, canceled>>

ResolveRiskConfirmation(s, d) ==
    LET w == turns[s].riskResponse
    IN  /\ turns[s].phase = "awaiting_risk_confirm"
        /\ waits[w].response = Nil
        /\ waits' = [waits EXCEPT ![w].response = d]
        /\ UNCHANGED <<turns, closed, outcome, used, working, canceled>>

RefreshRiskConfirmation(s) ==
    LET w == turns[s].riskResponse
    IN  /\ turns[s].phase = "awaiting_risk_confirm"
        /\ waits' = [waits EXCEPT ![w].refresh = TRUE]
        /\ UNCHANGED <<turns, closed, outcome, used, working, canceled>>

\* WaitRisk returns; its deferred Cancel stops a turn still being confirmed.
WaitReturns(w, r) == waits' = [waits EXCEPT ![w].stage = "returned",
                                            ![w].result = r]

\* Cancel, and Expire once its refresh token is gone: nothing if not current.
StopCurrentRisk(w) ==
    \/ \E s \in Sessions : /\ IsCurrentRisk(turns[s], w)
                           /\ Apply(s, beginStopTurn(turns[s]))
    \/ /\ ~\E s \in Sessions : IsCurrentRisk(turns[s], w)
       /\ UNCHANGED <<turns, closed, outcome>>

WaitReceive(w) ==
    /\ waits[w].stage = "waiting"
    /\ waits[w].response # Nil
    /\ waits' = [waits EXCEPT ![w].stage = "received",
                              ![w].decision = waits[w].response,
                              ![w].response = Nil]
    /\ UNCHANGED <<turns, closed, outcome, used, working, canceled>>

\* The select takes Done: Complete is called with an empty decision.
WaitDone(w) ==
    /\ waits[w].stage = "waiting"
    /\ w \in closed
    /\ waits' = [waits EXCEPT ![w].stage = "received"]
    /\ UNCHANGED <<turns, closed, outcome, used, working, canceled>>

\* Mutant: Complete does not look at the phase or at the error.
WaitCompleteTrusting(w) ==
    LET held == {s \in Sessions : turns[s].riskResponse = w}
    IN  /\ waits[w].stage = "received"
        /\ \/ /\ held = {}
              /\ WaitReturns(w, "stale")
              /\ UNCHANGED <<turns, closed, outcome>>
           \/ \E s \in held : /\ Apply(s, RiskAnsweredResult(turns[s]))
                              /\ WaitReturns(w, "answered")
        /\ UNCHANGED <<used, working, canceled>>

\* Complete: answered only if the confirmation is still the current one.
WaitComplete(w) ==
    LET held == {s \in Sessions : turns[s].riskResponse = w}
        err  == waits[w].owner \in canceled
    IN  /\ waits[w].stage = "received"
        /\ \/ /\ held = {}
              /\ WaitReturns(w, "stale")
              /\ UNCHANGED <<turns, closed, outcome>>
           \/ \E s \in held :
                IF turns[s].phase = "stopping" \/ err
                THEN /\ Apply(s, beginStopTurn(turns[s]))
                     /\ WaitReturns(w, "canceled")
                ELSE IF IsCurrentRisk(turns[s], w)
                THEN /\ Apply(s, RiskAnsweredResult(turns[s]))
                     /\ WaitReturns(w, "answered")
                ELSE /\ WaitReturns(w, "stale")
                     /\ UNCHANGED <<turns, closed, outcome>>
        /\ UNCHANGED <<used, working, canceled>>

WaitRefreshed(w) ==
    /\ waits[w].stage = "waiting"
    /\ waits[w].refresh
    /\ waits' = [waits EXCEPT ![w].refresh = FALSE]
    /\ UNCHANGED <<turns, closed, outcome, used, working, canceled>>

\* The context ends, or the prompt could not be sent.
WaitCanceled(w) ==
    /\ waits[w].stage = "waiting"
    /\ StopCurrentRisk(w)
    /\ WaitReturns(w, "canceled")
    /\ UNCHANGED <<used, working, canceled>>

\* The timer fires; a refresh that has not been seen yet re-arms it.
WaitExpires(w) ==
    /\ waits[w].stage = "waiting"
    /\ \E s \in Sessions : IsCurrentRisk(turns[s], w)
    /\ \/ /\ waits[w].refresh
          /\ waits' = [waits EXCEPT ![w].refresh = FALSE]
          /\ UNCHANGED <<turns, closed, outcome>>
       \/ /\ ~waits[w].refresh
          /\ StopCurrentRisk(w)
          /\ WaitReturns(w, IF waits[w].owner \in canceled
                            THEN "canceled" ELSE "expired")
    /\ UNCHANGED <<used, working, canceled>>

-----------------------------------------------------------------------------
Admission ==
    \E s \in Sessions, e \in Executions, a \in Attempts, i \in Inputs :
        \/ ReserveExecution(s, i, e)
        \/ StartAttempt(s, i, e, a)

Compaction ==
    \E s \in Sessions, a \in Attempts :
        \/ \E e \in Executions \cup {Nil} : StartCompactRun(s, a, e)
        \/ CompleteCompactRun(s, a)

OwnerStep ==
    \E s \in Sessions, a \in Attempts :
        \/ StartToolPhase(s, a)
        \/ Drain(s, a)
        \/ CompleteTurn(s, a)
        \/ FinishAttempt(s, a)
        \/ \E w \in Waits : BeginRiskConfirmation(s, a, w)

Arrival ==
    \E s \in Sessions, i \in Inputs :
        \/ \E a \in Attempts \cup {Nil} : BeginAppend(s, a, i)
        \/ AppendPendingInput(s, i)
        \/ ResumeAppend(s)
        \/ \E d \in Decisions : ResolveRiskConfirmation(s, d)
        \/ RefreshRiskConfirmation(s)

Stop ==
    \/ \E s \in Sessions, a \in Attempts \cup {Nil} : StopAttempt(s, a)
    \/ \E s \in Sessions : StopSession(s)
    \/ StopAll
    \/ \E as \in SUBSET Attempts : CancelRequests(as)
    \/ \E e \in Executions : FinishExecution(e)

WaiterStep ==
    \E w \in Waits : \/ WaitReceive(w) \/ WaitDone(w) \/ WaitComplete(w)
                     \/ WaitRefreshed(w) \/ WaitCanceled(w) \/ WaitExpires(w)

Next == Admission \/ Compaction \/ OwnerStep \/ Arrival \/ Stop \/ WaiterStep

Spec == Init /\ [][Next]_vars

-----------------------------------------------------------------------------
(* Properties.                                                              *)

\* A started attempt keeps its session's entry, with its own open attemptDone,
\* until its owner releases it: no stop, input, resumed append, compaction or
\* competing StartAttempt puts another turn in its place (one writer per session).
OwnerKeepsTurn ==
    \A a \in Attempts : working[a] # Nil =>
        /\ turns[working[a]].attempt = a
        /\ turns[working[a]].attemptDone = a

\* The channel that waitForAttempt joins is never dropped open: an attempt that was
\* started has closed it or is still running, so no input waits for ever on an
\* overwritten entry.
JoinNeverLost ==
    \A a \in used : a \in closed \/ working[a] # Nil

\* No close of a nil channel and no second close, either of which would panic while
\* the manager's mutex is held: a channel an entry refers to is still open and no
\* two entries share one.
ChannelsCloseOnce ==
    /\ Nil \notin closed
    /\ \A s \in Sessions :
        /\ turns[s].attemptDone \notin closed
        /\ turns[s].riskDone \notin closed
        /\ \A r \in Sessions \ {s} :
            turns[s].attemptDone # Nil => turns[r].attemptDone # turns[s].attemptDone

\* A goroutine blocked in WaitRisk can be released: its confirmation is the one a
\* user's answer reaches, or its Done channel is closed.
ConfirmationReachable ==
    \A w \in Waits : waits[w].stage = "waiting" =>
        w \in closed \/ \E s \in Sessions : IsCurrentRisk(turns[s], w)

\* A tool call is let through only by a decision the user gave: Complete after Done
\* passes the empty decision, which AwaitToolConfirmation would read as approval,
\* so that path must never be reported as answered.
AnsweredByUser ==
    \A w \in Waits : waits[w].result = "answered" => waits[w].decision # Nil

\* A stopping entry has an attempt behind it that will remove it: AcceptInput waits
\* on its attemptDone, and a nil channel would block for ever.
StoppingHasOwner ==
    \A s \in Sessions : turns[s].phase = "stopping" =>
        \E a \in Attempts : working[a] = s /\ turns[s].attemptDone = a

\* The attempts and their entries agree: an attempt keeps its entry until its goroutine
\* releases it, everyone who joined it is told, and a stopping entry has an attempt behind it.
TurnOwned == OwnerKeepsTurn /\ JoinNeverLost /\ StoppingHasOwner

\* A risk confirmation can be answered as long as somebody waits for it, and by the user only.
ConfirmationsAnswered == ConfirmationReachable /\ AnsweredByUser

\* A stop is final: a stopping turn is never revived, resumed, appended to or
\* replaced; the only way out is the removal by its own attempt.
StopIsFinal ==
    [][\A s \in Sessions : turns[s].phase = "stopping" =>
          turns'[s].phase = "idle" \/ turns'[s] = turns[s]]_vars

\* A reservation (queued input or resumed append) is started or compacted only by
\* the execution it was reserved for.
ReservationKeepsExecution ==
    [][\A s \in Sessions : turns[s].reserved /\ turns'[s].attempt # Nil =>
          turns'[s].execution = turns[s].execution]_vars
=============================================================================
