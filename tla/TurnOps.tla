------------------------------ MODULE TurnOps ------------------------------
(***************************************************************************)
(* The turn record of one session and what each operation of the turn      *)
(* manager (internal/turn/lifecycle) makes of it.  These are constant      *)
(* operators: TurnLifecycle wraps them in a specification of the manager,  *)
(* ExecutionCoordinator uses them under the coordinator's real call        *)
(* sequences.                                                              *)
(*                                                                         *)
(* The manager's map has an entry only for a busy session; here a session  *)
(* with no entry has the record NoTurn, whose phase is "idle".  A channel  *)
(* is named by what created it: attemptDone by the attempt, riskDone and   *)
(* riskResponse by the confirmation wait.  Nil is the nil channel, the     *)
(* empty attempt string and the nil execution.                             *)
(*                                                                         *)
(* An input is the sequence of the user messages merged into it, so a      *)
(* blank input is << >> and merging concatenates; the list of pending      *)
(* inputs is kept already merged.                                          *)
(***************************************************************************)
EXTENDS Sequences, FiniteSets

CONSTANTS Sessions,    \* session identifiers
          Executions,  \* logical executions, which span attempts
          Attempts,    \* attempt and compaction run identifiers
          Waits,       \* risk confirmation waits
          Messages,    \* user messages
          Nil          \* none of the above

ASSUME NilAssumption == /\ Nil \notin Sessions
                        /\ Nil \notin Executions
                        /\ Nil \notin Attempts
                        /\ Nil \notin Waits
                        /\ Attempts \cap Waits = {}

Phases == {"idle", "llm", "tool", "awaiting_risk_confirm",
           "awaiting_append_confirm", "compact", "stopping"}

Input == Seq(Messages)

\* state: one entry of the manager's turn table.
Turn == [phase        : Phases,
         execution    : Executions \cup {Nil},
         attempt      : Attempts \cup {Nil},
         reserved     : BOOLEAN,
         compactReady : BOOLEAN,
         original     : Input,
         pending      : Input,
         attemptDone  : Attempts \cup {Nil},
         riskResponse : Waits \cup {Nil},
         riskDone     : Waits \cup {Nil}]

NoTurn == [phase |-> "idle", execution |-> Nil, attempt |-> Nil,
           reserved |-> FALSE, compactReady |-> FALSE,
           original |-> << >>, pending |-> << >>,
           attemptDone |-> Nil, riskResponse |-> Nil, riskDone |-> Nil]

\* matches: the entry exists and belongs to this attempt ("" matches a reservation).
matches(t, a) == t.phase # "idle" /\ t.attempt = a

-----------------------------------------------------------------------------
(* What an operation did: the entry it leaves, the channels it closed and   *)
(* the execution it finished with context.Canceled.                         *)

Kept(t) == [turn |-> t, closes |-> {}, cancels |-> Nil]

removeTurn(t, preserve) ==
    [turn    |-> NoTurn,
     closes  |-> {t.attemptDone, t.riskDone} \ {Nil},
     cancels |-> IF preserve THEN Nil ELSE t.execution]

\* Mutant: the close is forgotten.
finishAttemptOpen(t) ==
    [turn |-> [t EXCEPT !.attemptDone = Nil], closes |-> {}, cancels |-> Nil]

\* Mutant: the field is not reset after the close.
finishAttemptNoReset(t) ==
    [turn |-> t, closes |-> {t.attemptDone} \ {Nil}, cancels |-> Nil]

finishAttempt(t) ==
    [turn    |-> [t EXCEPT !.attemptDone = Nil],
     closes  |-> {t.attemptDone} \ {Nil},
     cancels |-> Nil]

\* Mutant: the entry goes at once, whether or not its attempt still runs.
beginStopTurnRemoves(t) == removeTurn(t, FALSE)

\* Mutant: the entry of a reservation is marked and never removed.
beginStopTurnMarks(t) ==
    [turn    |-> [t EXCEPT !.riskDone = Nil, !.phase = "stopping",
                           !.pending = << >>],
     closes  |-> {t.riskDone} \ {Nil},
     cancels |-> Nil]

\* Mutant: the confirmation's channel stays open.
beginStopTurnDeaf(t) ==
    IF t.attemptDone = Nil
    THEN removeTurn(t, FALSE)
    ELSE Kept([t EXCEPT !.riskDone = Nil, !.phase = "stopping",
                        !.pending = << >>])

\* An attempt still running is only marked; its owner removes the entry later.
beginStopTurn(t) ==
    IF t.attemptDone = Nil
    THEN removeTurn(t, FALSE)
    ELSE [turn    |-> [t EXCEPT !.riskDone = Nil, !.phase = "stopping",
                                !.pending = << >>],
          closes  |-> {t.riskDone} \ {Nil},
          cancels |-> Nil]

-----------------------------------------------------------------------------
(* Admission.                                                               *)

\* Mutant: any execution may take a reservation.
CanStartAttemptAny(t, e) == t.phase = "idle" \/ (t.reserved /\ t.phase = "llm")

CanStartAttempt(t, e) ==
    t.phase = "idle" \/ (t.reserved /\ t.execution = e /\ t.phase = "llm")

StartAttemptTurn(input, e, a) ==
    [NoTurn EXCEPT !.phase = "llm", !.original = input, !.execution = e,
                   !.attempt = a, !.attemptDone = a]

CanReserve(t) == t.phase = "idle"

ReservedTurn(input, e) ==
    [NoTurn EXCEPT !.phase = "llm", !.original = input, !.execution = e,
                   !.reserved = TRUE]

CanCompact(t, e) ==
    \/ t.phase = "idle"
    \/ t.reserved /\ t.compactReady /\ t.phase = "llm" /\ t.execution = e

CompactTurn(e, r) ==
    [NoTurn EXCEPT !.phase = "compact", !.execution = e, !.attempt = r,
                   !.attemptDone = r]

CanCompleteCompact(t, r) ==
    t.phase \in {"compact", "stopping"} /\ t.attempt = r

(* The attempt's own operations.                                            *)

\* Mutant: the phase is not looked at.
CanStartToolPhaseAlways(t, a) == matches(t, a)

CanStartToolPhase(t, a) == matches(t, a) /\ t.phase = "llm"

CanCompleteTurn(t, a) ==
    matches(t, a) /\ t.phase \in {"llm", "tool", "awaiting_risk_confirm"}

\* Queued input keeps the session reserved for the same execution.
CompleteTurnResult(t) ==
    IF t.execution = Nil THEN removeTurn(t, FALSE)
    ELSE IF t.pending # << >>
    THEN [finishAttempt(t) EXCEPT
            !.turn = [ReservedTurn(t.pending, t.execution) EXCEPT
                        !.compactReady = TRUE]]
    ELSE removeTurn(t, TRUE)

\* Mutant: the join is answered, the stopping entry left to whoever stopped it.
FinishAttemptResultLeaves(t, a) ==
    IF ~matches(t, a) THEN Kept(t)
    ELSE IF t.phase = "stopping" THEN finishAttemptNoReset(t)
    ELSE IF t.phase = "awaiting_append_confirm" THEN finishAttempt(t)
    ELSE removeTurn(t, FALSE)

FinishAttemptResult(t, a) ==
    IF ~matches(t, a) THEN Kept(t)
    ELSE IF t.phase = "awaiting_append_confirm" THEN finishAttempt(t)
    ELSE removeTurn(t, FALSE)

StopAttemptResult(t, a) == IF matches(t, a) THEN beginStopTurn(t) ELSE Kept(t)

StopSessionResult(t) == IF t.phase = "idle" THEN Kept(t) ELSE beginStopTurn(t)

DrainedTurn(t, a) == IF matches(t, a) THEN [t EXCEPT !.pending = << >>] ELSE t

DrainMergedInput(t, a) == IF matches(t, a) THEN t.pending ELSE << >>

(* Input that arrives while the session is busy.                            *)

CanBeginAppend(t, a) == matches(t, a) /\ t.phase = "llm"

BeginAppendTurn(t, input) ==
    [t EXCEPT !.phase = "awaiting_append_confirm", !.pending = @ \o input]

CanAppendPending(t) == t.phase \in {"awaiting_append_confirm", "tool"}

AppendPendingTurn(t, input) == [t EXCEPT !.pending = @ \o input]

CanResumeAppend(t) == t.phase = "awaiting_append_confirm"

ResumedTurn(t) ==
    [t EXCEPT !.phase = "llm", !.original = @ \o t.pending,
              !.pending = << >>, !.attempt = Nil, !.reserved = TRUE]

(* Risk confirmation.                                                       *)

CanBeginRisk(t, a) == matches(t, a) /\ t.phase = "tool"

\* Mutant: the new channel goes into the wrong field.
RiskTurnMixed(t, w) ==
    [t EXCEPT !.phase = "awaiting_risk_confirm", !.riskResponse = w,
              !.attemptDone = w]

RiskTurn(t, w) ==
    [t EXCEPT !.phase = "awaiting_risk_confirm", !.riskResponse = w,
              !.riskDone = w]

\* The callbacks of a wait act only while it is the wait being answered.
IsCurrentRisk(t, w) ==
    t.phase = "awaiting_risk_confirm" /\ t.riskResponse = w

RiskAnsweredResult(t) ==
    [turn    |-> [t EXCEPT !.phase = "tool", !.riskResponse = Nil,
                           !.riskDone = Nil],
     closes  |-> {t.riskDone},
     cancels |-> Nil]
=============================================================================
