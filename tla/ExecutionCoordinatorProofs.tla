--------------------- MODULE ExecutionCoordinatorProofs ---------------------
(***************************************************************************)
(* Proofs about the execution coordinator, for any number of messages,     *)
(* commands, sessions and attempts and under every fault and every race    *)
(* the model has.                                                          *)
(*                                                                         *)
(* Two invariants carry everything.  Manager!IndInv is the inductive       *)
(* invariant of the turn manager (TurnLifecycleProofs), over the attempts  *)
(* that the goroutines have in progress.  CoordInv says where a goroutine  *)
(* may have an attempt, that an attempt has one goroutine, that the entry  *)
(* bearing it is the goroutine's own, what holding the gate guarantees,    *)
(* and who runs what is reserved.  They need each other: a step is a step  *)
(* of the manager (Simulation) only where CoordInv holds, and CoordInv is  *)
(* kept only where the entries are as the manager keeps them.              *)
(***************************************************************************)
EXTENDS ExecutionCoordinator, TLAPS

\* The turn manager without TLC's bounds, with what is proved of it.
Manager == INSTANCE TurnLifecycleProofs
           WITH working <- Working, Inputs <- Input, MaxInput <- Nil

\* Where a goroutine has an attempt of a turn, or a compaction run.
TurnPcs == {"register", "prepare", "llm", "tools", "confirm", "reply", "complete",
            "ctxdone", "finish", "unobserve", "settle", "retire", "stopped",
            "release", "unregister"}
CompactPcs == {"summarize", "commit", "handoff", "reserve", "uncompact", "compacted"}

\* Where the attempt is still the goroutine's to release.
WorkPcs == {"register", "prepare", "llm", "tools", "confirm", "reply", "complete",
            "ctxdone", "finish", "summarize", "commit", "handoff"}

\* Where Run is on behalf of an execution.
RunPcs == TurnPcs \cup {"enter", "plan", "start", "recheck", "return", "fail", "cleanup"}

\* A goroutine that was told of a session is in it.
PlaceSound(p) ==
    LET r == procs[p]
    IN  /\ r.pc # "new" => r.session \in opened
        /\ r.next \in opened \cup {Nil}
        /\ r.pc \in {"accept", "dispatch", "cancel"} => p \in Messages
        /\ r.pc = "join" => p \in Messages \cup Resumers
        /\ r.pc = "resume" => p \in Resumers
        /\ r.pc \in RunPcs => r.execution # Nil

\* The attempt a goroutine has, and whether it is still its to release.
AttemptSound(p) ==
    LET r == procs[p]
    IN  /\ r.attempt # Nil <=> r.pc \in TurnPcs \cup CompactPcs
        /\ r.attempt # Nil => r.attempt \in used
        /\ r.attempt \in Compactions <=> r.pc \in CompactPcs
        /\ r.pc \in WorkPcs => r.owns
        /\ r.owns => /\ r.pc \in (TurnPcs \cup CompactPcs) \ {"unregister", "reserve"}
                     /\ Bound(p)
        /\ r.attempt # Nil /\ r.pc # "unregister" =>
             \A s \in Sessions : turns[s].attempt = r.attempt =>
                 r.owns /\ s = r.session /\ turns[s].execution = r.execution
        /\ r.pc = "confirm" => /\ r.wait \in Waits /\ waits[r.wait].stage # "unused"
                               /\ waits[r.wait].owner = r.attempt
        /\ r.pc \in {"register", "settle", "retire", "stopped", "release", "unregister",
                     "compacted"} => observers[r.attempt] = "off"

\* Who is inside the gate.
GateSound(p) ==
    LET r == procs[p]
    IN  /\ r.pc \in {"dispatch", "cancel", "stopreq", "register", "handoff", "reserve"} =>
             gate = p
        /\ r.pc \in {"handoff", "reserve"} => Bound(p) /\ r.attempt \notin halted
        /\ r.pc = "reserve" => \A q \in Procs : ~procs[q].owns

\* An attempt belongs to one goroutine, and a wait to the goroutine that is in it.
AttemptsApart ==
    \A p, q \in Procs : p # q /\ procs[p].attempt # Nil =>
        procs[q].attempt # procs[p].attempt

WaitsOwned ==
    \A w \in Waits : waits[w].stage \in {"waiting", "received"} =>
        \E p \in Procs : /\ procs[p].pc = "confirm" /\ procs[p].wait = w
                         /\ procs[p].attempt = waits[w].owner

\* An observer not yet stopped belongs to a goroutine.
ObserversOwned ==
    \A a \in Attempts : observers[a] # "off" =>
        \E p \in Procs : procs[p].attempt = a

\* What the entries name was started, and by whom it was reserved.
EntriesSound ==
    \A s \in Sessions :
        /\ turns[s].attempt \in used \cup {Nil}
        /\ turns[s].attempt \in Compactions => turns[s].phase \in {"compact", "stopping"}
        /\ turns[s].phase \notin {"idle", "compact", "stopping"} => turns[s].execution # Nil
        /\ s \notin opened => turns[s].phase = "idle"

\* p is on its way to start what is reserved in s, or to retire it.
RunsReserved(p, s) ==
    LET r == procs[p]
    IN  /\ r.execution = turns[s].execution
        /\ \/ r.session = s /\ r.pc \in {"enter", "plan", "compact", "start", "fail", "cleanup"}
           \/ /\ r.session = s /\ r.input # << >>
              /\ r.pc \in {"unobserve", "settle", "retire", "stopped", "release", "unregister"}
           \/ r.next = s /\ r.pc \in {"uncompact", "compacted"}

ReservationsRun ==
    \A s \in Sessions : turns[s].reserved /\ turns[s].phase = "llm" =>
        \E p \in Procs : RunsReserved(p, s)

CoordInv == /\ TypeOK
            /\ \A p \in Procs : PlaceSound(p) /\ AttemptSound(p) /\ GateSound(p)
            /\ AttemptsApart /\ WaitsOwned /\ ObserversOwned /\ EntriesSound
            /\ ReservationsRun /\ halted \subseteq canceled
-----------------------------------------------------------------------------
(* The manager's invariant, in the words of this module.                    *)

\* What the manager assumes of its constants.
LEMMA ManagerConstants ==
    /\ Manager!NilAssumption /\ Manager!DecisionAssumption
    /\ Manager!InputsAssumption /\ Manager!CompactionAssumption
BY NilAssumption, ExecutionsAssumption
   DEF Manager!NilAssumption, Manager!DecisionAssumption, Manager!InputsAssumption,
       Manager!CompactionAssumption, Manager!Input, Input

\* A step of the protocol keeps the manager's invariant.
LEMMA ManagerKeeps ==
    Manager!IndInv /\ [Manager!Next]_Manager!vars => Manager!IndInv'
BY ManagerConstants, Manager!StepKeeps

\* The types of the manager's part of the state.
LEMMA ManagerTypes ==
    ASSUME Manager!IndInv
    PROVE  /\ turns \in [Sessions -> Turn]
           /\ closed \subseteq Attempts \cup Waits \cup {Nil}
           /\ outcome \in [Executions -> {"returned", "cancelled", "open"}]
           /\ used \subseteq Attempts /\ canceled \subseteq Attempts
           /\ waits \in [Waits -> TL!Wait]
BY DEF Manager!IndInv, Manager!TypeOK, Manager!Turn, Turn, Manager!Phases, Phases,
       Manager!Input, Input, Manager!Outcomes, Manager!Wait, TL!Wait

\* What an entry holds in which phase.
LEMMA ManagerEntries ==
    ASSUME Manager!IndInv, NEW s \in Sessions
    PROVE  /\ turns[s].phase = "idle" => turns[s] = NoTurn
           /\ turns[s].reserved => turns[s].attemptDone = Nil /\ turns[s].attempt = Nil
           /\ turns[s].attemptDone # Nil => turns[s].attempt = turns[s].attemptDone
           /\ turns[s].phase = "llm" => turns[s].reserved \/ turns[s].attemptDone # Nil
           /\ turns[s].phase \in {"tool", "awaiting_risk_confirm", "compact", "stopping"} =>
                turns[s].attemptDone # Nil
BY DEF Manager!IndInv, Manager!EntryShape, Manager!EntryOwner, Manager!NoTurn, NoTurn

\* The attempts in progress in a table of goroutines.
WorkingOf(P) ==
    [a \in Attempts |->
        IF \E p \in Procs : P[p].owns /\ P[p].attempt = a
        THEN P[CHOOSE p \in Procs : P[p].owns /\ P[p].attempt = a].session
        ELSE Nil]

\* An attempt that one goroutine has is in progress in that one's session.
LEMMA WorkingValue ==
    ASSUME NEW P, NEW a \in Attempts, NEW p \in Procs, P[p].owns, P[p].attempt = a,
           \A q \in Procs : P[q].owns /\ P[q].attempt = a => q = p
    PROVE  WorkingOf(P)[a] = P[p].session
<1> DEFINE q == CHOOSE x \in Procs : P[x].owns /\ P[x].attempt = a
<1>1. q \in Procs /\ P[q].owns /\ P[q].attempt = a
    OBVIOUS
<1>2. q = p
    BY <1>1
<1> QED BY <1>2 DEF WorkingOf

\* One that nobody has is not in progress.
LEMMA WorkingNone ==
    ASSUME NEW P, NEW a \in Attempts, ~\E p \in Procs : P[p].owns /\ P[p].attempt = a
    PROVE  WorkingOf(P)[a] = Nil
BY DEF WorkingOf

\* Working is that of the goroutines, before and after a step.
LEMMA WorkingProcs ==
    /\ Working = WorkingOf(procs) /\ Working' = WorkingOf(procs')
    /\ \A P : WorkingOf(P) = [a \in Attempts |-> WorkingOf(P)[a]]
BY DEF Working, WorkingOf

\* A goroutine's attempt keeps the entry of its session.
LEMMA OwnsEntry ==
    ASSUME Manager!IndInv, CoordInv, NEW p \in Procs, procs[p].owns
    PROVE  /\ procs[p].attempt \in Attempts /\ procs[p].session \in Sessions
           /\ procs[p].attempt \in used
           /\ Working[procs[p].attempt] = procs[p].session
           /\ turns[procs[p].session].attempt = procs[p].attempt
           /\ turns[procs[p].session].attemptDone = procs[p].attempt
<1>1. /\ procs[p].attempt # Nil /\ procs[p].attempt \in used /\ used \subseteq Attempts
      /\ procs[p].session = current /\ current \in Sessions /\ Nil \notin Sessions
    BY NilAssumption DEF CoordInv, AttemptSound, Bound, TypeOK, TurnPcs, CompactPcs
<1>2. \A q \in Procs : procs[q].owns /\ procs[q].attempt = procs[p].attempt => q = p
    BY <1>1 DEF CoordInv, AttemptsApart
<1>3. Working[procs[p].attempt] = procs[p].session
    BY <1>1, <1>2, WorkingValue, WorkingProcs
<1>4. turns[procs[p].session].attemptDone = procs[p].attempt
    BY <1>1, <1>3 DEF Manager!IndInv, Manager!AttemptHistory
<1>5. turns[procs[p].session].attempt = procs[p].attempt
    BY <1>1, <1>4, ManagerEntries
<1> QED BY <1>1, <1>3, <1>4, <1>5

-----------------------------------------------------------------------------
(* The attempts in progress, as goroutines take them up and release them.   *)

\* No two goroutines have the same attempt in progress.
Apart(P) == \A p, q \in Procs : P[p].owns /\ P[q].owns /\ P[p].attempt = P[q].attempt => p = q

\* Nobody takes up or releases anything.
LEMMA WorkingSame ==
    ASSUME NEW P, NEW Q, Apart(P),
           \A p \in Procs : /\ Q[p].owns <=> P[p].owns
                            /\ P[p].owns => /\ Q[p].attempt = P[p].attempt
                                            /\ Q[p].session = P[p].session
    PROVE  WorkingOf(Q) = WorkingOf(P)
<1>1. ASSUME NEW a \in Attempts PROVE WorkingOf(Q)[a] = WorkingOf(P)[a]
    <2>1. CASE ~\E p \in Procs : P[p].owns /\ P[p].attempt = a
        <3>1. ~\E p \in Procs : Q[p].owns /\ Q[p].attempt = a
            BY <2>1
        <3> QED BY <2>1, <3>1, WorkingNone
    <2>2. ASSUME NEW p \in Procs, P[p].owns, P[p].attempt = a
          PROVE  WorkingOf(Q)[a] = WorkingOf(P)[a]
        <3>1. WorkingOf(P)[a] = P[p].session
            BY <2>2, WorkingValue DEF Apart
        <3>2. Q[p].owns /\ Q[p].attempt = a /\ Q[p].session = P[p].session
            BY <2>2
        <3>3. \A q \in Procs : Q[q].owns /\ Q[q].attempt = a => q = p
            BY <2>2 DEF Apart
        <3>4. WorkingOf(Q)[a] = Q[p].session
            BY <3>2, <3>3, WorkingValue
        <3> QED BY <3>1, <3>2, <3>4
    <2> QED BY <2>1, <2>2
<1> QED BY <1>1 DEF WorkingOf

\* One goroutine takes up an attempt that nobody has.
LEMMA WorkingGains ==
    ASSUME NEW P, NEW Q, Apart(P), NEW p \in Procs, NEW a \in Attempts,
           ~P[p].owns, \A q \in Procs : P[q].owns => P[q].attempt # a,
           Q[p].owns, Q[p].attempt = a, \A q \in Procs \ {p} : Q[q] = P[q]
    PROVE  WorkingOf(Q) = [WorkingOf(P) EXCEPT ![a] = Q[p].session]
<1>1. WorkingOf(Q)[a] = Q[p].session
    BY WorkingValue
<1>2. ASSUME NEW b \in Attempts, b # a PROVE WorkingOf(Q)[b] = WorkingOf(P)[b]
    <2>1. CASE ~\E q \in Procs : P[q].owns /\ P[q].attempt = b
        <3>1. ~\E q \in Procs : Q[q].owns /\ Q[q].attempt = b
            BY <2>1, <1>2
        <3> QED BY <2>1, <3>1, WorkingNone
    <2>2. ASSUME NEW q \in Procs, P[q].owns, P[q].attempt = b
          PROVE  WorkingOf(Q)[b] = WorkingOf(P)[b]
        <3>1. WorkingOf(P)[b] = P[q].session
            BY <2>2, WorkingValue DEF Apart
        <3>2. q # p /\ Q[q] = P[q]
            BY <2>2
        <3>3. \A x \in Procs : Q[x].owns /\ Q[x].attempt = b => x = q
            BY <1>2, <2>2, <3>2 DEF Apart
        <3>4. WorkingOf(Q)[b] = Q[q].session
            BY <2>2, <3>2, <3>3, WorkingValue
        <3> QED BY <3>1, <3>2, <3>4
    <2> QED BY <2>1, <2>2
<1>3. /\ WorkingOf(P) = [b \in Attempts |-> WorkingOf(P)[b]]
      /\ WorkingOf(Q) = [b \in Attempts |-> WorkingOf(Q)[b]]
    BY WorkingProcs
<1> QED BY <1>1, <1>2, <1>3

\* The goroutine of an attempt releases it.
LEMMA WorkingLoses ==
    ASSUME NEW P, NEW Q, Apart(P), NEW p \in Procs, NEW a \in Attempts,
           P[p].owns, P[p].attempt = a, ~Q[p].owns, \A q \in Procs \ {p} : Q[q] = P[q]
    PROVE  WorkingOf(Q) = [WorkingOf(P) EXCEPT ![a] = Nil]
<1>1. WorkingOf(Q)[a] = Nil
    <2>1. ~\E q \in Procs : Q[q].owns /\ Q[q].attempt = a
        BY DEF Apart
    <2> QED BY <2>1, WorkingNone
<1>2. ASSUME NEW b \in Attempts, b # a PROVE WorkingOf(Q)[b] = WorkingOf(P)[b]
    <2>1. CASE ~\E q \in Procs : P[q].owns /\ P[q].attempt = b
        <3>1. ~\E q \in Procs : Q[q].owns /\ Q[q].attempt = b
            BY <2>1, <1>2
        <3> QED BY <2>1, <3>1, WorkingNone
    <2>2. ASSUME NEW q \in Procs, P[q].owns, P[q].attempt = b
          PROVE  WorkingOf(Q)[b] = WorkingOf(P)[b]
        <3>1. WorkingOf(P)[b] = P[q].session
            BY <2>2, WorkingValue DEF Apart
        <3>2. q # p /\ Q[q] = P[q]
            BY <1>2, <2>2
        <3>3. \A x \in Procs : Q[x].owns /\ Q[x].attempt = b => x = q
            BY <1>2, <2>2, <3>2 DEF Apart
        <3>4. WorkingOf(Q)[b] = Q[q].session
            BY <2>2, <3>2, <3>3, WorkingValue
        <3> QED BY <3>1, <3>2, <3>4
    <2> QED BY <2>1, <2>2
<1>3. /\ WorkingOf(P) = [b \in Attempts |-> WorkingOf(P)[b]]
      /\ WorkingOf(Q) = [b \in Attempts |-> WorkingOf(Q)[b]]
    BY WorkingProcs
<1> QED BY <1>1, <1>2, <1>3

\* The goroutines keep their attempts apart.
LEMMA ProcsApart == ASSUME CoordInv PROVE Apart(procs)
BY NilAssumption DEF CoordInv, AttemptsApart, AttemptSound, Apart, TurnPcs, CompactPcs

\* The manager's state, with its attempts in progress.
managerVars == <<turns, closed, outcome, used, Working, canceled, waits>>

\* The operations are those of TurnOps.
LEMMA ManagerOps ==
    /\ \A t, a : /\ Manager!matches(t, a) <=> matches(t, a)
                 /\ Manager!CanStartToolPhase(t, a) <=> CanStartToolPhase(t, a)
                 /\ Manager!CanCompleteTurn(t, a) <=> CanCompleteTurn(t, a)
                 /\ Manager!CanCompleteCompact(t, a) <=> CanCompleteCompact(t, a)
                 /\ Manager!CanStartAttempt(t, a) <=> CanStartAttempt(t, a)
                 /\ Manager!CanCompact(t, a) <=> CanCompact(t, a)
                 /\ Manager!CanBeginAppend(t, a) <=> CanBeginAppend(t, a)
                 /\ Manager!CanBeginRisk(t, a) <=> CanBeginRisk(t, a)
                 /\ Manager!FinishAttemptResult(t, a) = FinishAttemptResult(t, a)
                 /\ Manager!StopAttemptResult(t, a) = StopAttemptResult(t, a)
                 /\ Manager!DrainedTurn(t, a) = DrainedTurn(t, a)
                 /\ Manager!DrainMergedInput(t, a) = DrainMergedInput(t, a)
                 /\ Manager!BeginAppendTurn(t, a) = BeginAppendTurn(t, a)
                 /\ Manager!AppendPendingTurn(t, a) = AppendPendingTurn(t, a)
                 /\ Manager!CompactTurn(t, a) = CompactTurn(t, a)
                 /\ Manager!ReservedTurn(t, a) = ReservedTurn(t, a)
                 /\ Manager!RiskTurn(t, a) = RiskTurn(t, a)
                 /\ Manager!removeTurn(t, a) = removeTurn(t, a)
    /\ \A t : /\ Manager!CanReserve(t) <=> CanReserve(t)
              /\ Manager!CanAppendPending(t) <=> CanAppendPending(t)
              /\ Manager!CanResumeAppend(t) <=> CanResumeAppend(t)
              /\ Manager!ResumedTurn(t) = ResumedTurn(t)
              /\ Manager!CompleteTurnResult(t) = CompleteTurnResult(t)
              /\ Manager!StopSessionResult(t) = StopSessionResult(t)
    /\ \A i, e, a : Manager!StartAttemptTurn(i, e, a) = StartAttemptTurn(i, e, a)
    /\ Manager!NoWait = TL!NoWait
BY DEF Manager!matches, matches, Manager!CanStartToolPhase, CanStartToolPhase,
       Manager!CanCompleteTurn, CanCompleteTurn, Manager!CanCompleteCompact, CanCompleteCompact,
       Manager!CanStartAttempt, CanStartAttempt, Manager!CanCompact, CanCompact,
       Manager!CanBeginAppend, CanBeginAppend, Manager!CanBeginRisk, CanBeginRisk,
       Manager!FinishAttemptResult, FinishAttemptResult, Manager!Kept, Kept,
       Manager!finishAttempt, finishAttempt, Manager!removeTurn, removeTurn,
       Manager!StopAttemptResult, StopAttemptResult, Manager!beginStopTurn, beginStopTurn,
       Manager!DrainedTurn, DrainedTurn, Manager!DrainMergedInput, DrainMergedInput,
       Manager!BeginAppendTurn, BeginAppendTurn, Manager!AppendPendingTurn, AppendPendingTurn,
       Manager!CompactTurn, CompactTurn, Manager!ReservedTurn, ReservedTurn,
       Manager!RiskTurn, RiskTurn, Manager!CanReserve, CanReserve, Manager!NoTurn, NoTurn,
       Manager!CanAppendPending, CanAppendPending, Manager!CanResumeAppend, CanResumeAppend,
       Manager!ResumedTurn, ResumedTurn, Manager!CompleteTurnResult, CompleteTurnResult,
       Manager!StopSessionResult, StopSessionResult, Manager!StartAttemptTurn, StartAttemptTurn,
       Manager!NoWait, TL!NoWait

\* How the manager's variables change.
LEMMA ManagerWrites ==
    /\ \A s, res : Manager!Apply(s, res) <=> TL!Apply(s, res)
    /\ \A s, t : Manager!Replace(s, t) <=> TL!Replace(s, t)
    /\ \A out, es, x : Manager!Finished(out, es, x) = TL!Finished(out, es, x)
BY DEF Manager!Apply, TL!Apply, Manager!Replace, TL!Replace, Manager!Finished, TL!Finished

-----------------------------------------------------------------------------
(* Every step is a step of the manager, or leaves its state alone.          *)

\* p goes on with what it has in progress; the others stay where they are.
Moves(p) == /\ \A q \in Procs \ {p} : procs'[q] = procs[q]
            /\ procs'[p].owns = procs[p].owns
            /\ procs[p].owns => /\ procs'[p].attempt = procs[p].attempt
                                /\ procs'[p].session = procs[p].session

\* A goroutine takes a step of its own.
LEMMA SetMoves ==
    ASSUME TypeOK, NEW p \in Procs, NEW r, Set(p, r), r.owns = procs[p].owns,
           procs[p].owns => r.attempt = procs[p].attempt /\ r.session = procs[p].session
    PROVE  Moves(p)
BY DEF TypeOK, Set, Moves

\* The ways in which a goroutine goes on.
LEMMA LocalSteps ==
    ASSUME TypeOK, NEW p \in Procs
    PROVE  /\ \A l : Goto(p, l) => Moves(p)
           /\ \A err, told : Leave(p, err, told) => Moves(p)
           /\ \A err : Fail(p, err) \/ End(p, err) \/ EndCompact(p, err) => Moves(p)
           /\ \A err : RefuseCompact(p, err) => Moves(p)
<1>1. procs[p] \in Proc
    BY DEF TypeOK
<1>2. ASSUME NEW l, Goto(p, l) PROVE Moves(p)
    BY <1>1, <1>2, SetMoves DEF Goto, Proc
<1>3. ASSUME NEW err, NEW told, Leave(p, err, told) PROVE Moves(p)
    BY <1>1, <1>3, SetMoves DEF Leave, Proc
<1>4. ASSUME NEW err, Fail(p, err) \/ End(p, err) \/ EndCompact(p, err) PROVE Moves(p)
    BY <1>1, <1>4, SetMoves DEF Fail, End, EndCompact, Proc
<1>5. ASSUME NEW err, RefuseCompact(p, err) PROVE Moves(p)
    BY <1>3, <1>4, <1>5 DEF RefuseCompact
<1> QED BY <1>2, <1>3, <1>4, <1>5

\* Going on with what it has changes nothing of what is in progress.
LEMMA MovesOn ==
    ASSUME CoordInv, NEW p \in Procs, Moves(p)
    PROVE  UNCHANGED Working
<1>1. \A q \in Procs : /\ procs'[q].owns <=> procs[q].owns
                       /\ procs[q].owns => /\ procs'[q].attempt = procs[q].attempt
                                           /\ procs'[q].session = procs[q].session
    BY DEF Moves
<1> QED BY <1>1, ProcsApart, WorkingSame, WorkingProcs

\* A goroutine that has an attempt and is not inside WaitRisk may act for it.
LEMMA OwnsIt ==
    ASSUME Manager!IndInv, CoordInv, NEW p \in Procs, procs[p].owns, procs[p].pc # "confirm"
    PROVE  Manager!Owns(procs[p].attempt, procs[p].session)
<1>1. Working[procs[p].attempt] = procs[p].session /\ procs[p].attempt # Nil
    BY OwnsEntry, NilAssumption
<1>2. ~Manager!Waiting(procs[p].attempt)
    BY <1>1 DEF Manager!Waiting, CoordInv, WaitsOwned, AttemptsApart
<1> QED BY <1>1, <1>2 DEF Manager!Owns

\* Who works has its attempt.
LEMMA WorkersOwn ==
    ASSUME CoordInv, NEW p \in Procs
    PROVE  /\ procs[p] \in Proc
           /\ procs[p].pc \in WorkPcs => procs[p].owns
           /\ procs[p].pc \notin TurnPcs \cup CompactPcs => ~procs[p].owns /\ procs[p].attempt = Nil
           /\ procs[p].pc \in RunPcs => procs[p].execution \in Executions
           /\ procs[p].pc # "new" => procs[p].session \in Sessions
BY DEF CoordInv, AttemptSound, PlaceSound, TypeOK, RunPcs, TurnPcs, CompactPcs, WorkPcs, Proc

ManagerStep == [Manager!Next]_managerVars

\* Steps that only move the goroutine.
LEMMA StepsApart ==
    ASSUME CoordInv, NEW p \in Procs,
           \/ Arrive(p) \/ EnterInput(p) \/ DispatchOut(p) \/ Join(p)
           \/ EnterTurn(p) \/ PlanCompaction(p) \/ Recheck(p)
           \/ PrepareTurn(p) \/ ModelEnds(p) \/ Confirmed(p) \/ CommitReply(p) \/ ContextDone(p)
           \/ StopObserver(p) \/ Settle(p) \/ Unregister(p)
           \/ Summarize(p) \/ CommitCompact(p)
    PROVE  Moves(p) /\ UNCHANGED managerVars
<1>0. TypeOK /\ procs[p] \in Proc
    BY DEF CoordInv, TypeOK
<1>1. ASSUME Moves(p), UNCHANGED <<turnVars, used, canceled, waits>>
      PROVE  Moves(p) /\ UNCHANGED managerVars
    BY <1>1, MovesOn DEF managerVars, turnVars
<1>2. CASE Arrive(p)
    <2>1. ~procs[p].owns
        BY <1>2, WorkersOwn DEF Arrive, At, TurnPcs, CompactPcs
    <2>2. Moves(p)
        BY <1>0, <1>2, <2>1, SetMoves DEF Arrive, Proc
    <2> QED BY <1>1, <1>2, <2>2 DEF Arrive
<1>3. CASE EnterInput(p)
    <2>1. Moves(p)
        BY <1>0, <1>3, LocalSteps, SetMoves DEF EnterInput, Proc
    <2> QED BY <1>1, <1>3, <2>1 DEF EnterInput
<1>4. CASE DispatchOut(p)
    <2>1. Moves(p)
        BY <1>0, <1>4, LocalSteps, SetMoves DEF DispatchOut, Proc
    <2> QED BY <1>1, <1>4, <2>1 DEF DispatchOut
<1>5. CASE Join(p)
    <2>1. Moves(p)
        BY <1>0, <1>5, LocalSteps, SetMoves DEF Join, Proc
    <2> QED BY <1>1, <1>5, <2>1 DEF Join
<1>6. CASE EnterTurn(p) \/ PlanCompaction(p) \/ PrepareTurn(p) \/ ModelEnds(p)
    <2>1. Moves(p)
        BY <1>0, <1>6, LocalSteps DEF EnterTurn, PlanCompaction, PrepareTurn, ModelEnds
    <2> QED BY <1>1, <1>6, <2>1 DEF EnterTurn, PlanCompaction, PrepareTurn, ModelEnds
<1>7. CASE CommitReply(p) \/ ContextDone(p) \/ StopObserver(p) \/ Summarize(p) \/ CommitCompact(p)
    <2>1. Moves(p)
        BY <1>0, <1>7, LocalSteps DEF CommitReply, ContextDone, StopObserver, Summarize, CommitCompact
    <2> QED BY <1>1, <1>7, <2>1 DEF CommitReply, ContextDone, StopObserver, Summarize, CommitCompact
<1>8. CASE Recheck(p)
    <2>1. Moves(p)
        BY <1>0, <1>8, LocalSteps, SetMoves DEF Recheck, Proc
    <2> QED BY <1>1, <1>8, <2>1 DEF Recheck
<1>9. CASE Confirmed(p)
    <2>1. Moves(p)
        BY <1>0, <1>9, LocalSteps, SetMoves DEF Confirmed, Proc
    <2> QED BY <1>1, <1>9, <2>1 DEF Confirmed
<1>10. CASE Settle(p)
    <2>1. Moves(p)
        BY <1>0, <1>10, LocalSteps, SetMoves DEF Settle, Proc
    <2> QED BY <1>1, <1>10, <2>1 DEF Settle
<1>11. CASE Unregister(p)
    <2>1. ~procs[p].owns
        BY <1>11 DEF CoordInv, AttemptSound, Unregister, At, TurnPcs, CompactPcs
    <2>2. Moves(p)
        BY <1>0, <1>11, <2>1, SetMoves DEF Unregister, Proc
    <2> QED BY <1>1, <1>11, <2>2 DEF Unregister
<1> QED BY <1>2, <1>3, <1>4, <1>5, <1>6, <1>7, <1>8, <1>9, <1>10, <1>11

\* An operation that leaves the entry as it is changes nothing.
LEMMA ApplyKept ==
    ASSUME Manager!IndInv, NEW s \in Sessions, TL!Apply(s, Kept(turns[s]))
    PROVE  UNCHANGED <<turns, closed, outcome>>
<1>1. turns' = turns /\ closed' = closed
    BY ManagerTypes DEF TL!Apply, Kept
<1>2. outcome' = [e \in Executions |-> outcome[e]]
    BY NilAssumption DEF TL!Apply, Kept, TL!Finished
<1>3. outcome' = outcome
    BY <1>2, ManagerTypes
<1> QED BY <1>1, <1>3

\* An execution is finished for the first time, or stays as it is.
LEMMA FinishStep ==
    ASSUME Manager!IndInv, NEW e \in Executions, Finish(e),
           UNCHANGED <<used, Working, canceled, waits>>
    PROVE  ManagerStep
<1>1. CASE outcome[e] = "open"
    <2>1. Manager!FinishExecution(e)
        BY <1>1, ManagerWrites DEF Manager!FinishExecution, Finish
    <2> QED BY <2>1 DEF Manager!Next, Manager!Stop, ManagerStep
<1>2. CASE outcome[e] # "open"
    <2>1. outcome' = [x \in Executions |-> outcome[x]]
        BY <1>2 DEF Finish, TL!Finished
    <2>2. outcome' = outcome
        BY <2>1, ManagerTypes
    <2> QED BY <2>2 DEF ManagerStep, managerVars, Finish
<1> QED BY <1>1, <1>2

\* The input that queues, the interruption and the resumed append.
LEMMA ArrivalSteps ==
    ASSUME Manager!IndInv, CoordInv, NEW p \in Procs,
           \/ DispatchPending(p) \/ DispatchInterrupt(p) \/ ResumeAppend(p) \/ Answer(p)
    PROVE  ManagerStep
<1> DEFINE s == procs[p].session
           t == turns[s]
<1>0. s \in Sessions /\ procs[p] \in Proc /\ procs[p].input \in Input /\ TypeOK
    <2>1. procs[p].pc # "new"
        BY DEF DispatchPending, DispatchInterrupt, ResumeAppend, Answer, Dispatching, At
    <2> QED BY <2>1, WorkersOwn DEF Proc, CoordInv
<1>1. CASE DispatchPending(p)
    <2>1. Moves(p)
        BY <1>0, <1>1, LocalSteps DEF DispatchPending
    <2>2. UNCHANGED <<used, Working, canceled, waits>>
        BY <1>1, <2>1, MovesOn DEF DispatchPending
    <2>3. CASE CanAppendPending(t)
        <3>1. Manager!AppendPendingInput(s, procs[p].input)
            BY <1>1, <2>2, <2>3, ManagerOps, ManagerWrites
               DEF DispatchPending, Manager!AppendPendingInput, Manager!HasRoom
        <3> QED BY <1>0, <3>1 DEF Manager!Next, Manager!Arrival, ManagerStep
    <2>4. CASE ~CanAppendPending(t)
        <3>1. UNCHANGED <<turns, closed, outcome>>
            BY <1>0, <1>1, <2>4, ManagerTypes DEF DispatchPending, TL!Replace
        <3> QED BY <2>2, <3>1 DEF ManagerStep, managerVars
    <2> QED BY <2>3, <2>4
<1>2. CASE DispatchInterrupt(p)
    <2>1. Moves(p)
        BY <1>0, <1>2, LocalSteps, SetMoves DEF DispatchInterrupt, Proc
    <2>2. UNCHANGED <<used, Working, canceled, waits>>
        BY <1>2, <2>1, MovesOn DEF DispatchInterrupt
    <2>3. CASE CanBeginAppend(t, procs[p].seen.attempt)
        <3>1. Manager!BeginAppend(s, procs[p].seen.attempt, procs[p].input)
            BY <1>2, <2>2, <2>3, ManagerOps, ManagerWrites
               DEF DispatchInterrupt, Manager!BeginAppend, Manager!HasRoom
        <3>2. procs[p].seen.attempt \in Attempts \cup {Nil}
            BY <1>0 DEF Proc
        <3> QED BY <1>0, <3>1, <3>2 DEF Manager!Next, Manager!Arrival, ManagerStep
    <2>4. CASE ~CanBeginAppend(t, procs[p].seen.attempt)
        BY <1>2, <2>2, <2>4 DEF DispatchInterrupt, turnVars, ManagerStep, managerVars
    <2> QED BY <2>3, <2>4
<1>3. CASE ResumeAppend(p)
    <2>1. Moves(p)
        BY <1>0, <1>3, LocalSteps, SetMoves DEF ResumeAppend, Proc
    <2>2. UNCHANGED <<used, Working, canceled, waits>>
        BY <1>3, <2>1, MovesOn DEF ResumeAppend
    <2>3. CASE UNCHANGED turnVars
        BY <2>2, <2>3 DEF turnVars, ManagerStep, managerVars
    <2>4. CASE ~UNCHANGED turnVars
        <3>1. Manager!ResumeAppend(s)
            BY <1>3, <2>2, <2>4, ManagerOps, ManagerWrites
               DEF ResumeAppend, Manager!ResumeAppend, CanResumeAppend
        <3> QED BY <1>0, <3>1 DEF Manager!Next, Manager!Arrival, ManagerStep
    <2> QED BY <2>3, <2>4
<1>4. CASE Answer(p)
    <2>1. Moves(p)
        BY <1>0, <1>4, LocalSteps DEF Answer
    <2>2. UNCHANGED <<turns, closed, outcome, used, Working, canceled>>
        BY <1>4, <2>1, MovesOn DEF Answer, turnVars
    <2>3. \/ \E d \in Decisions : Manager!ResolveRiskConfirmation(s, d)
          \/ Manager!RefreshRiskConfirmation(s)
          \/ UNCHANGED waits
        BY <1>4 DEF Answer, TL!ResolveRiskConfirmation, TL!RefreshRiskConfirmation,
                    Manager!ResolveRiskConfirmation, Manager!RefreshRiskConfirmation
    <2> QED BY <1>0, <2>2, <2>3 DEF Manager!Next, Manager!Arrival, ManagerStep, managerVars
<1> QED BY <1>1, <1>2, <1>3, <1>4

\* Requests are canceled, those of one session or all of them.
LEMMA CancelStep ==
    ASSUME Manager!IndInv, CoordInv, NEW as \in SUBSET reqs, canceled' = canceled \cup as,
           UNCHANGED <<turns, closed, outcome, used, Working, waits>>
    PROVE  ManagerStep
<1>1. as \ canceled \subseteq used \ canceled /\ used \subseteq Attempts
    BY DEF CoordInv, TypeOK
<1>2. Manager!CancelRequests(as \ canceled)
    BY <1>1 DEF Manager!CancelRequests
<1>3. as \ canceled \in SUBSET Attempts
    BY <1>1
<1> QED BY <1>2, <1>3 DEF Manager!Next, Manager!Stop, ManagerStep

\* The steps that cancel a session's requests.
LEMMA CancelSteps ==
    ASSUME Manager!IndInv, CoordInv, NEW p \in Procs, InterruptCancels(p) \/ StopCancels(p)
    PROVE  ManagerStep
<1>1. Moves(p)
    BY LocalSteps DEF InterruptCancels, StopCancels, CoordInv
<1>2. UNCHANGED <<turns, closed, outcome, used, Working, waits>>
    BY <1>1, MovesOn DEF InterruptCancels, StopCancels, turnVars
<1>3. canceled' = canceled \cup Requests(procs[p].session)
    BY DEF InterruptCancels, StopCancels, CancelSession
<1>4. Requests(procs[p].session) \in SUBSET reqs
    BY DEF Requests
<1> QED BY <1>2, <1>3, <1>4, CancelStep

\* The steps of an attempt that has been started.
LEMMA OwnerSteps ==
    ASSUME Manager!IndInv, CoordInv, NEW p \in Procs,
           StartToolPhase(p) \/ DrainPending(p) \/ AskRisk(p) \/ CompleteTurn(p)
    PROVE  ManagerStep
<1> DEFINE s == procs[p].session
           a == procs[p].attempt
<1>0. /\ procs[p] \in Proc /\ TypeOK /\ procs[p].owns /\ procs[p].pc # "confirm"
    BY WorkersOwn DEF CoordInv, StartToolPhase, DrainPending, AskRisk, CompleteTurn, At, WorkPcs
<1>0a. a \in Attempts /\ s \in Sessions /\ Manager!Owns(a, s)
    BY <1>0, OwnsEntry, OwnsIt
<1>1. CASE StartToolPhase(p)
    <2>1. UNCHANGED <<used, Working, canceled, waits>>
        BY <1>0, <1>1, LocalSteps, MovesOn DEF StartToolPhase
    <2>2. CASE UNCHANGED turnVars
        BY <2>1, <2>2 DEF turnVars, ManagerStep, managerVars
    <2>3. CASE ~UNCHANGED turnVars
        <3>1. Manager!StartToolPhase(s, a)
            BY <1>0a, <1>1, <2>1, <2>3, ManagerOps, ManagerWrites
               DEF StartToolPhase, Manager!StartToolPhase
        <3> QED BY <1>0a, <3>1 DEF Manager!Next, Manager!OwnerStep, ManagerStep
    <2> QED BY <2>2, <2>3
<1>2. CASE DrainPending(p)
    <2>1. UNCHANGED <<used, Working, canceled, waits>>
        BY <1>2, WorkingProcs DEF DrainPending
    <2>2. Manager!Drain(s, a)
        BY <1>0a, <1>2, <2>1, ManagerOps, ManagerWrites DEF DrainPending, Manager!Drain
    <2> QED BY <1>0a, <2>2 DEF Manager!Next, Manager!OwnerStep, ManagerStep
<1>3. CASE AskRisk(p)
    <2>1. PICK w \in Waits :
            /\ waits[w].stage = "unused"
            /\ IF CanBeginRisk(turns[s], a)
               THEN /\ Set(p, [procs[p] EXCEPT !.pc = "confirm", !.wait = w])
                    /\ waits' = [waits EXCEPT ![w] = [TL!NoWait EXCEPT
                                      !.stage = "waiting", !.owner = a]]
                    /\ TL!Replace(s, RiskTurn(turns[s], w))
               ELSE /\ IF a \in canceled THEN Goto(p, "ctxdone") ELSE End(p, "none")
                    /\ UNCHANGED <<turnVars, waits>>
        BY <1>3 DEF AskRisk
    <2>2. Moves(p)
        BY <1>0, <2>1, LocalSteps, SetMoves DEF Proc
    <2>3. UNCHANGED <<used, Working, canceled>>
        BY <1>3, <2>2, MovesOn DEF AskRisk
    <2>4. CASE CanBeginRisk(turns[s], a)
        <3>1. Manager!BeginRiskConfirmation(s, a, w)
            BY <1>0a, <2>1, <2>3, <2>4, ManagerOps, ManagerWrites
               DEF Manager!BeginRiskConfirmation
        <3> QED BY <1>0a, <3>1 DEF Manager!Next, Manager!OwnerStep, ManagerStep
    <2>5. CASE ~CanBeginRisk(turns[s], a)
        BY <2>1, <2>3, <2>5 DEF turnVars, ManagerStep, managerVars
    <2> QED BY <2>4, <2>5
<1>4. CASE CompleteTurn(p)
    <2>1. UNCHANGED <<used, canceled, waits>>
        BY <1>4 DEF CompleteTurn
    <2>2. CASE UNCHANGED turnVars /\ Moves(p)
        BY <2>1, <2>2, MovesOn DEF turnVars, ManagerStep, managerVars
    <2>3. CASE /\ CanCompleteTurn(turns[s], a)
               /\ TL!Apply(s, CompleteTurnResult(turns[s]))
               /\ Set(p, [procs[p] EXCEPT !.pc = "unobserve", !.owns = FALSE,
                                          !.input = turns[s].pending])
        <3>1. ~procs'[p].owns /\ \A q \in Procs \ {p} : procs'[q] = procs[q]
            BY <1>0, <2>3 DEF Set, TypeOK, Proc
        <3>2. Working' = [Working EXCEPT ![a] = Nil]
            BY <1>0, <1>0a, <3>1, ProcsApart, WorkingLoses, WorkingProcs
        <3>3. Manager!CompleteTurn(s, a)
            BY <1>0a, <2>1, <2>3, <3>2, ManagerOps, ManagerWrites DEF Manager!CompleteTurn
        <3> QED BY <1>0a, <3>3 DEF Manager!Next, Manager!OwnerStep, ManagerStep
    <2> QED BY <1>0, <1>4, <2>2, <2>3, LocalSteps DEF CompleteTurn
<1> QED BY <1>1, <1>2, <1>3, <1>4

\* An attempt is started, and its request registered or given up.
LEMMA AdmitSteps ==
    ASSUME Manager!IndInv, CoordInv, NEW p \in Procs, StartAttempt(p) \/ Register(p)
    PROVE  ManagerStep
<1> DEFINE s == procs[p].session
           e == procs[p].execution
<1>0. /\ procs[p] \in Proc /\ TypeOK /\ procs[p].input \in Input
      /\ s \in Sessions /\ e \in Executions
    BY WorkersOwn DEF CoordInv, StartAttempt, Register, At, RunPcs, TurnPcs, Proc
<1>1. CASE StartAttempt(p)
    <2> DEFINE fresh == Attempts \ (used \cup Compactions)
               a == CHOOSE x \in fresh : TRUE
    <2>1. ~procs[p].owns
        BY <1>1, WorkersOwn DEF StartAttempt, At, TurnPcs, CompactPcs
    <2>2. UNCHANGED <<canceled, waits>>
        BY <1>1 DEF StartAttempt
    <2>3. CASE UNCHANGED <<turnVars, used>> /\ Moves(p)
        BY <2>2, <2>3, MovesOn DEF turnVars, ManagerStep, managerVars
    <2>4. CASE /\ fresh # {}
               /\ CanStartAttempt(turns[s], e)
               /\ TL!Replace(s, StartAttemptTurn(procs[p].input, e, a))
               /\ used' = used \cup {a}
               /\ Set(p, [procs[p] EXCEPT !.pc = "register", !.attempt = a, !.owns = TRUE])
        <3>1. a \in Attempts /\ a \notin used \cup Compactions
            BY <2>4
        <3>2. /\ procs'[p].owns /\ procs'[p].attempt = a /\ procs'[p].session = s
              /\ \A q \in Procs \ {p} : procs'[q] = procs[q]
            BY <1>0, <2>4 DEF Set, TypeOK, Proc
        <3>3. \A q \in Procs : procs[q].owns => procs[q].attempt # a
            BY <3>1, OwnsEntry
        <3>4. Working' = [Working EXCEPT ![a] = s]
            <4> HIDE DEF a, fresh, s
            <4> QED BY <2>1, <3>1, <3>2, <3>3, ProcsApart, WorkingGains, WorkingProcs
        <3>5. Manager!StartAttempt(s, procs[p].input, e, a)
            <4> HIDE DEF a, fresh, s, e
            <4> QED BY <2>2, <2>4, <3>1, <3>4, ManagerOps, ManagerWrites DEF Manager!StartAttempt
        <3> QED BY <1>0, <3>1, <3>5 DEF Manager!Next, Manager!Admission, ManagerStep
    <2> QED BY <1>0, <1>1, <2>3, <2>4, LocalSteps DEF StartAttempt
<1>2. CASE Register(p)
    <2>1. UNCHANGED <<used, canceled, waits>>
        BY <1>2 DEF Register
    <2>2. CASE UNCHANGED turnVars /\ Moves(p)
        BY <2>1, <2>2, MovesOn DEF turnVars, ManagerStep, managerVars
    <2>3. CASE /\ TL!Apply(s, FinishAttemptResult(turns[s], procs[p].attempt))
               /\ Set(p, [procs[p] EXCEPT !.pc = "fail", !.err = "failed",
                                          !.owns = FALSE, !.attempt = Nil])
        <3>1. procs[p].owns /\ procs[p].pc # "confirm"
            BY <1>2, WorkersOwn DEF Register, At, WorkPcs
        <3>2. procs[p].attempt \in Attempts \ Compactions /\ Manager!Owns(procs[p].attempt, s)
            BY <1>2, <3>1, OwnsEntry, OwnsIt
               DEF CoordInv, AttemptSound, Register, At, CompactPcs
        <3>3. ~procs'[p].owns /\ \A q \in Procs \ {p} : procs'[q] = procs[q]
            BY <1>0, <2>3 DEF Set, TypeOK, Proc
        <3>4. Working' = [Working EXCEPT ![procs[p].attempt] = Nil]
            BY <3>1, <3>2, <3>3, ProcsApart, WorkingLoses, WorkingProcs
        <3>5. Manager!FinishAttempt(s, procs[p].attempt)
            BY <2>1, <2>3, <3>2, <3>4, ManagerOps, ManagerWrites DEF Manager!FinishAttempt
        <3> QED BY <1>0, <3>2, <3>5 DEF Manager!Next, Manager!OwnerStep, ManagerStep
    <2> QED BY <1>0, <1>2, <2>2, <2>3, LocalSteps DEF Register
<1> QED BY <1>1, <1>2

\* The end of an attempt, of Run and of its execution.
LEMMA EndSteps ==
    ASSUME Manager!IndInv, CoordInv, NEW p \in Procs,
           \/ FinishCanceled(p) \/ Retire(p) \/ FailExecution(p) \/ Return(p)
           \/ StopFailed(p) \/ Release(p) \/ Cleanup(p)
    PROVE  ManagerStep
<1> DEFINE s == procs[p].session
           a == procs[p].attempt
<1>0. /\ procs[p] \in Proc /\ TypeOK
      /\ s \in Sessions /\ procs[p].execution \in Executions
      /\ a \in Attempts \cup {Nil}
    BY WorkersOwn
       DEF FinishCanceled, Retire, FailExecution, Return, StopFailed, Release, Cleanup,
           At, RunPcs, TurnPcs, Proc, CoordInv
<1>1. CASE FinishCanceled(p) \/ Retire(p) \/ FailExecution(p)
    <2>1. Moves(p)
        BY <1>0, <1>1, LocalSteps DEF FinishCanceled, Retire, FailExecution
    <2>2. UNCHANGED <<used, Working, canceled, waits>>
        BY <1>1, <2>1, MovesOn DEF FinishCanceled, Retire, FailExecution
    <2> QED BY <1>0, <1>1, <2>2, FinishStep DEF FinishCanceled, Retire, FailExecution
<1>2. CASE Return(p)
    <2>1. UNCHANGED <<used, Working, canceled, waits>>
        BY <1>0, <1>2, LocalSteps, MovesOn DEF Return
    <2>2. CASE UNCHANGED turnVars
        BY <2>1, <2>2 DEF turnVars, ManagerStep, managerVars
    <2> QED BY <1>0, <1>2, <2>1, <2>2, FinishStep DEF Return
<1>3. CASE StopFailed(p)
    <2>1. UNCHANGED <<used, Working, canceled, waits>>
        BY <1>0, <1>3, LocalSteps, MovesOn DEF StopFailed
    <2>2. Manager!StopAttempt(s, a)
        BY <1>3, <2>1, ManagerOps, ManagerWrites DEF StopFailed, Manager!StopAttempt
    <2> QED BY <1>0, <2>2 DEF Manager!Next, Manager!Stop, ManagerStep
<1>4. CASE Release(p)
    <2>1. UNCHANGED <<used, canceled, waits>> /\ TL!Apply(s, FinishAttemptResult(turns[s], a))
        BY <1>4 DEF Release
    <2>2. ~procs'[p].owns /\ \A q \in Procs \ {p} : procs'[q] = procs[q]
        BY <1>0, <1>4 DEF Release, Set, TypeOK, Proc
    <2>3. CASE procs[p].owns
        <3>1. a \in Attempts \ Compactions /\ Manager!Owns(a, s)
            BY <1>4, <2>3, OwnsEntry, OwnsIt DEF CoordInv, AttemptSound, Release, At, CompactPcs
        <3>2. Working' = [Working EXCEPT ![a] = Nil]
            BY <2>2, <2>3, <3>1, ProcsApart, WorkingLoses, WorkingProcs
        <3>3. Manager!FinishAttempt(s, a)
            BY <2>1, <3>1, <3>2, ManagerOps, ManagerWrites DEF Manager!FinishAttempt
        <3> QED BY <1>0, <3>1, <3>3 DEF Manager!Next, Manager!OwnerStep, ManagerStep
    <2>4. CASE ~procs[p].owns
        <3>1. turns[s].attempt # a
            BY <1>0, <1>4, <2>4 DEF CoordInv, AttemptSound, Release, At, TurnPcs
        <3>2. TL!Apply(s, Kept(turns[s]))
            BY <2>1, <3>1 DEF FinishAttemptResult, matches
        <3>3. UNCHANGED <<turns, closed, outcome>>
            BY <1>0, <3>2, ApplyKept
        <3>4. Moves(p)
            BY <2>2, <2>4, <1>4, <1>0 DEF Moves, Release, Set, TypeOK, Proc
        <3> QED BY <2>1, <3>3, <3>4, MovesOn DEF ManagerStep, managerVars
    <2> QED BY <2>3, <2>4
<1>5. CASE Cleanup(p)
    <2>1. Moves(p)
        BY <1>0, <1>5, LocalSteps, SetMoves DEF Cleanup, Proc
    <2>2. UNCHANGED <<used, Working, canceled, waits>>
        BY <1>5, <2>1, MovesOn DEF Cleanup
    <2>3. CASE UNCHANGED turnVars
        BY <2>2, <2>3 DEF turnVars, ManagerStep, managerVars
    <2>4. CASE TL!Apply(s, StopAttemptResult(turns[s], Nil))
        <3>1. Manager!StopAttempt(s, Nil)
            BY <2>2, <2>4, ManagerOps, ManagerWrites DEF Manager!StopAttempt
        <3> QED BY <1>0, <3>1 DEF Manager!Next, Manager!Stop, ManagerStep
    <2> QED BY <1>5, <2>3, <2>4 DEF Cleanup
<1> QED BY <1>1, <1>2, <1>3, <1>4, <1>5

\* Compaction.
LEMMA CompactSteps ==
    ASSUME Manager!IndInv, CoordInv, NEW p \in Procs,
           StartCompact(p) \/ HandOff(p) \/ Reserve(p) \/ Compacted(p)
    PROVE  ManagerStep
<1> DEFINE s == procs[p].session
           e == procs[p].execution
           a == procs[p].attempt
<1>0. /\ procs[p] \in Proc /\ TypeOK /\ procs[p].input \in Input
      /\ s \in Sessions /\ e \in Executions \cup {Nil} /\ a \in Attempts \cup {Nil}
    BY WorkersOwn DEF CoordInv, StartCompact, HandOff, Reserve, Compacted, At, Proc
<1>1. CASE StartCompact(p)
    <2> DEFINE r == CHOOSE x \in Compactions \ used : TRUE
    <2>1. ~procs[p].owns
        BY <1>1, WorkersOwn DEF StartCompact, At, TurnPcs, CompactPcs
    <2>2. UNCHANGED <<canceled, waits>>
        BY <1>1 DEF StartCompact
    <2>3. CASE UNCHANGED <<turnVars, used>> /\ Moves(p)
        BY <2>2, <2>3, MovesOn DEF turnVars, ManagerStep, managerVars
    <2>4. CASE /\ CanCompact(turns[s], e) /\ Compactions \ used # {}
               /\ TL!Replace(s, CompactTurn(e, r))
               /\ used' = used \cup {r}
               /\ Set(p, [procs[p] EXCEPT !.pc = "summarize", !.attempt = r, !.owns = TRUE])
        <3>1. r \in Compactions \ used /\ r \in Attempts
            BY <2>4, ExecutionsAssumption
        <3>2. /\ procs'[p].owns /\ procs'[p].attempt = r /\ procs'[p].session = s
              /\ \A q \in Procs \ {p} : procs'[q] = procs[q]
            BY <1>0, <2>4 DEF Set, TypeOK, Proc
        <3>3. \A q \in Procs : procs[q].owns => procs[q].attempt # r
            BY <3>1, OwnsEntry
        <3>4. Working' = [Working EXCEPT ![r] = s]
            <4> HIDE DEF r, s
            <4> QED BY <2>1, <3>1, <3>2, <3>3, ProcsApart, WorkingGains, WorkingProcs
        <3>5. Manager!StartCompactRun(s, r, e)
            <4> HIDE DEF r, s, e
            <4> QED BY <2>2, <2>4, <3>1, <3>4, ManagerOps, ManagerWrites
                    DEF Manager!StartCompactRun
        <3> QED BY <1>0, <3>1, <3>5 DEF Manager!Next, Manager!Compaction, ManagerStep
    <2> QED BY <1>0, <1>1, <2>3, <2>4, LocalSteps DEF StartCompact
<1>2. ASSUME procs[p].owns, a \in Compactions, procs[p].pc # "confirm",
             ~procs'[p].owns, \A q \in Procs \ {p} : procs'[q] = procs[q],
             UNCHANGED <<used, canceled, waits>>,
             CanCompleteCompact(turns[s], a), TL!Apply(s, removeTurn(turns[s], TRUE))
      PROVE  ManagerStep
    <2>1. a \in Attempts /\ Manager!Owns(a, s)
        BY <1>2, OwnsEntry, OwnsIt
    <2>2. Working' = [Working EXCEPT ![a] = Nil]
        BY <1>2, <2>1, ProcsApart, WorkingLoses, WorkingProcs
    <2>3. Manager!CompleteCompactRun(s, a)
        BY <1>2, <2>1, <2>2, ManagerOps, ManagerWrites DEF Manager!CompleteCompactRun
    <2> QED BY <1>0, <2>1, <2>3 DEF Manager!Next, Manager!Compaction, ManagerStep
<1>3. CASE HandOff(p)
    <2>1. UNCHANGED <<used, canceled, waits>> /\ procs[p].pc = "handoff"
        BY <1>3 DEF HandOff, At
    <2>2. procs[p].owns /\ a \in Compactions
        BY <2>1 DEF CoordInv, AttemptSound, WorkPcs, CompactPcs
    <2>3. CASE CanCompleteCompact(turns[s], a)
        <3>1. ~procs'[p].owns /\ \A q \in Procs \ {p} : procs'[q] = procs[q]
            <4>1. procs' = [procs EXCEPT ![p] = [procs[p] EXCEPT !.pc = "reserve", !.owns = FALSE]]
                BY <1>3, <2>3 DEF HandOff, Set
            <4> QED BY <1>0, <4>1 DEF TypeOK, Proc
        <3> QED BY <1>2, <1>3, <2>1, <2>2, <2>3, <3>1 DEF HandOff
    <2>4. CASE ~CanCompleteCompact(turns[s], a)
        BY <1>0, <1>3, <2>1, <2>4, LocalSteps, MovesOn
           DEF HandOff, turnVars, ManagerStep, managerVars
    <2> QED BY <2>3, <2>4
<1>4. CASE Reserve(p)
    <2>1. Moves(p)
        BY <1>0, <1>4, LocalSteps, SetMoves DEF Reserve, Proc
    <2>2. UNCHANGED <<used, Working, canceled, waits>>
        BY <1>4, <2>1, MovesOn DEF Reserve
    <2>3. CASE UNCHANGED turnVars
        BY <2>2, <2>3 DEF turnVars, ManagerStep, managerVars
    <2>4. ASSUME NEW n \in Sessions \ opened, e # Nil,
                 TL!Replace(n, ReservedTurn(procs[p].input, e))
          PROVE  ManagerStep
        <3>1. Manager!ReserveExecution(n, procs[p].input, e)
            BY <2>2, <2>4, ManagerOps, ManagerWrites
               DEF Manager!ReserveExecution, CanReserve, CoordInv, EntriesSound
        <3>2. a \in Attempts /\ e \in Executions
            BY <1>0, <1>4, <2>4 DEF Reserve, At, CoordInv, AttemptSound, CompactPcs
        <3> QED BY <1>0, <2>4, <3>1, <3>2 DEF Manager!Next, Manager!Admission, ManagerStep
    <2> QED BY <1>4, <2>3, <2>4 DEF Reserve
<1>5. CASE Compacted(p)
    <2>1. UNCHANGED <<used, canceled, waits>> /\ procs[p].pc = "compacted"
        BY <1>5 DEF Compacted, At
    <2>2. a \in Compactions /\ a # Nil
        BY <1>0, <2>1, NilAssumption, ExecutionsAssumption DEF CoordInv, AttemptSound, CompactPcs
    <2>3. ~procs'[p].owns /\ \A q \in Procs \ {p} : procs'[q] = procs[q]
        <3> DEFINE left == [procs[p] EXCEPT !.attempt = Nil, !.owns = FALSE, !.next = Nil,
                                !.session = IF procs[p].next = Nil THEN @ ELSE procs[p].next]
        <3>1. left \in Proc /\ left.owns = FALSE
            BY <1>0 DEF Proc
        <3>2. PICK l : procs' = [procs EXCEPT ![p] = [left EXCEPT !.pc = l]]
            BY <1>5 DEF Compacted, Set
        <3> HIDE DEF left
        <3>3. [left EXCEPT !.pc = l].owns = left.owns
            BY <3>1 DEF Proc
        <3> QED BY <1>0, <3>1, <3>2, <3>3 DEF TypeOK
    <2>4. CASE procs[p].owns
        <3>1. CanCompleteCompact(turns[s], a)
            BY <2>2, <2>4, OwnsEntry DEF CoordInv, EntriesSound, CanCompleteCompact
        <3> QED BY <1>2, <1>5, <2>1, <2>2, <2>3, <2>4, <3>1 DEF Compacted
    <2>5. CASE ~procs[p].owns
        <3>1. turns[s].attempt # a
            BY <1>0, <2>1, <2>2, <2>5 DEF CoordInv, AttemptSound
        <3>2. UNCHANGED turnVars
            BY <1>5, <3>1 DEF Compacted, CanCompleteCompact
        <3>3. Moves(p)
            BY <2>3, <2>5 , <1>5, <1>0 DEF Moves, Compacted, Set, TypeOK, Proc
        <3> QED BY <2>1, <3>2, <3>3, MovesOn DEF turnVars, ManagerStep, managerVars
    <2> QED BY <2>4, <2>5
<1> QED BY <1>1, <1>3, <1>4, <1>5

\* The waits and the shutdown do the same by either name.
LEMMA ManagerWaits ==
    /\ TL!StopAll <=> Manager!StopAll
    /\ \A w : /\ TL!WaitReceive(w) <=> Manager!WaitReceive(w)
              /\ TL!WaitDone(w) <=> Manager!WaitDone(w)
              /\ TL!WaitComplete(w) <=> Manager!WaitComplete(w)
              /\ TL!WaitRefreshed(w) <=> Manager!WaitRefreshed(w)
              /\ TL!WaitExpires(w) <=> Manager!WaitExpires(w)
              /\ TL!WaitCanceled(w) <=> Manager!WaitCanceled(w)
<1>1. TL!StopAll <=> Manager!StopAll
    BY DEF TL!StopAll, Manager!StopAll, TL!Finished, Manager!Finished,
           Manager!StopSessionResult, TL!StopSessionResult, Manager!beginStopTurn, TL!beginStopTurn,
           Manager!removeTurn, TL!removeTurn, Manager!Kept, TL!Kept, Manager!NoTurn, TL!NoTurn
<1>2. ASSUME NEW w
      PROVE  /\ TL!WaitReceive(w) <=> Manager!WaitReceive(w)
             /\ TL!WaitDone(w) <=> Manager!WaitDone(w)
             /\ TL!WaitRefreshed(w) <=> Manager!WaitRefreshed(w)
    BY DEF TL!WaitReceive, Manager!WaitReceive, TL!WaitDone, Manager!WaitDone,
           TL!WaitRefreshed, Manager!WaitRefreshed
<1>3. ASSUME NEW w PROVE TL!WaitComplete(w) <=> Manager!WaitComplete(w)
    BY DEF TL!WaitComplete, Manager!WaitComplete, TL!WaitReturns, Manager!WaitReturns,
           TL!Apply, Manager!Apply, TL!Finished, Manager!Finished, Manager!IsCurrentRisk,
           TL!IsCurrentRisk, Manager!RiskAnsweredResult, TL!RiskAnsweredResult,
           Manager!beginStopTurn, TL!beginStopTurn, Manager!removeTurn, TL!removeTurn,
           Manager!Kept, TL!Kept, Manager!NoTurn, TL!NoTurn
<1>4. ASSUME NEW w PROVE TL!StopCurrentRisk(w) <=> Manager!StopCurrentRisk(w)
    BY DEF TL!StopCurrentRisk, Manager!StopCurrentRisk, TL!Apply, Manager!Apply,
           TL!Finished, Manager!Finished, Manager!IsCurrentRisk, TL!IsCurrentRisk,
           Manager!beginStopTurn, TL!beginStopTurn, Manager!removeTurn, TL!removeTurn,
           Manager!Kept, TL!Kept, Manager!NoTurn, TL!NoTurn
<1>5. ASSUME NEW w
      PROVE  /\ TL!WaitExpires(w) <=> Manager!WaitExpires(w)
             /\ TL!WaitCanceled(w) <=> Manager!WaitCanceled(w)
    BY <1>4 DEF TL!WaitExpires, Manager!WaitExpires, TL!WaitCanceled, Manager!WaitCanceled,
           TL!WaitReturns, Manager!WaitReturns, TL!IsCurrentRisk, Manager!IsCurrentRisk
<1> QED BY <1>1, <1>2, <1>3, <1>5

\* /stop, the observers, timeouts, the shutdown and the confirmation waits.
LEMMA StopSteps ==
    ASSUME Manager!IndInv, CoordInv,
           \/ \E p \in Procs : StopCommand(p)
           \/ \E a \in Attempts : Observe(a) \/ Timeout(a)
           \/ \E w \in Waits : WaitRisk(w)
           \/ BeginClose \/ Quiet
    PROVE  ManagerStep
<1>0. TypeOK
    BY DEF CoordInv
<1>1. ASSUME NEW p \in Procs, StopCommand(p) PROVE ManagerStep
    <2>1. UNCHANGED <<used, Working, canceled, waits>>
        BY <1>0, <1>1, LocalSteps, MovesOn DEF StopCommand
    <2>2. CASE Bound(p)
        <3>1. Manager!StopSession(procs[p].session)
            BY <1>1, <2>1, <2>2, ManagerOps, ManagerWrites DEF StopCommand, Manager!StopSession
        <3>2. procs[p].session \in Sessions
            BY <1>0, <2>2 DEF Bound, TypeOK
        <3> QED BY <3>1, <3>2 DEF Manager!Next, Manager!Stop, ManagerStep
    <2>3. CASE ~Bound(p)
        BY <1>1, <2>1, <2>3 DEF StopCommand, turnVars, ManagerStep, managerVars
    <2> QED BY <2>2, <2>3
<1>2. ASSUME UNCHANGED procs PROVE UNCHANGED Working
    BY <1>2, WorkingProcs
<1>3. ASSUME NEW a \in Attempts, ObserverChecks(a) PROVE ManagerStep
    BY <1>2, <1>3 DEF ObserverChecks, turnVars, ManagerStep, managerVars
<1>4. ASSUME NEW a \in Attempts, ObserverStops(a) PROVE ManagerStep
    <2>1. PICK p \in Procs : procs[p].attempt = a
        BY <1>4 DEF ObserverStops, CoordInv, ObserversOwned
    <2>2. \A q \in Procs : procs[q].attempt = a => procs[q].session \in Sessions
        BY WorkersOwn, NilAssumption DEF CoordInv, AttemptSound, PlaceSound, TypeOK,
           TurnPcs, CompactPcs
    <2>3. Home(a) \in Sessions
        <3>1. (CHOOSE q \in Procs : procs[q].attempt = a) \in Procs
              /\ procs[CHOOSE q \in Procs : procs[q].attempt = a].attempt = a
            BY <2>1
        <3> QED BY <2>2, <3>1 DEF Home
    <2>4. UNCHANGED <<used, Working, canceled, waits>>
        BY <1>2, <1>4 DEF ObserverStops
    <2>5. Manager!StopAttempt(Home(a), a)
        BY <1>4, <2>4, ManagerOps, ManagerWrites DEF ObserverStops, Manager!StopAttempt
    <2> QED BY <2>3, <2>5 DEF Manager!Next, Manager!Stop, ManagerStep
<1>5. ASSUME NEW a \in Attempts, Timeout(a) PROVE ManagerStep
    BY <1>2, <1>5, CancelStep DEF Timeout, turnVars
<1>6. CASE BeginClose
    <2>1. UNCHANGED <<used, Working, waits>>
        BY <1>2, <1>6 DEF BeginClose
    <2>2. CASE closing = 0
        <3> DEFINE all == UNION {Requests(s) : s \in {x \in Sessions : turns[x].phase # "idle"}}
        <3>1. all \in SUBSET reqs
            BY DEF Requests
        <3>2. canceled' = canceled \cup all /\ UNCHANGED <<turns, closed, outcome>>
            BY <1>6, <2>2 DEF BeginClose, turnVars
        <3> HIDE DEF all
        <3> QED BY <2>1, <3>1, <3>2, CancelStep
    <2>3. CASE closing = 1
        <3>1. TL!StopAll /\ UNCHANGED canceled
            BY <1>6, <2>3 DEF BeginClose
        <3>2. Manager!StopAll
            BY <3>1, ManagerWaits
        <3> QED BY <3>2 DEF Manager!Next, Manager!Stop, ManagerStep
    <2>4. CASE closing # 0 /\ closing # 1
        BY <1>6, <2>1, <2>4 DEF BeginClose, turnVars, ManagerStep, managerVars
    <2> QED BY <2>2, <2>3, <2>4
<1>7. ASSUME NEW w \in Waits, WaitRisk(w) PROVE ManagerStep
    <2>1. \/ Manager!WaitReceive(w) \/ Manager!WaitDone(w) \/ Manager!WaitComplete(w)
          \/ Manager!WaitRefreshed(w) \/ Manager!WaitExpires(w) \/ Manager!WaitCanceled(w)
        BY <1>7, ManagerWaits DEF WaitRisk
    <2> QED BY <2>1 DEF Manager!Next, Manager!WaiterStep, ManagerStep
<1>8. CASE Quiet
    BY <1>2, <1>8 DEF Quiet, vars, ManagerStep, managerVars
<1> QED BY <1>1, <1>3, <1>4, <1>5, <1>6, <1>7, <1>8 DEF Observe

\* The coordinator keeps to the manager's protocol.
LEMMA Simulation ==
    Manager!IndInv /\ CoordInv /\ [Next]_vars => [Manager!Next]_Manager!vars
<1> SUFFICES ASSUME Manager!IndInv, CoordInv, [Next]_vars PROVE ManagerStep
    BY DEF ManagerStep, managerVars, Manager!vars
<1>1. CASE UNCHANGED vars
    BY <1>1, WorkingProcs DEF vars, ManagerStep, managerVars
<1>2. ASSUME NEW p \in Procs, Step(p) PROVE ManagerStep
    BY <1>2, StepsApart, ArrivalSteps, CancelSteps, OwnerSteps, AdmitSteps, EndSteps,
       CompactSteps, StopSteps
       DEF Step, AcceptInput, Admit, Converse, Wind, Compact, ManagerStep
<1> QED BY <1>1, <1>2, StopSteps DEF Next

-----------------------------------------------------------------------------
(* What a step leaves to the others.                                        *)

\* An entry names the same attempt, or none.
Names(t, u) == u.attempt = Nil \/ (u.attempt = t.attempt /\ u.execution = t.execution)

\* A step of p as the other goroutines see it.
Alone(p) ==
    /\ \A q \in Procs \ {p} : procs'[q] = procs[q]
    /\ opened \subseteq opened' /\ used \subseteq used'
    /\ current' # current => gate = p /\ \A q \in Procs : ~procs[q].owns
    /\ gate' # gate => gate \in {Nil, p}
    /\ halted' # halted => gate = p
    /\ procs'[p].owns /\ ~procs[p].owns => gate = Nil
    /\ procs'[p].attempt \in {Nil, procs[p].attempt} \cup (Attempts \ used)
    /\ \A s \in Sessions : Names(turns[s], turns'[s]) \/ turns'[s].attempt = procs'[p].attempt
    /\ \A a \in Attempts : observers[a] = "off" => observers'[a] = "off" \/ a = procs'[p].attempt
    /\ \A w \in Waits : waits[w].stage # "unused" =>
         waits'[w].stage # "unused" /\ waits'[w].owner = waits[w].owner

\* What is known of the other goroutines stays so.
LEMMA OthersSound ==
    ASSUME CoordInv, NEW p \in Procs, Alone(p)
    PROVE  /\ AttemptsApart'
           /\ \A q \in Procs \ {p} : PlaceSound(q)' /\ AttemptSound(q)' /\ GateSound(q)'
<1>1. \A q \in Procs : procs[q] \in Proc /\ (procs[q].attempt # Nil => procs[q].attempt \in used)
    BY DEF CoordInv, TypeOK, AttemptSound
<1>2. AttemptsApart'
    BY <1>1 DEF CoordInv, AttemptsApart, Alone
<1>3. ASSUME NEW q \in Procs \ {p} PROVE PlaceSound(q)'
    BY DEF CoordInv, PlaceSound, Alone
<1>4. ASSUME NEW q \in Procs \ {p} PROVE AttemptSound(q)'
    <2>1. procs'[q] = procs[q] /\ AttemptSound(q) /\ procs[q].attempt \in Attempts \cup {Nil}
        BY <1>1 DEF CoordInv, Alone, Proc
    <2>2. procs[q].owns => Bound(q)'
        BY <2>1 DEF AttemptSound, Bound, Alone
    <2>3. procs[q].attempt # Nil => procs'[p].attempt # procs[q].attempt
        BY <1>2, <2>1 DEF AttemptsApart
    <2>4. /\ procs[q].attempt # Nil /\ procs[q].pc # "unregister" =>
               \A s \in Sessions : turns'[s].attempt = procs[q].attempt =>
                   /\ procs[q].owns /\ s = procs[q].session
                   /\ turns'[s].execution = procs[q].execution
          /\ procs[q].attempt \in used => procs[q].attempt \in used'
        BY <2>1, <2>3 DEF AttemptSound, Alone, Names
    <2>5. procs[q].pc = "confirm" => /\ waits'[procs[q].wait].stage # "unused"
                                     /\ waits'[procs[q].wait].owner = procs[q].attempt
        BY <2>1 DEF AttemptSound, Alone
    <2>6. procs[q].pc \in {"register", "settle", "retire", "stopped", "release", "unregister",
                           "compacted"} => observers'[procs[q].attempt] = "off"
        BY <2>1, <2>3 DEF AttemptSound, Alone, TurnPcs, CompactPcs
    <2> QED BY <2>1, <2>2, <2>4, <2>5, <2>6 DEF AttemptSound
<1>5. ASSUME NEW q \in Procs \ {p} PROVE GateSound(q)'
    <2>1. procs'[q] = procs[q] /\ GateSound(q)
        BY DEF CoordInv, Alone
    <2>2. gate = q => gate' = q
        BY ProcsAssumption DEF Alone
    <2>3. gate = q => current' = current /\ halted' = halted
        BY DEF Alone
    <2>4. gate = q /\ (\A x \in Procs : ~procs[x].owns) => \A x \in Procs : ~procs'[x].owns
        BY ProcsAssumption DEF Alone
    <2> QED BY <2>1, <2>2, <2>3, <2>4 DEF GateSound, Bound
<1> QED BY <1>2, <1>3, <1>4, <1>5

\* A step that no goroutine of the table takes.
LEMMA AllSound ==
    ASSUME CoordInv, UNCHANGED <<procs, gate, current, opened, used, halted>>,
           \A s \in Sessions : Names(turns[s], turns'[s]),
           \A a \in Attempts : observers[a] = "off" => observers'[a] = "off",
           \A w \in Waits : waits[w].stage # "unused" =>
               waits'[w].stage # "unused" /\ waits'[w].owner = waits[w].owner
    PROVE  /\ AttemptsApart'
           /\ \A q \in Procs : PlaceSound(q)' /\ AttemptSound(q)' /\ GateSound(q)'
<1>1. AttemptsApart'
    BY DEF CoordInv, AttemptsApart
<1>2. ASSUME NEW q \in Procs PROVE AttemptSound(q)'
    <2>1. AttemptSound(q) /\ procs[q].attempt \in Attempts \cup {Nil}
        BY DEF CoordInv, TypeOK, Proc
    <2>2. Bound(q)' <=> Bound(q)
        BY DEF Bound
    <2> QED BY <2>1, <2>2 DEF AttemptSound, Names, TurnPcs, CompactPcs
<1>3. ASSUME NEW q \in Procs PROVE PlaceSound(q)' /\ GateSound(q)'
    BY DEF CoordInv, PlaceSound, GateSound, Bound
<1> QED BY <1>1, <1>2, <1>3

\* Waits and observers as they stood, but for those of p.
LEMMA WaitsStay ==
    ASSUME WaitsOwned, NEW p \in Procs, \A q \in Procs \ {p} : procs'[q] = procs[q],
           procs[p].pc # "confirm",
           \A w \in Waits : waits'[w].stage \in {"waiting", "received"} =>
               \/ waits[w].stage \in {"waiting", "received"} /\ waits'[w].owner = waits[w].owner
               \/ /\ procs'[p].pc = "confirm" /\ procs'[p].wait = w
                  /\ procs'[p].attempt = waits'[w].owner
    PROVE  WaitsOwned'
BY DEF WaitsOwned

\* The same of the observers.
LEMMA ObserversStay ==
    ASSUME ObserversOwned, NEW p \in Procs, \A q \in Procs \ {p} : procs'[q] = procs[q],
           \A a \in Attempts : observers'[a] # "off" =>
               /\ observers[a] # "off" \/ procs'[p].attempt = a
               /\ procs[p].attempt = a => procs'[p].attempt = a
    PROVE  ObserversOwned'
BY DEF ObserversOwned

\* What is reserved keeps its runner.
LEMMA RunnersStay ==
    ASSUME ReservationsRun, NEW p \in Procs, \A q \in Procs \ {p} : procs'[q] = procs[q],
           \A s \in Sessions : turns'[s].reserved /\ turns'[s].phase = "llm" =>
               \/ RunsReserved(p, s)'
               \/ /\ turns[s].reserved /\ turns[s].phase = "llm"
                  /\ turns'[s].execution = turns[s].execution
                  /\ ~RunsReserved(p, s)
    PROVE  ReservationsRun'
<1> SUFFICES ASSUME NEW s \in Sessions, turns'[s].reserved, turns'[s].phase = "llm",
                    ~RunsReserved(p, s)'
             PROVE  \E q \in Procs : RunsReserved(q, s)'
    BY DEF ReservationsRun
<1>1. PICK q \in Procs : RunsReserved(q, s)
    BY DEF ReservationsRun
<1>2. q # p /\ procs'[q] = procs[q] /\ turns'[s].execution = turns[s].execution
    BY <1>1
<1>3. RunsReserved(q, s)'
    BY <1>1, <1>2 DEF RunsReserved
<1> QED BY <1>3

\* How an operation that admits nothing leaves an entry.
Ages(t, u) ==
    \/ u = t
    \/ u = NoTurn
    \/ /\ u.attempt = t.attempt /\ u.execution = t.execution
       /\ t.phase # "idle" /\ u.phase # "idle"
       /\ u.phase \in {"compact", "stopping"} \/ t.phase \notin {"compact", "stopping"}
       /\ ~(u.reserved /\ u.phase = "llm")

\* Such a step keeps what is known of the entries, and reserves nothing.
LEMMA AgesKeep ==
    ASSUME CoordInv, \A s \in Sessions : Ages(turns[s], turns'[s]),
           used \subseteq used', opened \subseteq opened'
    PROVE  /\ EntriesSound'
           /\ \A s \in Sessions : /\ Names(turns[s], turns'[s])
                                  /\ turns'[s].reserved /\ turns'[s].phase = "llm" =>
                                       turns'[s] = turns[s]
BY NilAssumption, ExecutionsAssumption DEF CoordInv, EntriesSound, Ages, Names, NoTurn

\* The operations that admit nothing.
LEMMA OpsAge ==
    ASSUME Manager!IndInv, CoordInv, NEW s \in Sessions
    PROVE  LET t == turns[s]
           IN  /\ \A b : Ages(t, removeTurn(t, b).turn)
               /\ Ages(t, StopSessionResult(t).turn)
               /\ \A a : Ages(t, StopAttemptResult(t, a).turn)
               /\ \A a : Ages(t, FinishAttemptResult(t, a).turn)
               /\ \A i : CanAppendPending(t) => Ages(t, AppendPendingTurn(t, i))
               /\ \A a, i : CanBeginAppend(t, a) => Ages(t, BeginAppendTurn(t, i))
               /\ \A a \in Attempts : Ages(t, DrainedTurn(t, a))
               /\ \A a : CanStartToolPhase(t, a) => Ages(t, [t EXCEPT !.phase = "tool"])
               /\ \A a, w : CanBeginRisk(t, a) => Ages(t, RiskTurn(t, w))
               /\ t.phase # "idle" => Ages(t, beginStopTurn(t).turn)
               /\ \A w : IsCurrentRisk(t, w) => Ages(t, RiskAnsweredResult(t).turn)
<1> DEFINE t == turns[s]
<1>0. t \in Turn /\ (t.reserved => t.attempt = Nil)
    BY ManagerTypes, ManagerEntries
<1> HIDE DEF t
<1>1. \A b : removeTurn(t, b).turn = NoTurn
    BY DEF removeTurn
<1>2. ASSUME t.phase # "idle" PROVE Ages(t, beginStopTurn(t).turn)
    BY <1>0, <1>1, <1>2 DEF beginStopTurn, Ages, Turn
<1>3. Ages(t, StopSessionResult(t).turn) /\ \A a : Ages(t, StopAttemptResult(t, a).turn)
    BY <1>2 DEF StopSessionResult, StopAttemptResult, Kept, matches, Ages
<1>4. \A a : Ages(t, FinishAttemptResult(t, a).turn)
    BY <1>0, <1>1 DEF FinishAttemptResult, finishAttempt, Kept, matches, Ages, Turn
<1>5. /\ \A i : CanAppendPending(t) => Ages(t, AppendPendingTurn(t, i))
      /\ \A a, i : CanBeginAppend(t, a) => Ages(t, BeginAppendTurn(t, i))
    BY <1>0 DEF CanAppendPending, AppendPendingTurn, CanBeginAppend, BeginAppendTurn, matches,
                Ages, Turn
<1>6. \A a \in Attempts : Ages(t, DrainedTurn(t, a))
    BY <1>0, NilAssumption DEF DrainedTurn, matches, Ages, Turn
<1>7. /\ \A a : CanStartToolPhase(t, a) => Ages(t, [t EXCEPT !.phase = "tool"])
      /\ \A a, w : CanBeginRisk(t, a) => Ages(t, RiskTurn(t, w))
    BY <1>0 DEF CanStartToolPhase, CanBeginRisk, RiskTurn, matches, Ages, Turn
<1>8. \A w : IsCurrentRisk(t, w) => Ages(t, RiskAnsweredResult(t).turn)
    BY <1>0 DEF IsCurrentRisk, RiskAnsweredResult, Ages, Turn
<1> QED BY <1>1, <1>2, <1>3, <1>4, <1>5, <1>6, <1>7, <1>8 DEF Ages, t

\* One entry is written.
LEMMA OneAges ==
    ASSUME CoordInv, NEW s \in Sessions, NEW u, turns' = [turns EXCEPT ![s] = u],
           Ages(turns[s], u)
    PROVE  \A x \in Sessions : Ages(turns[x], turns'[x])
BY DEF CoordInv, TypeOK, Ages

\* The same, for an operation's result and for a replaced entry.
LEMMA WritesAge ==
    ASSUME CoordInv, NEW s \in Sessions
    PROVE  /\ \A res : TL!Apply(s, res) /\ Ages(turns[s], res.turn) =>
                         \A x \in Sessions : Ages(turns[x], turns'[x])
           /\ \A u : TL!Replace(s, u) /\ Ages(turns[s], u) =>
                         \A x \in Sessions : Ages(turns[x], turns'[x])
BY OneAges DEF TL!Apply, TL!Replace

\* The manager's part after a step.
LEMMA NextManager ==
    ASSUME Manager!IndInv, CoordInv, [Next]_vars
    PROVE  /\ turns' \in [Sessions -> Turn] /\ used' \subseteq Attempts
           /\ waits' \in [Waits -> TL!Wait]
<1>1. Manager!IndInv'
    BY Simulation, ManagerKeeps
<1> QED BY <1>1 DEF Manager!IndInv, Manager!TypeOK, Manager!Turn, Turn, Manager!Phases, Phases,
                    Manager!Input, Input, Manager!Wait, TL!Wait

-----------------------------------------------------------------------------
(* The coordinator's invariant, step by step.                               *)

\* What a goroutine has from one step to the next.
Agrees(r, q) == /\ r.session = q.session /\ r.next = q.next
                /\ r.execution = q.execution /\ r.attempt = q.attempt
                /\ r.owns = q.owns /\ r.wait = q.wait

\* p is at l, with all it had.
Moved(p, l) == /\ procs' \in [Procs -> Proc] /\ \A q \in Procs \ {p} : procs'[q] = procs[q]
               /\ procs'[p].pc = l /\ Agrees(procs'[p], procs[p])

\* A goroutine set to a record that agrees with it has only moved.
LEMMA SetMoved ==
    ASSUME TypeOK, NEW p \in Procs, NEW r \in Proc, Set(p, r), Agrees(r, procs[p])
    PROVE  Moved(p, r.pc)
BY DEF TypeOK, Set, Moved

\* The ways in which the code's steps move a goroutine.
LEMMA Shapes ==
    ASSUME TypeOK, NEW p \in Procs
    PROVE  /\ \A l \in Pcs : Goto(p, l) => Moved(p, l) /\ procs'[p].input = procs[p].input
           /\ \A err \in Errors : /\ \A told \in {"none", "queued", "append", "answer", "ran"} :
                                       Leave(p, err, told) => Moved(p, "done")
                                  /\ Fail(p, err) => Moved(p, "fail")
                                  /\ End(p, err) => /\ Moved(p, "unobserve")
                                                    /\ procs'[p].input = << >>
                                  /\ EndCompact(p, err) => Moved(p, "uncompact")
<1>0. procs \in [Procs -> Proc] /\ procs[p] \in Proc
    BY DEF TypeOK
<1>1. ASSUME NEW l \in Pcs, Goto(p, l) PROVE Moved(p, l) /\ procs'[p].input = procs[p].input
    BY <1>0, <1>1 DEF Goto, Set, Moved, Agrees, Proc
<1>2. ASSUME NEW err \in Errors, NEW told \in {"none", "queued", "append", "answer", "ran"},
             Leave(p, err, told)
      PROVE  Moved(p, "done")
    <2>1. << >> \in Input /\ "done" \in Pcs
        BY DEF Input, Pcs
    <2>2. NoSnapshot \in [phase : Phases, attempt : Attempts \cup {Nil}, done : Attempts \cup {Nil}]
        BY DEF NoSnapshot, Phases
    <2> DEFINE r == [procs[p] EXCEPT !.pc = "done", !.err = err, !.told = told,
                                     !.input = << >>, !.seen = NoSnapshot]
    <2>3. r \in Proc
        BY <1>0, <2>1, <2>2 DEF Proc
    <2>4. Agrees(r, procs[p]) /\ r.pc = "done"
        BY <1>0 DEF Proc, Agrees
    <2>5. Set(p, r)
        BY <1>2 DEF Leave
    <2> HIDE DEF r
    <2> QED BY <2>3, <2>4, <2>5, SetMoved
<1>3. ASSUME NEW err \in Errors
      PROVE  /\ Fail(p, err) => Moved(p, "fail")
             /\ EndCompact(p, err) => Moved(p, "uncompact")
    <2>1. "fail" \in Pcs /\ "uncompact" \in Pcs
        BY DEF Pcs
    <2>2. Fail(p, err) => Moved(p, "fail")
        <3> DEFINE r == [procs[p] EXCEPT !.pc = "fail", !.err = err]
        <3>1. r \in Proc
            BY <1>0, <2>1 DEF Proc
        <3>2. Agrees(r, procs[p]) /\ r.pc = "fail"
            BY <1>0 DEF Proc, Agrees
        <3> HIDE DEF r
        <3>3. Set(p, r) => Moved(p, "fail")
            BY <3>1, <3>2, SetMoved
        <3> QED BY <3>3 DEF Fail, r
    <2>3. EndCompact(p, err) => Moved(p, "uncompact")
        <3> DEFINE r == [procs[p] EXCEPT !.pc = "uncompact", !.err = err]
        <3>1. r \in Proc
            BY <1>0, <2>1 DEF Proc
        <3>2. Agrees(r, procs[p]) /\ r.pc = "uncompact"
            BY <1>0 DEF Proc, Agrees
        <3> HIDE DEF r
        <3>3. Set(p, r) => Moved(p, "uncompact")
            BY <3>1, <3>2, SetMoved
        <3> QED BY <3>3 DEF EndCompact, r
    <2> QED BY <2>2, <2>3
<1>4. ASSUME NEW err \in Errors, End(p, err)
      PROVE  Moved(p, "unobserve") /\ procs'[p].input = << >>
    <2>1. << >> \in Input /\ "unobserve" \in Pcs
        BY DEF Input, Pcs
    <2> QED BY <1>0, <1>4, <2>1 DEF End, Set, Moved, Agrees, Proc
<1> QED BY <1>1, <1>2, <1>3, <1>4

\* A step of p that admits nothing: what is left to show is about p.
LEMMA Walk ==
    ASSUME Manager!IndInv, CoordInv, [Next]_vars, NEW p \in Procs,
           procs' \in [Procs -> Proc], \A q \in Procs \ {p} : procs'[q] = procs[q],
           UNCHANGED <<used, current, opened, halted>>,
           reqs' \subseteq reqs, canceled \subseteq canceled',
           gate' \in Procs \cup {Nil}, gate' # gate => gate \in {Nil, p},
           \A s \in Sessions : Ages(turns[s], turns'[s]),
           \A w \in Waits : waits'[w].stage = waits[w].stage /\ waits'[w].owner = waits[w].owner,
           observers' \in [Attempts -> {"off", "armed", "checked"}],
           \A a \in Attempts : observers[a] = "off" => observers'[a] = "off",
           \/ procs'[p].attempt = procs[p].attempt
           \/ procs'[p].attempt = Nil /\ observers'[procs[p].attempt] = "off",
           procs'[p].owns => procs[p].owns,
           procs[p].pc = "confirm" => waits[procs[p].wait].stage = "returned",
           \A s \in Sessions : turns[s].reserved /\ turns[s].phase = "llm" /\ turns'[s] = turns[s] =>
               \/ RunsReserved(p, s)' \/ ~RunsReserved(p, s),
           PlaceSound(p)', AttemptSound(p)', GateSound(p)'
    PROVE  CoordInv'
<1>1. /\ EntriesSound'
      /\ \A s \in Sessions : /\ Names(turns[s], turns'[s])
                             /\ turns'[s].reserved /\ turns'[s].phase = "llm" =>
                                   turns'[s] = turns[s]
    BY AgesKeep
<1>2. TypeOK'
    BY NextManager DEF CoordInv, TypeOK
<1>3. Alone(p)
    BY <1>1 DEF Alone
<1>4. AttemptsApart' /\ \A q \in Procs : PlaceSound(q)' /\ AttemptSound(q)' /\ GateSound(q)'
    BY <1>3, OthersSound
<1>5. WaitsOwned'
    BY DEF CoordInv, WaitsOwned
<1>6. ObserversOwned'
    BY ObserversStay DEF CoordInv, TypeOK
<1>7. ReservationsRun'
    BY <1>1, RunnersStay DEF CoordInv
<1>8. halted' \subseteq canceled'
    BY DEF CoordInv
<1> QED BY <1>1, <1>2, <1>4, <1>5, <1>6, <1>7, <1>8 DEF CoordInv

\* The same, and p only goes on to l.
LEMMA WalkOn ==
    ASSUME Manager!IndInv, CoordInv, [Next]_vars, NEW p \in Procs, NEW l, Moved(p, l),
           UNCHANGED <<used, current, opened, halted, reqs>>, canceled \subseteq canceled',
           gate' \in Procs \cup {Nil}, gate' # gate => gate \in {Nil, p},
           \A s \in Sessions : Ages(turns[s], turns'[s]),
           \A w \in Waits : waits'[w].stage = waits[w].stage /\ waits'[w].owner = waits[w].owner,
           observers' \in [Attempts -> {"off", "armed", "checked"}],
           \A a \in Attempts : observers[a] = "off" => observers'[a] = "off",
           procs[p].pc \notin {"confirm", "new", "unregister"}, l # "new" /\ l # "confirm",
           l \in {"accept", "dispatch", "cancel"} => p \in Messages,
           l = "join" => p \in Messages \cup Resumers, l = "resume" => p \in Resumers,
           l \in RunPcs => procs[p].execution # Nil,
           l \in TurnPcs <=> procs[p].pc \in TurnPcs,
           l \in CompactPcs <=> procs[p].pc \in CompactPcs,
           l \in WorkPcs => procs[p].pc \in WorkPcs, l \notin {"unregister", "reserve"},
           l \in {"register", "settle", "retire", "stopped", "release", "compacted"} =>
               observers'[procs[p].attempt] = "off",
           l \in {"dispatch", "cancel", "stopreq", "register", "handoff"} => gate' = p,
           l = "handoff" => Bound(p) /\ procs[p].attempt \notin halted,
           \A s \in Sessions : turns[s].reserved /\ turns[s].phase = "llm" /\ turns'[s] = turns[s] =>
               \/ RunsReserved(p, s)' \/ ~RunsReserved(p, s)
    PROVE  CoordInv'
<1>1. PlaceSound(p) /\ AttemptSound(p) /\ GateSound(p)
    BY DEF CoordInv
<1>2. PlaceSound(p)'
    BY <1>1 DEF Moved, Agrees, PlaceSound
<1>3. AttemptSound(p)'
    <2>1. \A s \in Sessions : Names(turns[s], turns'[s])
        BY AgesKeep
    <2>2. Bound(p)' <=> Bound(p)
        BY DEF Bound, Moved, Agrees
    <2> QED BY <1>1, <2>1, <2>2 DEF Moved, Agrees, AttemptSound, Names
<1>4. GateSound(p)'
    BY <1>1 DEF Moved, Agrees, GateSound, Bound
<1> QED BY <1>2, <1>3, <1>4, Walk DEF Moved, Agrees

\* The same, and nothing but p's place and the gate changes.
LEMMA Stroll ==
    ASSUME Manager!IndInv, CoordInv, [Next]_vars, NEW p \in Procs, NEW l, Moved(p, l),
           UNCHANGED <<turns, used, canceled, waits, current, opened, reqs, observers, halted>>,
           gate' \in Procs \cup {Nil}, gate' # gate => gate \in {Nil, p},
           procs[p].pc \notin {"confirm", "new", "unregister"}, l # "new" /\ l # "confirm",
           l \in {"accept", "dispatch", "cancel"} => p \in Messages,
           l = "join" => p \in Messages \cup Resumers, l = "resume" => p \in Resumers,
           l \in RunPcs => procs[p].execution # Nil,
           l \in TurnPcs <=> procs[p].pc \in TurnPcs,
           l \in CompactPcs <=> procs[p].pc \in CompactPcs,
           l \in WorkPcs => procs[p].pc \in WorkPcs, l \notin {"unregister", "reserve"},
           l \in {"register", "settle", "compacted"} => observers[procs[p].attempt] = "off",
           l \in {"retire", "stopped", "release"} =>
               procs[p].pc \in {"settle", "retire", "stopped", "release"},
           l \in {"dispatch", "cancel", "stopreq", "register", "handoff"} => gate' = p,
           l = "handoff" => Bound(p) /\ procs[p].attempt \notin halted,
           \A s \in Sessions : turns[s].reserved /\ turns[s].phase = "llm" =>
               \/ RunsReserved(p, s)' \/ ~RunsReserved(p, s)
    PROVE  CoordInv'
<1>1. \A s \in Sessions : Ages(turns[s], turns'[s])
    BY DEF Ages
<1>2. observers' \in [Attempts -> {"off", "armed", "checked"}]
    BY DEF CoordInv, TypeOK
<1>3. l \in {"register", "settle", "retire", "stopped", "release", "compacted"} =>
               observers'[procs[p].attempt] = "off"
    BY DEF CoordInv, AttemptSound
<1>4. \A w \in Waits : waits'[w].stage = waits[w].stage /\ waits'[w].owner = waits[w].owner
    OBVIOUS
<1> QED BY <1>1, <1>2, <1>3, <1>4, WalkOn

\* AcceptInput up to the dispatch, and the waits for an attempt's end.
LEMMA EnterInputKeeps ==
    ASSUME Manager!IndInv, CoordInv, [Next]_vars, NEW p \in Procs, EnterInput(p)
    PROVE  CoordInv'
<1>0. /\ TypeOK /\ procs[p] \in Proc /\ procs[p].pc = "accept" /\ gate = Nil /\ p \in Messages
      /\ UNCHANGED <<turns, used, canceled, waits, current, opened, reqs, observers, halted>>
    BY DEF CoordInv, TypeOK, PlaceSound, EnterInput, At, turnVars, ghosts
<1>1. ASSUME NEW s \in Sessions PROVE ~RunsReserved(p, s)
    BY <1>0 DEF RunsReserved
<1>2. CASE Leave(p, "refused", "none") /\ UNCHANGED gate
    <2>1. Moved(p, "done")
        BY <1>0, <1>2, Shapes DEF Errors
    <2> QED BY <1>0, <1>1, <1>2, <2>1, Stroll DEF TurnPcs, CompactPcs, WorkPcs, RunPcs
<1>3. CASE /\ gate' = p
           /\ Set(p, [procs[p] EXCEPT !.pc = "dispatch",
                        !.seen = [phase   |-> turns[procs[p].session].phase,
                                  attempt |-> turns[procs[p].session].attempt,
                                  done    |-> turns[procs[p].session].attemptDone]])
    <2> DEFINE t == turns[procs[p].session]
               r == [procs[p] EXCEPT !.pc = "dispatch",
                       !.seen = [phase |-> t.phase, attempt |-> t.attempt, done |-> t.attemptDone]]
    <2>1. t \in Turn
        BY <1>0, WorkersOwn, ManagerTypes
    <2>2. r \in Proc /\ Agrees(r, procs[p]) /\ r.pc = "dispatch"
        <3>1. "dispatch" \in Pcs
            BY DEF Pcs
        <3>2. [phase |-> t.phase, attempt |-> t.attempt, done |-> t.attemptDone]
                \in [phase : Phases, attempt : Attempts \cup {Nil}, done : Attempts \cup {Nil}]
            BY <2>1 DEF Turn
        <3>3. r \in Proc
            <4> HIDE DEF t
            <4> QED BY <1>0, <3>1, <3>2 DEF Proc
        <3>4. Agrees(r, procs[p]) /\ r.pc = "dispatch"
            <4> HIDE DEF t
            <4> QED BY <1>0 DEF Proc, Agrees
        <3> QED BY <3>3, <3>4
    <2>3. Set(p, r)
        BY <1>3
    <2>4. Moved(p, "dispatch")
        <3> HIDE DEF r
        <3> QED BY <1>0, <2>2, <2>3, SetMoved
    <2>5. gate' = p
        BY <1>3
    <2> HIDE DEF r, t
    <2> QED BY <1>0, <1>1, <2>4, <2>5, Stroll DEF TurnPcs, CompactPcs, WorkPcs, RunPcs
<1> QED BY <1>2, <1>3 DEF EnterInput

\* The wait for the attempt's end, answered or shut down.
LEMMA JoinKeeps ==
    ASSUME Manager!IndInv, CoordInv, [Next]_vars, NEW p \in Procs, Join(p)
    PROVE  CoordInv'
<1>0. /\ TypeOK /\ procs[p] \in Proc /\ procs[p].pc = "join" /\ p \in Messages \cup Resumers
      /\ gate \in Procs \cup {Nil} /\ UNCHANGED gate
      /\ UNCHANGED <<turns, used, canceled, waits, current, opened, reqs, observers, halted>>
    BY DEF CoordInv, TypeOK, PlaceSound, Join, At, turnVars, scopeVars, ghosts
<1>1. ASSUME NEW s \in Sessions PROVE ~RunsReserved(p, s)
    BY <1>0 DEF RunsReserved
<1>2. CASE Leave(p, "canceled", "none")
    <2>1. Moved(p, "done")
        BY <1>0, <1>2, Shapes DEF Errors
    <2> QED BY <1>0, <1>1, <2>1, Stroll DEF TurnPcs, CompactPcs, WorkPcs, RunPcs
<1>3. CASE ~Leave(p, "canceled", "none")
    <2> DEFINE l == IF p \in Resumers THEN "resume" ELSE "accept"
               r == [procs[p] EXCEPT !.seen = NoSnapshot, !.pc = l]
    <2>1. l \in Pcs /\ l \in {"resume", "accept"} /\ (l = "accept" => p \in Messages)
          /\ (l = "resume" => p \in Resumers)
        BY <1>0 DEF Pcs
    <2>2. NoSnapshot \in [phase : Phases, attempt : Attempts \cup {Nil}, done : Attempts \cup {Nil}]
        BY DEF NoSnapshot, Phases
    <2>3. Set(p, r)
        BY <1>3 DEF Join
    <2>4. Moved(p, l)
        <3> HIDE DEF l
        <3>1. r \in Proc /\ Agrees(r, procs[p]) /\ r.pc = l
            BY <1>0, <2>1, <2>2 DEF Proc, Agrees
        <3> HIDE DEF r
        <3> QED BY <1>0, <2>3, <3>1, SetMoved
    <2> HIDE DEF l
    <2> QED BY <1>0, <1>1, <2>1, <2>4, Stroll DEF TurnPcs, CompactPcs, WorkPcs, RunPcs
<1> QED BY <1>2, <1>3

\* The steps of Run that change the goroutine only.
LEMMA RunKeeps ==
    ASSUME Manager!IndInv, CoordInv, [Next]_vars, NEW p \in Procs,
           \/ EnterTurn(p) \/ PlanCompaction(p) \/ FailExecution(p) \/ Return(p) \/ Retire(p)
    PROVE  CoordInv'
<1>0. /\ TypeOK /\ procs[p] \in Proc /\ gate \in Procs \cup {Nil} /\ UNCHANGED gate
      /\ UNCHANGED <<turns, used, canceled, waits, current, opened, reqs, observers, halted>>
      /\ procs[p].execution # Nil
    BY WorkersOwn, NilAssumption
       DEF CoordInv, TypeOK, EnterTurn, PlanCompaction, FailExecution, Return, Retire, Finish,
           At, RunPcs, TurnPcs, turnVars, scopeVars, ghosts
<1>1. CASE EnterTurn(p)
    <2>1. procs[p].pc = "enter" /\ (Moved(p, "fail") \/ Moved(p, "plan"))
        BY <1>0, <1>1, Shapes DEF EnterTurn, At, TurnRefusal, Errors, Pcs
    <2>2. ASSUME NEW s \in Sessions PROVE RunsReserved(p, s)' \/ ~RunsReserved(p, s)
        BY <1>0, <2>1 DEF RunsReserved, Moved, Agrees
    <2> QED BY <1>0, <2>1, <2>2, Stroll DEF TurnPcs, CompactPcs, WorkPcs, RunPcs
<1>2. CASE PlanCompaction(p)
    <2>1. procs[p].pc = "plan" /\ (Moved(p, "start") \/ Moved(p, "compact"))
        BY <1>0, <1>2, Shapes DEF PlanCompaction, At, Pcs
    <2>2. ASSUME NEW s \in Sessions PROVE RunsReserved(p, s)' \/ ~RunsReserved(p, s)
        BY <1>0, <2>1 DEF RunsReserved, Moved, Agrees
    <2> QED BY <1>0, <2>1, <2>2, Stroll DEF TurnPcs, CompactPcs, WorkPcs, RunPcs
<1>3. CASE FailExecution(p)
    <2>1. procs[p].pc = "fail" /\ Moved(p, "cleanup")
        BY <1>0, <1>3, Shapes DEF FailExecution, At, Pcs
    <2>2. ASSUME NEW s \in Sessions PROVE RunsReserved(p, s)' \/ ~RunsReserved(p, s)
        BY <1>0, <2>1 DEF RunsReserved, Moved, Agrees
    <2> QED BY <1>0, <2>1, <2>2, Stroll DEF TurnPcs, CompactPcs, WorkPcs, RunPcs
<1>4. CASE Return(p)
    <2>1. procs[p].pc = "return" /\ Moved(p, "done")
        BY <1>0, <1>4, Shapes DEF Return, At, Errors
    <2>2. ASSUME NEW s \in Sessions PROVE ~RunsReserved(p, s)
        BY <2>1 DEF RunsReserved
    <2> QED BY <1>0, <2>1, <2>2, Stroll DEF TurnPcs, CompactPcs, WorkPcs, RunPcs
<1>5. CASE Retire(p)
    <2>1. procs[p].pc = "retire" /\ Moved(p, "stopped") /\ procs'[p].input = procs[p].input
        BY <1>0, <1>5, Shapes DEF Retire, At, Pcs
    <2>2. ASSUME NEW s \in Sessions PROVE RunsReserved(p, s)' \/ ~RunsReserved(p, s)
        BY <1>0, <2>1 DEF RunsReserved, Moved, Agrees
    <2> QED BY <1>0, <2>1, <2>2, Stroll DEF TurnPcs, CompactPcs, WorkPcs, RunPcs
<1> QED BY <1>1, <1>2, <1>3, <1>4, <1>5

\* The dialogue's steps that change the goroutine only.
LEMMA TalkKeeps ==
    ASSUME Manager!IndInv, CoordInv, [Next]_vars, NEW p \in Procs,
           \/ PrepareTurn(p) \/ ModelEnds(p) \/ CommitReply(p) \/ ContextDone(p)
           \/ FinishCanceled(p)
    PROVE  CoordInv'
<1>0. /\ TypeOK /\ procs[p] \in Proc /\ gate \in Procs \cup {Nil} /\ UNCHANGED gate
      /\ UNCHANGED <<turns, used, canceled, waits, current, opened, reqs, observers, halted>>
      /\ procs[p].execution # Nil
      /\ procs[p].pc \in {"prepare", "llm", "tools", "reply", "ctxdone", "finish"}
    BY WorkersOwn, NilAssumption
       DEF CoordInv, TypeOK, PrepareTurn, ModelEnds, CommitReply, ContextDone, FinishCanceled,
           Finish, Talking, At, RunPcs, TurnPcs, turnVars, scopeVars, ghosts
<1>1. ASSUME NEW s \in Sessions PROVE ~RunsReserved(p, s)
    BY <1>0 DEF RunsReserved
<1>2. \E l \in {"unobserve", "llm", "ctxdone", "reply", "complete", "finish"} : Moved(p, l)
    BY <1>0, Shapes DEF PrepareTurn, ModelEnds, CommitReply, ContextDone, FinishCanceled, Errors, Pcs
<1> QED BY <1>0, <1>1, <1>2, Stroll DEF TurnPcs, CompactPcs, WorkPcs, RunPcs

\* The summary and its commit.
LEMMA SummaryKeeps ==
    ASSUME Manager!IndInv, CoordInv, [Next]_vars, NEW p \in Procs,
           Summarize(p) \/ CommitCompact(p)
    PROVE  CoordInv'
<1>0. /\ TypeOK /\ procs[p] \in Proc /\ gate \in Procs \cup {Nil}
      /\ UNCHANGED <<turns, used, canceled, waits, current, opened, reqs, observers, halted>>
      /\ procs[p].pc \in {"summarize", "commit"} /\ halted \subseteq canceled
    BY DEF CoordInv, TypeOK, Summarize, CommitCompact, At, turnVars, scopeVars, ghosts
<1>1. ASSUME NEW s \in Sessions PROVE ~RunsReserved(p, s)
    BY <1>0 DEF RunsReserved
<1>2. CASE Summarize(p)
    <2>1. UNCHANGED gate /\ \E l \in {"commit", "uncompact"} : Moved(p, l)
        BY <1>0, <1>2, Shapes DEF Summarize, scopeVars, Errors, Pcs
    <2> QED BY <1>0, <1>1, <2>1, Stroll DEF TurnPcs, CompactPcs, WorkPcs, RunPcs
<1>3. CASE CommitCompact(p)
    <2>1. \/ UNCHANGED gate /\ Moved(p, "uncompact")
          \/ /\ gate = Nil /\ gate' = p /\ Moved(p, "handoff")
             /\ Bound(p) /\ procs[p].attempt \notin canceled
        BY <1>0, <1>3, Shapes DEF CommitCompact, Errors, Pcs
    <2> QED BY <1>0, <1>1, <2>1, Stroll DEF TurnPcs, CompactPcs, WorkPcs, RunPcs
<1> QED BY <1>2, <1>3

\* The verdict on the attempt's error, and a start that was refused.
LEMMA VerdictKeeps ==
    ASSUME Manager!IndInv, CoordInv, [Next]_vars, NEW p \in Procs, Settle(p) \/ Recheck(p)
    PROVE  CoordInv'
<1>0. /\ TypeOK /\ procs[p] \in Proc /\ gate \in Procs \cup {Nil} /\ UNCHANGED gate
      /\ UNCHANGED <<turns, used, canceled, waits, current, opened, reqs, observers, halted>>
      /\ procs[p].execution # Nil
    BY WorkersOwn, NilAssumption
       DEF CoordInv, TypeOK, Settle, Recheck, At, RunPcs, TurnPcs, turnVars, scopeVars, ghosts
<1>1. CASE Settle(p)
    <2> DEFINE r == [procs[p] EXCEPT !.pc = "release", !.err = "none"]
    <2>1. r \in Proc /\ Agrees(r, procs[p]) /\ r.pc = "release" /\ r.input = procs[p].input
        <3>1. "release" \in Pcs /\ "none" \in Errors
            BY DEF Pcs, Errors
        <3>2. r \in Proc
            BY <1>0, <3>1 DEF Proc
        <3>3. Agrees(r, procs[p]) /\ r.pc = "release" /\ r.input = procs[p].input
            BY <1>0 DEF Proc, Agrees
        <3> QED BY <3>2, <3>3
    <2>2. Set(p, r) => Moved(p, "release") /\ procs'[p] = r
        <3> HIDE DEF r
        <3> QED BY <1>0, <2>1, SetMoved DEF Set, TypeOK
    <2>3. /\ procs[p].pc = "settle" /\ procs'[p].input = procs[p].input
          /\ Moved(p, "release") \/ Moved(p, "retire")
        <3>1. Goto(p, "release") \/ Goto(p, "retire") \/ Set(p, r)
            BY <1>1 DEF Settle
        <3>2. procs[p].pc = "settle"
            BY <1>1 DEF Settle, At
        <3> HIDE DEF r
        <3> QED BY <1>0, <2>1, <2>2, <3>1, <3>2, Shapes DEF Pcs
    <2>4. ASSUME NEW s \in Sessions PROVE RunsReserved(p, s)' \/ ~RunsReserved(p, s)
        BY <1>0, <2>3 DEF RunsReserved, Moved, Agrees
    <2> QED BY <1>0, <2>3, <2>4, Stroll DEF TurnPcs, CompactPcs, WorkPcs, RunPcs
<1>2. CASE Recheck(p)
    <2> DEFINE r == [procs[p] EXCEPT !.pc = "return", !.input = << >>]
    <2>1. r \in Proc /\ Agrees(r, procs[p]) /\ r.pc = "return"
        <3>1. << >> \in Input
            BY DEF Input
        <3> QED BY <1>0, <3>1 DEF Proc, Pcs, Agrees
    <2>2. Set(p, r) => Moved(p, "return")
        <3> HIDE DEF r
        <3> QED BY <1>0, <2>1, SetMoved
    <2>3. procs[p].pc = "recheck" /\ (Moved(p, "return") \/ Moved(p, "fail"))
        BY <1>0, <1>2, <2>2, Shapes DEF Recheck, At, Errors
    <2>4. ASSUME NEW s \in Sessions PROVE ~RunsReserved(p, s)
        BY <2>3 DEF RunsReserved
    <2> QED BY <1>0, <2>3, <2>4, Stroll DEF TurnPcs, CompactPcs, WorkPcs, RunPcs
<1> QED BY <1>1, <1>2

\* The dispatch of a message to a session that is busy.
LEMMA DispatchKeeps ==
    ASSUME Manager!IndInv, CoordInv, [Next]_vars, NEW p \in Procs,
           DispatchPending(p) \/ DispatchInterrupt(p)
    PROVE  CoordInv'
<1> DEFINE s == procs[p].session
           t == turns[s]
<1>0. /\ TypeOK /\ procs[p] \in Proc /\ procs[p].pc = "dispatch" /\ gate = p /\ s \in Sessions
      /\ p \in Messages
      /\ UNCHANGED <<used, canceled, waits, current, opened, reqs, observers, halted>>
    BY WorkersOwn DEF CoordInv, TypeOK, PlaceSound, GateSound, DispatchPending, DispatchInterrupt,
       Dispatching, At, ghosts
<1>1. ASSUME NEW x \in Sessions PROVE ~RunsReserved(p, x)
    BY <1>0 DEF RunsReserved
<1>2. /\ observers' \in [Attempts -> {"off", "armed", "checked"}]
      /\ \A w \in Waits : waits'[w].stage = waits[w].stage /\ waits'[w].owner = waits[w].owner
    BY <1>0 DEF TypeOK
<1>3. CASE DispatchPending(p)
    <2>1. Moved(p, "done") /\ gate' = Nil
        BY <1>0, <1>3, Shapes DEF DispatchPending, Errors
    <2>2. \A x \in Sessions : Ages(turns[x], turns'[x])
        <3>1. Ages(t, IF CanAppendPending(t) THEN AppendPendingTurn(t, procs[p].input) ELSE t)
            BY <1>0, OpsAge DEF Ages
        <3> QED BY <1>0, <1>3, <3>1, WritesAge DEF DispatchPending
    <2> QED BY <1>0, <1>1, <1>2, <2>1, <2>2, WalkOn DEF TurnPcs, CompactPcs, WorkPcs, RunPcs
<1>4. CASE DispatchInterrupt(p) /\ CanBeginAppend(t, procs[p].seen.attempt)
    <2>1. Moved(p, "cancel") /\ gate' = p
        BY <1>0, <1>4, Shapes DEF DispatchInterrupt, Pcs
    <2>2. \A x \in Sessions : Ages(turns[x], turns'[x])
        <3>1. Ages(t, BeginAppendTurn(t, procs[p].input))
            BY <1>0, <1>4, OpsAge
        <3> QED BY <1>0, <1>4, <3>1, WritesAge DEF DispatchInterrupt
    <2> QED BY <1>0, <1>1, <1>2, <2>1, <2>2, WalkOn DEF TurnPcs, CompactPcs, WorkPcs, RunPcs
<1>5. CASE DispatchInterrupt(p) /\ ~CanBeginAppend(t, procs[p].seen.attempt)
    <2> DEFINE r == [procs[p] EXCEPT !.pc = "accept", !.seen = NoSnapshot]
    <2>1. r \in Proc
        <3>1. "accept" \in Pcs
            BY DEF Pcs
        <3>2. NoSnapshot \in [phase : Phases, attempt : Attempts \cup {Nil}, done : Attempts \cup {Nil}]
            BY DEF NoSnapshot, Phases
        <3> QED BY <1>0, <3>1, <3>2 DEF Proc
    <2>2. Agrees(r, procs[p]) /\ r.pc = "accept"
        BY <1>0 DEF Proc, Agrees
    <2>3. Set(p, r) /\ gate' = Nil /\ UNCHANGED turns
        BY <1>5 DEF DispatchInterrupt, turnVars
    <2>4. Moved(p, "accept")
        <3> HIDE DEF r
        <3> QED BY <1>0, <2>1, <2>2, <2>3, SetMoved
    <2> HIDE DEF r
    <2> QED BY <1>0, <1>1, <2>3, <2>4, Stroll DEF TurnPcs, CompactPcs, WorkPcs, RunPcs
<1> QED BY <1>3, <1>4, <1>5

\* SubmitResponse touches no more of a wait than its channels.
LEMMA AnswerKeeps ==
    ASSUME Manager!IndInv, CoordInv, [Next]_vars, NEW p \in Procs, Answer(p)
    PROVE  CoordInv'
<1>0. /\ TypeOK /\ procs[p] \in Proc /\ procs[p].pc = "answer" /\ gate \in Procs \cup {Nil}
      /\ UNCHANGED <<turns, used, canceled, gate, current, opened, reqs, observers, halted>>
    BY DEF CoordInv, TypeOK, Answer, At, turnVars, scopeVars, ghosts
<1>1. ASSUME NEW x \in Sessions PROVE ~RunsReserved(p, x)
    BY <1>0 DEF RunsReserved
<1>2. /\ observers' \in [Attempts -> {"off", "armed", "checked"}]
      /\ \A x \in Sessions : Ages(turns[x], turns'[x])
    BY <1>0 DEF TypeOK, Ages
<1>3. Moved(p, "done")
    BY <1>0, Shapes DEF Answer, Errors
<1>4. \A w \in Waits : waits'[w].stage = waits[w].stage /\ waits'[w].owner = waits[w].owner
    <2>1. waits \in [Waits -> TL!Wait]
        BY ManagerTypes
    <2>2. ASSUME NEW v, NEW d, waits' = [waits EXCEPT ![v].response = d]
          PROVE  \A w \in Waits : waits'[w].stage = waits[w].stage /\ waits'[w].owner = waits[w].owner
        BY <2>1, <2>2 DEF TL!Wait
    <2>3. ASSUME NEW v, waits' = [waits EXCEPT ![v].refresh = TRUE]
          PROVE  \A w \in Waits : waits'[w].stage = waits[w].stage /\ waits'[w].owner = waits[w].owner
        BY <2>1, <2>3 DEF TL!Wait
    <2>4. \/ UNCHANGED waits
          \/ \E v, d : waits' = [waits EXCEPT ![v].response = d]
          \/ \E v : waits' = [waits EXCEPT ![v].refresh = TRUE]
        BY DEF Answer, TL!ResolveRiskConfirmation, TL!RefreshRiskConfirmation
    <2> QED BY <2>2, <2>3, <2>4
<1> QED BY <1>0, <1>1, <1>2, <1>3, <1>4, WalkOn DEF TurnPcs, CompactPcs, WorkPcs, RunPcs

\* The attempt's own operations that leave it its goroutine's.
LEMMA PhaseKeeps ==
    ASSUME Manager!IndInv, CoordInv, [Next]_vars, NEW p \in Procs,
           StartToolPhase(p) \/ DrainPending(p)
    PROVE  CoordInv'
<1> DEFINE s == procs[p].session
           a == procs[p].attempt
           t == turns[s]
<1>0. /\ TypeOK /\ procs[p] \in Proc /\ procs[p].pc \in {"llm", "tools"} /\ s \in Sessions
      /\ procs[p].owns /\ gate \in Procs \cup {Nil} /\ a \in Attempts
      /\ UNCHANGED <<used, canceled, waits, gate, current, opened, reqs, observers, halted>>
    BY WorkersOwn, OwnsEntry DEF CoordInv, TypeOK, StartToolPhase, DrainPending, At, scopeVars,
       ghosts, WorkPcs
<1>1. ASSUME NEW x \in Sessions PROVE ~RunsReserved(p, x)
    BY <1>0 DEF RunsReserved
<1>2. /\ observers' \in [Attempts -> {"off", "armed", "checked"}]
      /\ \A w \in Waits : waits'[w].stage = waits[w].stage /\ waits'[w].owner = waits[w].owner
    BY <1>0 DEF TypeOK
<1>2a. procs[p].execution # Nil
    BY <1>0 DEF CoordInv, PlaceSound, RunPcs, TurnPcs
<1>3. CASE DrainPending(p)
    <2>1. Moved(p, "tools") /\ procs[p].pc = "tools"
        BY <1>0, <1>3 DEF DrainPending, Moved, Agrees, TypeOK, At
    <2>2. \A x \in Sessions : Ages(turns[x], turns'[x])
        <3>1. Ages(t, DrainedTurn(t, a))
            BY <1>0, OpsAge
        <3> QED BY <1>0, <1>3, <3>1, WritesAge DEF DrainPending
    <2> QED BY <1>0, <1>1, <1>2, <1>2a, <2>1, <2>2, WalkOn DEF TurnPcs, CompactPcs, WorkPcs, RunPcs
<1>4. CASE StartToolPhase(p)
    <2>1. procs[p].pc = "llm" /\ (Moved(p, "tools") \/ Moved(p, "unobserve"))
        BY <1>0, <1>4, Shapes DEF StartToolPhase, Pcs, Errors, At
    <2>2. \A x \in Sessions : Ages(turns[x], turns'[x])
        <3>1. CASE CanStartToolPhase(t, a)
            <4>1. Ages(t, [t EXCEPT !.phase = "tool"])
                BY <1>0, <3>1, OpsAge
            <4> QED BY <1>0, <1>4, <3>1, <4>1, WritesAge DEF StartToolPhase
        <3>2. CASE ~CanStartToolPhase(t, a)
            BY <1>4, <3>2 DEF StartToolPhase, turnVars, Ages
        <3> QED BY <3>1, <3>2
    <2> QED BY <1>0, <1>1, <1>2, <1>2a, <2>1, <2>2, WalkOn DEF TurnPcs, CompactPcs, WorkPcs, RunPcs
<1> QED BY <1>3, <1>4

\* The stop of a failed attempt, /stop, and the observer's end.
LEMMA StopKeepsCoord ==
    ASSUME Manager!IndInv, CoordInv, [Next]_vars, NEW p \in Procs,
           StopFailed(p) \/ StopCommand(p) \/ StopObserver(p)
    PROVE  CoordInv'
<1> DEFINE s == procs[p].session
           t == turns[s]
<1>0. /\ TypeOK /\ procs[p] \in Proc /\ s \in Sessions /\ gate \in Procs \cup {Nil}
      /\ UNCHANGED <<used, canceled, waits, current, opened, reqs, halted>>
    BY WorkersOwn DEF CoordInv, TypeOK, StopFailed, StopCommand, StopObserver, At, scopeVars, ghosts
<1>2. \A w \in Waits : waits'[w].stage = waits[w].stage /\ waits'[w].owner = waits[w].owner
    BY <1>0
<1>3. CASE StopFailed(p)
    <2>1. /\ procs[p].pc = "stopped" /\ Moved(p, "release") /\ procs'[p].input = procs[p].input
          /\ UNCHANGED <<gate, observers>>
        BY <1>0, <1>3, Shapes DEF StopFailed, Pcs, At, scopeVars
    <2>2. \A x \in Sessions : Ages(turns[x], turns'[x])
        <3>1. Ages(t, StopAttemptResult(t, procs[p].attempt).turn)
            BY <1>0, OpsAge
        <3> QED BY <1>0, <1>3, <3>1, WritesAge DEF StopFailed
    <2>3. ASSUME NEW x \in Sessions, turns'[x] = turns[x]
          PROVE  RunsReserved(p, x)' \/ ~RunsReserved(p, x)
        BY <2>1, <2>3 DEF RunsReserved, Moved, Agrees
    <2>4. observers' \in [Attempts -> {"off", "armed", "checked"}]
        BY <1>0, <2>1 DEF TypeOK
    <2>5. observers'[procs[p].attempt] = "off" /\ procs[p].execution # Nil
        BY <2>1 DEF CoordInv, AttemptSound, PlaceSound, RunPcs, TurnPcs
    <2> QED BY <1>0, <1>2, <2>1, <2>2, <2>3, <2>4, <2>5, WalkOn DEF TurnPcs, CompactPcs, WorkPcs, RunPcs
<1>4. CASE StopCommand(p)
    <2>1. /\ procs[p].pc = "stop" /\ gate = Nil /\ UNCHANGED observers
          /\ \/ Bound(p) /\ Moved(p, "stopreq") /\ gate' = p
             \/ ~Bound(p) /\ Moved(p, "done") /\ gate' = gate
        BY <1>0, <1>4, Shapes DEF StopCommand, Pcs, Errors, At
    <2>2. \A x \in Sessions : Ages(turns[x], turns'[x])
        <3>1. Ages(t, StopSessionResult(t).turn)
            BY <1>0, OpsAge
        <3>2. CASE Bound(p)
            BY <1>0, <1>4, <3>1, <3>2, WritesAge DEF StopCommand
        <3>3. CASE ~Bound(p)
            BY <1>4, <3>3 DEF StopCommand, turnVars, Ages
        <3> QED BY <3>2, <3>3
    <2>3. ASSUME NEW x \in Sessions PROVE ~RunsReserved(p, x)
        BY <2>1 DEF RunsReserved
    <2>4. observers' \in [Attempts -> {"off", "armed", "checked"}]
        BY <1>0, <2>1 DEF TypeOK
    <2> QED BY <1>0, <1>2, <2>1, <2>2, <2>3, <2>4, WalkOn DEF TurnPcs, CompactPcs, WorkPcs, RunPcs
<1>5. CASE StopObserver(p)
    <2>1. /\ UNCHANGED <<turns, gate>>
          /\ \/ procs[p].pc = "unobserve" /\ Moved(p, "settle")
             \/ procs[p].pc = "uncompact" /\ Moved(p, "compacted")
          /\ procs'[p].input = procs[p].input
        BY <1>0, <1>5, Shapes DEF StopObserver, Pcs, At, scopeVars, turnVars
    <2>2. \A x \in Sessions : Ages(turns[x], turns'[x])
        BY <2>1 DEF Ages
    <2>3. ASSUME NEW x \in Sessions PROVE RunsReserved(p, x)' \/ ~RunsReserved(p, x)
        BY <2>1 DEF RunsReserved, Moved, Agrees
    <2>4. procs[p].attempt \in Attempts /\ (procs[p].pc = "unobserve" => procs[p].execution # Nil)
        BY <1>0, <2>1, NilAssumption DEF CoordInv, AttemptSound, PlaceSound, Proc, RunPcs, TurnPcs,
           CompactPcs
    <2>5. /\ observers' \in [Attempts -> {"off", "armed", "checked"}]
          /\ observers'[procs[p].attempt] = "off"
          /\ \A a \in Attempts : observers[a] = "off" => observers'[a] = "off"
        BY <1>0, <1>5, <2>4 DEF TypeOK, StopObserver
    <2> QED BY <1>0, <1>2, <2>1, <2>2, <2>3, <2>4, <2>5, WalkOn DEF TurnPcs, CompactPcs, WorkPcs, RunPcs
<1> QED BY <1>3, <1>4, <1>5

\* Run's deferred cleanup: what was reserved for its execution goes with it.
LEMMA CleanupKeeps ==
    ASSUME Manager!IndInv, CoordInv, [Next]_vars, NEW p \in Procs, Cleanup(p)
    PROVE  CoordInv'
<1> DEFINE s == procs[p].session
           t == turns[s]
           back == [procs[p] EXCEPT !.pc = "accept", !.err = "none"]
<1>0. /\ TypeOK /\ procs[p] \in Proc /\ s \in Sessions /\ gate = Nil /\ procs[p].pc = "cleanup"
      /\ UNCHANGED <<used, canceled, waits, gate, current, opened, reqs, observers, halted>>
    BY WorkersOwn DEF CoordInv, TypeOK, Cleanup, At, scopeVars, ghosts
<1>1. Moved(p, "done") \/ (Moved(p, "accept") /\ p \in Messages)
    <2>1. "accept" \in Pcs /\ "none" \in Errors
        BY DEF Pcs, Errors
    <2>2. back \in Proc
        BY <1>0, <2>1 DEF Proc
    <2>3. Agrees(back, procs[p]) /\ back.pc = "accept"
        BY <1>0 DEF Proc, Agrees
    <2>4. Set(p, back) => Moved(p, "accept")
        <3> HIDE DEF back
        <3> QED BY <1>0, <2>2, <2>3, SetMoved
    <2>5. procs[p].err \in Errors
        BY <1>0 DEF Proc
    <2>6. Leave(p, procs[p].err, "none") => Moved(p, "done")
        BY <1>0, <2>5, Shapes
    <2> QED BY <2>4, <2>6 DEF Cleanup
<1>2. /\ \A x \in Sessions : Ages(turns[x], turns'[x])
      /\ t.reserved /\ t.execution = procs[p].execution => turns'[s] = NoTurn
    <2>1. CASE t.execution = procs[p].execution /\ t.attempt = Nil
        <3>1. TL!Apply(s, StopAttemptResult(t, Nil))
            BY <2>1 DEF Cleanup
        <3>2. Ages(t, StopAttemptResult(t, Nil).turn)
            BY <1>0, OpsAge
        <3>3. t.attemptDone = Nil /\ (t.phase = "idle" => t = NoTurn)
            BY <1>0, <2>1, ManagerEntries
        <3>4. StopAttemptResult(t, Nil).turn = NoTurn
            BY <2>1, <3>3 DEF StopAttemptResult, matches, beginStopTurn, removeTurn, Kept
        <3>5. turns'[s] = NoTurn
            BY <1>0, <3>1, <3>4 DEF TL!Apply, TypeOK
        <3> QED BY <1>0, <3>1, <3>2, <3>5, WritesAge
    <2>2. CASE ~(t.execution = procs[p].execution /\ t.attempt = Nil)
        BY <1>0, <2>2, ManagerEntries DEF Cleanup, turnVars, Ages
    <2> QED BY <2>1, <2>2
<1>3. ASSUME NEW x \in Sessions, turns[x].reserved, turns'[x] = turns[x]
      PROVE  ~RunsReserved(p, x)
    <2>1. ~NoTurn.reserved
        BY DEF NoTurn
    <2> QED BY <1>0, <1>2, <1>3, <2>1 DEF RunsReserved
<1>4. /\ observers' \in [Attempts -> {"off", "armed", "checked"}]
      /\ \A w \in Waits : waits'[w].stage = waits[w].stage /\ waits'[w].owner = waits[w].owner
    BY <1>0 DEF TypeOK
<1> HIDE DEF back, t
<1> QED BY <1>0, <1>1, <1>2, <1>3, <1>4, WalkOn DEF TurnPcs, CompactPcs, WorkPcs, RunPcs

\* p becomes r.
LEMMA Becomes ==
    ASSUME TypeOK, NEW p \in Procs, NEW r \in Proc, Set(p, r)
    PROVE  /\ procs' \in [Procs -> Proc] /\ procs'[p] = r
           /\ \A q \in Procs \ {p} : procs'[q] = procs[q]
BY DEF TypeOK, Set

\* A goroutine without an attempt, and outside the gate.
LEMMA Unattached ==
    ASSUME NEW p \in Procs, procs'[p].attempt = Nil, ~procs'[p].owns,
           procs'[p].pc \notin TurnPcs \cup CompactPcs \cup {"dispatch", "cancel", "stopreq"}
    PROVE  AttemptSound(p)' /\ GateSound(p)'
<1>1. Nil \notin Compactions
    BY NilAssumption, ExecutionsAssumption
<1> QED BY <1>1 DEF AttemptSound, GateSound, TurnPcs, CompactPcs, WorkPcs

\* The message arrives, or is sent on to Run.
LEMMA ArriveKeeps ==
    ASSUME Manager!IndInv, CoordInv, [Next]_vars, NEW p \in Procs, Arrive(p) \/ DispatchOut(p)
    PROVE  CoordInv'
<1>0. /\ TypeOK /\ procs[p] \in Proc /\ gate \in Procs \cup {Nil} /\ ~procs[p].owns
      /\ procs[p].attempt = Nil /\ procs[p].pc \in {"new", "dispatch"}
      /\ UNCHANGED <<turns, used, canceled, waits, current, opened, reqs, observers, halted>>
    BY WorkersOwn DEF CoordInv, TypeOK, Arrive, DispatchOut, Dispatching, At, scopeVars, turnVars,
       ghosts, TurnPcs, CompactPcs
<1>1. ASSUME NEW x \in Sessions PROVE ~RunsReserved(p, x)
    BY <1>0 DEF RunsReserved
<1>2. \A x \in Sessions : Ages(turns[x], turns'[x])
    BY <1>0 DEF Ages
<1>3. ASSUME procs' \in [Procs -> Proc], \A q \in Procs \ {p} : procs'[q] = procs[q],
             procs'[p].attempt = Nil, ~procs'[p].owns,
             gate' \in Procs \cup {Nil}, gate' # gate => gate \in {Nil, p},
             PlaceSound(p)', AttemptSound(p)', GateSound(p)'
      PROVE  CoordInv'
    BY <1>0, <1>1, <1>2, <1>3, Walk DEF TypeOK
<1>4. CASE Arrive(p)
    <2> DEFINE l == IF p \in Messages THEN "accept" ELSE IF p \in Resumers THEN "resume"
                    ELSE IF p \in Stoppers THEN "stop" ELSE "compact"
               i == IF p \in Messages THEN <<p>> ELSE << >>
               r == [procs[p] EXCEPT !.session = current, !.input = i, !.pc = l]
    <2>1. l \in Pcs /\ l \in {"accept", "resume", "stop", "compact"} /\ (l = "accept" => p \in Messages)
          /\ (l = "resume" => p \in Resumers)
        BY DEF Pcs
    <2>2. i \in Input
        BY DEF Input
    <2>3. Set(p, r) /\ UNCHANGED gate
        BY <1>4 DEF Arrive, scopeVars
    <2> HIDE DEF l, i
    <2>4. r \in Proc /\ r.session = current /\ r.pc = l /\ r.attempt = procs[p].attempt
          /\ r.owns = procs[p].owns /\ r.next = procs[p].next
        <3>1. current \in Sessions
            BY <1>0 DEF TypeOK
        <3> QED BY <1>0, <2>1, <2>2, <3>1 DEF Proc
    <2> HIDE DEF r
    <2>5. /\ procs' \in [Procs -> Proc] /\ procs'[p] = r
          /\ \A q \in Procs \ {p} : procs'[q] = procs[q]
        BY <1>0, <2>3, <2>4, Becomes
    <2>6. PlaceSound(p)'
        BY <1>0, <2>1, <2>4, <2>5 DEF PlaceSound, CoordInv, TypeOK, RunPcs, TurnPcs
    <2>7. AttemptSound(p)' /\ GateSound(p)'
        BY <1>0, <2>1, <2>4, <2>5, Unattached DEF TurnPcs, CompactPcs
    <2> QED BY <1>0, <1>3, <2>3, <2>4, <2>5, <2>6, <2>7
<1>5. CASE DispatchOut(p)
    <2>0. procs[p].pc = "dispatch" /\ gate = p /\ gate' = Nil /\ p \in Messages
          /\ p \in Executions /\ PlaceSound(p)
        BY <1>5, ExecutionsAssumption
           DEF DispatchOut, Dispatching, At, CoordInv, GateSound, PlaceSound
    <2>1. CASE Goto(p, "join") \/ Goto(p, "answer")
        <3>1. Moved(p, "join") \/ Moved(p, "answer")
            BY <1>0, <2>1, Shapes DEF Pcs
        <3> QED BY <1>0, <1>1, <2>0, <3>1, Stroll DEF TurnPcs, CompactPcs, WorkPcs, RunPcs
    <2>2. CASE ~(Goto(p, "join") \/ Goto(p, "answer"))
        <3> DEFINE e == IF procs[p].execution = Nil THEN p ELSE procs[p].execution
                   r == [procs[p] EXCEPT !.pc = "enter", !.seen = NoSnapshot, !.execution = e]
        <3>1. Set(p, [procs[p] EXCEPT !.pc = "enter", !.seen = NoSnapshot,
                                      !.execution = IF @ = Nil THEN p ELSE @])
            BY <1>5, <2>2 DEF DispatchOut
        <3>2. e \in Executions
            BY <1>0, <2>0 DEF Proc
        <3>3. Set(p, r)
            BY <1>0, <3>1 DEF Proc, Set
        <3> HIDE DEF e
        <3>4. r \in Proc
            <4>1. "enter" \in Pcs
                BY DEF Pcs
            <4>2. NoSnapshot \in [phase : Phases, attempt : Attempts \cup {Nil},
                                  done : Attempts \cup {Nil}]
                BY DEF NoSnapshot, Phases
            <4> DEFINE u == [procs[p] EXCEPT !.pc = "enter", !.seen = NoSnapshot]
            <4>3. u \in Proc
                BY <1>0, <4>1, <4>2 DEF Proc
            <4>4. r = [u EXCEPT !.execution = e]
                OBVIOUS
            <4> HIDE DEF u, r
            <4> QED BY <3>2, <4>3, <4>4 DEF Proc
        <3>5. r.session = procs[p].session /\ r.pc = "enter" /\ r.attempt = procs[p].attempt
              /\ r.owns = procs[p].owns /\ r.next = procs[p].next /\ r.execution = e
            BY <1>0 DEF Proc
        <3> HIDE DEF r
        <3>6. /\ procs' \in [Procs -> Proc] /\ procs'[p] = r
              /\ \A q \in Procs \ {p} : procs'[q] = procs[q]
            BY <1>0, <3>3, <3>4, Becomes
        <3>7. PlaceSound(p)'
            BY <1>0, <2>0, <3>2, <3>5, <3>6, NilAssumption DEF PlaceSound
        <3>8. AttemptSound(p)' /\ GateSound(p)'
            BY <1>0, <3>5, <3>6, Unattached DEF TurnPcs, CompactPcs
        <3> QED BY <1>0, <1>3, <2>0, <3>5, <3>6, <3>7, <3>8
    <2> QED BY <2>1, <2>2
<1> QED BY <1>4, <1>5

\* The confirmation is over, and the observer has been stopped and the request removed.
LEMMA ReturnKeeps ==
    ASSUME Manager!IndInv, CoordInv, [Next]_vars, NEW p \in Procs, Confirmed(p) \/ Unregister(p)
    PROVE  CoordInv'
<1>0. /\ TypeOK /\ procs[p] \in Proc /\ gate \in Procs \cup {Nil}
      /\ PlaceSound(p) /\ AttemptSound(p) /\ GateSound(p)
      /\ UNCHANGED <<turns, used, canceled, waits, gate, current, opened, observers, halted>>
      /\ reqs' \subseteq reqs
    BY DEF CoordInv, TypeOK, Confirmed, Unregister, scopeVars, turnVars, ghosts
<1>1. \A x \in Sessions : Ages(turns[x], turns'[x])
    BY <1>0 DEF Ages
<1>2. CASE Confirmed(p)
    <2>0. procs[p].pc = "confirm" /\ procs[p].owns /\ waits[procs[p].wait].stage = "returned"
        BY <1>2, WorkersOwn DEF Confirmed, At, WorkPcs
    <2>1. PICK l \in {"tools", "ctxdone", "unobserve"}, i \in Input :
             Set(p, [procs[p] EXCEPT !.pc = l, !.wait = Nil, !.input = i])
        <3>1. << >> \in Input /\ procs[p].input \in Input
            BY <1>0 DEF Input, Proc
        <3>2. \A l : [procs[p] EXCEPT !.pc = l, !.wait = Nil]
                      = [procs[p] EXCEPT !.pc = l, !.wait = Nil, !.input = procs[p].input]
            BY <1>0 DEF Proc
        <3> QED BY <1>2, <3>1, <3>2 DEF Confirmed
    <2> DEFINE r == [procs[p] EXCEPT !.pc = l, !.wait = Nil, !.input = i]
    <2>2. r \in Proc
        <3>1. l \in Pcs
            BY DEF Pcs
        <3> QED BY <1>0, <3>1 DEF Proc
    <2>3. r.session = procs[p].session /\ r.pc = l /\ r.attempt = procs[p].attempt
          /\ r.owns = procs[p].owns /\ r.next = procs[p].next /\ r.execution = procs[p].execution
        BY <1>0 DEF Proc
    <2>4. Set(p, r)
        BY <2>1
    <2> HIDE DEF r
    <2>5. /\ procs' \in [Procs -> Proc] /\ procs'[p] = r
          /\ \A q \in Procs \ {p} : procs'[q] = procs[q]
        BY <1>0, <2>2, <2>4, Becomes
    <2>6. PlaceSound(p)'
        BY <1>0, <2>0, <2>3, <2>5 DEF PlaceSound, RunPcs, TurnPcs
    <2>7. AttemptSound(p)'
        BY <1>0, <2>0, <2>3, <2>5 DEF AttemptSound, Bound, TurnPcs, CompactPcs, WorkPcs
    <2>8. GateSound(p)'
        BY <1>0, <2>3, <2>5 DEF GateSound
    <2>9. ASSUME NEW x \in Sessions PROVE ~RunsReserved(p, x)
        BY <2>0 DEF RunsReserved
    <2> QED BY <1>0, <1>1, <2>0, <2>3, <2>5, <2>6, <2>7, <2>8, <2>9, Walk DEF TypeOK
<1>3. CASE Unregister(p)
    <2>0. procs[p].pc = "unregister" /\ ~procs[p].owns /\ observers[procs[p].attempt] = "off"
          /\ procs[p].execution # Nil
        BY <1>0, <1>3 DEF Unregister, At, AttemptSound, PlaceSound, RunPcs, TurnPcs, CompactPcs
    <2> DEFINE l == IF procs[p].err # "none" THEN "fail"
                    ELSE IF procs[p].input # << >> THEN "enter" ELSE "return"
               r == [procs[p] EXCEPT !.attempt = Nil, !.pc = l]
    <2>1. l \in Pcs /\ l \in {"fail", "enter", "return"} /\ (l = "return" => procs[p].input = << >>)
        BY DEF Pcs
    <2>2. Set(p, r)
        BY <1>3 DEF Unregister
    <2> HIDE DEF l
    <2>3. r \in Proc
        BY <1>0, <2>1 DEF Proc
    <2>4. r.session = procs[p].session /\ r.pc = l /\ r.attempt = Nil /\ r.input = procs[p].input
          /\ r.owns = procs[p].owns /\ r.next = procs[p].next /\ r.execution = procs[p].execution
        BY <1>0 DEF Proc
    <2> HIDE DEF r
    <2>5. /\ procs' \in [Procs -> Proc] /\ procs'[p] = r
          /\ \A q \in Procs \ {p} : procs'[q] = procs[q]
        BY <1>0, <2>2, <2>3, Becomes
    <2>6. PlaceSound(p)'
        BY <1>0, <2>0, <2>1, <2>4, <2>5 DEF PlaceSound
    <2>7. AttemptSound(p)' /\ GateSound(p)'
        BY <2>0, <2>1, <2>4, <2>5, Unattached DEF TurnPcs, CompactPcs
    <2>8. ASSUME NEW x \in Sessions PROVE RunsReserved(p, x)' \/ ~RunsReserved(p, x)
        BY <1>0, <2>0, <2>1, <2>4, <2>5 DEF RunsReserved
    <2> QED BY <1>0, <1>1, <2>0, <2>4, <2>5, <2>6, <2>7, <2>8, Walk DEF TypeOK
<1> QED BY <1>2, <1>3

\* The deferred FinishAttempt.
LEMMA ReleaseKeepsCoord ==
    ASSUME Manager!IndInv, CoordInv, [Next]_vars, NEW p \in Procs, Release(p)
    PROVE  CoordInv'
<1> DEFINE s == procs[p].session
           a == procs[p].attempt
           r == [procs[p] EXCEPT !.pc = "unregister", !.owns = FALSE]
<1>0. /\ TypeOK /\ procs[p] \in Proc /\ gate \in Procs \cup {Nil} /\ s \in Sessions
      /\ PlaceSound(p) /\ AttemptSound(p) /\ GateSound(p) /\ procs[p].pc = "release"
      /\ UNCHANGED <<used, canceled, waits, gate, current, opened, reqs, observers, halted>>
      /\ TL!Apply(s, FinishAttemptResult(turns[s], a))
      /\ Set(p, r)
    BY WorkersOwn DEF CoordInv, TypeOK, Release, At, scopeVars, ghosts
<1>1. \A x \in Sessions : Ages(turns[x], turns'[x])
    BY <1>0, OpsAge, WritesAge
<1>2. r \in Proc
    <2>1. "unregister" \in Pcs
        BY DEF Pcs
    <2> QED BY <1>0, <2>1 DEF Proc
<1>3. r.session = s /\ r.pc = "unregister" /\ r.attempt = a /\ r.input = procs[p].input
      /\ ~r.owns /\ r.next = procs[p].next /\ r.execution = procs[p].execution
    BY <1>0 DEF Proc
<1> HIDE DEF r
<1>4. /\ procs' \in [Procs -> Proc] /\ procs'[p] = r
      /\ \A q \in Procs \ {p} : procs'[q] = procs[q]
    BY <1>0, <1>2, Becomes
<1>5. PlaceSound(p)'
    BY <1>0, <1>3, <1>4 DEF PlaceSound, RunPcs, TurnPcs
<1>6. AttemptSound(p)'
    BY <1>0, <1>3, <1>4 DEF AttemptSound, TurnPcs, CompactPcs, WorkPcs
<1>7. GateSound(p)'
    BY <1>0, <1>3, <1>4 DEF GateSound
<1>8. ASSUME NEW x \in Sessions PROVE RunsReserved(p, x)' \/ ~RunsReserved(p, x) \/ turns'[x] # turns[x]
    BY <1>0, <1>3, <1>4 DEF RunsReserved
<1> QED BY <1>0, <1>1, <1>3, <1>4, <1>5, <1>6, <1>7, <1>8, Walk DEF TypeOK

\* A step of p that admits something: every part of the invariant is shown.
LEMMA Assembled ==
    ASSUME Manager!IndInv, CoordInv, [Next]_vars, NEW p \in Procs,
           procs' \in [Procs -> Proc], Alone(p),
           gate' \in Procs \cup {Nil}, current' \in opened', opened' \subseteq Sessions,
           reqs' \subseteq used', observers' \in [Attempts -> {"off", "armed", "checked"}],
           PlaceSound(p)', AttemptSound(p)', GateSound(p)',
           WaitsOwned', ObserversOwned', EntriesSound', ReservationsRun',
           halted' \subseteq canceled'
    PROVE  CoordInv'
<1>1. TypeOK'
    BY NextManager DEF TypeOK
<1>2. AttemptsApart' /\ \A q \in Procs : PlaceSound(q)' /\ AttemptSound(q)' /\ GateSound(q)'
    BY OthersSound
<1> QED BY <1>1, <1>2 DEF CoordInv

\* The users are told that the requests are stopped.
LEMMA CancelsKeep ==
    ASSUME Manager!IndInv, CoordInv, [Next]_vars, NEW p \in Procs,
           InterruptCancels(p) \/ StopCancels(p)
    PROVE  CoordInv'
<1>0. /\ TypeOK /\ procs[p].pc \in {"cancel", "stopreq"} /\ gate = p /\ gate' = Nil
      /\ UNCHANGED <<turns, used, waits, current, opened, reqs, observers>>
      /\ halted \subseteq halted' /\ halted' \subseteq canceled'
      /\ PlaceSound(p)
    BY DEF CoordInv, TypeOK, GateSound, InterruptCancels, StopCancels, CancelSession, At, turnVars,
       ghosts
<1>1. ~procs[p].owns /\ procs[p].attempt = Nil
    BY <1>0, WorkersOwn DEF TurnPcs, CompactPcs
<1>2. Moved(p, "done")
    BY <1>0, Shapes DEF InterruptCancels, StopCancels, Errors
<1>3. Alone(p)
    BY <1>0, <1>1, <1>2 DEF Alone, Moved, Agrees, Names
<1>4. PlaceSound(p)'
    BY <1>0, <1>2 DEF PlaceSound, Moved, Agrees, RunPcs, TurnPcs
<1>5. AttemptSound(p)' /\ GateSound(p)'
    BY <1>1, <1>2, Unattached DEF Moved, Agrees, TurnPcs, CompactPcs
<1>6. WaitsOwned' /\ ObserversOwned'
    BY <1>0, <1>1, <1>2, WaitsStay, ObserversStay, NilAssumption DEF CoordInv, Moved, Agrees
<1>7. EntriesSound' /\ ReservationsRun'
    <2>1. \A s \in Sessions : ~RunsReserved(p, s)
        BY <1>0 DEF RunsReserved
    <2>2. EntriesSound'
        BY <1>0 DEF CoordInv, EntriesSound
    <2> QED BY <1>0, <1>2, <2>1, <2>2, RunnersStay DEF CoordInv, Moved
<1> QED BY <1>0, <1>2, <1>3, <1>4, <1>5, <1>6, <1>7, Assembled DEF Moved, TypeOK

\* The append question answered with y.
LEMMA ResumeKeeps ==
    ASSUME Manager!IndInv, CoordInv, [Next]_vars, NEW p \in Procs, ResumeAppend(p)
    PROVE  CoordInv'
<1> DEFINE s == procs[p].session
           t == turns[s]
<1>0. /\ TypeOK /\ procs[p] \in Proc /\ procs[p].pc = "resume" /\ gate = Nil /\ p \in Resumers
      /\ PlaceSound(p) /\ s \in Sessions /\ s \in opened /\ t \in Turn
      /\ UNCHANGED <<used, canceled, waits, gate, current, opened, reqs, observers, halted>>
    BY WorkersOwn DEF CoordInv, TypeOK, PlaceSound, ResumeAppend, At, scopeVars, ghosts
<1>1. ~procs[p].owns /\ procs[p].attempt = Nil
    BY <1>0, WorkersOwn DEF TurnPcs, CompactPcs
<1>2. ASSUME NEW x \in Sessions PROVE ~RunsReserved(p, x)
    BY <1>0 DEF RunsReserved
<1>3. CASE Leave(p, "refused", "none") /\ UNCHANGED turnVars
    <2>1. Moved(p, "done")
        BY <1>0, <1>3, Shapes DEF Errors
    <2> QED BY <1>0, <1>2, <1>3, <2>1, Stroll DEF TurnPcs, CompactPcs, WorkPcs, RunPcs, turnVars
<1>4. CASE Set(p, [procs[p] EXCEPT !.pc = "join", !.seen.done = t.attemptDone]) /\ UNCHANGED turnVars
    <2> DEFINE r == [procs[p] EXCEPT !.pc = "join", !.seen.done = t.attemptDone]
    <2>1. "join" \in Pcs /\ t.attemptDone \in Attempts \cup {Nil}
        BY <1>0 DEF Pcs, Turn
    <2> HIDE DEF t
    <2>2. r \in Proc
        BY <1>0, <2>1 DEF Proc
    <2>3. Agrees(r, procs[p]) /\ r.pc = "join"
        BY <1>0 DEF Proc, Agrees
    <2>4. Moved(p, "join")
        <3>1. Set(p, r)
            BY <1>4 DEF t
        <3> HIDE DEF r
        <3> QED BY <1>0, <2>2, <2>3, <3>1, SetMoved
    <2> HIDE DEF r
    <2> QED BY <1>0, <1>2, <1>4, <2>4, Stroll DEF TurnPcs, CompactPcs, WorkPcs, RunPcs, turnVars
<1>5. CASE /\ t.phase = "awaiting_append_confirm"
           /\ TL!Replace(s, ResumedTurn(t))
           /\ Set(p, [procs[p] EXCEPT !.pc = "enter", !.execution = t.execution,
                                      !.input = t.original \o t.pending])
    <2> DEFINE i == t.original \o t.pending
               r == [procs[p] EXCEPT !.pc = "enter", !.execution = t.execution, !.input = i]
    <2>1. i \in Input /\ t.execution \in Executions /\ "enter" \in Pcs
        BY <1>0, <1>5 DEF Input, Turn, Pcs, CoordInv, EntriesSound
    <2>2. Set(p, r)
        BY <1>5
    <2>3. /\ turns'[s] = ResumedTurn(t) /\ \A x \in Sessions \ {s} : turns'[x] = turns[x]
          /\ ResumedTurn(t).phase = "llm" /\ ResumedTurn(t).attempt = Nil
          /\ ResumedTurn(t).execution = t.execution
        BY <1>0, <1>5 DEF TL!Replace, TypeOK, ResumedTurn, Turn
    <2> HIDE DEF i, t
    <2>4. r \in Proc
        BY <1>0, <2>1 DEF Proc
    <2>5. /\ r.session = s /\ r.pc = "enter" /\ r.attempt = procs[p].attempt
          /\ r.owns = procs[p].owns /\ r.next = procs[p].next /\ r.execution = t.execution
        BY <1>0 DEF Proc
    <2> HIDE DEF r
    <2>6. /\ procs' \in [Procs -> Proc] /\ procs'[p] = r
          /\ \A q \in Procs \ {p} : procs'[q] = procs[q]
        BY <1>0, <2>2, <2>4, Becomes
    <2>7. Alone(p)
        <3>1. \A x \in Sessions : Names(turns[x], turns'[x])
            BY <2>3 DEF Names
        <3> QED BY <1>0, <1>1, <2>5, <2>6, <3>1 DEF Alone
    <2>8. PlaceSound(p)'
        BY <1>0, <2>1, <2>5, <2>6, NilAssumption DEF PlaceSound
    <2>9. AttemptSound(p)' /\ GateSound(p)'
        BY <1>1, <2>5, <2>6, Unattached DEF TurnPcs, CompactPcs
    <2>10. WaitsOwned' /\ ObserversOwned'
        BY <1>0, <1>1, <2>5, <2>6, WaitsStay, ObserversStay, NilAssumption DEF CoordInv
    <2>11. EntriesSound'
        BY <1>0, <2>1, <2>3, NilAssumption, ExecutionsAssumption DEF CoordInv, EntriesSound
    <2>12. ReservationsRun'
        <3>1. ASSUME NEW x \in Sessions, x = s PROVE RunsReserved(p, x)'
            BY <2>3, <2>5, <2>6, <3>1 DEF RunsReserved
        <3>2. ASSUME NEW x \in Sessions, turns'[x].reserved, turns'[x].phase = "llm"
              PROVE  \/ RunsReserved(p, x)'
                     \/ /\ turns[x].reserved /\ turns[x].phase = "llm"
                        /\ turns'[x].execution = turns[x].execution
                        /\ ~RunsReserved(p, x)
            <4>1. CASE x = s
                BY <3>1, <4>1
            <4>2. CASE x # s
                <5>1. turns'[x] = turns[x]
                    BY <2>3, <4>2
                <5>2. ~RunsReserved(p, x)
                    BY <1>2
                <5> QED BY <3>2, <5>1, <5>2
            <4> QED BY <4>1, <4>2
        <3>3. ReservationsRun /\ \A q \in Procs \ {p} : procs'[q] = procs[q]
            BY <2>6 DEF CoordInv
        <3> HIDE DEF s
        <3> QED BY <3>2, <3>3, RunnersStay
    <2> QED BY <1>0, <2>6, <2>7, <2>8, <2>9, <2>10, <2>11, <2>12, Assembled DEF TypeOK, CoordInv
<1> QED BY <1>3, <1>4, <1>5 DEF ResumeAppend

\* p takes up an attempt that is nobody's, in the session it was told of.
LEMMA TakenUpKeeps ==
    ASSUME Manager!IndInv, CoordInv, [Next]_vars, NEW p \in Procs, NEW s \in Sessions,
           NEW a \in Attempts \ used, NEW t,
           s = procs[p].session, s = current, gate = Nil, procs[p].pc \in {"start", "compact"},
           turns' = [turns EXCEPT ![s] = t], t.attempt = a, t.execution = procs[p].execution,
           ~t.reserved, used' = used \cup {a},
           procs' \in [Procs -> Proc], \A q \in Procs \ {p} : procs'[q] = procs[q],
           procs'[p].session = s, procs'[p].next = procs[p].next, procs'[p].owns,
           procs'[p].execution = procs[p].execution, procs'[p].attempt = a,
           UNCHANGED <<canceled, waits, current, opened, halted>>,
           \/ /\ procs'[p].pc = "register" /\ gate' = p /\ a \notin Compactions
              /\ t.phase = "llm" /\ procs[p].execution # Nil /\ UNCHANGED <<reqs, observers>>
           \/ /\ procs'[p].pc = "summarize" /\ gate' = Nil /\ a \in Compactions
              /\ t.phase = "compact" /\ reqs' = reqs \cup {a}
              /\ observers' = [observers EXCEPT ![a] = "armed"]
    PROVE  CoordInv'
<1>0. /\ TypeOK /\ procs[p] \in Proc /\ PlaceSound(p) /\ a # Nil /\ s \in opened
      /\ \A x \in Sessions \ {s} : turns'[x] = turns[x]
      /\ turns'[s] = t
    BY NilAssumption, WorkersOwn DEF CoordInv, TypeOK
<1>1. ~procs[p].owns /\ procs[p].attempt = Nil
    BY WorkersOwn DEF TurnPcs, CompactPcs
<1>2. \A q \in Procs : procs[q].attempt # a
    BY <1>0 DEF CoordInv, AttemptSound
<1>3. observers[a] = "off"
    BY <1>2 DEF CoordInv, ObserversOwned
<1>4. \A x \in Sessions : turns[x].attempt # a
    BY <1>0 DEF CoordInv, EntriesSound
<1>5. Alone(p)
    <2>1. \A x \in Sessions : Names(turns[x], turns'[x]) \/ turns'[x].attempt = procs'[p].attempt
        BY <1>0 DEF Names
    <2> QED BY <1>0, <1>1, <1>3, <2>1 DEF Alone, TypeOK
<1>6. PlaceSound(p)'
    BY <1>0 DEF PlaceSound, RunPcs, TurnPcs
<1>7. AttemptSound(p)'
    BY <1>0, <1>1, <1>3, <1>4 DEF AttemptSound, Bound, TurnPcs, CompactPcs, WorkPcs
<1>8. GateSound(p)'
    BY DEF GateSound
<1>9. WaitsOwned'
    BY <1>1, WaitsStay DEF CoordInv
<1>10. ObserversOwned'
    BY <1>0, <1>1, NilAssumption, ObserversStay DEF CoordInv, TypeOK
<1>11. EntriesSound'
    BY <1>0 DEF CoordInv, EntriesSound
<1>12. ReservationsRun'
    <2>1. ASSUME NEW x \in Sessions, turns'[x].reserved, turns'[x].phase = "llm"
          PROVE  /\ turns[x].reserved /\ turns[x].phase = "llm"
                 /\ turns'[x].execution = turns[x].execution
                 /\ ~RunsReserved(p, x)
        BY <1>0, <2>1 DEF RunsReserved
    <2> QED BY <2>1, RunnersStay DEF CoordInv
<1>13. reqs' \subseteq used' /\ observers' \in [Attempts -> {"off", "armed", "checked"}]
    BY <1>0 DEF TypeOK
<1> QED BY <1>0, <1>5, <1>6, <1>7, <1>8, <1>9, <1>10, <1>11, <1>12, <1>13, Assembled
        DEF TypeOK, CoordInv

\* The second entry: an attempt is started, or the start is refused.
LEMMA StartKeeps ==
    ASSUME Manager!IndInv, CoordInv, [Next]_vars, NEW p \in Procs, StartAttempt(p)
    PROVE  CoordInv'
<1> DEFINE s == procs[p].session
           e == procs[p].execution
           fresh == Attempts \ (used \cup Compactions)
           a == CHOOSE x \in fresh : TRUE
<1>0. /\ TypeOK /\ procs[p] \in Proc /\ procs[p].pc = "start" /\ gate = Nil
      /\ s \in Sessions /\ e \in Executions /\ e # Nil
      /\ UNCHANGED <<canceled, waits, current, opened, reqs, observers, halted>>
    BY WorkersOwn, NilAssumption DEF CoordInv, TypeOK, StartAttempt, At, RunPcs, TurnPcs
<1>1. CASE Moved(p, "fail") /\ UNCHANGED <<turns, used, gate>>
    <2>1. ASSUME NEW x \in Sessions PROVE RunsReserved(p, x)' \/ ~RunsReserved(p, x)
        BY <1>0, <1>1 DEF RunsReserved, Moved, Agrees
    <2>2. procs[p].execution # Nil
        BY <1>0
    <2> HIDE DEF s, e
    <2> QED BY <1>0, <1>1, <2>1, <2>2, Stroll DEF TurnPcs, CompactPcs, WorkPcs, RunPcs
<1>2. CASE Moved(p, "recheck") /\ UNCHANGED <<turns, used, gate>> /\ ~CanStartAttempt(turns[s], e)
    <2>1. ASSUME NEW x \in Sessions, turns[x].reserved, turns[x].phase = "llm"
          PROVE  RunsReserved(p, x)' \/ ~RunsReserved(p, x)
        BY <1>0, <1>2, <2>1 DEF RunsReserved, CanStartAttempt
    <2>2. procs[p].execution # Nil
        BY <1>0
    <2> HIDE DEF s, e
    <2> QED BY <1>0, <1>2, <2>1, <2>2, Stroll DEF TurnPcs, CompactPcs, WorkPcs, RunPcs
<1>3. CASE /\ TurnRefusal(p) = "none" /\ fresh # {}
           /\ TL!Replace(s, StartAttemptTurn(procs[p].input, e, a))
           /\ used' = used \cup {a} /\ gate' = p
           /\ Set(p, [procs[p] EXCEPT !.pc = "register", !.attempt = a, !.owns = TRUE])
    <2>1. a \in Attempts \ used /\ a \notin Compactions
        BY <1>3
    <2>2. s = current
        BY <1>3 DEF TurnRefusal, Bound
    <2> DEFINE r == [procs[p] EXCEPT !.pc = "register", !.attempt = a, !.owns = TRUE]
               t == StartAttemptTurn(procs[p].input, e, a)
    <2> HIDE DEF a, fresh
    <2>3. /\ turns' = [turns EXCEPT ![s] = t] /\ t.attempt = a /\ t.execution = e
          /\ ~t.reserved /\ t.phase = "llm"
        BY <1>3 DEF TL!Replace, StartAttemptTurn, NoTurn
    <2>4. r \in Proc
        <3>1. "register" \in Pcs
            BY DEF Pcs
        <3> QED BY <1>0, <2>1, <3>1 DEF Proc
    <2>5. /\ r.session = s /\ r.next = procs[p].next /\ r.owns /\ r.execution = e
          /\ r.attempt = a /\ r.pc = "register"
        BY <1>0 DEF Proc
    <2>6. Set(p, r) /\ used' = used \cup {a} /\ gate' = p
        BY <1>3
    <2> HIDE DEF r, t
    <2>7. /\ procs' \in [Procs -> Proc] /\ procs'[p] = r
          /\ \A q \in Procs \ {p} : procs'[q] = procs[q]
        BY <1>0, <2>4, <2>6, Becomes
    <2> QED BY <1>0, <2>1, <2>2, <2>3, <2>5, <2>6, <2>7, TakenUpKeeps
<1>4. TurnRefusal(p) \in Errors /\ "failed" \in Errors /\ "recheck" \in Pcs
    BY DEF TurnRefusal, Errors, Pcs
<1> HIDE DEF a, fresh
<1>5. \/ Moved(p, "fail") /\ UNCHANGED <<turns, used, gate>>
      \/ Moved(p, "recheck") /\ UNCHANGED <<turns, used, gate>> /\ ~CanStartAttempt(turns[s], e)
      \/ /\ TurnRefusal(p) = "none" /\ fresh # {}
         /\ TL!Replace(s, StartAttemptTurn(procs[p].input, e, a))
         /\ used' = used \cup {a} /\ gate' = p
         /\ Set(p, [procs[p] EXCEPT !.pc = "register", !.attempt = a, !.owns = TRUE])
    BY <1>0, <1>4, Shapes DEF StartAttempt, turnVars, a, fresh
<1> QED BY <1>1, <1>2, <1>3, <1>5

\* The request is registered and observed, or the attempt given up.
LEMMA RegisterKeeps ==
    ASSUME Manager!IndInv, CoordInv, [Next]_vars, NEW p \in Procs, Register(p)
    PROVE  CoordInv'
<1> DEFINE s == procs[p].session
           a == procs[p].attempt
<1>0. /\ TypeOK /\ procs[p] \in Proc /\ procs[p].pc = "register" /\ procs[p].owns
      /\ PlaceSound(p) /\ AttemptSound(p) /\ GateSound(p) /\ gate = p /\ gate' = Nil
      /\ s \in Sessions /\ a \in used /\ a \in Attempts /\ observers[a] = "off" /\ a # Nil
      /\ procs[p].execution # Nil
      /\ UNCHANGED <<used, canceled, waits, current, opened, halted>>
    BY OwnsEntry, WorkersOwn, NilAssumption
       DEF CoordInv, TypeOK, AttemptSound, PlaceSound, GateSound, Register, At, RunPcs, TurnPcs,
           WorkPcs, ghosts
<1>1. ASSUME NEW x \in Sessions PROVE ~RunsReserved(p, x)
    BY <1>0 DEF RunsReserved
<1>2. CASE /\ reqs' = reqs \cup {a} /\ observers' = [observers EXCEPT ![a] = "armed"]
           /\ Goto(p, "prepare") /\ UNCHANGED turns
    <2>1. Moved(p, "prepare")
        BY <1>0, <1>2, Shapes DEF Pcs
    <2>2. procs'[p].attempt = a /\ procs'[p].owns /\ \A x \in Attempts \ {a} : observers'[x] = observers[x]
        BY <1>0, <1>2, <2>1 DEF Moved, Agrees, TypeOK
    <2>3. Alone(p)
        BY <1>0, <1>2, <2>1, <2>2 DEF Alone, Moved, Names
    <2>4. PlaceSound(p)' /\ GateSound(p)'
        BY <1>0, <2>1 DEF PlaceSound, GateSound, Moved, Agrees, RunPcs, TurnPcs
    <2>5. AttemptSound(p)'
        BY <1>0, <1>2, <2>1, <2>2 DEF AttemptSound, Bound, Moved, Agrees, TurnPcs, CompactPcs, WorkPcs
    <2>6. WaitsOwned' /\ ObserversOwned'
        BY <1>0, <2>1, <2>2, WaitsStay, ObserversStay DEF CoordInv, Moved
    <2>7. EntriesSound'
        BY <1>0, <1>2 DEF CoordInv, EntriesSound
    <2>8. ReservationsRun'
        BY <1>0, <1>1, <1>2, <2>1, RunnersStay DEF CoordInv, Moved
    <2>9. reqs' \subseteq used' /\ observers' \in [Attempts -> {"off", "armed", "checked"}]
        BY <1>0, <1>2 DEF TypeOK
    <2> HIDE DEF s, a
    <2> QED BY <1>0, <2>1, <2>3, <2>4, <2>5, <2>6, <2>7, <2>8, <2>9, Assembled
            DEF TypeOK, CoordInv, Moved
<1>3. CASE /\ TL!Apply(s, FinishAttemptResult(turns[s], a))
           /\ Set(p, [procs[p] EXCEPT !.pc = "fail", !.err = "failed", !.owns = FALSE,
                                      !.attempt = Nil])
           /\ UNCHANGED <<reqs, observers>>
    <2> DEFINE r == [procs[p] EXCEPT !.pc = "fail", !.err = "failed", !.owns = FALSE,
                                     !.attempt = Nil]
    <2>1. r \in Proc
        <3>1. "fail" \in Pcs /\ "failed" \in Errors
            BY DEF Pcs, Errors
        <3> QED BY <1>0, <3>1 DEF Proc
    <2>2. /\ r.session = s /\ r.next = procs[p].next /\ ~r.owns /\ r.attempt = Nil
          /\ r.execution = procs[p].execution /\ r.pc = "fail"
        BY <1>0 DEF Proc
    <2>3. Set(p, r)
        BY <1>3
    <2> HIDE DEF r
    <2>4. /\ procs' \in [Procs -> Proc] /\ procs'[p] = r
          /\ \A q \in Procs \ {p} : procs'[q] = procs[q]
        BY <1>0, <2>1, <2>3, Becomes
    <2>5. PlaceSound(p)'
        BY <1>0, <2>2, <2>4 DEF PlaceSound
    <2>6. AttemptSound(p)' /\ GateSound(p)'
        BY <2>2, <2>4, Unattached DEF TurnPcs, CompactPcs
    <2>7. \A x \in Sessions : Ages(turns[x], turns'[x])
        BY <1>0, <1>3, OpsAge, WritesAge
    <2>8. /\ procs'[p].attempt = Nil /\ ~procs'[p].owns /\ observers'[procs[p].attempt] = "off"
          /\ UNCHANGED <<reqs, observers>>
        BY <1>0, <1>3, <2>2, <2>4
    <2> HIDE DEF s, a
    <2> QED BY <1>0, <1>1, <2>4, <2>5, <2>6, <2>7, <2>8, Walk DEF TypeOK
<1> QED BY <1>2, <1>3 DEF Register, turnVars

\* A tool asks for a confirmation.
LEMMA AskKeeps ==
    ASSUME Manager!IndInv, CoordInv, [Next]_vars, NEW p \in Procs, AskRisk(p)
    PROVE  CoordInv'
<1> DEFINE s == procs[p].session
           a == procs[p].attempt
<1>0. /\ TypeOK /\ procs[p] \in Proc /\ procs[p].pc = "tools" /\ procs[p].owns
      /\ PlaceSound(p) /\ AttemptSound(p) /\ GateSound(p)
      /\ s \in Sessions /\ a \in used /\ a \in Attempts /\ a # Nil /\ procs[p].execution # Nil
      /\ UNCHANGED <<used, canceled, gate, current, opened, reqs, observers, halted>>
    BY OwnsEntry, WorkersOwn, NilAssumption
       DEF CoordInv, TypeOK, AskRisk, At, RunPcs, TurnPcs, WorkPcs, ghosts, scopeVars
<1>1. ASSUME NEW x \in Sessions PROVE ~RunsReserved(p, x)
    BY <1>0 DEF RunsReserved
<1>2. CASE (Goto(p, "ctxdone") \/ End(p, "none")) /\ UNCHANGED <<turns, waits>>
    <2>1. Moved(p, "ctxdone") \/ Moved(p, "unobserve")
        BY <1>0, <1>2, Shapes DEF Pcs, Errors
    <2>2. gate' \in Procs \cup {Nil} /\ gate' = gate /\ procs[p].execution # Nil
        BY <1>0 DEF TypeOK
    <2> HIDE DEF s, a
    <2> QED BY <1>0, <1>1, <1>2, <2>1, <2>2, Stroll DEF TurnPcs, CompactPcs, WorkPcs, RunPcs
<1>3. ASSUME NEW w \in Waits, waits[w].stage = "unused", CanBeginRisk(turns[s], a),
             Set(p, [procs[p] EXCEPT !.pc = "confirm", !.wait = w]),
             waits' = [waits EXCEPT ![w] = [TL!NoWait EXCEPT !.stage = "waiting", !.owner = a]],
             TL!Replace(s, RiskTurn(turns[s], w))
      PROVE  CoordInv'
    <2> DEFINE r == [procs[p] EXCEPT !.pc = "confirm", !.wait = w]
    <2>1. r \in Proc
        <3>1. "confirm" \in Pcs
            BY DEF Pcs
        <3> QED BY <1>0, <3>1 DEF Proc
    <2>2. /\ r.session = s /\ r.next = procs[p].next /\ r.owns /\ r.attempt = a /\ r.wait = w
          /\ r.execution = procs[p].execution /\ r.pc = "confirm"
        BY <1>0 DEF Proc
    <2>3. Set(p, r)
        BY <1>3
    <2> HIDE DEF r
    <2>4. /\ procs' \in [Procs -> Proc] /\ procs'[p] = r
          /\ \A q \in Procs \ {p} : procs'[q] = procs[q]
        BY <1>0, <2>1, <2>3, Becomes
    <2>5. /\ waits'[w].stage = "waiting" /\ waits'[w].owner = a
          /\ \A v \in Waits \ {w} : waits'[v] = waits[v]
        <3>1. waits \in [Waits -> TL!Wait]
            BY ManagerTypes
        <3> HIDE DEF a
        <3> QED BY <1>3, <3>1 DEF TL!NoWait
    <2>6. \A x \in Sessions : Ages(turns[x], turns'[x])
        BY <1>0, <1>3, OpsAge, WritesAge
    <2>7. /\ EntriesSound'
          /\ \A x \in Sessions : /\ Names(turns[x], turns'[x])
                                 /\ turns'[x].reserved /\ turns'[x].phase = "llm" =>
                                      turns'[x] = turns[x]
        BY <1>0, <2>6, AgesKeep
    <2>8. Alone(p)
        <3>1. \A v \in Waits : waits[v].stage # "unused" =>
                  waits'[v].stage # "unused" /\ waits'[v].owner = waits[v].owner
            BY <1>3, <2>5
        <3> HIDE DEF s
        <3> QED BY <1>0, <2>2, <2>4, <2>7, <3>1 DEF Alone
    <2>9. PlaceSound(p)' /\ GateSound(p)'
        BY <1>0, <2>2, <2>4 DEF PlaceSound, GateSound, RunPcs, TurnPcs
    <2>10. AttemptSound(p)'
        <3>1. \A x \in Sessions : turns'[x].attempt = a =>
                  x = s /\ turns'[x].execution = procs[p].execution
            BY <1>0, <2>7 DEF Names, AttemptSound, TurnPcs, CompactPcs
        <3> QED BY <1>0, <2>2, <2>4, <2>5, <3>1
                DEF AttemptSound, Bound, TurnPcs, CompactPcs, WorkPcs
    <2>11. WaitsOwned' /\ ObserversOwned'
        <3>1. \A v \in Waits : waits'[v].stage \in {"waiting", "received"} =>
                 \/ waits[v].stage \in {"waiting", "received"} /\ waits'[v].owner = waits[v].owner
                 \/ /\ procs'[p].pc = "confirm" /\ procs'[p].wait = v
                    /\ procs'[p].attempt = waits'[v].owner
            BY <2>2, <2>4, <2>5
        <3>2. procs[p].pc # "confirm" /\ procs'[p].attempt = procs[p].attempt
            BY <1>0, <2>2, <2>4
        <3> QED BY <1>0, <2>4, <3>1, <3>2, WaitsStay, ObserversStay DEF CoordInv
    <2>12. ReservationsRun'
        BY <1>1, <2>4, <2>7, RunnersStay DEF CoordInv
    <2> HIDE DEF s, a
    <2> QED BY <1>0, <2>4, <2>7, <2>8, <2>9, <2>10, <2>11, <2>12, Assembled DEF TypeOK, CoordInv
<1> QED BY <1>2, <1>3 DEF AskRisk, turnVars

\* The turn is completed; what was queued goes to the next round.
LEMMA CompleteKeeps ==
    ASSUME Manager!IndInv, CoordInv, [Next]_vars, NEW p \in Procs, CompleteTurn(p)
    PROVE  CoordInv'
<1> DEFINE s == procs[p].session
           a == procs[p].attempt
           t == turns[s]
<1>0. /\ TypeOK /\ procs[p] \in Proc /\ procs[p].pc = "complete" /\ procs[p].owns
      /\ PlaceSound(p) /\ AttemptSound(p) /\ GateSound(p)
      /\ s \in Sessions /\ s \in opened /\ t \in Turn
      /\ a \in used /\ a \in Attempts /\ a # Nil /\ procs[p].execution # Nil
      /\ UNCHANGED <<used, canceled, waits, gate, current, opened, reqs, observers, halted>>
    BY OwnsEntry, WorkersOwn, NilAssumption
       DEF CoordInv, TypeOK, PlaceSound, CompleteTurn, At, RunPcs, TurnPcs, WorkPcs, ghosts, scopeVars
<1>1. ASSUME NEW x \in Sessions PROVE ~RunsReserved(p, x)
    BY <1>0 DEF RunsReserved
<1>2. CASE (End(p, "none") \/ End(p, "failed")) /\ UNCHANGED turns
    <2>1. Moved(p, "unobserve")
        BY <1>0, <1>2, Shapes DEF Errors
    <2>2. gate' \in Procs \cup {Nil} /\ gate' = gate /\ procs[p].execution # Nil
        BY <1>0 DEF TypeOK
    <2> HIDE DEF s, a, t
    <2> QED BY <1>0, <1>1, <1>2, <2>1, <2>2, Stroll DEF TurnPcs, CompactPcs, WorkPcs, RunPcs
<1>3. CASE /\ CanCompleteTurn(t, a) /\ TL!Apply(s, CompleteTurnResult(t))
           /\ Set(p, [procs[p] EXCEPT !.pc = "unobserve", !.owns = FALSE, !.input = t.pending])
    <2> DEFINE r == [procs[p] EXCEPT !.pc = "unobserve", !.owns = FALSE, !.input = t.pending]
               u == CompleteTurnResult(t).turn
    <2>1. r \in Proc
        <3>1. "unobserve" \in Pcs /\ t.pending \in Input
            BY <1>0 DEF Pcs, Turn
        <3> HIDE DEF t
        <3> QED BY <1>0, <3>1 DEF Proc
    <2>2. /\ r.session = s /\ r.next = procs[p].next /\ ~r.owns /\ r.attempt = a
          /\ r.execution = procs[p].execution /\ r.pc = "unobserve" /\ r.input = t.pending
        <3> HIDE DEF t
        <3> QED BY <1>0 DEF Proc
    <2>3. Set(p, r)
        BY <1>3
    <2>4. t.execution = procs[p].execution
        BY <1>0, <1>3 DEF CanCompleteTurn, matches, AttemptSound
    <2>5. /\ u.attempt = Nil
          /\ \/ u = NoTurn
             \/ u.phase = "llm" /\ u.execution = t.execution /\ t.pending # << >>
        BY <1>0 DEF CompleteTurnResult, removeTurn, finishAttempt, ReservedTurn, NoTurn
    <2>6. turns'[s] = u /\ \A x \in Sessions \ {s} : turns'[x] = turns[x]
        BY <1>0, <1>3 DEF TL!Apply, TypeOK
    <2> HIDE DEF r, u, t
    <2>7. /\ procs' \in [Procs -> Proc] /\ procs'[p] = r
          /\ \A q \in Procs \ {p} : procs'[q] = procs[q]
        BY <1>0, <2>1, <2>3, Becomes
    <2>8. Alone(p)
        <3>1. \A x \in Sessions : Names(turns[x], turns'[x])
            BY <2>5, <2>6 DEF Names
        <3> HIDE DEF s
        <3> QED BY <1>0, <2>2, <2>7, <3>1 DEF Alone
    <2>9. PlaceSound(p)' /\ GateSound(p)'
        BY <1>0, <2>2, <2>7 DEF PlaceSound, GateSound, RunPcs, TurnPcs
    <2>10. AttemptSound(p)'
        <3>1. \A x \in Sessions : turns'[x].attempt # a
            BY <1>0, <2>5, <2>6 DEF AttemptSound, TurnPcs, CompactPcs
        <3> QED BY <1>0, <2>2, <2>7, <3>1 DEF AttemptSound, TurnPcs, CompactPcs, WorkPcs
    <2>11. WaitsOwned' /\ ObserversOwned'
        <3>1. procs[p].pc # "confirm" /\ procs'[p].attempt = procs[p].attempt
            BY <1>0, <2>2, <2>7
        <3> QED BY <1>0, <2>7, <3>1, WaitsStay, ObserversStay DEF CoordInv
    <2>12. EntriesSound'
        <3>1. u.phase \notin {"idle", "compact", "stopping"} => u.execution # Nil
            BY <1>0, <2>4, <2>5 DEF NoTurn
        <3>2. Nil \notin Compactions
            BY NilAssumption, ExecutionsAssumption
        <3> QED BY <1>0, <2>5, <2>6, <3>1, <3>2 DEF CoordInv, EntriesSound
    <2>13. ReservationsRun'
        <3>1. ASSUME NEW x \in Sessions, turns'[x].reserved, turns'[x].phase = "llm"
              PROVE  \/ RunsReserved(p, x)'
                     \/ /\ turns[x].reserved /\ turns[x].phase = "llm"
                        /\ turns'[x].execution = turns[x].execution
                        /\ ~RunsReserved(p, x)
            <4>1. CASE x = s
                BY <2>2, <2>4, <2>5, <2>6, <2>7, <3>1, <4>1 DEF RunsReserved, NoTurn
            <4>2. CASE x # s
                <5>1. turns'[x] = turns[x]
                    BY <2>6, <4>2
                <5>2. ~RunsReserved(p, x)
                    BY <1>1
                <5> QED BY <3>1, <5>1, <5>2
            <4> QED BY <4>1, <4>2
        <3>2. ReservationsRun /\ \A q \in Procs \ {p} : procs'[q] = procs[q]
            BY <2>7 DEF CoordInv
        <3> HIDE DEF s
        <3> QED BY <3>1, <3>2, RunnersStay
    <2> HIDE DEF s, a
    <2> QED BY <1>0, <2>7, <2>8, <2>9, <2>10, <2>11, <2>12, <2>13, Assembled DEF TypeOK, CoordInv
<1> QED BY <1>2, <1>3 DEF CompleteTurn, turnVars

\* A compaction run is admitted, or refused.
LEMMA StartCompactKeeps ==
    ASSUME Manager!IndInv, CoordInv, [Next]_vars, NEW p \in Procs, StartCompact(p)
    PROVE  CoordInv'
<1> DEFINE s == procs[p].session
           e == procs[p].execution
           c == CHOOSE x \in Compactions \ used : TRUE
<1>0. /\ TypeOK /\ procs[p] \in Proc /\ procs[p].pc = "compact" /\ gate = Nil /\ UNCHANGED gate
      /\ s \in Sessions
      /\ UNCHANGED <<canceled, waits, current, opened, halted>>
    BY WorkersOwn DEF CoordInv, TypeOK, StartCompact, At, scopeVars, ghosts
<1>1. CASE /\ e = Nil /\ (Leave(p, "failed", "none") \/ Leave(p, "binding", "none"))
           /\ UNCHANGED <<turns, used, reqs, observers>>
    <2>1. Moved(p, "done")
        BY <1>0, <1>1, Shapes DEF Errors
    <2>2. ASSUME NEW x \in Sessions, turns[x].reserved, turns[x].phase = "llm"
          PROVE  ~RunsReserved(p, x)
        BY <1>1, <2>2 DEF RunsReserved, CoordInv, EntriesSound
    <2>3. UNCHANGED <<turns, used, reqs, observers>>
        BY <1>1
    <2> HIDE DEF s, e, c
    <2> QED BY <1>0, <2>1, <2>2, <2>3, Stroll DEF TurnPcs, CompactPcs, WorkPcs, RunPcs
<1>2. CASE /\ e # Nil /\ (Fail(p, "failed") \/ Fail(p, "binding"))
           /\ UNCHANGED <<turns, used, reqs, observers>>
    <2>1. Moved(p, "fail")
        BY <1>0, <1>2, Shapes DEF Errors
    <2>2. ASSUME NEW x \in Sessions PROVE RunsReserved(p, x)' \/ ~RunsReserved(p, x)
        BY <1>0, <1>2, <2>1 DEF RunsReserved, Moved, Agrees
    <2>3. UNCHANGED <<turns, used, reqs, observers>> /\ procs[p].execution # Nil
        BY <1>2
    <2> HIDE DEF s, e, c
    <2> QED BY <1>0, <2>1, <2>2, <2>3, Stroll DEF TurnPcs, CompactPcs, WorkPcs, RunPcs
<1>3. CASE /\ Bound(p) /\ Compactions \ used # {} /\ TL!Replace(s, CompactTurn(e, c))
           /\ used' = used \cup {c} /\ reqs' = reqs \cup {c}
           /\ observers' = [observers EXCEPT ![c] = "armed"]
           /\ Set(p, [procs[p] EXCEPT !.pc = "summarize", !.attempt = c, !.owns = TRUE])
    <2>1. c \in Compactions /\ c \in Attempts \ used
        BY <1>3, ExecutionsAssumption
    <2>2. s = current
        BY <1>3 DEF Bound
    <2> DEFINE r == [procs[p] EXCEPT !.pc = "summarize", !.attempt = c, !.owns = TRUE]
               t == CompactTurn(e, c)
    <2> HIDE DEF c
    <2>3. /\ turns' = [turns EXCEPT ![s] = t] /\ t.attempt = c /\ t.execution = e
          /\ ~t.reserved /\ t.phase = "compact"
        BY <1>3 DEF TL!Replace, CompactTurn, NoTurn
    <2>4. r \in Proc
        <3>1. "summarize" \in Pcs
            BY DEF Pcs
        <3> QED BY <1>0, <2>1, <3>1 DEF Proc
    <2>5. /\ r.session = s /\ r.next = procs[p].next /\ r.owns /\ r.execution = e
          /\ r.attempt = c /\ r.pc = "summarize"
        BY <1>0 DEF Proc
    <2>6. /\ Set(p, r) /\ used' = used \cup {c} /\ reqs' = reqs \cup {c}
          /\ observers' = [observers EXCEPT ![c] = "armed"]
        BY <1>3
    <2> HIDE DEF r, t
    <2>7. /\ procs' \in [Procs -> Proc] /\ procs'[p] = r
          /\ \A q \in Procs \ {p} : procs'[q] = procs[q]
        BY <1>0, <2>4, <2>6, Becomes
    <2> QED BY <1>0, <2>1, <2>2, <2>3, <2>5, <2>6, <2>7, TakenUpKeeps
<1> HIDE DEF c
<1>4. \/ /\ RefuseCompact(p, "failed") \/ RefuseCompact(p, "binding")
         /\ UNCHANGED <<turns, used, reqs, observers>>
      \/ /\ Bound(p) /\ Compactions \ used # {} /\ TL!Replace(s, CompactTurn(e, c))
         /\ used' = used \cup {c} /\ reqs' = reqs \cup {c}
         /\ observers' = [observers EXCEPT ![c] = "armed"]
         /\ Set(p, [procs[p] EXCEPT !.pc = "summarize", !.attempt = c, !.owns = TRUE])
    BY DEF StartCompact, turnVars, c
<1> QED BY <1>1, <1>2, <1>3, <1>4 DEF RefuseCompact

\* The old session is given up, inside the gate: nobody has an attempt any more.
LEMMA HandOffKeeps ==
    ASSUME Manager!IndInv, CoordInv, [Next]_vars, NEW p \in Procs, HandOff(p)
    PROVE  CoordInv'
<1> DEFINE s == procs[p].session
           a == procs[p].attempt
<1>0. /\ TypeOK /\ procs[p] \in Proc /\ procs[p].pc = "handoff" /\ procs[p].owns
      /\ PlaceSound(p) /\ AttemptSound(p) /\ GateSound(p) /\ gate = p /\ s = current
      /\ s \in Sessions /\ a \in used /\ a \in Attempts /\ a # Nil /\ a \notin halted
      /\ UNCHANGED <<used, canceled, waits, current, opened, reqs, observers, halted>>
    BY OwnsEntry, WorkersOwn, NilAssumption
       DEF CoordInv, TypeOK, GateSound, Bound, HandOff, At, WorkPcs, ghosts
<1>1. ASSUME NEW x \in Sessions PROVE ~RunsReserved(p, x)
    BY <1>0 DEF RunsReserved
<1>2. CASE EndCompact(p, "canceled") /\ gate' = Nil /\ UNCHANGED turns
    <2>1. Moved(p, "uncompact")
        BY <1>0, <1>2, Shapes DEF Errors
    <2> HIDE DEF s, a
    <2> QED BY <1>0, <1>1, <1>2, <2>1, Stroll DEF TurnPcs, CompactPcs, WorkPcs, RunPcs
<1>3. CASE /\ CanCompleteCompact(turns[s], a) /\ TL!Apply(s, removeTurn(turns[s], TRUE))
           /\ Set(p, [procs[p] EXCEPT !.pc = "reserve", !.owns = FALSE])
           /\ UNCHANGED gate
    <2> DEFINE r == [procs[p] EXCEPT !.pc = "reserve", !.owns = FALSE]
    <2>1. r \in Proc
        <3>1. "reserve" \in Pcs
            BY DEF Pcs
        <3> QED BY <1>0, <3>1 DEF Proc
    <2>2. /\ r.session = s /\ r.next = procs[p].next /\ ~r.owns /\ r.attempt = a
          /\ r.execution = procs[p].execution /\ r.pc = "reserve"
        BY <1>0 DEF Proc
    <2>3. Set(p, r)
        BY <1>3
    <2> HIDE DEF r
    <2>4. /\ procs' \in [Procs -> Proc] /\ procs'[p] = r
          /\ \A q \in Procs \ {p} : procs'[q] = procs[q]
        BY <1>0, <2>1, <2>3, Becomes
    <2>5. \A x \in Sessions : Ages(turns[x], turns'[x])
        BY <1>0, <1>3, OpsAge, WritesAge
    <2>6. ASSUME NEW q \in Procs \ {p} PROVE ~procs[q].owns
        <3>1. SUFFICES ASSUME procs[q].owns PROVE FALSE
            OBVIOUS
        <3>2. procs[q].session = s
            BY <1>0, <3>1 DEF CoordInv, AttemptSound, Bound
        <3>3. turns[s].attempt = a /\ turns[s].attempt = procs[q].attempt
            BY <1>0, <3>1, <3>2, OwnsEntry
        <3> QED BY <1>0, <3>3 DEF CoordInv, AttemptsApart
    <2>7. PlaceSound(p)'
        BY <1>0, <2>2, <2>4 DEF PlaceSound, RunPcs, TurnPcs
    <2>8. AttemptSound(p)'
        <3>1. \A x \in Sessions : turns'[x].attempt # a
            <4>1. turns'[s].attempt = Nil /\ \A x \in Sessions \ {s} : turns'[x] = turns[x]
                BY <1>0, <1>3 DEF TL!Apply, removeTurn, NoTurn, TypeOK
            <4> QED BY <1>0, <4>1 DEF AttemptSound, TurnPcs, CompactPcs
        <3> QED BY <1>0, <2>2, <2>4, <3>1 DEF AttemptSound, TurnPcs, CompactPcs, WorkPcs
    <2>9. GateSound(p)'
        <3>1. \A q \in Procs : ~procs'[q].owns
            BY <2>2, <2>4, <2>6
        <3> QED BY <1>0, <1>3, <2>2, <2>4, <3>1 DEF GateSound, Bound
    <2>10. gate' \in Procs \cup {Nil} /\ gate' = gate
        BY <1>0, <1>3 DEF TypeOK
    <2>11. procs'[p].attempt = procs[p].attempt /\ ~procs'[p].owns
        BY <2>2, <2>4
    <2> HIDE DEF s, a
    <2> QED BY <1>0, <1>1, <2>4, <2>5, <2>7, <2>8, <2>9, <2>10, <2>11, Walk DEF TypeOK
<1> QED BY <1>2, <1>3 DEF HandOff, turnVars

\* The compacted session is created, and reserved for the execution behind it.
LEMMA ReserveKeeps ==
    ASSUME Manager!IndInv, CoordInv, [Next]_vars, NEW p \in Procs, Reserve(p)
    PROVE  CoordInv'
<1> DEFINE e == procs[p].execution
           a == procs[p].attempt
<1>0. /\ TypeOK /\ procs[p] \in Proc /\ procs[p].pc = "reserve" /\ ~procs[p].owns
      /\ PlaceSound(p) /\ AttemptSound(p) /\ GateSound(p) /\ gate = p /\ gate' = Nil
      /\ a \in used /\ a # Nil /\ \A q \in Procs : ~procs[q].owns
      /\ UNCHANGED <<used, canceled, waits, reqs, observers, halted>>
    BY DEF CoordInv, TypeOK, GateSound, AttemptSound, Reserve, At, CompactPcs, ghosts
<1>1. ASSUME NEW x \in Sessions PROVE ~RunsReserved(p, x)
    BY <1>0 DEF RunsReserved
<1>2. CASE EndCompact(p, "failed") /\ UNCHANGED <<turns, current, opened>>
    <2>1. Moved(p, "uncompact")
        BY <1>0, <1>2, Shapes DEF Errors
    <2> HIDE DEF e, a
    <2> QED BY <1>0, <1>1, <1>2, <2>1, Stroll DEF TurnPcs, CompactPcs, WorkPcs, RunPcs
<1>3. ASSUME NEW n \in Sessions \ opened, current' = n, opened' = opened \cup {n},
             Set(p, [procs[p] EXCEPT !.pc = "uncompact", !.next = n]),
             IF e # Nil THEN TL!Replace(n, ReservedTurn(procs[p].input, e))
             ELSE UNCHANGED turnVars
      PROVE  CoordInv'
    <2> DEFINE r == [procs[p] EXCEPT !.pc = "uncompact", !.next = n]
    <2>1. r \in Proc
        <3>1. "uncompact" \in Pcs
            BY DEF Pcs
        <3> QED BY <1>0, <3>1 DEF Proc
    <2>2. /\ r.session = procs[p].session /\ r.next = n /\ ~r.owns /\ r.attempt = a
          /\ r.execution = e /\ r.pc = "uncompact"
        BY <1>0 DEF Proc
    <2>3. Set(p, r)
        BY <1>3
    <2>4. /\ \A x \in Sessions \ {n} : turns'[x] = turns[x]
          /\ \/ turns'[n] = turns[n]
             \/ /\ turns'[n].attempt = Nil /\ turns'[n].phase = "llm"
                /\ turns'[n].execution = e /\ e # Nil
        BY <1>0, <1>3 DEF TL!Replace, ReservedTurn, NoTurn, TypeOK, turnVars
    <2>5. turns[n].phase = "idle"
        BY DEF CoordInv, EntriesSound
    <2> HIDE DEF r, e, a
    <2>6. /\ procs' \in [Procs -> Proc] /\ procs'[p] = r
          /\ \A q \in Procs \ {p} : procs'[q] = procs[q]
        BY <1>0, <2>1, <2>3, Becomes
    <2>7. Alone(p)
        <3>1. \A x \in Sessions : Names(turns[x], turns'[x])
            BY <2>4 DEF Names
        <3>2. procs'[p].attempt = procs[p].attempt /\ ~procs'[p].owns
            BY <2>2, <2>6 DEF a
        <3> QED BY <1>0, <1>3, <2>6, <3>1, <3>2 DEF Alone
    <2>8. PlaceSound(p)' /\ GateSound(p)'
        BY <1>0, <1>3, <2>2, <2>6 DEF PlaceSound, GateSound, RunPcs, TurnPcs
    <2>9. AttemptSound(p)'
        <3>1. \A x \in Sessions : turns'[x].attempt # a
            BY <1>0, <2>4 DEF AttemptSound, a
        <3> QED BY <1>0, <2>2, <2>6, <3>1 DEF AttemptSound, TurnPcs, CompactPcs, WorkPcs, a
    <2>10. WaitsOwned' /\ ObserversOwned'
        <3>1. procs[p].pc # "confirm" /\ procs'[p].attempt = procs[p].attempt
            BY <1>0, <2>2, <2>6 DEF a
        <3> QED BY <1>0, <2>6, <3>1, WaitsStay, ObserversStay DEF CoordInv
    <2>11. EntriesSound'
        <3>1. Nil \notin Compactions
            BY NilAssumption, ExecutionsAssumption
        <3> QED BY <1>0, <1>3, <2>4, <3>1 DEF CoordInv, EntriesSound
    <2>12. ReservationsRun'
        <3>1. ASSUME NEW x \in Sessions, turns'[x].reserved, turns'[x].phase = "llm"
              PROVE  \/ RunsReserved(p, x)'
                     \/ /\ turns[x].reserved /\ turns[x].phase = "llm"
                        /\ turns'[x].execution = turns[x].execution
                        /\ ~RunsReserved(p, x)
            <4>1. CASE x = n
                BY <2>2, <2>4, <2>5, <2>6, <3>1, <4>1 DEF RunsReserved
            <4>2. CASE x # n
                <5>1. turns'[x] = turns[x]
                    BY <2>4, <4>2
                <5> QED BY <1>1, <3>1, <5>1
            <4> QED BY <4>1, <4>2
        <3> QED BY <2>6, <3>1, RunnersStay DEF CoordInv
    <2>13. current' \in opened' /\ opened' \subseteq Sessions
        BY <1>0, <1>3 DEF TypeOK
    <2> QED BY <1>0, <2>6, <2>7, <2>8, <2>9, <2>10, <2>11, <2>12, <2>13, Assembled
            DEF TypeOK, CoordInv
<1> QED BY <1>2, <1>3 DEF Reserve, turnVars

\* The run's deferred calls.
LEMMA CompactedKeeps ==
    ASSUME Manager!IndInv, CoordInv, [Next]_vars, NEW p \in Procs, Compacted(p)
    PROVE  CoordInv'
<1> DEFINE s == procs[p].session
           a == procs[p].attempt
           m == IF procs[p].next = Nil THEN s ELSE procs[p].next
           l == IF procs[p].execution = Nil THEN "done"
                ELSE IF procs[p].err # "none" THEN "fail" ELSE "start"
           u == [procs[p] EXCEPT !.attempt = Nil, !.owns = FALSE, !.next = Nil, !.session = m]
           r == [u EXCEPT !.pc = l]
<1>0. /\ TypeOK /\ procs[p] \in Proc /\ procs[p].pc = "compacted" /\ s \in Sessions
      /\ PlaceSound(p) /\ AttemptSound(p) /\ observers[a] = "off"
      /\ UNCHANGED <<used, canceled, waits, gate, current, opened, observers, halted>>
      /\ reqs' \subseteq reqs
    BY WorkersOwn DEF CoordInv, TypeOK, AttemptSound, Compacted, At, ghosts, scopeVars
<1>1. Set(p, r)
    <2>1. u = [procs[p] EXCEPT !.attempt = Nil, !.owns = FALSE, !.next = Nil,
                 !.session = IF procs[p].next = Nil THEN @ ELSE procs[p].next]
        BY <1>0 DEF Proc
    <2> QED BY <2>1 DEF Compacted
<1>2. m \in opened /\ m \in Sessions /\ l \in Pcs /\ (procs[p].next # Nil => m = procs[p].next)
    BY <1>0 DEF PlaceSound, TypeOK, Pcs
<1>3. \A x \in Sessions : Ages(turns[x], turns'[x])
    <2>1. CASE UNCHANGED turns
        BY <2>1 DEF Ages
    <2>2. CASE TL!Apply(s, removeTurn(turns[s], TRUE))
        BY <1>0, <2>2, OpsAge, WritesAge
    <2> QED BY <2>1, <2>2 DEF Compacted, turnVars
<1>4. l \in {"done", "fail", "start"} /\ (procs[p].execution = Nil <=> l = "done")
    OBVIOUS
<1> HIDE DEF m, l
<1>5. u \in Proc /\ u.session = m /\ u.next = Nil /\ ~u.owns /\ u.attempt = Nil
      /\ u.execution = procs[p].execution
    BY <1>0, <1>2 DEF Proc
<1> HIDE DEF u
<1>6. r \in Proc /\ r.session = m /\ r.next = Nil /\ ~r.owns /\ r.attempt = Nil
      /\ r.execution = procs[p].execution /\ r.pc = l
    BY <1>2, <1>5 DEF Proc
<1> HIDE DEF r
<1>7. /\ procs' \in [Procs -> Proc] /\ procs'[p] = r
      /\ \A q \in Procs \ {p} : procs'[q] = procs[q]
    BY <1>0, <1>1, <1>6, Becomes
<1>8. PlaceSound(p)'
    BY <1>0, <1>2, <1>4, <1>6, <1>7 DEF PlaceSound, RunPcs, TurnPcs
<1>9. AttemptSound(p)' /\ GateSound(p)'
    BY <1>4, <1>6, <1>7, Unattached DEF TurnPcs, CompactPcs
<1>10. ASSUME NEW x \in Sessions, turns[x].reserved, turns[x].phase = "llm", turns'[x] = turns[x]
       PROVE  RunsReserved(p, x)' \/ ~RunsReserved(p, x)
    <2>1. turns[x].execution # Nil
        BY <1>10 DEF CoordInv, EntriesSound
    <2> QED BY <1>0, <1>2, <1>4, <1>6, <1>7, <1>10, <2>1, NilAssumption DEF RunsReserved
<1>11. gate' \in Procs \cup {Nil} /\ observers'[procs[p].attempt] = "off"
       /\ procs'[p].attempt = Nil /\ ~procs'[p].owns
    BY <1>0, <1>6, <1>7 DEF TypeOK
<1> HIDE DEF s, a
<1> QED BY <1>0, <1>3, <1>7, <1>8, <1>9, <1>10, <1>11, Walk DEF TypeOK

\* The operations the manager's own steps are written with.
LEMMA SameOps ==
    \A t : /\ TL!StopSessionResult(t) = StopSessionResult(t)
          /\ TL!beginStopTurn(t) = beginStopTurn(t)
          /\ TL!RiskAnsweredResult(t) = RiskAnsweredResult(t)
          /\ \A w : TL!IsCurrentRisk(t, w) <=> IsCurrentRisk(t, w)
BY DEF TL!StopSessionResult, StopSessionResult, TL!beginStopTurn, beginStopTurn,
       TL!removeTurn, removeTurn, TL!NoTurn, NoTurn, TL!Kept, Kept,
       TL!RiskAnsweredResult, RiskAnsweredResult, TL!IsCurrentRisk, IsCurrentRisk

\* A step that no goroutine of the table takes.
LEMMA OutsideKeeps ==
    ASSUME Manager!IndInv, CoordInv, [Next]_vars,
           UNCHANGED <<procs, gate, current, opened, used, reqs, halted>>,
           canceled \subseteq canceled',
           \A s \in Sessions : Ages(turns[s], turns'[s]),
           observers' \in [Attempts -> {"off", "armed", "checked"}],
           \A a \in Attempts : observers[a] = "off" => observers'[a] = "off",
           \A w \in Waits : /\ waits[w].stage # "unused" =>
                                 waits'[w].stage # "unused" /\ waits'[w].owner = waits[w].owner
                            /\ waits'[w].stage \in {"waiting", "received"} =>
                                 waits[w].stage \in {"waiting", "received"}
    PROVE  CoordInv'
<1>1. /\ EntriesSound'
      /\ \A s \in Sessions : /\ Names(turns[s], turns'[s])
                             /\ turns'[s].reserved /\ turns'[s].phase = "llm" =>
                                  turns'[s] = turns[s]
    BY AgesKeep
<1>2. AttemptsApart' /\ \A q \in Procs : PlaceSound(q)' /\ AttemptSound(q)' /\ GateSound(q)'
    BY <1>1, AllSound
<1>3. TypeOK'
    BY NextManager DEF CoordInv, TypeOK
<1>4. WaitsOwned'
    <2>1. ASSUME NEW w \in Waits, waits'[w].stage \in {"waiting", "received"}
          PROVE  waits[w].stage \in {"waiting", "received"} /\ waits'[w].owner = waits[w].owner
        BY <2>1
    <2> QED BY <2>1 DEF CoordInv, WaitsOwned
<1>5. ObserversOwned'
    BY DEF CoordInv, ObserversOwned
<1>6. ReservationsRun'
    <2>1. ASSUME NEW s \in Sessions, turns'[s].reserved, turns'[s].phase = "llm"
          PROVE  \E p \in Procs : RunsReserved(p, s)'
        <3>1. turns'[s] = turns[s]
            BY <1>1, <2>1
        <3>2. PICK p \in Procs : RunsReserved(p, s)
            BY <2>1, <3>1 DEF CoordInv, ReservationsRun
        <3>3. RunsReserved(p, s)'
            BY <3>1, <3>2 DEF RunsReserved
        <3> QED BY <3>3
    <2> QED BY <2>1 DEF ReservationsRun
<1>7. halted' \subseteq canceled'
    BY DEF CoordInv
<1> QED BY <1>1, <1>2, <1>3, <1>4, <1>5, <1>6, <1>7 DEF CoordInv

\* The request's observer, its timeout and the shutdown.
LEMMA ObserveKeeps ==
    ASSUME Manager!IndInv, CoordInv, [Next]_vars,
           \/ \E a \in Attempts : Observe(a) \/ Timeout(a)
           \/ BeginClose \/ Quiet
    PROVE  CoordInv'
<1>0. TypeOK
    BY DEF CoordInv
<1>1. \A s \in Sessions : Ages(turns[s], turns[s])
    BY DEF Ages
<1>2. ASSUME NEW a \in Attempts, ObserverChecks(a) PROVE CoordInv'
    <2>1. /\ UNCHANGED <<turns, waits, procs, gate, current, opened, used, reqs, halted, canceled>>
          /\ observers' = [observers EXCEPT ![a] =
                IF turns[Home(a)].phase = "awaiting_append_confirm" THEN "off" ELSE "checked"]
          /\ observers[a] = "armed"
        BY <1>2 DEF ObserverChecks, turnVars, scopeVars, ghosts
    <2>2. /\ observers' \in [Attempts -> {"off", "armed", "checked"}]
          /\ \A x \in Attempts : observers[x] = "off" => observers'[x] = "off"
        BY <1>0, <2>1 DEF TypeOK
    <2> QED BY <1>1, <2>1, <2>2, OutsideKeeps
<1>3. ASSUME NEW a \in Attempts, ObserverStops(a) PROVE CoordInv'
    <2>1. /\ UNCHANGED <<waits, procs, gate, current, opened, used, reqs, halted, canceled>>
          /\ observers' = [observers EXCEPT ![a] = "off"] /\ observers[a] = "checked"
          /\ TL!Apply(Home(a), StopAttemptResult(turns[Home(a)], a))
        BY <1>3 DEF ObserverStops, scopeVars, ghosts
    <2>2. PICK p \in Procs : procs[p].attempt = a
        BY <2>1 DEF CoordInv, ObserversOwned
    <2>3. \A q \in Procs : procs[q].attempt = a => procs[q].session \in Sessions
        BY WorkersOwn, NilAssumption DEF CoordInv, AttemptSound, PlaceSound, TypeOK,
           TurnPcs, CompactPcs
    <2>4. Home(a) \in Sessions
        <3>1. (CHOOSE q \in Procs : procs[q].attempt = a) \in Procs
              /\ procs[CHOOSE q \in Procs : procs[q].attempt = a].attempt = a
            BY <2>2
        <3> QED BY <2>3, <3>1 DEF Home
    <2>5. \A s \in Sessions : Ages(turns[s], turns'[s])
        BY <2>1, <2>4, OpsAge, WritesAge
    <2>6. /\ observers' \in [Attempts -> {"off", "armed", "checked"}]
          /\ \A x \in Attempts : observers[x] = "off" => observers'[x] = "off"
        BY <1>0, <2>1 DEF TypeOK
    <2> QED BY <2>1, <2>5, <2>6, OutsideKeeps
<1>4. ASSUME NEW a \in Attempts, Timeout(a) PROVE CoordInv'
    <2>1. /\ UNCHANGED <<turns, waits, procs, gate, current, opened, used, reqs, halted, observers>>
          /\ canceled \subseteq canceled'
        BY <1>4 DEF Timeout, turnVars, scopeVars, ghosts
    <2>2. observers' \in [Attempts -> {"off", "armed", "checked"}]
        BY <1>0, <2>1 DEF TypeOK
    <2> QED BY <1>1, <2>1, <2>2, OutsideKeeps
<1>5. CASE BeginClose
    <2>1. /\ UNCHANGED <<waits, procs, gate, current, opened, used, reqs, halted, observers>>
          /\ canceled \subseteq canceled' /\ (TL!StopAll \/ UNCHANGED turns)
        BY <1>5 DEF BeginClose, turnVars, scopeVars, ghosts
    <2>2. \A s \in Sessions : Ages(turns[s], turns'[s])
        <3>1. CASE TL!StopAll
            <4>1. \A s \in Sessions : turns'[s] = StopSessionResult(turns[s]).turn
                BY <3>1, SameOps DEF TL!StopAll
            <4> QED BY <4>1, OpsAge
        <3>2. CASE UNCHANGED turns
            BY <1>1, <3>2
        <3> QED BY <2>1, <3>1, <3>2
    <2>3. observers' \in [Attempts -> {"off", "armed", "checked"}]
        BY <1>0, <2>1 DEF TypeOK
    <2> QED BY <2>1, <2>2, <2>3, OutsideKeeps
<1>6. CASE Quiet
    <2>1. UNCHANGED vars
        BY <1>6 DEF Quiet
    <2>2. /\ UNCHANGED <<turns, waits, procs, gate, current, opened, used, reqs, halted,
                         canceled, observers>>
        BY <2>1 DEF vars
    <2>3. observers' \in [Attempts -> {"off", "armed", "checked"}]
        BY <1>0, <2>2 DEF TypeOK
    <2> QED BY <1>1, <2>2, <2>3, OutsideKeeps
<1> QED BY <1>2, <1>3, <1>4, <1>5, <1>6 DEF Observe

\* The goroutine inside WaitRisk.
LEMMA WaitKeeps ==
    ASSUME Manager!IndInv, CoordInv, [Next]_vars, NEW w \in Waits, WaitRisk(w)
    PROVE  CoordInv'
<1>0. /\ TypeOK /\ waits \in [Waits -> TL!Wait] /\ w # Nil
      /\ UNCHANGED <<procs, gate, current, opened, used, reqs, halted, observers, canceled>>
    BY ManagerTypes, NilAssumption
       DEF CoordInv, WaitRisk, scopeVars, ghosts, TL!WaitReceive, TL!WaitDone, TL!WaitComplete,
           TL!WaitRefreshed, TL!WaitExpires, TL!WaitCanceled
<1>1. waits[w].stage \in {"waiting", "received"}
    BY DEF WaitRisk, TL!WaitReceive, TL!WaitDone, TL!WaitComplete, TL!WaitRefreshed,
           TL!WaitExpires, TL!WaitCanceled
<1>2. /\ \A v \in Waits \ {w} : waits'[v] = waits[v]
      /\ waits'[w].owner = waits[w].owner
      /\ waits'[w].stage \in {"waiting", "received", "returned"}
    <2>1. ASSUME NEW x, waits' = [waits EXCEPT ![w].stage = "received", ![w].decision = x,
                                               ![w].response = Nil]
          PROVE  /\ \A v \in Waits \ {w} : waits'[v] = waits[v]
                 /\ waits'[w].owner = waits[w].owner /\ waits'[w].stage = "received"
        BY <1>0, <2>1 DEF TL!Wait
    <2>2. ASSUME waits' = [waits EXCEPT ![w].stage = "received"]
          PROVE  /\ \A v \in Waits \ {w} : waits'[v] = waits[v]
                 /\ waits'[w].owner = waits[w].owner /\ waits'[w].stage = "received"
        BY <1>0, <2>2 DEF TL!Wait
    <2>3. ASSUME NEW x, TL!WaitReturns(w, x)
          PROVE  /\ \A v \in Waits \ {w} : waits'[v] = waits[v]
                 /\ waits'[w].owner = waits[w].owner /\ waits'[w].stage = "returned"
        BY <1>0, <2>3 DEF TL!Wait, TL!WaitReturns
    <2>4. ASSUME waits' = [waits EXCEPT ![w].refresh = FALSE]
          PROVE  /\ \A v \in Waits \ {w} : waits'[v] = waits[v]
                 /\ waits'[w].owner = waits[w].owner /\ waits'[w].stage = waits[w].stage
        BY <1>0, <2>4 DEF TL!Wait
    <2>5. \/ \E x : waits' = [waits EXCEPT ![w].stage = "received", ![w].decision = x,
                                           ![w].response = Nil]
          \/ waits' = [waits EXCEPT ![w].stage = "received"]
          \/ \E x : TL!WaitReturns(w, x)
          \/ waits' = [waits EXCEPT ![w].refresh = FALSE]
        BY DEF WaitRisk, TL!WaitReceive, TL!WaitDone, TL!WaitComplete, TL!WaitRefreshed,
               TL!WaitExpires, TL!WaitCanceled
    <2> QED BY <1>1, <2>1, <2>2, <2>3, <2>4, <2>5
<1>3. \A s \in Sessions : Ages(turns[s], turns'[s])
    <2>1. CASE UNCHANGED turns
        BY <2>1 DEF Ages
    <2>2. ASSUME NEW s \in Sessions, turns[s].riskResponse = w,
                 \/ TL!Apply(s, beginStopTurn(turns[s]))
                 \/ IsCurrentRisk(turns[s], w) /\ TL!Apply(s, RiskAnsweredResult(turns[s]))
          PROVE  \A x \in Sessions : Ages(turns[x], turns'[x])
        <3>1. turns[s].phase # "idle"
            <4>1. turns[s].phase = "idle" => turns[s] = NoTurn
                BY ManagerEntries
            <4> QED BY <1>0, <2>2, <4>1 DEF NoTurn
        <3> QED BY <2>2, <3>1, OpsAge, WritesAge
    <2>3. CASE TL!StopCurrentRisk(w)
        <3>1. CASE UNCHANGED turns
            BY <2>1, <3>1
        <3>2. ASSUME NEW s \in Sessions, TL!IsCurrentRisk(turns[s], w),
                     TL!Apply(s, TL!beginStopTurn(turns[s]))
              PROVE  \A x \in Sessions : Ages(turns[x], turns'[x])
            <4>1. turns[s].riskResponse = w /\ TL!Apply(s, beginStopTurn(turns[s]))
                BY <3>2, SameOps DEF IsCurrentRisk
            <4> QED BY <2>2, <4>1
        <3> QED BY <2>3, <3>1, <3>2 DEF TL!StopCurrentRisk
    <2>4. CASE TL!WaitComplete(w)
        <3>1. CASE UNCHANGED turns
            BY <2>1, <3>1
        <3>2. ASSUME NEW s \in Sessions, turns[s].riskResponse = w,
                     \/ TL!Apply(s, TL!beginStopTurn(turns[s]))
                     \/ TL!IsCurrentRisk(turns[s], w) /\ TL!Apply(s, TL!RiskAnsweredResult(turns[s]))
              PROVE  \A x \in Sessions : Ages(turns[x], turns'[x])
            BY <2>2, <3>2, SameOps
        <3> QED BY <2>4, <3>1, <3>2 DEF TL!WaitComplete
    <2> QED BY <2>1, <2>3, <2>4
            DEF WaitRisk, TL!WaitReceive, TL!WaitDone, TL!WaitRefreshed,
                TL!WaitExpires, TL!WaitCanceled
<1>4. observers' \in [Attempts -> {"off", "armed", "checked"}]
    BY <1>0 DEF TypeOK
<1>5. \A v \in Waits : /\ waits[v].stage # "unused" =>
                            waits'[v].stage # "unused" /\ waits'[v].owner = waits[v].owner
                       /\ waits'[v].stage \in {"waiting", "received"} =>
                            waits[v].stage \in {"waiting", "received"}
    BY <1>1, <1>2
<1> QED BY <1>0, <1>3, <1>4, <1>5, OutsideKeeps

\* Every step keeps the coordinator's invariant.
LEMMA CoordKeeps == Manager!IndInv /\ CoordInv /\ [Next]_vars => CoordInv'
<1> SUFFICES ASSUME Manager!IndInv, CoordInv, [Next]_vars PROVE CoordInv'
    OBVIOUS
<1>1. ASSUME NEW p \in Procs, Step(p) PROVE CoordInv'
    BY <1>1, ArriveKeeps, EnterInputKeeps, DispatchKeeps, CancelsKeep, JoinKeeps, AnswerKeeps,
       ResumeKeeps, RunKeeps, StartKeeps, VerdictKeeps, RegisterKeeps, TalkKeeps, PhaseKeeps,
       AskKeeps, ReturnKeeps, CompleteKeeps, StopKeepsCoord, ReleaseKeepsCoord, CleanupKeeps,
       StartCompactKeeps, SummaryKeeps, HandOffKeeps, ReserveKeeps, CompactedKeeps
       DEF Step, AcceptInput, Admit, Converse, Wind, Compact
<1>2. CASE UNCHANGED vars
    <2>1. /\ UNCHANGED <<turns, waits, procs, gate, current, opened, used, reqs, halted,
                         canceled, observers>>
        BY <1>2 DEF vars
    <2>2. observers' \in [Attempts -> {"off", "armed", "checked"}]
        BY <2>1 DEF CoordInv, TypeOK
    <2>3. \A s \in Sessions : Ages(turns[s], turns'[s])
        BY <2>1 DEF Ages
    <2> QED BY <2>1, <2>2, <2>3, OutsideKeeps
<1> QED BY <1>1, <1>2, ObserveKeeps, WaitKeeps DEF Next

\* The invariant holds at the start.
LEMMA CoordInit == Init => Manager!IndInv /\ CoordInv
<1> SUFFICES ASSUME Init PROVE Manager!IndInv /\ CoordInv
    OBVIOUS
<1>1. /\ First \in Sessions /\ Nil \notin Executions /\ Nil \notin Attempts /\ Nil \notin Compactions
      /\ Nil \notin Procs
    BY NilAssumption, ExecutionsAssumption, ProcsAssumption
<1>2. \A p \in Procs : procs[p] = NewProc
    BY DEF Init
<1>3. NewProc \in Proc
    BY DEF NewProc, Proc, NoSnapshot, Phases, Pcs, Errors, Input
<1>4. /\ Working = [a \in Attempts |-> Nil]
      /\ turns = [s \in Sessions |-> NoTurn] /\ used = {} /\ canceled = {}
      /\ waits = [w \in Waits |-> TL!NoWait]
    BY <1>2 DEF Init, TL!Init, Working, NewProc, TL!NoTurn, NoTurn
<1>5. Manager!Init
    BY <1>4 DEF Init, TL!Init, Manager!Init, Manager!NoTurn, NoTurn, Manager!NoWait, TL!NoWait
<1>6. Manager!IndInv
    BY <1>5, ManagerConstants, Manager!Initially
<1>7. TypeOK
    <2>1. NoTurn \in Turn
        BY <1>1 DEF NoTurn, Turn, Phases, Input
    <2> QED BY <1>1, <1>3, <1>4, <2>1 DEF Init, TypeOK
<1>8. CoordInv
    BY <1>1, <1>2, <1>4, <1>7
       DEF CoordInv, PlaceSound, AttemptSound, GateSound, AttemptsApart, WaitsOwned,
           ObserversOwned, EntriesSound, ReservationsRun, Init, NewProc, NoTurn, TL!NoWait,
           RunPcs, TurnPcs, CompactPcs, WorkPcs
<1> QED BY <1>6, <1>8

-----------------------------------------------------------------------------
(* What holds in every behaviour.                                           *)

\* The manager's invariant and the coordinator's own hold in every state.
THEOREM CoordinatorInductive == Spec => [](Manager!IndInv /\ CoordInv)
<1>1. Init => Manager!IndInv /\ CoordInv
    BY CoordInit
<1>2. Manager!IndInv /\ CoordInv /\ [Next]_vars => (Manager!IndInv /\ CoordInv)'
    BY Simulation, ManagerKeeps, CoordKeeps
<1> QED BY <1>1, <1>2, PTL DEF Spec

\* A reserved session always has a goroutine of its execution on its way to start or
\* to retire the reservation (admit, Run's deferred cleanup, runCompact's handoff).
THEOREM CoordinatorSafe == Spec => []CoordinatorSound
<1>1. CoordInv => CoordinatorSound
    <2> SUFFICES ASSUME CoordInv PROVE CoordinatorSound
        OBVIOUS
    <2>1. ASSUME NEW s \in Sessions, turns[s].reserved, turns[s].phase = "llm"
          PROVE  \E p \in Procs : /\ procs[p].execution = turns[s].execution
                                  /\ s \in {procs[p].session, procs[p].next}
                                  /\ procs[p].pc \notin {"done", "return", "new"}
        <3>1. PICK p \in Procs : RunsReserved(p, s)
            BY <2>1 DEF CoordInv, ReservationsRun
        <3> QED BY <3>1 DEF RunsReserved
    <2> QED BY <2>1 DEF CoordInv, CoordinatorSound, ReservationHasRunner
<1> QED BY <1>1, CoordinatorInductive, PTL

\* No attempt runs in a session that compaction has left (runCompact moves the binding
\* inside the gate, once nobody has an attempt in the old session).
THEOREM RunsStayCurrent == Spec => []RunsInCurrentSession
<1>1. CoordInv => RunsInCurrentSession
    BY DEF CoordInv, AttemptSound, RunsInCurrentSession
<1> QED BY <1>1, CoordinatorInductive, PTL

\* What was landed was not halted: CommitReply looks at the request's context, and the
\* compacted session is created inside the gate that halting needs.
LEMMA LandsUnhalted ==
    ASSUME CoordInv, [Next]_vars
    PROVE  (landed' \ landed) \cap halted = {}
<1>1. ASSUME NEW p \in Procs, CommitReply(p) PROVE (landed' \ landed) \cap halted = {}
    BY <1>1 DEF CommitReply, CoordInv
<1>2. ASSUME NEW p \in Procs, Reserve(p) PROVE (landed' \ landed) \cap halted = {}
    <2>1. procs[p].attempt \notin halted
        BY <1>2 DEF CoordInv, GateSound, Reserve, At
    <2> QED BY <1>2, <2>1 DEF Reserve
<1>3. ASSUME NEW p \in Procs, Step(p), ~CommitReply(p), ~Reserve(p) PROVE UNCHANGED landed
    <2>1. CASE AcceptInput(p)
        BY <2>1 DEF AcceptInput, Arrive, EnterInput, DispatchOut, DispatchPending,
           DispatchInterrupt, InterruptCancels, Join, Answer, ResumeAppend, ghosts
    <2>2. CASE Admit(p)
        BY <2>2 DEF Admit, EnterTurn, PlanCompaction, StartAttempt, Recheck, Register, ghosts
    <2>3. CASE Converse(p)
        BY <1>3, <2>3 DEF Converse, PrepareTurn, ModelEnds, StartToolPhase, DrainPending,
           AskRisk, Confirmed, CompleteTurn, ContextDone, FinishCanceled, ghosts
    <2>4. CASE Wind(p)
        BY <2>4 DEF Wind, StopObserver, Settle, Retire, StopFailed, Release, Unregister,
           Return, FailExecution, Cleanup, ghosts
    <2>5. CASE Compact(p)
        BY <1>3, <2>5 DEF Compact, StartCompact, Summarize, CommitCompact, HandOff, Compacted,
           ghosts
    <2>6. CASE StopCommand(p) \/ StopCancels(p)
        BY <2>6 DEF StopCommand, StopCancels, ghosts
    <2> QED BY <1>3, <2>1, <2>2, <2>3, <2>4, <2>5, <2>6 DEF Step
<1>4. ASSUME NEW a \in Attempts, Observe(a) \/ Timeout(a) PROVE UNCHANGED landed
    BY <1>4 DEF Observe, ObserverChecks, ObserverStops, Timeout, ghosts
<1>5. ASSUME NEW w \in Waits, WaitRisk(w) PROVE UNCHANGED landed
    BY <1>5 DEF WaitRisk, ghosts
<1>6. CASE BeginClose \/ Quiet \/ UNCHANGED vars
    BY <1>6 DEF BeginClose, Quiet, vars, ghosts
<1> QED BY <1>1, <1>2, <1>3, <1>4, <1>5, <1>6 DEF Next

\* What a user was told is stopped commits nothing afterwards, be it a reply
\* (CommitReply) or a compacted session (CreateCompacted).
THEOREM HaltedStaysHalted == Spec => HaltedLandsNothing
<1>1. CoordInv /\ [Next]_vars => [(landed' \ landed) \cap halted = {}]_vars
    BY LandsUnhalted
<1> QED BY <1>1, CoordinatorInductive, PTL DEF Spec, HaltedLandsNothing

-----------------------------------------------------------------------------
(* The coordinator implements the manager's specification.                  *)

\* With the inputs that merging can make and no bound of the model checker, the
\* specification of the turn manager is the same in both instances.
LEMMA SameManager ==
    ASSUME Inputs = Input, MaxInput = Nil
    PROVE  /\ Manager!Init => TL!Init
           /\ Manager!Next => TL!Next
           /\ UNCHANGED Manager!vars => UNCHANGED TL!vars
<1>1. /\ \A s, res : Manager!Apply(s, res) <=> TL!Apply(s, res)
      /\ \A s, t : Manager!Replace(s, t) <=> TL!Replace(s, t)
      /\ \A a, s : Manager!Owns(a, s) <=> TL!Owns(a, s)
      /\ \A s, i : Manager!HasRoom(s, i) <=> TL!HasRoom(s, i)
      /\ \A out, es, x : Manager!Finished(out, es, x) = TL!Finished(out, es, x)
      /\ Manager!Input = Input /\ Manager!NoWait = TL!NoWait
    BY DEF Manager!Apply, TL!Apply, Manager!Replace, TL!Replace, Manager!Owns, TL!Owns,
           Manager!Waiting, TL!Waiting, Manager!HasRoom, TL!HasRoom,
           Manager!Finished, TL!Finished, Manager!Input, Input, Manager!NoWait, TL!NoWait
<1>2. Manager!Admission => TL!Admission
    <2>1. ASSUME NEW s, NEW i, NEW e
          PROVE  /\ Manager!ReserveExecution(s, i, e) => TL!ReserveExecution(s, i, e)
                 /\ \A a : Manager!StartAttempt(s, i, e, a) => TL!StartAttempt(s, i, e, a)
        <3>1. /\ Manager!CanReserve(turns[s]) <=> TL!CanReserve(turns[s])
              /\ Manager!CanStartAttempt(turns[s], e) <=> TL!CanStartAttempt(turns[s], e)
              /\ Manager!ReservedTurn(i, e) = TL!ReservedTurn(i, e)
              /\ \A a : Manager!StartAttemptTurn(i, e, a) = TL!StartAttemptTurn(i, e, a)
            BY DEF Manager!CanReserve, TL!CanReserve, Manager!CanStartAttempt, TL!CanStartAttempt,
                   Manager!ReservedTurn, TL!ReservedTurn, Manager!NoTurn, TL!NoTurn,
                   Manager!StartAttemptTurn, TL!StartAttemptTurn
        <3> QED BY <1>1, <3>1 DEF Manager!ReserveExecution, TL!ReserveExecution,
                Manager!StartAttempt, TL!StartAttempt
    <2> QED BY <2>1 DEF Manager!Admission, TL!Admission
<1>3. Manager!Compaction => TL!Compaction
    BY <1>1 DEF Manager!Compaction, TL!Compaction, Manager!StartCompactRun, TL!StartCompactRun,
       Manager!CompleteCompactRun, TL!CompleteCompactRun, Manager!CanCompact, TL!CanCompact,
       Manager!CompactTurn, TL!CompactTurn, Manager!NoTurn, TL!NoTurn,
       Manager!CanCompleteCompact, TL!CanCompleteCompact, Manager!removeTurn, TL!removeTurn
<1>4. Manager!OwnerStep => TL!OwnerStep
    <2>1. ASSUME NEW s, NEW a
          PROVE  /\ Manager!StartToolPhase(s, a) => TL!StartToolPhase(s, a)
                 /\ Manager!Drain(s, a) => TL!Drain(s, a)
                 /\ Manager!CompleteTurn(s, a) => TL!CompleteTurn(s, a)
                 /\ Manager!FinishAttempt(s, a) => TL!FinishAttempt(s, a)
                 /\ \A w : Manager!BeginRiskConfirmation(s, a, w) => TL!BeginRiskConfirmation(s, a, w)
        <3>1. /\ Manager!CanStartToolPhase(turns[s], a) <=> TL!CanStartToolPhase(turns[s], a)
              /\ Manager!DrainMergedInput(turns[s], a) = TL!DrainMergedInput(turns[s], a)
              /\ Manager!DrainedTurn(turns[s], a) = TL!DrainedTurn(turns[s], a)
              /\ Manager!CanCompleteTurn(turns[s], a) <=> TL!CanCompleteTurn(turns[s], a)
              /\ Manager!CompleteTurnResult(turns[s]) = TL!CompleteTurnResult(turns[s])
              /\ Manager!FinishAttemptResult(turns[s], a) = TL!FinishAttemptResult(turns[s], a)
              /\ Manager!CanBeginRisk(turns[s], a) <=> TL!CanBeginRisk(turns[s], a)
              /\ \A w : Manager!RiskTurn(turns[s], w) = TL!RiskTurn(turns[s], w)
            BY DEF Manager!CanStartToolPhase, TL!CanStartToolPhase, Manager!matches, TL!matches,
                   Manager!DrainMergedInput, TL!DrainMergedInput, Manager!DrainedTurn, TL!DrainedTurn,
                   Manager!CanCompleteTurn, TL!CanCompleteTurn,
                   Manager!CompleteTurnResult, TL!CompleteTurnResult, Manager!removeTurn, TL!removeTurn,
                   Manager!finishAttempt, TL!finishAttempt, Manager!ReservedTurn, TL!ReservedTurn,
                   Manager!NoTurn, TL!NoTurn, Manager!FinishAttemptResult, TL!FinishAttemptResult,
                   Manager!Kept, TL!Kept, Manager!CanBeginRisk, TL!CanBeginRisk,
                   Manager!RiskTurn, TL!RiskTurn
        <3> QED BY <1>1, <3>1
                DEF Manager!StartToolPhase, TL!StartToolPhase, Manager!Drain, TL!Drain,
                    Manager!CompleteTurn, TL!CompleteTurn, Manager!FinishAttempt, TL!FinishAttempt,
                    Manager!BeginRiskConfirmation, TL!BeginRiskConfirmation
    <2> QED BY <2>1 DEF Manager!OwnerStep, TL!OwnerStep
<1>5. Manager!Arrival => TL!Arrival
    <2>1. ASSUME NEW s, NEW i
          PROVE  /\ \A a : Manager!BeginAppend(s, a, i) => TL!BeginAppend(s, a, i)
                 /\ Manager!AppendPendingInput(s, i) => TL!AppendPendingInput(s, i)
                 /\ Manager!ResumeAppend(s) => TL!ResumeAppend(s)
                 /\ \A d : Manager!ResolveRiskConfirmation(s, d) => TL!ResolveRiskConfirmation(s, d)
                 /\ Manager!RefreshRiskConfirmation(s) => TL!RefreshRiskConfirmation(s)
        BY <1>1 DEF Manager!BeginAppend, TL!BeginAppend, Manager!CanBeginAppend, TL!CanBeginAppend,
           Manager!matches, TL!matches, Manager!BeginAppendTurn, TL!BeginAppendTurn,
           Manager!AppendPendingInput, TL!AppendPendingInput, Manager!CanAppendPending,
           TL!CanAppendPending, Manager!AppendPendingTurn, TL!AppendPendingTurn,
           Manager!ResumeAppend, TL!ResumeAppend, Manager!CanResumeAppend, TL!CanResumeAppend,
           Manager!ResumedTurn, TL!ResumedTurn,
           Manager!ResolveRiskConfirmation, TL!ResolveRiskConfirmation,
           Manager!RefreshRiskConfirmation, TL!RefreshRiskConfirmation
    <2> QED BY <1>1, <2>1 DEF Manager!Arrival, TL!Arrival
<1>6. Manager!Stop => TL!Stop
    <2>1. ASSUME NEW s
          PROVE  /\ \A a : Manager!StopAttempt(s, a) => TL!StopAttempt(s, a)
                 /\ Manager!StopSession(s) => TL!StopSession(s)
        <3>1. /\ \A a : Manager!StopAttemptResult(turns[s], a) = TL!StopAttemptResult(turns[s], a)
              /\ Manager!StopSessionResult(turns[s]) = TL!StopSessionResult(turns[s])
            BY DEF Manager!StopAttemptResult, TL!StopAttemptResult, Manager!StopSessionResult,
                   TL!StopSessionResult, Manager!matches, TL!matches, Manager!Kept, TL!Kept,
                   Manager!beginStopTurn, TL!beginStopTurn, Manager!removeTurn, TL!removeTurn,
                   Manager!NoTurn, TL!NoTurn
        <3> QED BY <1>1, <3>1 DEF Manager!StopAttempt, TL!StopAttempt,
                Manager!StopSession, TL!StopSession
    <2>2. /\ \A as : Manager!CancelRequests(as) => TL!CancelRequests(as)
          /\ \A e : Manager!FinishExecution(e) => TL!FinishExecution(e)
        BY <1>1 DEF Manager!CancelRequests, TL!CancelRequests, Manager!FinishExecution,
           TL!FinishExecution
    <2> QED BY <2>1, <2>2, ManagerWaits DEF Manager!Stop, TL!Stop
<1>7. Manager!WaiterStep => TL!WaiterStep
    BY ManagerWaits DEF Manager!WaiterStep, TL!WaiterStep
<1>8. Manager!Init => TL!Init
    BY <1>1 DEF Manager!Init, TL!Init, Manager!NoTurn, TL!NoTurn
<1>9. UNCHANGED Manager!vars => UNCHANGED TL!vars
    BY DEF Manager!vars, TL!vars
<1> QED BY <1>2, <1>3, <1>4, <1>5, <1>6, <1>7, <1>8, <1>9 DEF Manager!Next, TL!Next

\* The goroutines keep to the turn manager's protocol: every behaviour of the coordinator
\* is one of TurnLifecycle, whatever is merged and however long the input becomes.
THEOREM KeepsProtocol ==
    ASSUME Inputs = Input, MaxInput = Nil
    PROVE  Spec => Implements
<1>1. Init => TL!Init
    BY DEF Init
<1>2. Manager!IndInv /\ CoordInv /\ [Next]_vars => [TL!Next]_TL!vars
    BY Simulation, SameManager
<1> QED BY <1>1, <1>2, CoordinatorInductive, PTL DEF Spec, Implements, TL!Spec
=============================================================================
