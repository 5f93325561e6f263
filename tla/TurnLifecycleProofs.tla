------------------------ MODULE TurnLifecycleProofs ------------------------
(***************************************************************************)
(* Proofs that the turn manager keeps its safety properties for any number *)
(* of sessions, executions, attempts, waits and messages.                  *)
(***************************************************************************)
EXTENDS TurnLifecycle, TLAPS

\* The shape of one entry: which channels it holds in which phase.
EntryShape ==
    \A s \in Sessions : LET t == turns[s] IN
        /\ t.phase = "idle" => t = NoTurn
        /\ t.phase \in {"tool", "awaiting_risk_confirm", "compact", "stopping"}
              => t.attemptDone # Nil
        /\ t.phase = "llm" => t.reserved \/ t.attemptDone # Nil
        /\ t.reserved => t.attemptDone = Nil /\ t.attempt = Nil
        /\ t.attempt = Nil => t.attemptDone = Nil
        /\ t.riskDone # Nil => t.phase = "awaiting_risk_confirm"
        /\ t.phase = "awaiting_risk_confirm" =>
              t.riskDone = t.riskResponse /\ t.riskResponse # Nil
        /\ t.riskResponse # Nil =>
              t.phase \in {"awaiting_risk_confirm", "stopping"}
        /\ t.phase = "stopping" => t.pending = << >>

\* An open channel in an entry names the attempt that is running there.
EntryOwner ==
    \A s \in Sessions : turns[s].attemptDone # Nil =>
        /\ turns[s].attempt = turns[s].attemptDone
        /\ working[turns[s].attemptDone] = s
        /\ turns[s].attemptDone \notin closed

\* What is known of an attempt from its history.
AttemptHistory ==
    \A a \in Attempts :
        /\ a \notin used => working[a] = Nil /\ a \notin closed
        /\ a \in used => a \in closed \/ working[a] # Nil
        /\ working[a] # Nil => turns[working[a]].attemptDone = a

\* What is known of a confirmation wait from its stage.
WaitHistory ==
    /\ \A s \in Sessions : turns[s].riskResponse # Nil =>
        /\ waits[turns[s].riskResponse].stage # "unused"
        /\ turns[s].phase = "awaiting_risk_confirm" =>
            waits[turns[s].riskResponse].stage \in {"waiting", "received"}
        /\ waits[turns[s].riskResponse].owner = turns[s].attempt
    /\ \A s \in Sessions : turns[s].riskDone # Nil =>
        turns[s].riskDone \notin closed
    /\ \A w \in Waits :
        /\ waits[w].stage = "unused" => w \notin closed
        /\ waits[w].stage = "waiting" =>
            w \in closed \/ \E s \in Sessions : IsCurrentRisk(turns[s], w)
        /\ waits[w].stage = "received" /\ waits[w].decision = Nil => w \in closed
        /\ waits[w].stage \in {"waiting", "received"} =>
            waits[w].owner # Nil /\ working[waits[w].owner] # Nil
        /\ waits[w].result = "answered" => waits[w].decision # Nil

IndInv == /\ TypeOK
          /\ Nil \notin closed
          /\ EntryShape
          /\ EntryOwner
          /\ AttemptHistory
          /\ WaitHistory
-----------------------------------------------------------------------------
(* Types.                                                                   *)

\* Merging inputs gives an input (mergeInputs).
LEMMA ConcatInput == ASSUME NEW x \in Input, NEW y \in Input
                     PROVE  x \o y \in Input
  BY DEF Input

\* Every entry an operation builds is a turn record.
LEMMA TurnTypes ==
    /\ NoTurn \in Turn
    /\ \A i \in Input, e \in Executions \cup {Nil} :
        /\ ReservedTurn(i, e) \in Turn
        /\ \A a \in Attempts : StartAttemptTurn(i, e, a) \in Turn
    /\ \A e \in Executions \cup {Nil}, a \in Attempts : CompactTurn(e, a) \in Turn
    /\ \A t \in Turn :
        /\ \A i \in Input : /\ BeginAppendTurn(t, i) \in Turn
                            /\ AppendPendingTurn(t, i) \in Turn
        /\ ResumedTurn(t) \in Turn
        /\ \A w \in Waits : RiskTurn(t, w) \in Turn
        /\ \A a \in Attempts : DrainedTurn(t, a) \in Turn
<1>0. << >> \in Input
  BY DEF Input
<1>1. NoTurn \in Turn
  BY <1>0 DEF NoTurn, Turn, Phases
<1>2. ASSUME NEW i \in Input, NEW e \in Executions \cup {Nil}
      PROVE  /\ ReservedTurn(i, e) \in Turn
             /\ \A a \in Attempts : /\ StartAttemptTurn(i, e, a) \in Turn
                                    /\ CompactTurn(e, a) \in Turn
  BY <1>0, <1>1 DEF StartAttemptTurn, ReservedTurn, CompactTurn, NoTurn, Turn, Phases
<1>3. ASSUME NEW t \in Turn, NEW i \in Input
      PROVE  /\ BeginAppendTurn(t, i) \in Turn
             /\ AppendPendingTurn(t, i) \in Turn
             /\ ResumedTurn(t) \in Turn
             /\ \A w \in Waits : RiskTurn(t, w) \in Turn
             /\ \A a \in Attempts : DrainedTurn(t, a) \in Turn
  <2>1. t.pending \o i \in Input /\ t.original \o t.pending \in Input
    BY ConcatInput DEF Turn
  <2>2. BeginAppendTurn(t, i) \in Turn /\ AppendPendingTurn(t, i) \in Turn
    BY <2>1 DEF BeginAppendTurn, AppendPendingTurn, Turn, Phases
  <2>3. ResumedTurn(t) \in Turn
    BY <2>1, <1>0 DEF ResumedTurn, Turn, Phases
  <2>4. ASSUME NEW w \in Waits PROVE RiskTurn(t, w) \in Turn
    BY DEF RiskTurn, Turn, Phases
  <2>5. ASSUME NEW a \in Attempts PROVE DrainedTurn(t, a) \in Turn
    BY <1>0 DEF DrainedTurn, Turn
  <2>6. QED
    BY <2>2, <2>3, <2>4, <2>5
<1>4. QED
  BY <1>0, <1>1, <1>2, <1>3

\* What an operation reports to have done is well typed.
Effect == [turn : Turn, closes : SUBSET (Attempts \cup Waits \cup {Nil}),
           cancels : Executions \cup {Nil}]

\* What each operation of TurnOps decides is an entry, a set of channels and
\* an execution.
LEMMA EffectTypes ==
    ASSUME NEW t \in Turn
    PROVE  /\ Kept(t) \in Effect
           /\ \A p \in BOOLEAN : removeTurn(t, p) \in Effect
           /\ finishAttempt(t) \in Effect
           /\ beginStopTurn(t) \in Effect
           /\ CompleteTurnResult(t) \in Effect
           /\ RiskAnsweredResult(t) \in Effect
           /\ StopSessionResult(t) \in Effect
           /\ \A a \in Attempts \cup {Nil} : FinishAttemptResult(t, a) \in Effect
           /\ \A a \in Attempts \cup {Nil} : StopAttemptResult(t, a) \in Effect
<1>0. << >> \in Input /\ NoTurn \in Turn
  BY TurnTypes DEF Input
<1>1. Kept(t) \in Effect
  BY DEF Kept, Effect
<1>2. ASSUME NEW p \in BOOLEAN PROVE removeTurn(t, p) \in Effect
  BY <1>0 DEF removeTurn, Effect, Turn
<1>3. finishAttempt(t) \in Effect
  BY DEF finishAttempt, Effect, Turn
<1>4. beginStopTurn(t) \in Effect
  <2>1. CASE t.attemptDone = Nil
    BY <2>1, <1>2 DEF beginStopTurn
  <2>2. CASE t.attemptDone # Nil
    <3>1. [t EXCEPT !.riskDone = Nil, !.phase = "stopping", !.pending = << >>] \in Turn
      BY <1>0 DEF Turn, Phases
    <3>2. {t.riskDone} \ {Nil} \in SUBSET (Attempts \cup Waits \cup {Nil})
      BY DEF Turn
    <3>3. QED
      BY <2>2, <3>1, <3>2 DEF beginStopTurn, Effect
  <2>3. QED
    BY <2>1, <2>2
<1>5. CompleteTurnResult(t) \in Effect
  <2>1. CASE t.execution # Nil /\ t.pending # << >>
    <3>1. ReservedTurn(t.pending, t.execution) \in Turn
      BY <2>1, <1>0 DEF ReservedTurn, NoTurn, Turn, Phases
    <3>2. [ReservedTurn(t.pending, t.execution) EXCEPT !.compactReady = TRUE] \in Turn
      BY <3>1 DEF Turn
    <3>3. QED
      BY <3>2, <2>1, <1>3 DEF CompleteTurnResult, Effect
  <2>2. CASE ~(t.execution # Nil /\ t.pending # << >>)
    BY <2>2, <1>2 DEF CompleteTurnResult
  <2>3. QED
    BY <2>1, <2>2
<1>6. RiskAnsweredResult(t) \in Effect
  BY DEF RiskAnsweredResult, Effect, Turn, Phases
<1>7. QED
  BY <1>1, <1>2, <1>3, <1>4, <1>5, <1>6 DEF StopSessionResult, FinishAttemptResult, StopAttemptResult

\* Shared by the proofs about Apply: the new table, the closed set, the outcomes.
LEMMA FinishedType ==
    ASSUME NEW out \in [Executions -> Outcomes \cup {"open"}], NEW es, NEW r \in Outcomes
    PROVE  Finished(out, es, r) \in [Executions -> Outcomes \cup {"open"}]
  BY DEF Finished

\* Carrying out an operation keeps the types of the variables it writes.
LEMMA ApplyTypes ==
    ASSUME TypeOK, NEW s \in Sessions, NEW res \in Effect, Apply(s, res)
    PROVE  /\ turns' \in [Sessions -> Turn]
           /\ closed' \subseteq Attempts \cup Waits \cup {Nil}
           /\ outcome' \in [Executions -> Outcomes \cup {"open"}]
  BY FinishedType DEF TypeOK, Apply, Effect, Outcomes

\* A stop of the entry of s keeps the invariant, also when it is made by a
\* confirmation wait that thereby returns (wait v) without an answer.
LEMMA StopKeeps ==
    ASSUME IndInv, NEW s \in Sessions, turns[s].phase # "idle",
           Apply(s, beginStopTurn(turns[s])),
           UNCHANGED <<used, working>>, canceled' \subseteq Attempts,
           waits' \in [Waits -> Wait],
           \A v \in Waits : \/ waits'[v] = waits[v]
                            \/ /\ waits[v].stage # "unused"
                               /\ waits'[v].stage = "returned"
                               /\ waits'[v].owner = waits[v].owner
                               /\ waits'[v].result # "answered"
                               /\ turns[s].riskResponse = v
    PROVE  IndInv'
<1> DEFINE t == turns[s]
<1>0. t \in Turn /\ t.phase # "idle"
  BY DEF IndInv, TypeOK
<1>1. TypeOK'
  BY EffectTypes, ApplyTypes DEF IndInv, TypeOK
<1>2. CASE t.attemptDone = Nil
  <2>1. t.riskDone = Nil /\ t.riskResponse = Nil
    BY <1>2, <1>0 DEF IndInv, EntryShape
  <2>2. turns' = [turns EXCEPT ![s] = NoTurn] /\ closed' = closed
    BY <1>2, <2>1 DEF Apply, beginStopTurn, removeTurn
  <2>3. waits' = waits
    BY <2>1, NilAssumption DEF IndInv, TypeOK
  <2>4. EntryShape' /\ EntryOwner'
    BY <2>2, <1>0, <1>1 DEF IndInv, TypeOK, EntryShape, EntryOwner, NoTurn
  <2>5. AttemptHistory'
    BY <2>2, <1>2, NilAssumption DEF IndInv, TypeOK, AttemptHistory, NoTurn
  <2>6. WaitHistory'
    BY <2>1, <2>2, <2>3, NilAssumption DEF IndInv, TypeOK, WaitHistory, NoTurn, IsCurrentRisk
  <2>7. QED
    BY <1>1, <2>2, <2>4, <2>5, <2>6 DEF IndInv
<1>3. CASE t.attemptDone # Nil
  <2> DEFINE u == [t EXCEPT !.riskDone = Nil, !.phase = "stopping", !.pending = << >>]
  <2>1. turns' = [turns EXCEPT ![s] = u] /\ closed' = closed \cup ({t.riskDone} \ {Nil})
    BY <1>3 DEF Apply, beginStopTurn
  <2>2. /\ u.attempt = t.attempt /\ u.attemptDone = t.attemptDone
        /\ u.riskResponse = t.riskResponse /\ u.riskDone = Nil
        /\ u.phase = "stopping" /\ u.pending = << >> /\ u.reserved = t.reserved
    BY <1>0 DEF Turn
  <2>3. turns'[s] = u /\ \A r \in Sessions : r # s => turns'[r] = turns[r]
    BY <2>1 DEF IndInv, TypeOK
  <2> HIDE DEF u
  <2>4. \A a \in Attempts : a \in closed' <=> a \in closed
    BY <2>1, <1>0, NilAssumption DEF Turn
  <2>5. EntryShape'
    BY <2>2, <2>3, <1>0, <1>3 DEF IndInv, EntryShape
  <2>6. \A r \in Sessions : /\ turns'[r].attempt = turns[r].attempt
                            /\ turns'[r].attemptDone = turns[r].attemptDone
                            /\ turns[r].attemptDone \in Attempts \cup {Nil}
    BY <2>2, <2>3 DEF IndInv, TypeOK, Turn
  <2>6a. EntryOwner' /\ AttemptHistory'
    BY <2>4, <2>6 DEF IndInv, EntryOwner, AttemptHistory, TypeOK
  <2>7. (Nil \notin closed)'
    BY <2>1 DEF IndInv
  <2>8. \A r \in Sessions : r # s /\ turns[r].riskResponse # Nil =>
            turns[r].riskResponse # t.riskResponse
    BY <1>0, <1>3, NilAssumption DEF IndInv, EntryShape, EntryOwner, WaitHistory, TypeOK, Turn
  <2>9. WaitHistory'
    <3>1. ASSUME NEW r \in Sessions, turns'[r].riskResponse # Nil
          PROVE  /\ waits'[turns'[r].riskResponse].stage # "unused"
                 /\ turns'[r].phase = "awaiting_risk_confirm" =>
                      waits'[turns'[r].riskResponse].stage \in {"waiting", "received"}
                 /\ waits'[turns'[r].riskResponse].owner = turns'[r].attempt
      <4>1. turns'[r].riskResponse = turns[r].riskResponse /\ turns[r].riskResponse \in Waits
        BY <3>1, <2>2, <2>3 DEF IndInv, TypeOK, Turn
      <4>2. CASE r = s
        BY <4>1, <4>2, <2>2, <2>3, <3>1 DEF IndInv, WaitHistory
      <4>3. CASE r # s
        <5>1. waits'[turns[r].riskResponse] = waits[turns[r].riskResponse]
          BY <4>1, <4>3, <2>8, <3>1
        <5>2. QED
          BY <4>1, <4>3, <5>1, <2>3, <3>1 DEF IndInv, WaitHistory
      <4>4. QED
        BY <4>2, <4>3
    <3>2. ASSUME NEW r \in Sessions, turns'[r].riskDone # Nil
          PROVE  turns'[r].riskDone \notin closed'
      <4>1. r # s /\ turns'[r] = turns[r]
        BY <3>2, <2>2, <2>3
      <4>2. turns[r].riskDone = turns[r].riskResponse /\ turns[r].riskDone \notin closed
        BY <3>2, <4>1 DEF IndInv, WaitHistory, EntryShape
      <4>3. t.riskDone # Nil => t.riskDone = t.riskResponse
        BY <1>0 DEF IndInv, EntryShape
      <4>4. QED
        BY <3>2, <4>1, <4>2, <4>3, <2>1, <2>8
    <3>3. ASSUME NEW w \in Waits, waits'[w].stage = "waiting"
          PROVE  w \in closed' \/ \E r \in Sessions : IsCurrentRisk(turns'[r], w)
      BY <3>3, <2>1, <2>2, <2>3 DEF IndInv, WaitHistory, EntryShape, IsCurrentRisk
    <3>4. ASSUME NEW w \in Waits
          PROVE  /\ waits'[w].stage = "unused" => w \notin closed'
                 /\ waits'[w].stage = "received" /\ waits'[w].decision = Nil => w \in closed'
                 /\ waits'[w].stage \in {"waiting", "received"} =>
                      waits'[w].owner # Nil /\ working'[waits'[w].owner] # Nil
                 /\ waits'[w].result = "answered" => waits'[w].decision # Nil
      BY <2>1, <1>0 DEF IndInv, WaitHistory, EntryShape
    <3>5. QED
      BY <3>1, <3>2, <3>3, <3>4 DEF WaitHistory
  <2>10. QED
    BY <1>1, <2>5, <2>6a, <2>7, <2>9 DEF IndInv
<1>4. QED
  BY <1>2, <1>3


\* The owner of attempt a leaves the entry of s as u: its channel is closed and no
\* confirmation of it is outstanding.
LEMMA ReleaseKeeps ==
    ASSUME IndInv, NEW s \in Sessions, NEW a \in Attempts, Owns(a, s), NEW u \in Turn,
           turns' = [turns EXCEPT ![s] = u], closed' = closed \cup {a},
           outcome' \in [Executions -> Outcomes \cup {"open"}],
           working' = [working EXCEPT ![a] = Nil],
           UNCHANGED <<used, canceled, waits>>,
           u.attemptDone = Nil, u.riskDone = Nil, u.riskResponse = Nil,
           \/ u = NoTurn
           \/ u.phase = "llm" /\ u.reserved /\ u.attempt = Nil
           \/ u.phase = "awaiting_append_confirm" /\ ~u.reserved
    PROVE  IndInv'
<1>1. TypeOK'
  BY DEF IndInv, TypeOK
<1>2. turns'[s] = u /\ \A r \in Sessions : r # s => turns'[r] = turns[r]
  BY DEF IndInv, TypeOK
<1>3. turns[s].attemptDone = a /\ turns[s].attempt = a /\ working[a] = s
  BY NilAssumption DEF IndInv, Owns, AttemptHistory, EntryOwner
<1>4. turns[s].phase # "awaiting_risk_confirm" /\ turns[s].riskDone = Nil
  BY <1>3, NilAssumption DEF IndInv, TypeOK, Turn, EntryShape, WaitHistory, Owns, Waiting
<1>5. EntryShape'
  <2>1. /\ u.phase = "idle" => u = NoTurn
        /\ u.phase \in {"idle", "llm", "awaiting_append_confirm"}
        /\ u.phase = "llm" => u.reserved
        /\ u.reserved => u.attempt = Nil
    BY DEF NoTurn
  <2>2. QED
    BY <2>1, <1>2 DEF IndInv, EntryShape
<1>6. EntryOwner'
  BY <1>1, <1>2, <1>3 DEF IndInv, EntryOwner, TypeOK, Turn
<1>7. AttemptHistory'
  <2>1. ASSUME NEW b \in Attempts, b # a
        PROVE  /\ working'[b] = working[b] /\ (b \in closed' <=> b \in closed)
               /\ working[b] # Nil => working[b] # s /\ turns'[working[b]] = turns[working[b]]
    BY <2>1, <1>2, <1>3 DEF IndInv, TypeOK, AttemptHistory
  <2>2. working'[a] = Nil /\ a \in closed' /\ a \in used
    BY <1>3, NilAssumption DEF IndInv, TypeOK, AttemptHistory
  <2>3. QED
    BY <2>1, <2>2 DEF IndInv, AttemptHistory
<1>8. WaitHistory'
  <2>1. ASSUME NEW w \in Waits PROVE w \in closed' <=> w \in closed
    BY NilAssumption
  <2>2. ASSUME NEW w \in Waits, waits[w].stage \in {"waiting", "received"}
        PROVE  waits[w].owner # a
    BY <2>2 DEF Owns, Waiting
  <2>3. ASSUME NEW r \in Sessions
        PROVE  /\ turns'[r].riskResponse # Nil => turns'[r] = turns[r]
               /\ turns'[r].riskDone # Nil => turns'[r] = turns[r] /\ turns[r].riskDone \in Waits
    BY <1>2 DEF IndInv, TypeOK, Turn
  <2>4. ASSUME NEW w \in Waits, NEW r \in Sessions, IsCurrentRisk(turns[r], w)
        PROVE  IsCurrentRisk(turns'[r], w)
    BY <2>4, <1>2, <1>4 DEF IsCurrentRisk
  <2>5. ASSUME NEW w \in Waits, waits[w].stage \in {"waiting", "received"}
        PROVE  waits[w].owner # Nil /\ working'[waits[w].owner] # Nil
    BY <2>2, <2>5, <1>1 DEF IndInv, WaitHistory, TypeOK, Wait
  <2>6. QED
    BY <2>1, <2>3, <2>4, <2>5 DEF IndInv, WaitHistory
<1>9. QED
  BY <1>1, <1>5, <1>6, <1>7, <1>8, NilAssumption DEF IndInv

\* The entry of s changes to u without touching any channel or any attempt.
LEMMA ReplaceKeeps ==
    ASSUME IndInv, NEW s \in Sessions, NEW u \in Turn, Replace(s, u),
           UNCHANGED <<used, working, canceled, waits>>,
           turns[s].riskDone = Nil, turns[s].riskResponse = Nil,
           u.attemptDone = turns[s].attemptDone, u.riskDone = Nil, u.riskResponse = Nil,
           u.phase \in {"llm", "tool", "awaiting_append_confirm"},
           u.phase = "tool" => u.attemptDone # Nil,
           u.phase = "llm" => u.reserved \/ u.attemptDone # Nil,
           u.reserved => u.attemptDone = Nil /\ u.attempt = Nil,
           u.attemptDone # Nil => u.attempt = turns[s].attempt
    PROVE  IndInv'
<1>1. TypeOK'
  BY DEF IndInv, TypeOK, Replace
<1>2. turns'[s] = u /\ (\A r \in Sessions : r # s => turns'[r] = turns[r]) /\ closed' = closed
  BY DEF IndInv, TypeOK, Replace
<1>3. EntryShape'
  BY <1>2, NilAssumption DEF IndInv, EntryShape, EntryOwner, TypeOK, Turn
<1>4. EntryOwner' /\ AttemptHistory'
  BY <1>2 DEF IndInv, EntryOwner, AttemptHistory, TypeOK
<1>5. WaitHistory'
  BY <1>2, NilAssumption DEF IndInv, WaitHistory, EntryShape, IsCurrentRisk
<1>6. QED
  BY <1>1, <1>2, <1>3, <1>4, <1>5 DEF IndInv

-----------------------------------------------------------------------------
(* One lemma per group of actions.                                          *)

\* ReserveExecution and StartAttempt preserve the inductive invariant.
LEMMA AdmissionKeeps == IndInv /\ Admission => IndInv'
<1> SUFFICES ASSUME IndInv, NEW s \in Sessions, NEW e \in Executions, NEW a \in Attempts,
                    NEW i \in Inputs,
                    ReserveExecution(s, i, e) \/ StartAttempt(s, i, e, a)
             PROVE  IndInv'
  BY DEF Admission
<1>1. CASE ReserveExecution(s, i, e)
  <2>1. TypeOK'
    BY <1>1, InputsAssumption, TurnTypes DEF IndInv, TypeOK, ReserveExecution, Replace
  <2>2. EntryShape' /\ EntryOwner'
    BY <1>1, <2>1 DEF IndInv, TypeOK, EntryShape, EntryOwner, ReserveExecution, Replace,
                      CanReserve, ReservedTurn, NoTurn
  <2>3. AttemptHistory'
    BY <1>1, <2>1, NilAssumption DEF IndInv, TypeOK, EntryShape, AttemptHistory,
                      ReserveExecution, Replace, CanReserve, ReservedTurn, NoTurn
  <2>4. WaitHistory'
    BY <1>1, <2>1, NilAssumption DEF IndInv, TypeOK, WaitHistory, IsCurrentRisk,
                      ReserveExecution, Replace, CanReserve, ReservedTurn, NoTurn
  <2>5. QED
    BY <1>1, <2>1, <2>2, <2>3, <2>4 DEF IndInv, ReserveExecution, Replace
<1>2. CASE StartAttempt(s, i, e, a)
  <2>1. TypeOK'
    BY <1>2, InputsAssumption, TurnTypes DEF IndInv, TypeOK, StartAttempt, Replace
  <2>2. EntryShape'
    BY <1>2, <2>1, NilAssumption DEF IndInv, TypeOK, EntryShape, StartAttempt, Replace,
                      StartAttemptTurn, NoTurn
  <2>3. EntryOwner' /\ AttemptHistory'
    BY <1>2, <2>1, NilAssumption DEF IndInv, TypeOK, EntryShape, EntryOwner, AttemptHistory,
                      StartAttempt, Replace, CanStartAttempt, StartAttemptTurn, NoTurn
  <2>4. WaitHistory'
    BY <1>2, <2>1, NilAssumption DEF IndInv, TypeOK, EntryShape, AttemptHistory, WaitHistory,
                      IsCurrentRisk, Wait, StartAttempt, Replace, CanStartAttempt,
                      StartAttemptTurn, NoTurn
  <2>5. QED
    BY <1>2, <2>1, <2>2, <2>3, <2>4 DEF IndInv, StartAttempt, Replace
<1>3. QED
  BY <1>1, <1>2

\* StartCompactRun and CompleteCompactRun preserve the inductive invariant.
LEMMA CompactionKeeps == IndInv /\ Compaction => IndInv'
<1>1. ASSUME IndInv, NEW s \in Sessions, NEW a \in Attempts, NEW e \in Executions \cup {Nil},
             StartCompactRun(s, a, e)
      PROVE  IndInv'
  <2>1. TypeOK'
    BY <1>1, TurnTypes DEF IndInv, TypeOK, StartCompactRun, Replace
  <2>2. EntryShape'
    BY <1>1, <2>1, NilAssumption DEF IndInv, TypeOK, EntryShape, StartCompactRun, Replace,
                      CompactTurn, NoTurn
  <2>3. EntryOwner' /\ AttemptHistory'
    BY <1>1, <2>1, NilAssumption DEF IndInv, TypeOK, EntryShape, EntryOwner, AttemptHistory,
                      StartCompactRun, Replace, CanCompact, CompactTurn, NoTurn
  <2>4. WaitHistory'
    BY <1>1, <2>1, NilAssumption DEF IndInv, TypeOK, EntryShape, AttemptHistory, WaitHistory,
                      IsCurrentRisk, Wait, StartCompactRun, Replace, CanCompact, CompactTurn,
                      NoTurn
  <2>5. QED
    BY <1>1, <2>1, <2>2, <2>3, <2>4 DEF IndInv, StartCompactRun, Replace
<1>2. ASSUME IndInv, NEW s \in Sessions, NEW a \in Attempts, CompleteCompactRun(s, a)
      PROVE  IndInv'
  <2>1. turns[s].attemptDone = a /\ turns[s].riskDone \in {Nil}
    BY <1>2, NilAssumption DEF IndInv, CompleteCompactRun, Owns, AttemptHistory, EntryShape,
                CanCompleteCompact
  <2>2. /\ turns' = [turns EXCEPT ![s] = NoTurn] /\ closed' = closed \cup {a}
        /\ outcome' \in [Executions -> Outcomes \cup {"open"}]
    BY <1>2, <2>1, NilAssumption, FinishedType
       DEF IndInv, TypeOK, CompleteCompactRun, Apply, removeTurn, Outcomes
  <2>3. NoTurn \in Turn /\ NoTurn.attemptDone = Nil /\ NoTurn.riskDone = Nil
        /\ NoTurn.riskResponse = Nil
    BY TurnTypes DEF NoTurn
  <2>4. QED
    BY <1>2, <2>2, <2>3, ReleaseKeeps DEF CompleteCompactRun
<1>3. QED
  BY <1>1, <1>2 DEF Compaction

\* The owner of a running attempt is not in a confirmation, so its entry holds none.
LEMMA OwnerEntry ==
    ASSUME IndInv, NEW s \in Sessions, NEW a \in Attempts, Owns(a, s)
    PROVE  /\ turns[s] \in Turn /\ turns[s].attemptDone = a /\ turns[s].attempt = a
           /\ turns[s].riskDone = Nil /\ turns[s].phase # "awaiting_risk_confirm"
           /\ turns[s].phase # "idle" /\ ~turns[s].reserved /\ a # Nil
<1>1. turns[s] \in Turn /\ turns[s].attemptDone = a /\ turns[s].attempt = a /\ a # Nil
  BY NilAssumption DEF IndInv, TypeOK, Owns, AttemptHistory, EntryOwner
<1>2. turns[s].phase # "awaiting_risk_confirm"
  BY <1>1 DEF IndInv, TypeOK, Turn, EntryShape, WaitHistory, Owns, Waiting
<1>3. QED
  BY <1>1, <1>2 DEF IndInv, EntryShape, NoTurn

\* The operations only the attempt's own goroutine calls preserve the inductive
\* invariant.
LEMMA OwnerKeeps == IndInv /\ OwnerStep => IndInv'
<1>1. ASSUME IndInv, NEW s \in Sessions, NEW a \in Attempts, StartToolPhase(s, a)
      PROVE  IndInv'
  <2> DEFINE u == [turns[s] EXCEPT !.phase = "tool"]
  <2>1. Owns(a, s) /\ turns[s].phase = "llm" /\ Replace(s, u)
    BY <1>1 DEF StartToolPhase, CanStartToolPhase
  <2>2. /\ u \in Turn /\ u.phase = "tool" /\ u.attempt = a /\ u.attemptDone = a
        /\ u.riskDone = Nil /\ u.riskResponse = Nil /\ ~u.reserved
        /\ turns[s].riskResponse = Nil
    BY <1>1, <2>1, OwnerEntry DEF IndInv, EntryShape, Turn, Phases
  <2> HIDE DEF u
  <2>3. QED
    BY <1>1, <2>1, <2>2, OwnerEntry, ReplaceKeeps DEF StartToolPhase
<1>2. ASSUME IndInv, NEW s \in Sessions, NEW a \in Attempts, Drain(s, a)
      PROVE  IndInv'
  <2> DEFINE u == [turns[s] EXCEPT !.pending = << >>]
  <2>1. Owns(a, s) /\ Replace(s, u) /\ turns[s].pending # << >>
    BY <1>2, OwnerEntry DEF Drain, DrainedTurn, DrainMergedInput, matches
  <2>2. u \in Turn
    BY <2>1, <1>2, OwnerEntry, TurnTypes DEF DrainedTurn, matches
  <2>3. turns' = [turns EXCEPT ![s] = u] /\ UNCHANGED <<closed, outcome, used, working, canceled, waits>>
    BY <1>2, <2>1 DEF Drain, Replace
  <2>4. /\ u.phase = turns[s].phase /\ u.attempt = turns[s].attempt /\ u.reserved = turns[s].reserved
        /\ u.attemptDone = turns[s].attemptDone /\ u.riskDone = turns[s].riskDone
        /\ u.riskResponse = turns[s].riskResponse /\ u.phase # "stopping" /\ u.phase # "idle"
    BY <1>2, <2>1, OwnerEntry DEF Turn, IndInv, EntryShape
  <2> HIDE DEF u
  <2>5. TypeOK'
    BY <1>2, <2>2, <2>3 DEF IndInv, TypeOK
  <2>6. EntryShape' /\ EntryOwner' /\ AttemptHistory'
    BY <1>2, <2>3, <2>4 DEF IndInv, TypeOK, EntryShape, EntryOwner, AttemptHistory
  <2>7. WaitHistory'
    BY <1>2, <2>3, <2>4 DEF IndInv, TypeOK, WaitHistory, IsCurrentRisk
  <2>8. QED
    BY <1>2, <2>3, <2>5, <2>6, <2>7 DEF IndInv
<1>3. ASSUME IndInv, NEW s \in Sessions, NEW a \in Attempts, CompleteTurn(s, a)
      PROVE  IndInv'
  <2> DEFINE t == turns[s]
             u == CompleteTurnResult(t).turn
  <2>1. Owns(a, s) /\ Apply(s, CompleteTurnResult(t))
    BY <1>3 DEF CompleteTurn
  <2>2. t \in Turn /\ t.attemptDone = a /\ t.riskDone = Nil /\ a # Nil
    BY <1>3, <2>1, OwnerEntry
  <2>3. CompleteTurnResult(t) \in Effect
    BY <2>2, EffectTypes
  <2>4. turns' = [turns EXCEPT ![s] = u] /\ u \in Turn
        /\ outcome' \in [Executions -> Outcomes \cup {"open"}]
    BY <1>3, <2>1, <2>3, ApplyTypes DEF Apply, Effect, IndInv
  <2>5. CompleteTurnResult(t).closes = {a}
    BY <2>2 DEF CompleteTurnResult, removeTurn, finishAttempt
  <2>6. /\ u.attemptDone = Nil /\ u.riskDone = Nil /\ u.riskResponse = Nil
        /\ u = NoTurn \/ (u.phase = "llm" /\ u.reserved /\ u.attempt = Nil)
    BY DEF CompleteTurnResult, removeTurn, finishAttempt, ReservedTurn, NoTurn
  <2>7. closed' = closed \cup {a}
    BY <2>1, <2>5 DEF Apply
  <2> HIDE DEF u
  <2>8. QED
    BY <1>3, <2>1, <2>4, <2>6, <2>7, ReleaseKeeps DEF CompleteTurn
<1>4. ASSUME IndInv, NEW s \in Sessions, NEW a \in Attempts, FinishAttempt(s, a)
      PROVE  IndInv'
  <2> DEFINE t == turns[s]
             u == FinishAttemptResult(t, a).turn
  <2>1. Owns(a, s) /\ Apply(s, FinishAttemptResult(t, a))
    BY <1>4 DEF FinishAttempt
  <2>2. t \in Turn /\ t.attemptDone = a /\ t.riskDone = Nil /\ a # Nil /\ matches(t, a) /\ ~t.reserved
    BY <1>4, <2>1, OwnerEntry DEF matches
  <2>3. FinishAttemptResult(t, a) \in Effect
    BY <2>2, EffectTypes
  <2>4. turns' = [turns EXCEPT ![s] = u] /\ u \in Turn
        /\ outcome' \in [Executions -> Outcomes \cup {"open"}]
    BY <1>4, <2>1, <2>3, ApplyTypes DEF Apply, Effect, IndInv
  <2>5. FinishAttemptResult(t, a).closes = {a}
    BY <2>2 DEF FinishAttemptResult, removeTurn, finishAttempt
  <2>6. /\ u.attemptDone = Nil /\ u.riskDone = Nil /\ u.riskResponse = Nil
        /\ u = NoTurn \/ (u.phase = "awaiting_append_confirm" /\ ~u.reserved)
    <3>1. CASE t.phase = "awaiting_append_confirm"
      <4>1. u = [t EXCEPT !.attemptDone = Nil] /\ t.riskResponse = Nil
        BY <3>1, <2>2, <1>4 DEF FinishAttemptResult, finishAttempt, IndInv, EntryShape
      <4>2. QED
        BY <4>1, <3>1, <2>2 DEF Turn
    <3>2. CASE t.phase # "awaiting_append_confirm"
      BY <3>2, <2>2 DEF FinishAttemptResult, removeTurn, NoTurn
    <3>3. QED
      BY <3>1, <3>2
  <2>7. closed' = closed \cup {a}
    BY <2>1, <2>5 DEF Apply
  <2> HIDE DEF u
  <2>8. QED
    BY <1>4, <2>1, <2>4, <2>6, <2>7, ReleaseKeeps DEF FinishAttempt
<1>5. ASSUME IndInv, NEW s \in Sessions, NEW a \in Attempts, NEW w \in Waits,
             BeginRiskConfirmation(s, a, w)
      PROVE  IndInv'
  <2>1. TypeOK'
    BY <1>5, TurnTypes DEF IndInv, TypeOK, BeginRiskConfirmation, Replace, NoWait, Wait
  <2>2. EntryShape'
    BY <1>5, <2>1, NilAssumption DEF IndInv, TypeOK, Turn, EntryShape, BeginRiskConfirmation,
                Replace, CanBeginRisk, RiskTurn
  <2>3. EntryOwner' /\ AttemptHistory'
    BY <1>5, <2>1 DEF IndInv, TypeOK, Turn, EntryOwner, AttemptHistory, BeginRiskConfirmation,
                Replace, RiskTurn
  <2>4. WaitHistory'
    BY <1>5, <2>1, NilAssumption DEF IndInv, TypeOK, Turn, Wait, EntryShape, WaitHistory,
                IsCurrentRisk, BeginRiskConfirmation, Owns, Replace, CanBeginRisk, matches,
                RiskTurn, NoWait
  <2>5. QED
    BY <1>5, <2>1, <2>2, <2>3, <2>4 DEF IndInv, BeginRiskConfirmation, Replace
<1>6. QED
  BY <1>1, <1>2, <1>3, <1>4, <1>5 DEF OwnerStep

\* Input that arrives while the session is busy, and the y that resumes it,
\* preserve the inductive invariant.
LEMMA ArrivalKeeps == IndInv /\ Arrival => IndInv'
<1>1. ASSUME IndInv, NEW s \in Sessions, NEW i \in Inputs, NEW a \in Attempts \cup {Nil},
             BeginAppend(s, a, i)
      PROVE  IndInv'
  <2> DEFINE u == BeginAppendTurn(turns[s], i)
  <2>1. turns[s].phase = "llm" /\ Replace(s, u) /\ turns[s] \in Turn
    BY <1>1 DEF BeginAppend, CanBeginAppend, IndInv, TypeOK
  <2>2. /\ u \in Turn /\ u.phase = "awaiting_append_confirm" /\ u.reserved = turns[s].reserved
        /\ u.attempt = turns[s].attempt /\ u.attemptDone = turns[s].attemptDone
        /\ u.riskDone = turns[s].riskDone /\ u.riskResponse = turns[s].riskResponse
    BY <2>1, InputsAssumption, TurnTypes DEF BeginAppendTurn, Turn
  <2>3. turns[s].riskDone = Nil /\ turns[s].riskResponse = Nil
    BY <1>1, <2>1 DEF IndInv, EntryShape
  <2>4. u.reserved => u.attemptDone = Nil /\ u.attempt = Nil
    BY <1>1, <2>2 DEF IndInv, EntryShape
  <2> HIDE DEF u
  <2>5. QED
    BY <1>1, <2>1, <2>2, <2>3, <2>4, ReplaceKeeps DEF BeginAppend
<1>2. ASSUME IndInv, NEW s \in Sessions, NEW i \in Inputs, AppendPendingInput(s, i)
      PROVE  IndInv'
  <2> DEFINE u == AppendPendingTurn(turns[s], i)
  <2>1. /\ turns[s].phase \in {"awaiting_append_confirm", "tool"}
        /\ Replace(s, u) /\ turns[s] \in Turn
    BY <1>2 DEF AppendPendingInput, CanAppendPending, IndInv, TypeOK
  <2>2. /\ u \in Turn /\ u.phase = turns[s].phase /\ u.reserved = turns[s].reserved
        /\ u.attempt = turns[s].attempt /\ u.attemptDone = turns[s].attemptDone
        /\ u.riskDone = turns[s].riskDone /\ u.riskResponse = turns[s].riskResponse
    BY <2>1, InputsAssumption, TurnTypes DEF AppendPendingTurn, Turn
  <2>3. turns[s].riskDone = Nil /\ turns[s].riskResponse = Nil
    BY <1>2, <2>1 DEF IndInv, EntryShape
  <2>4. /\ u.reserved => u.attemptDone = Nil /\ u.attempt = Nil
        /\ u.phase = "tool" => u.attemptDone # Nil
    BY <1>2, <2>2 DEF IndInv, EntryShape
  <2> HIDE DEF u
  <2>5. QED
    BY <1>2, <2>1, <2>2, <2>3, <2>4, ReplaceKeeps DEF AppendPendingInput
<1>3. ASSUME IndInv, NEW s \in Sessions, ResumeAppend(s)
      PROVE  IndInv'
  <2> DEFINE u == ResumedTurn(turns[s])
  <2>1. /\ turns[s].phase = "awaiting_append_confirm" /\ turns[s].attemptDone = Nil
        /\ Replace(s, u) /\ turns[s] \in Turn
    BY <1>3 DEF ResumeAppend, CanResumeAppend, IndInv, TypeOK
  <2>2. /\ u \in Turn /\ u.phase = "llm" /\ u.reserved /\ u.attempt = Nil
        /\ u.attemptDone = turns[s].attemptDone
        /\ u.riskDone = turns[s].riskDone /\ u.riskResponse = turns[s].riskResponse
    <3>1. u \in Turn
      BY <2>1, TurnTypes
    <3>2. QED
      BY <2>1, <3>1 DEF ResumedTurn, Turn
  <2>3. turns[s].riskDone = Nil /\ turns[s].riskResponse = Nil
    BY <1>3, <2>1 DEF IndInv, EntryShape
  <2> HIDE DEF u
  <2>4. QED
    BY <1>3, <2>1, <2>2, <2>3, ReplaceKeeps DEF ResumeAppend
<1>4. ASSUME IndInv, NEW s \in Sessions, NEW d \in Decisions, ResolveRiskConfirmation(s, d)
      PROVE  IndInv'
  <2> DEFINE w == turns[s].riskResponse
  <2>1. w \in Waits /\ waits' = [waits EXCEPT ![w].response = d]
        /\ UNCHANGED <<turns, closed, outcome, used, working, canceled>>
    BY <1>4 DEF ResolveRiskConfirmation, IndInv, TypeOK, Turn, EntryShape
  <2> HIDE DEF w
  <2>2. TypeOK'
    BY <1>4, <2>1 DEF IndInv, TypeOK, Wait
  <2>3. \A v \in Waits : /\ waits'[v].stage = waits[v].stage /\ waits'[v].owner = waits[v].owner
                         /\ waits'[v].decision = waits[v].decision
                         /\ waits'[v].result = waits[v].result
    BY <1>4, <2>1 DEF IndInv, TypeOK, Wait
  <2>4. QED
    BY <1>4, <2>1, <2>2, <2>3 DEF IndInv, TypeOK, Turn, EntryShape, EntryOwner,
                                  AttemptHistory, WaitHistory
<1>5. ASSUME IndInv, NEW s \in Sessions, RefreshRiskConfirmation(s)
      PROVE  IndInv'
  <2> DEFINE w == turns[s].riskResponse
  <2>1. w \in Waits /\ waits' = [waits EXCEPT ![w].refresh = TRUE]
        /\ UNCHANGED <<turns, closed, outcome, used, working, canceled>>
    BY <1>5 DEF RefreshRiskConfirmation, IndInv, TypeOK, Turn, EntryShape
  <2> HIDE DEF w
  <2>2. TypeOK'
    <3>0. waits[w] \in Wait
      BY <1>5, <2>1 DEF IndInv, TypeOK
    <3>1. [waits[w] EXCEPT !.refresh = TRUE] \in Wait
      BY <3>0 DEF Wait
    <3>2. QED
      BY <1>5, <2>1, <3>1 DEF IndInv, TypeOK
  <2>3. \A v \in Waits : /\ waits'[v].stage = waits[v].stage /\ waits'[v].owner = waits[v].owner
                         /\ waits'[v].decision = waits[v].decision
                         /\ waits'[v].result = waits[v].result
    BY <1>5, <2>1 DEF IndInv, TypeOK, Wait
  <2>4. QED
    BY <1>5, <2>1, <2>2, <2>3 DEF IndInv, TypeOK, Turn, EntryShape, EntryOwner,
                                  AttemptHistory, WaitHistory
<1>6. QED
  BY <1>1, <1>2, <1>3, <1>4, <1>5 DEF Arrival

\* StopAll stops every entry at once; each session's part is that of StopSession.
LEMMA StopAllKeeps == IndInv /\ StopAll => IndInv'
<1> SUFFICES ASSUME IndInv, StopAll PROVE IndInv'
  OBVIOUS
<1> DEFINE R(s) == StopSessionResult(turns[s])
<1>1. /\ turns' = [s \in Sessions |-> R(s).turn]
      /\ closed' = closed \cup UNION {R(s).closes : s \in Sessions}
      /\ outcome' = Finished(outcome, {R(s).cancels : s \in Sessions}, "cancelled")
      /\ UNCHANGED <<used, working, canceled, waits>>
  BY DEF StopAll
<1>2. ASSUME NEW s \in Sessions
      PROVE  /\ R(s) \in Effect
             /\ R(s).closes = {turns[s].riskDone} \ {Nil}
             /\ R(s).turn.attemptDone = turns[s].attemptDone
             /\ turns[s].attemptDone = Nil => R(s).turn = NoTurn
             /\ turns[s].attemptDone # Nil =>
                  /\ R(s).turn.attempt = turns[s].attempt /\ R(s).turn.phase = "stopping"
                  /\ R(s).turn.reserved = turns[s].reserved /\ R(s).turn.riskDone = Nil
                  /\ R(s).turn.riskResponse = turns[s].riskResponse
                  /\ R(s).turn.pending = << >>
  <2>0. turns[s] \in Turn /\ R(s) \in Effect
    BY EffectTypes DEF IndInv, TypeOK
  <2>1. CASE turns[s].phase = "idle"
    <3>1. turns[s] = NoTurn /\ R(s).turn = NoTurn /\ R(s).closes = {}
      BY <2>1 DEF IndInv, EntryShape, StopSessionResult, Kept
    <3>2. NoTurn.attemptDone = Nil /\ NoTurn.riskDone = Nil
      BY DEF NoTurn
    <3> HIDE DEF R
    <3>3. QED
      BY <2>0, <3>1, <3>2
  <2>2. CASE turns[s].phase # "idle" /\ turns[s].attemptDone = Nil
    <3>1. turns[s].riskDone = Nil
      BY <2>2 DEF IndInv, EntryShape
    <3>2. QED
      BY <2>0, <2>2, <3>1 DEF StopSessionResult, beginStopTurn, removeTurn, NoTurn
  <2>3. CASE turns[s].phase # "idle" /\ turns[s].attemptDone # Nil
    <3> DEFINE u == [turns[s] EXCEPT !.riskDone = Nil, !.phase = "stopping", !.pending = << >>]
    <3>1. R(s).turn = u /\ R(s).closes = {turns[s].riskDone} \ {Nil}
      BY <2>3 DEF StopSessionResult, beginStopTurn
    <3>2. /\ u.attempt = turns[s].attempt /\ u.attemptDone = turns[s].attemptDone
          /\ u.riskResponse = turns[s].riskResponse /\ u.riskDone = Nil
          /\ u.phase = "stopping" /\ u.pending = << >> /\ u.reserved = turns[s].reserved
      BY <2>0 DEF Turn
    <3> HIDE DEF u, R
    <3>3. QED
      BY <2>0, <2>3, <3>1, <3>2
  <2>4. QED
    BY <2>1, <2>2, <2>3
<1> HIDE DEF R
<1>3. TypeOK'
  BY <1>1, <1>2, FinishedType DEF IndInv, TypeOK, Effect, Outcomes
<1>4. ASSUME NEW s \in Sessions
      PROVE  /\ turns'[s].attemptDone = turns[s].attemptDone
             /\ turns[s].attemptDone = Nil => turns'[s] = NoTurn
             /\ turns[s].attemptDone # Nil =>
                  /\ turns'[s].attempt = turns[s].attempt /\ turns'[s].phase = "stopping"
                  /\ turns'[s].reserved = turns[s].reserved /\ turns'[s].riskDone = Nil
                  /\ turns'[s].riskResponse = turns[s].riskResponse
                  /\ turns'[s].pending = << >>
  BY <1>1, <1>2
<1>5. \A c : c \in closed' <=> c \in closed \/ \E s \in Sessions : c = turns[s].riskDone /\ c # Nil
  BY <1>1, <1>2
<1>6. \A a \in Attempts \cup {Nil} : a \in closed' <=> a \in closed
  BY <1>5, NilAssumption DEF IndInv, TypeOK, Turn
<1>7. EntryShape'
  <2>1. ASSUME NEW s \in Sessions, turns[s].attemptDone # Nil
        PROVE  turns[s].attempt # Nil /\ ~turns[s].reserved
    BY <2>1 DEF IndInv, EntryShape
  <2>2. NoTurn.phase = "idle" /\ NoTurn.attemptDone = Nil /\ NoTurn.attempt = Nil
        /\ NoTurn.riskDone = Nil /\ NoTurn.riskResponse = Nil /\ ~NoTurn.reserved
    BY DEF NoTurn
  <2>3. QED
    BY <1>4, <2>1, <2>2 DEF EntryShape
<1>8. EntryOwner' /\ AttemptHistory'
  BY <1>1, <1>4, <1>6, NilAssumption DEF IndInv, EntryOwner, AttemptHistory, TypeOK, Turn
<1>9. WaitHistory'
  <2>1. ASSUME NEW s \in Sessions
        PROVE  /\ turns'[s].riskDone = Nil /\ turns'[s].phase # "awaiting_risk_confirm"
               /\ turns'[s].riskResponse # Nil =>
                    /\ turns'[s].riskResponse = turns[s].riskResponse
                    /\ turns'[s].attempt = turns[s].attempt
    BY <1>4 DEF NoTurn
  <2>2. ASSUME NEW w \in Waits, waits[w].stage = "unused" PROVE w \notin closed'
    BY <1>5, <2>2 DEF IndInv, WaitHistory, EntryShape
  <2>3. ASSUME NEW w \in Waits, waits[w].stage = "waiting" PROVE w \in closed'
    BY <1>5, <2>3, NilAssumption DEF IndInv, WaitHistory, EntryShape, IsCurrentRisk
  <2>4. ASSUME NEW w \in Waits, w \in closed PROVE w \in closed'
    BY <1>5, <2>4
  <2>5. QED
    BY <1>1, <2>1, <2>2, <2>3, <2>4 DEF IndInv, WaitHistory
<1>10. QED
  BY <1>3, <1>6, <1>7, <1>8, <1>9 DEF IndInv

\* Every stop, cancellation and finish from outside preserves the inductive
\* invariant.
LEMMA StopActionKeeps == IndInv /\ Stop => IndInv'
<1>0. ASSUME IndInv, UNCHANGED <<turns, closed, outcome, used, working, canceled, waits>>
      PROVE  IndInv'
  BY <1>0 DEF IndInv, TypeOK, EntryShape, EntryOwner, AttemptHistory, WaitHistory
<1>1. ASSUME IndInv, NEW s \in Sessions, NEW a \in Attempts \cup {Nil}, StopAttempt(s, a)
      PROVE  IndInv'
  <2>1. CASE matches(turns[s], a)
    BY <1>1, <2>1, StopKeeps DEF StopAttempt, StopAttemptResult, matches, IndInv, TypeOK
  <2>2. CASE ~matches(turns[s], a)
    <3>1. turns' = turns /\ closed' = closed /\ outcome' = outcome
      BY <1>1, <2>2, NilAssumption DEF StopAttempt, StopAttemptResult, Kept, Apply, Finished, IndInv, TypeOK
    <3>2. QED
      BY <1>0, <1>1, <3>1 DEF StopAttempt
  <2>3. QED
    BY <2>1, <2>2
<1>2. ASSUME IndInv, NEW s \in Sessions, StopSession(s)
      PROVE  IndInv'
  <2>1. CASE turns[s].phase # "idle"
    BY <1>2, <2>1, StopKeeps DEF StopSession, StopSessionResult, IndInv, TypeOK
  <2>2. CASE turns[s].phase = "idle"
    <3>1. turns' = turns /\ closed' = closed /\ outcome' = outcome
      BY <1>2, <2>2, NilAssumption DEF StopSession, StopSessionResult, Kept, Apply, Finished, IndInv, TypeOK
    <3>2. QED
      BY <1>0, <1>2, <3>1 DEF StopSession
  <2>3. QED
    BY <2>1, <2>2
<1>3. ASSUME IndInv, NEW as \in SUBSET Attempts, CancelRequests(as)
      PROVE  IndInv'
  BY <1>3 DEF CancelRequests, IndInv, TypeOK, EntryShape, EntryOwner, AttemptHistory, WaitHistory
<1>4. ASSUME IndInv, NEW e \in Executions, FinishExecution(e)
      PROVE  IndInv'
  BY <1>4, FinishedType DEF FinishExecution, Outcomes, IndInv, TypeOK, EntryShape, EntryOwner,
                            AttemptHistory, WaitHistory
<1>5. QED
  BY <1>1, <1>2, <1>3, <1>4, StopAllKeeps DEF Stop

\* A step inside WaitRisk that touches no entry: only what is known of waits matters.
LEMMA WaitLocal ==
    ASSUME IndInv, UNCHANGED <<turns, closed, outcome, used, working, canceled>>,
           NEW w \in Waits, NEW x \in Wait, waits' = [waits EXCEPT ![w] = x],
           waits[w].stage \in {"waiting", "received"}, x.owner = waits[w].owner,
           x.stage \in {"waiting", "received", "returned"},
           x.stage = "waiting" => waits[w].stage = "waiting",
           x.stage = "received" /\ x.decision = Nil => w \in closed,
           x.stage = "returned" => ~\E s \in Sessions : IsCurrentRisk(turns[s], w),
           x.result = "answered" => x.decision # Nil
    PROVE  IndInv'
<1>1. TypeOK' /\ waits'[w] = x /\ \A v \in Waits : v # w => waits'[v] = waits[v]
  BY DEF IndInv, TypeOK
<1>2. EntryShape' /\ EntryOwner' /\ AttemptHistory'
  BY DEF IndInv, EntryShape, EntryOwner, AttemptHistory
<1>3. ASSUME NEW s \in Sessions, turns[s].riskResponse # Nil
      PROVE  /\ waits'[turns[s].riskResponse].stage # "unused"
             /\ turns[s].phase = "awaiting_risk_confirm" =>
                  waits'[turns[s].riskResponse].stage \in {"waiting", "received"}
             /\ waits'[turns[s].riskResponse].owner = turns[s].attempt
  <2>1. turns[s].riskResponse \in Waits
    BY <1>3 DEF IndInv, TypeOK, Turn
  <2>2. QED
    BY <1>1, <1>3, <2>1 DEF IndInv, WaitHistory, IsCurrentRisk
<1>4. WaitHistory'
  BY <1>1, <1>3 DEF IndInv, WaitHistory
<1>5. QED
  BY <1>1, <1>2, <1>4 DEF IndInv

\* WaitRisk returns without an answer after stopping the entry it was asked for.
LEMMA WaitStops ==
    ASSUME IndInv, NEW w \in Waits, NEW s \in Sessions, NEW r \in {"canceled", "expired"},
           turns[s].riskResponse = w, turns[s].phase # "idle", waits[w].stage # "unused",
           Apply(s, beginStopTurn(turns[s])), WaitReturns(w, r),
           UNCHANGED <<used, working, canceled>>
    PROVE  IndInv'
<1>1. waits[w] \in Wait
  BY DEF IndInv, TypeOK
<1> DEFINE x == [waits[w] EXCEPT !.stage = "returned", !.result = r]
<1>2. x \in Wait /\ x.stage = "returned" /\ x.owner = waits[w].owner /\ x.result # "answered"
  BY <1>1 DEF Wait
<1>3. waits' = [waits EXCEPT ![w] = x]
  BY <1>1 DEF WaitReturns
<1> HIDE DEF x
<1>4. /\ waits' \in [Waits -> Wait] /\ waits'[w] = x
      /\ \A v \in Waits : v # w => waits'[v] = waits[v]
  BY <1>2, <1>3 DEF IndInv, TypeOK
<1>5. canceled' \subseteq Attempts
  BY DEF IndInv, TypeOK
<1>6. QED
  BY <1>2, <1>4, <1>5, StopKeeps

\* WaitRisk returns and no entry is being confirmed by it: nothing else changes.
LEMMA WaitLeaves ==
    ASSUME IndInv, NEW w \in Waits, NEW r \in {"canceled", "expired", "stale"},
           waits[w].stage \in {"waiting", "received"},
           ~\E s \in Sessions : IsCurrentRisk(turns[s], w), WaitReturns(w, r),
           UNCHANGED <<turns, closed, outcome, used, working, canceled>>
    PROVE  IndInv'
<1>1. waits[w] \in Wait
  BY DEF IndInv, TypeOK
<1> DEFINE x == [waits[w] EXCEPT !.stage = "returned", !.result = r]
<1>2. x \in Wait /\ x.stage = "returned" /\ x.owner = waits[w].owner /\ x.result # "answered"
  BY <1>1 DEF Wait
<1>3. waits' = [waits EXCEPT ![w] = x]
  BY <1>1 DEF WaitReturns
<1> HIDE DEF x
<1>4. QED
  BY <1>2, <1>3, WaitLocal

\* Complete takes the answer: back to the tool phase, the wait's channel closed.
LEMMA AnswerKeeps ==
    ASSUME IndInv, NEW w \in Waits, NEW s \in Sessions, waits[w].stage = "received",
           IsCurrentRisk(turns[s], w), Apply(s, RiskAnsweredResult(turns[s])),
           WaitReturns(w, "answered"), UNCHANGED <<used, working, canceled>>
    PROVE  IndInv'
<1> DEFINE t == turns[s]
           u == [t EXCEPT !.phase = "tool", !.riskResponse = Nil, !.riskDone = Nil]
           x == [waits[w] EXCEPT !.stage = "returned", !.result = "answered"]
<1>0. /\ t \in Turn /\ waits[w] \in Wait /\ t.phase = "awaiting_risk_confirm"
      /\ t.riskResponse = w /\ t.riskDone = w /\ w # Nil /\ t.attemptDone # Nil
      /\ w \notin closed
  BY NilAssumption DEF IndInv, TypeOK, IsCurrentRisk, EntryShape, WaitHistory
<1>1. /\ turns' = [turns EXCEPT ![s] = u] /\ closed' = closed \cup {w}
      /\ waits' = [waits EXCEPT ![w] = x]
  BY <1>0 DEF Apply, RiskAnsweredResult, WaitReturns
<1>2. /\ u.phase = "tool" /\ u.attempt = t.attempt /\ u.attemptDone = t.attemptDone
      /\ u.riskResponse = Nil /\ u.riskDone = Nil /\ u.reserved = t.reserved
  BY <1>0 DEF Turn
<1>3. /\ x \in Wait /\ x.stage = "returned" /\ x.owner = waits[w].owner
      /\ x.decision = waits[w].decision
  BY <1>0 DEF Wait
<1>4. waits[w].decision # Nil
  BY <1>0 DEF IndInv, WaitHistory
<1> HIDE DEF u, x
<1>5. TypeOK'
  <2>1. RiskAnsweredResult(t) \in Effect
    BY <1>0, EffectTypes
  <2>2. waits' \in [Waits -> Wait]
    BY <1>1, <1>3 DEF IndInv, TypeOK
  <2>3. QED
    BY <2>1, <2>2, ApplyTypes DEF IndInv, TypeOK
<1>6. /\ turns'[s] = u /\ \A r \in Sessions : r # s => turns'[r] = turns[r]
      /\ waits'[w] = x /\ \A v \in Waits : v # w => waits'[v] = waits[v]
  BY <1>1 DEF IndInv, TypeOK
<1>7. EntryShape'
  BY <1>0, <1>2, <1>6 DEF IndInv, EntryShape
<1>8. \A r \in Sessions : /\ turns'[r].attempt = turns[r].attempt
                          /\ turns'[r].attemptDone = turns[r].attemptDone
                          /\ turns[r].attemptDone \in Attempts \cup {Nil}
  BY <1>2, <1>6 DEF IndInv, TypeOK, Turn
<1>9. \A a \in Attempts \cup {Nil} : a \in closed' <=> a \in closed
  BY <1>1, NilAssumption
<1>10. EntryOwner' /\ AttemptHistory'
  BY <1>8, <1>9 DEF IndInv, EntryOwner, AttemptHistory, TypeOK
<1>11. ASSUME NEW r \in Sessions, r # s, turns[r].riskResponse # Nil
       PROVE  turns[r].riskResponse # w /\ turns[r].riskResponse \in Waits
  BY <1>0, <1>11, NilAssumption DEF IndInv, EntryShape, EntryOwner, WaitHistory, TypeOK, Turn
<1>12. WaitHistory'
  <2>1. ASSUME NEW r \in Sessions, turns'[r].riskResponse # Nil
        PROVE  /\ r # s /\ turns'[r] = turns[r]
               /\ waits'[turns'[r].riskResponse] = waits[turns[r].riskResponse]
    BY <1>2, <1>6, <1>11, <2>1
  <2>2. ASSUME NEW r \in Sessions, turns'[r].riskDone # Nil
        PROVE  turns'[r].riskDone \notin closed'
    BY <1>1, <1>2, <1>6, <1>11, <2>2 DEF IndInv, WaitHistory, EntryShape
  <2>3. ASSUME NEW v \in Waits, v # w, NEW r \in Sessions, IsCurrentRisk(turns[r], v)
        PROVE  IsCurrentRisk(turns'[r], v)
    BY <1>0, <1>6, <2>3 DEF IsCurrentRisk
  <2>4. ASSUME NEW v \in Waits, v # w
        PROVE  waits'[v] = waits[v] /\ (v \in closed' <=> v \in closed)
    BY <1>1, <1>6, <2>4
  <2>5. QED
    BY <1>3, <1>4, <1>6, <2>1, <2>2, <2>3, <2>4 DEF IndInv, WaitHistory
<1>13. QED
  BY <1>5, <1>7, <1>9, <1>10, <1>12 DEF IndInv

\* Every step inside WaitRisk, and every answer to it, preserves the inductive
\* invariant.
LEMMA WaiterKeeps == IndInv /\ WaiterStep => IndInv'
<1> SUFFICES ASSUME IndInv, NEW w \in Waits,
                    \/ WaitReceive(w) \/ WaitDone(w) \/ WaitComplete(w)
                    \/ WaitRefreshed(w) \/ WaitCanceled(w) \/ WaitExpires(w)
             PROVE  IndInv'
  BY DEF WaiterStep
<1>0. waits[w] \in Wait /\ waits \in [Waits -> Wait]
  BY DEF IndInv, TypeOK
<1>a. ASSUME NEW s \in Sessions, turns[s].riskResponse = w
      PROVE  turns[s].phase # "idle" /\ waits[w].stage # "unused"
  BY <1>a, NilAssumption DEF IndInv, EntryShape, WaitHistory
<1>1. CASE WaitReceive(w)
  <2> DEFINE x == [waits[w] EXCEPT !.stage = "received", !.decision = waits[w].response,
                                   !.response = Nil]
  <2>1. /\ x \in Wait /\ x.stage = "received" /\ x.decision = waits[w].response
        /\ x.owner = waits[w].owner /\ x.result = waits[w].result
    BY <1>0 DEF Wait
  <2>2. waits' = [waits EXCEPT ![w] = x] /\ waits[w].response # Nil /\ waits[w].stage = "waiting"
        /\ UNCHANGED <<turns, closed, outcome, used, working, canceled>>
    BY <1>0, <1>1 DEF WaitReceive
  <2> HIDE DEF x
  <2>3. QED
    BY <2>1, <2>2, WaitLocal
<1>2. CASE WaitDone(w)
  <2> DEFINE x == [waits[w] EXCEPT !.stage = "received"]
  <2>1. /\ x \in Wait /\ x.stage = "received" /\ x.owner = waits[w].owner
        /\ x.decision = waits[w].decision /\ x.result = waits[w].result
    BY <1>0 DEF Wait
  <2>2. waits' = [waits EXCEPT ![w] = x] /\ w \in closed /\ waits[w].stage = "waiting"
        /\ UNCHANGED <<turns, closed, outcome, used, working, canceled>>
    BY <1>0, <1>2 DEF WaitDone
  <2>3. x.result = "answered" => x.decision # Nil
    BY <2>1 DEF IndInv, WaitHistory
  <2> HIDE DEF x
  <2>4. QED
    BY <2>1, <2>2, <2>3, WaitLocal
<1>3. CASE WaitRefreshed(w)
  <2> DEFINE x == [waits[w] EXCEPT !.refresh = FALSE]
  <2>1. /\ x \in Wait /\ x.stage = waits[w].stage /\ x.owner = waits[w].owner
        /\ x.decision = waits[w].decision /\ x.result = waits[w].result
    BY <1>0 DEF Wait
  <2>2. waits' = [waits EXCEPT ![w] = x] /\ waits[w].stage = "waiting"
        /\ UNCHANGED <<turns, closed, outcome, used, working, canceled>>
    BY <1>0, <1>3 DEF WaitRefreshed
  <2>3. x.result = "answered" => x.decision # Nil
    BY <2>1 DEF IndInv, WaitHistory
  <2> HIDE DEF x
  <2>4. QED
    BY <2>1, <2>2, <2>3, WaitLocal
<1>4. CASE WaitCanceled(w)
  <2>1. CASE \E s \in Sessions : IsCurrentRisk(turns[s], w)
    <3>1. PICK s \in Sessions : IsCurrentRisk(turns[s], w) /\ Apply(s, beginStopTurn(turns[s]))
      BY <1>4, <2>1 DEF WaitCanceled, StopCurrentRisk
    <3>2. QED
      BY <1>4, <1>a, <3>1, WaitStops DEF WaitCanceled, IsCurrentRisk
  <2>2. CASE ~\E s \in Sessions : IsCurrentRisk(turns[s], w)
    BY <1>4, <2>2, WaitLeaves DEF WaitCanceled, StopCurrentRisk
  <2>3. QED
    BY <2>1, <2>2
<1>5. CASE WaitExpires(w)
  <2>1. CASE waits[w].refresh
    <3>1. WaitRefreshed(w)
      BY <1>5, <2>1 DEF WaitExpires, WaitRefreshed
    <3>2. QED
      BY <3>1, <1>3
  <2>2. CASE ~waits[w].refresh
    <3>1. PICK s \in Sessions : IsCurrentRisk(turns[s], w) /\ Apply(s, beginStopTurn(turns[s]))
      BY <1>5, <2>2 DEF WaitExpires, StopCurrentRisk
    <3>2. PICK r \in {"canceled", "expired"} : WaitReturns(w, r)
      BY <1>5, <2>2 DEF WaitExpires
    <3>3. QED
      BY <1>5, <1>a, <3>1, <3>2, WaitStops DEF WaitExpires, IsCurrentRisk
  <2>3. QED
    BY <2>1, <2>2
<1>6. CASE WaitComplete(w)
  <2>0. waits[w].stage = "received" /\ UNCHANGED <<used, working, canceled>>
    BY <1>6 DEF WaitComplete
  <2>1. \/ /\ ~\E s \in Sessions : turns[s].riskResponse = w
           /\ WaitReturns(w, "stale") /\ UNCHANGED <<turns, closed, outcome>>
        \/ \E s \in Sessions :
             /\ turns[s].riskResponse = w
             /\ \/ /\ Apply(s, beginStopTurn(turns[s])) /\ WaitReturns(w, "canceled")
                \/ /\ IsCurrentRisk(turns[s], w)
                   /\ Apply(s, RiskAnsweredResult(turns[s])) /\ WaitReturns(w, "answered")
                \/ /\ turns[s].phase # "stopping" /\ ~IsCurrentRisk(turns[s], w)
    BY <1>6 DEF WaitComplete
  <2>2. CASE ~\E s \in Sessions : turns[s].riskResponse = w
    BY <2>0, <2>1, <2>2, WaitLeaves DEF IsCurrentRisk
  <2>3. CASE \E s \in Sessions : turns[s].riskResponse = w
    <3>1. PICK s \in Sessions :
             /\ turns[s].riskResponse = w
             /\ \/ /\ Apply(s, beginStopTurn(turns[s])) /\ WaitReturns(w, "canceled")
                \/ /\ IsCurrentRisk(turns[s], w)
                   /\ Apply(s, RiskAnsweredResult(turns[s])) /\ WaitReturns(w, "answered")
                \/ /\ turns[s].phase # "stopping" /\ ~IsCurrentRisk(turns[s], w)
      BY <2>1, <2>3
    <3>2. turns[s].phase = "stopping" \/ IsCurrentRisk(turns[s], w)
      BY <3>1, NilAssumption DEF IndInv, EntryShape, IsCurrentRisk
    <3>3. QED
      BY <1>a, <2>0, <3>1, <3>2, WaitStops, AnswerKeeps
  <2>4. QED
    BY <2>2, <2>3
<1>7. QED
  BY <1>1, <1>2, <1>3, <1>4, <1>5, <1>6

-----------------------------------------------------------------------------
(* The theorems.                                                            *)

\* The strengthening that makes the manager's properties inductive: every entry's
\* channels, phase and owner agree (turn/lifecycle).
LEMMA StepKeeps == IndInv /\ [Next]_vars => IndInv'
<1>1. ASSUME IndInv, UNCHANGED vars PROVE IndInv'
  BY <1>1 DEF vars, IndInv, TypeOK, EntryShape, EntryOwner, AttemptHistory, WaitHistory
<1>2. QED
  BY <1>1, AdmissionKeeps, CompactionKeeps, OwnerKeeps, ArrivalKeeps, StopActionKeeps,
     WaiterKeeps DEF Next

\* The manager starts with no entry and no attempt.
LEMMA Initially == Init => IndInv
<1> SUFFICES ASSUME Init PROVE IndInv
  OBVIOUS
<1>1. NoWait \in Wait
  BY DEF NoWait, Wait
<1>2. TypeOK
  BY <1>1, TurnTypes DEF Init, TypeOK, Outcomes
<1>3. EntryShape /\ EntryOwner /\ AttemptHistory
  BY DEF Init, EntryShape, EntryOwner, AttemptHistory, NoTurn
<1>4. WaitHistory
  BY DEF Init, WaitHistory, NoTurn, NoWait
<1>5. QED
  BY <1>2, <1>3, <1>4 DEF Init, IndInv

\* Every entry's channels, phase and owner agree, always.
THEOREM Inductive == Spec => []IndInv
BY Initially, StepKeeps, PTL DEF Spec

\* The turn table and the confirmation waits keep their types.
THEOREM TypeCorrect == Spec => []TypeOK
<1>1. IndInv => TypeOK
  BY DEF IndInv
<1>2. QED
  BY <1>1, Inductive, PTL

\* One running attempt per session, however starts, stops, appends and compactions
\* interleave: StartAttempt never evicts an attempt that has not been joined.
THEOREM OneOwner == Spec => []OwnerKeepsTurn
<1>1. IndInv => OwnerKeepsTurn
  BY NilAssumption DEF IndInv, OwnerKeepsTurn, EntryOwner, AttemptHistory, TypeOK
<1>2. QED
  BY <1>1, Inductive, PTL

\* Whoever joins a stopped attempt (waitForAttempt) waits on a channel its owner closes.
THEOREM JoinsSurvive == Spec => []JoinNeverLost
<1>1. IndInv => JoinNeverLost
  BY DEF IndInv, JoinNeverLost, AttemptHistory, TypeOK
<1>2. QED
  BY <1>1, Inductive, PTL

\* The manager never closes a nil channel and never closes a channel twice.
THEOREM ChannelsSafe == Spec => []ChannelsCloseOnce
<1>1. IndInv => ChannelsCloseOnce
  BY NilAssumption DEF IndInv, ChannelsCloseOnce, EntryOwner, WaitHistory, TypeOK, Turn
<1>2. QED
  BY <1>1, Inductive, PTL

\* A tool waiting for confirmation can always be answered or has been told to stop.
THEOREM ConfirmationLive == Spec => []ConfirmationReachable
<1>1. IndInv => ConfirmationReachable
  BY DEF IndInv, ConfirmationReachable, WaitHistory
<1>2. QED
  BY <1>1, Inductive, PTL

\* No confirmation is reported as answered without a decision the user submitted.
THEOREM UserApproval == Spec => []AnsweredByUser
<1>1. IndInv => AnsweredByUser
  BY DEF IndInv, AnsweredByUser, WaitHistory
<1>2. QED
  BY <1>1, Inductive, PTL

\* A stopping entry always has the attempt behind it that will remove it.
THEOREM StoppingOwned == Spec => []StoppingHasOwner
<1>1. IndInv => StoppingHasOwner
  BY NilAssumption DEF IndInv, StoppingHasOwner, EntryShape, EntryOwner, TypeOK, Turn
<1>2. QED
  BY <1>1, Inductive, PTL

\* Attempts and entries agree, in every reachable state and for any number of sessions.
THEOREM TurnsOwned == Spec => []TurnOwned
<1>1. OwnerKeepsTurn /\ JoinNeverLost /\ StoppingHasOwner => TurnOwned
  BY DEF TurnOwned
<1>2. QED
  BY <1>1, OneOwner, JoinsSurvive, StoppingOwned, PTL

\* Every confirmation that is waited for can be answered, and only the user answers it.
THEOREM ConfirmationsSafe == Spec => []ConfirmationsAnswered
<1>1. ConfirmationReachable /\ AnsweredByUser => ConfirmationsAnswered
  BY DEF ConfirmationsAnswered
<1>2. QED
  BY <1>1, ConfirmationLive, UserApproval, PTL

\* Which entries a step of the attempt's owner or of a wait can change: neither a
\* reserved one nor, other than by removal or repeated stop, a stopping one.
LEMMA OwnerStepLocal ==
    ASSUME IndInv, OwnerStep, NEW s \in Sessions, turns'[s] # turns[s]
    PROVE  /\ ~turns[s].reserved
           /\ turns[s].phase = "stopping" => turns'[s].phase = "idle"
<1>1. PICK r \in Sessions, a \in Attempts :
         \/ StartToolPhase(r, a) \/ Drain(r, a) \/ CompleteTurn(r, a) \/ FinishAttempt(r, a)
         \/ \E w \in Waits : BeginRiskConfirmation(r, a, w)
  BY DEF OwnerStep
<1>2. Owns(a, r)
  BY <1>1 DEF StartToolPhase, Drain, CompleteTurn, FinishAttempt, BeginRiskConfirmation
<1>3. r = s
  BY <1>1 DEF IndInv, TypeOK, StartToolPhase, Drain, CompleteTurn, FinishAttempt,
              BeginRiskConfirmation, Replace, Apply
<1>4. /\ turns[s] \in Turn /\ turns[s].attemptDone = a /\ turns[s].attempt = a
      /\ ~turns[s].reserved /\ turns[s].phase # "idle"
  BY <1>2, <1>3, OwnerEntry
<1>5. ASSUME turns[s].phase = "stopping" PROVE FinishAttempt(s, a)
  <2>1. turns[s].pending = << >>
    BY <1>5 DEF IndInv, EntryShape
  <2>2. QED
    BY <1>1, <1>3, <1>4, <1>5, <2>1
       DEF StartToolPhase, CanStartToolPhase, Drain, DrainMergedInput, CompleteTurn,
           CanCompleteTurn, BeginRiskConfirmation, CanBeginRisk
<1>6. ASSUME turns[s].phase = "stopping" PROVE turns'[s].phase = "idle"
  <2>1. FinishAttemptResult(turns[s], a).turn = NoTurn
    BY <1>4, <1>6 DEF FinishAttemptResult, matches, removeTurn
  <2>2. turns'[s] = NoTurn
    BY <1>5, <1>6, <2>1 DEF FinishAttempt, Apply, IndInv, TypeOK
  <2>3. QED
    BY <2>2 DEF NoTurn
<1>7. QED
  BY <1>4, <1>6

\* Stopping a stopping entry changes nothing: its attempt still runs.
LEMMA StoppingAgain ==
    ASSUME IndInv, NEW s \in Sessions, turns[s].phase = "stopping"
    PROVE  beginStopTurn(turns[s]).turn = turns[s]
<1>1. /\ turns[s] \in Turn /\ turns[s].attemptDone # Nil /\ turns[s].riskDone = Nil
      /\ turns[s].pending = << >>
  BY DEF IndInv, TypeOK, EntryShape
<1>2. [turns[s] EXCEPT !.riskDone = Nil, !.phase = "stopping", !.pending = << >>] = turns[s]
  BY <1>1 DEF Turn
<1>3. QED
  BY <1>1, <1>2 DEF beginStopTurn

\* A step inside WaitRisk changes only the entry of the wait, and never one that
\* is stopping.
LEMMA WaiterStepLocal ==
    ASSUME IndInv, WaiterStep, NEW s \in Sessions, turns'[s] # turns[s]
    PROVE  ~turns[s].reserved /\ turns[s].phase # "stopping"
<1>1. PICK w \in Waits :
         \/ WaitReceive(w) \/ WaitDone(w) \/ WaitComplete(w)
         \/ WaitRefreshed(w) \/ WaitCanceled(w) \/ WaitExpires(w)
  BY DEF WaiterStep
<1>2. \E r \in Sessions : /\ turns[r].riskResponse = w
                          /\ \/ Apply(r, beginStopTurn(turns[r]))
                             \/ IsCurrentRisk(turns[r], w) /\ Apply(r, RiskAnsweredResult(turns[r]))
  BY <1>1 DEF WaitReceive, WaitDone, WaitComplete, WaitRefreshed, WaitCanceled, WaitExpires,
              StopCurrentRisk, IsCurrentRisk
<1>3. /\ turns[s].riskResponse = w
      /\ \/ Apply(s, beginStopTurn(turns[s]))
         \/ IsCurrentRisk(turns[s], w) /\ Apply(s, RiskAnsweredResult(turns[s]))
  BY <1>2 DEF IndInv, TypeOK, Apply
<1>4. ~turns[s].reserved
  BY <1>3, NilAssumption DEF IndInv, EntryShape
<1>5. turns[s].phase # "stopping"
  BY <1>3, StoppingAgain DEF IndInv, TypeOK, Apply, IsCurrentRisk
<1>6. QED
  BY <1>4, <1>5

\* A reservation is taken only by the execution it was made for.
THEOREM ReservationSafe == Spec => ReservationKeepsExecution
<1>1. ASSUME IndInv, [Next]_vars, NEW s \in Sessions, turns[s].reserved, turns'[s].attempt # Nil
      PROVE  turns'[s].execution = turns[s].execution
  <2>0. turns[s] \in Turn /\ turns[s].attempt = Nil /\ turns[s].attemptDone = Nil
        /\ turns[s].phase # "idle"
    BY <1>1 DEF IndInv, EntryShape, NoTurn, TypeOK
  <2> SUFFICES ASSUME turns'[s] # turns[s]
               PROVE  turns'[s].execution = turns[s].execution
    OBVIOUS
  <2>1. CASE Admission
    <3>1. PICK r \in Sessions, e \in Executions, a \in Attempts, i \in Inputs :
            ReserveExecution(r, i, e) \/ StartAttempt(r, i, e, a)
      BY <2>1 DEF Admission
    <3>2. r = s /\ StartAttempt(s, i, e, a)
      BY <1>1, <2>0, <3>1 DEF IndInv, TypeOK, ReserveExecution, StartAttempt, Replace, CanReserve
    <3>3. turns'[s] = StartAttemptTurn(i, e, a) /\ e = turns[s].execution
      BY <1>1, <2>0, <3>2 DEF IndInv, TypeOK, StartAttempt, Replace, CanStartAttempt
    <3>4. QED
      BY <3>3 DEF StartAttemptTurn, NoTurn
  <2>2. CASE Compaction
    <3>1. PICK r \in Sessions, a \in Attempts :
            (\E e \in Executions \cup {Nil} : StartCompactRun(r, a, e)) \/ CompleteCompactRun(r, a)
      BY <2>2 DEF Compaction
    <3>2. CASE CompleteCompactRun(r, a)
      BY <1>1, <2>0, <3>2, OwnerEntry DEF CompleteCompactRun, Apply, IndInv, TypeOK
    <3>3. ASSUME NEW e \in Executions \cup {Nil}, StartCompactRun(r, a, e)
          PROVE  turns'[s].execution = turns[s].execution
      <4>1. turns'[s] = CompactTurn(e, a) /\ e = turns[s].execution
        BY <1>1, <2>0, <3>3 DEF IndInv, TypeOK, StartCompactRun, Replace, CanCompact
      <4>2. QED
        BY <4>1 DEF CompactTurn, NoTurn
    <3>4. QED
      BY <3>1, <3>2, <3>3
  <2>3. CASE OwnerStep
    BY <1>1, <2>3, OwnerStepLocal
  <2>4. CASE Arrival
    <3>1. \E i \in Inputs : turns'[s] \in {BeginAppendTurn(turns[s], i), AppendPendingTurn(turns[s], i),
                                           ResumedTurn(turns[s])}
      BY <1>1, <2>4 DEF IndInv, TypeOK, Arrival, BeginAppend, AppendPendingInput, ResumeAppend,
         ResolveRiskConfirmation, RefreshRiskConfirmation, Replace
    <3>2. QED
      BY <2>0, <3>1 DEF Turn, BeginAppendTurn, AppendPendingTurn, ResumedTurn
  <2>5. CASE Stop
    <3>1. beginStopTurn(turns[s]).turn = NoTurn
      BY <2>0 DEF beginStopTurn, removeTurn
    <3>2. turns'[s] = NoTurn
      BY <1>1, <2>5, <3>1 DEF IndInv, TypeOK, Stop, StopAttempt, StopSession, StopAll,
         CancelRequests, FinishExecution, Apply, StopAttemptResult, StopSessionResult, Kept
    <3>3. QED
      BY <1>1, <3>2 DEF NoTurn
  <2>6. CASE WaiterStep
    BY <1>1, <2>6, WaiterStepLocal
  <2>7. CASE UNCHANGED vars
    BY <2>7 DEF vars
  <2>8. QED
    BY <1>1, <2>1, <2>2, <2>3, <2>4, <2>5, <2>6, <2>7 DEF Next
<1>2. IndInv /\ [Next]_vars => [\A s \in Sessions : turns[s].reserved /\ turns'[s].attempt # Nil =>
          turns'[s].execution = turns[s].execution]_vars
  BY <1>1
<1>3. QED
  BY <1>2, Inductive, PTL DEF Spec, ReservationKeepsExecution

\* A stopping turn is only ever removed by its own attempt, never revived.
THEOREM StopFinal == Spec => StopIsFinal
<1>1. ASSUME IndInv, [Next]_vars, NEW s \in Sessions, turns[s].phase = "stopping",
             turns'[s] # turns[s]
      PROVE  turns'[s].phase = "idle"
  <2>0. turns[s] \in Turn /\ ~turns[s].reserved /\ turns[s].attemptDone # Nil
    BY <1>1 DEF IndInv, EntryShape, TypeOK
  <2>1. CASE Admission
    BY <1>1, <2>0, <2>1 DEF IndInv, TypeOK, Admission, ReserveExecution, StartAttempt, Replace,
         CanReserve, CanStartAttempt
  <2>2. CASE Compaction
    BY <1>1, <2>0, <2>2 DEF IndInv, TypeOK, Compaction, StartCompactRun, CompleteCompactRun,
         Replace, Apply, CanCompact, removeTurn, NoTurn
  <2>3. CASE OwnerStep
    BY <1>1, <2>3, OwnerStepLocal
  <2>4. CASE Arrival
    BY <1>1, <2>0, <2>4 DEF IndInv, TypeOK, Arrival, BeginAppend, AppendPendingInput, ResumeAppend,
         ResolveRiskConfirmation, RefreshRiskConfirmation, Replace, CanBeginAppend,
         CanAppendPending, CanResumeAppend
  <2>5. CASE Stop
    BY <1>1, <2>5, StoppingAgain DEF IndInv, TypeOK, Stop, StopAttempt, StopSession, StopAll,
         CancelRequests, FinishExecution, Apply, StopAttemptResult, StopSessionResult, Kept
  <2>6. CASE WaiterStep
    BY <1>1, <2>6, WaiterStepLocal
  <2>7. CASE UNCHANGED vars
    BY <1>1, <2>7 DEF vars
  <2>8. QED
    BY <1>1, <2>1, <2>2, <2>3, <2>4, <2>5, <2>6, <2>7 DEF Next
<1>2. IndInv /\ [Next]_vars => [\A s \in Sessions : turns[s].phase = "stopping" =>
          turns'[s].phase = "idle" \/ turns'[s] = turns[s]]_vars
  BY <1>1
<1>3. QED
  BY <1>2, Inductive, PTL DEF Spec, StopIsFinal
=============================================================================
