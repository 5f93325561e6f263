----------------------------- MODULE ToolRunner -----------------------------
(* A batch of tool calls the model asked for (internal/tool/execution): one  *)
(* coordinator prepares and confirms the calls in order, workers execute     *)
(* them, and the coordinator alone stores their results, also while it waits *)
(* for a hook or for the user.                                               *)
EXTENDS Integers, Sequences, FiniteSets

CONSTANTS
    Plans,          \* the batches, each a sequence of tools as they are resolved
    Actors,         \* roles of the acting user
    RunnerWorlds,   \* sets of what interferes: "stop", "faults", "promote", "directive"
    UserMaxRisk,    \* Permission.UserMaxToolRisk as a rank
    ConfirmRisk     \* Permission.SuperadminConfirmRisk as a rank

VARIABLES
    plan, actor, runnerWorld,
    batch,        \* the coordinator: where it is, at which call, how many it completed, what it returns
    waiting,    \* the goroutine await started: what it does and with what it ended
    toolCalls,      \* per call: arguments after the hook, its worker, the result, who approved what, what ran
    readyQueue, \* completed work, by index
    transcript,       \* the stored transcript: the head and a slot per call
    toolState,  \* discovered tools in the caller's row and in the database; the rule card
    granted,    \* tools the user confirmed for the whole session, "*" for all
    runCanceled, mode

chosen == <<plan, actor, runnerWorld>>  \* nothing changes these
runnerVars == <<plan, actor, runnerWorld, batch, waiting, toolCalls, readyQueue, transcript, toolState, granted,
                runCanceled, mode>>

NCalls == Len(plan)
Indices == 1 .. NCalls
HighRisk == 3
CriticalRisk == 4

Ran(i) == toolCalls[i].ran # "no"
NewCall == [args |-> "asked", worker |-> "none", result |-> "none", approved |-> "no", by |-> "nobody", ran |-> "no",
            asBackground |-> FALSE]
NoWait == [at |-> "none", out |-> "none"]

RunnerTypeOK ==
    /\ batch.at \in {"begin", "next", "hook", "prepare", "confirm", "start", "drain", "collect", "leave", "returned"}
    /\ batch.i \in 1 .. NCalls + 1 /\ {batch.done, batch.left} \subseteq 0 .. NCalls
    /\ batch.result \in {"none", "ok", "stopped", "error"}
    /\ waiting \in [at : {"none", "running", "over"}, out : {"none", "ok", "error", "allowed", "denied", "stopped"}]
    /\ toolCalls \in [Indices -> [args : {"asked", "edited"}, worker : {"none", "new", "running", "over"},
                              result : {"none", "ok", "failed", "canceled"}, approved : {"no", "asked", "edited"},
                              by : {"nobody", "policy", "grant", "user"}, ran : {"no", "asked", "edited"}, asBackground : BOOLEAN]]
    /\ readyQueue \in Seq(Indices)
    /\ transcript \in [head : {"none", "pending", "completed"}, slot : [Indices -> {"none", "pending", "ok", "failed", "canceled"}]]
    /\ toolState.row \cup toolState.stored \subseteq 0 .. NCalls /\ toolState.cards \in 0 .. NCalls /\ toolState.shown \in BOOLEAN
    /\ runCanceled \in BOOLEAN /\ mode \in {"work", "background"}

RunnerInit ==
    /\ plan \in Plans /\ actor \in Actors /\ runnerWorld \in RunnerWorlds
    /\ batch = [at |-> "begin", i |-> 1, done |-> 0, left |-> 0, result |-> "none"]
    /\ waiting = NoWait /\ toolCalls = [i \in Indices |-> NewCall] /\ readyQueue = <<>>
    /\ transcript = [head |-> "none", slot |-> [i \in Indices |-> "none"]]
    /\ toolState = [row |-> {}, stored |-> {}, shown |-> FALSE, cards |-> 0]
    /\ granted = {} /\ runCanceled = FALSE
    /\ mode = IF "promote" \in runnerWorld THEN "background" ELSE "work"

-----------------------------------------------------------------------------
(* Permission *)

CanUseTool(t) == actor = "superadmin" \/ t.owner \/ t.risk <= UserMaxRisk
NeedsToolConfirmation(t) == t.risk >= (IF actor = "superadmin" THEN ConfirmRisk ELSE HighRisk)

\* Mutant: the automatic confirmation of a background shell comes before the limits.
CheckToolShellFirst(t, auto) ==
    IF t.tool = "shell" /\ auto THEN "allowed"
    ELSE IF (t.superadminOnly /\ actor # "superadmin") \/ ~CanUseTool(t) THEN "denied"
    ELSE IF NeedsToolConfirmation(t) THEN "ask" ELSE "allowed"

\* CheckTool: denied, allowed, or allowed after a confirmation.
CheckTool(t, auto) ==
    IF (t.superadminOnly /\ actor # "superadmin") \/ ~CanUseTool(t) THEN "denied"
    ELSE IF t.tool = "shell" /\ auto THEN (IF t.risk = CriticalRisk THEN "denied" ELSE "allowed")
    ELSE IF NeedsToolConfirmation(t) THEN "ask" ELSE "allowed"

\* confirm: a remote tool was approved with its declaration.
Permission(t, auto) == IF t.kind = "remote" THEN "allowed" ELSE CheckTool(t, auto)

\* resolve: a background task may not discover.
Resolvable(i) ==
    /\ plan[i].kind # "missing"
    /\ toolCalls[i].asBackground => plan[i].kind # "discover"

-----------------------------------------------------------------------------
(* Results *)

Leaving(result) == [batch EXCEPT !.at = "leave", !.result = result]

\* Mutant: the patch of the first discovery is all the row ever holds.
PatchedFirst(i) == {i}

\* PrepareUpdate with DiscoveryStateUpdate: the caller's row and what this call discovered.
Patched(i) == toolState.row \cup {i}

Discovers(i) == plan[i].kind = "discover" /\ toolCalls[i].result = "ok"

\* RuleCardIfNeeded
ShowsCard(i) == toolCalls[i].result = "ok" /\ plan[i].rules /\ ~toolState.shown

\* commitToolResult: only a pending slot of a pending head is updated.
SlotOpen(i) == transcript.head = "pending" /\ transcript.slot[i] = "pending"

\* Mutant: the head is sealed with the first result.
SealsEarly == batch.left >= 1

\* Result: the last one seals the head.
Seals == batch.left = 1

\* What complete does once the refresh and the hook succeeded: one transaction, then the row.
StoreResult(i) ==
    /\ SlotOpen(i)
    /\ transcript' = [transcript EXCEPT !.slot[i] = toolCalls[i].result, !.head = IF Seals THEN "completed" ELSE @]
    /\ toolState' = [row |-> IF Discovers(i) THEN Patched(i) ELSE toolState.row,
                     stored |-> IF Discovers(i) THEN Patched(i) ELSE toolState.stored,
                     shown |-> toolState.shown \/ ShowsCard(i),
                     cards |-> toolState.cards + (IF ShowsCard(i) THEN 1 ELSE 0)]
    /\ UNCHANGED runCanceled

\* complete(i) for the oldest finished call; failed is where the coordinator goes if it cannot.
Complete(ok, failed) ==
    LET i == Head(readyQueue) IN
    /\ readyQueue # <<>> /\ readyQueue' = Tail(readyQueue)
    /\ \/ ~runCanceled /\ StoreResult(i) /\ batch' = [ok EXCEPT !.done = @ + 1, !.left = @ - 1]
       \/ /\ runCanceled \/ ~SlotOpen(i) \/ "faults" \in runnerWorld
          /\ batch' = [failed EXCEPT !.done = @ + 1] /\ runCanceled' = (runCanceled \/ failed.at = "drain")
          /\ UNCHANGED <<transcript, toolState>>
    /\ UNCHANGED <<chosen, waiting, toolCalls, granted, mode>>

-----------------------------------------------------------------------------
(* The coordinator *)

BatchBegins ==
    /\ batch.at = "begin"
    /\ \/ /\ transcript' = [head |-> "pending", slot |-> [i \in Indices |-> "pending"]]
          /\ batch' = [batch EXCEPT !.at = "next", !.left = NCalls]
       \/ "faults" \in runnerWorld /\ batch' = Leaving("error") /\ UNCHANGED transcript
    /\ UNCHANGED <<chosen, waiting, toolCalls, readyQueue, toolState, granted, runCanceled, mode>>

\* The snapshot of a call is of the session as it is now; its hook runs in a goroutine.
NextCall ==
    /\ batch.at = "next"
    /\ \/ /\ batch.i <= NCalls /\ runCanceled /\ batch' = Leaving("stopped") /\ UNCHANGED <<waiting, toolCalls>>
       \/ /\ batch.i <= NCalls /\ ~runCanceled
          /\ toolCalls' = [toolCalls EXCEPT ![batch.i].asBackground = (mode = "background")]
          /\ waiting' = [at |-> "running", out |-> "none"] /\ batch' = [batch EXCEPT !.at = "hook"]
       \/ batch.i > NCalls /\ batch' = [batch EXCEPT !.at = "collect"] /\ UNCHANGED <<waiting, toolCalls>>
    /\ UNCHANGED <<chosen, readyQueue, transcript, toolState, granted, runCanceled, mode>>

Waits == batch.at \in {"hook", "prepare", "confirm"}

\* await's select: a finished call, or the cancellation.
AwaitCompletes == Waits /\ Complete(batch, [Leaving("error") EXCEPT !.at = "drain"])

AwaitCanceled ==
    /\ Waits /\ runCanceled /\ batch' = [Leaving("error") EXCEPT !.at = "drain"]
    /\ UNCHANGED <<chosen, waiting, toolCalls, readyQueue, transcript, toolState, granted, runCanceled, mode>>

\* Mutant: the goroutine of a cancelled wait is left behind.
DrainedAlways == TRUE

Drained == waiting.at = "over"

Drain ==
    /\ batch.at = "drain" /\ Drained
    /\ batch' = [batch EXCEPT !.at = "leave"] /\ waiting' = IF waiting.at = "over" THEN NoWait ELSE waiting
    /\ UNCHANGED <<chosen, toolCalls, readyQueue, transcript, toolState, granted, runCanceled, mode>>

\* A call that will not be executed: its result is there at once.
ResultAtOnce(i, result) ==
    /\ toolCalls' = [toolCalls EXCEPT ![i].result = result]
    /\ readyQueue' = Append(readyQueue, i) /\ batch' = [batch EXCEPT !.at = "next", !.i = i + 1] /\ waiting' = NoWait

Await(at) == /\ batch' = [batch EXCEPT !.at = at] /\ waiting' = [at |-> "running", out |-> "none"]
             /\ UNCHANGED <<toolCalls, readyQueue>>

AwaitDone ==
    LET i == batch.i IN
    /\ Waits /\ waiting.at = "over"
    /\ CASE (batch.at = "hook" /\ waiting.out = "error") \/ waiting.out = "stopped" ->
              /\ batch' = Leaving(IF waiting.out = "stopped" THEN "stopped" ELSE "error") /\ waiting' = NoWait
              /\ UNCHANGED <<toolCalls, readyQueue>>
         [] batch.at = "hook" /\ waiting.out = "ok" -> IF Resolvable(i) THEN Await("prepare") ELSE ResultAtOnce(i, "failed")
         [] batch.at = "prepare" -> IF waiting.out = "ok" THEN Await("confirm") ELSE ResultAtOnce(i, "failed")
         [] waiting.out = "denied" -> ResultAtOnce(i, "failed")
         [] OTHER -> batch' = [batch EXCEPT !.at = "start"] /\ waiting' = NoWait /\ UNCHANGED <<toolCalls, readyQueue>>
    /\ UNCHANGED <<chosen, transcript, toolState, granted, runCanceled, mode>>

\* StartToolRequest, the check of the arguments' media, and the worker.
StartToolWorker ==
    LET i == batch.i IN
    /\ batch.at = "start"
    /\ \/ /\ "faults" \in runnerWorld /\ batch' = Leaving("error") /\ UNCHANGED <<toolCalls, readyQueue, waiting>>
       \/ plan[i].kind = "media" /\ ResultAtOnce(i, "failed")
       \/ /\ plan[i].kind # "media" /\ toolCalls' = [toolCalls EXCEPT ![i].worker = "new"]
          /\ batch' = [batch EXCEPT !.at = "next", !.i = i + 1] /\ UNCHANGED <<readyQueue, waiting>>
    /\ UNCHANGED <<chosen, transcript, toolState, granted, runCanceled, mode>>

\* The loop after the last call; Flush refuses an unfinished batch.
CollectCompletes == batch.at = "collect" /\ batch.done < NCalls /\ Complete(batch, Leaving("error"))

Flushed == IF batch.left = 0 THEN "ok" ELSE "error"

CollectEnds ==
    /\ batch.at = "collect"
    /\ \/ batch.done < NCalls /\ runCanceled /\ batch' = Leaving("stopped")
       \/ batch.done = NCalls /\ batch' = Leaving(Flushed)
    /\ UNCHANGED <<chosen, waiting, toolCalls, readyQueue, transcript, toolState, granted, runCanceled, mode>>

\* The deferred cancel; then the workers are joined.
LeaveCancels ==
    /\ batch.at = "leave" /\ ~runCanceled /\ runCanceled' = TRUE
    /\ UNCHANGED <<chosen, batch, waiting, toolCalls, readyQueue, transcript, toolState, granted, mode>>

\* Mutant: Run returns without its workers.
WorkersJoinedAlways == TRUE

WorkersJoined == \A i \in Indices : toolCalls[i].worker \in {"none", "over"}

Returns ==
    /\ batch.at = "leave" /\ runCanceled /\ WorkersJoined /\ batch' = [batch EXCEPT !.at = "returned"]
    /\ UNCHANGED <<chosen, waiting, toolCalls, readyQueue, transcript, toolState, granted, runCanceled, mode>>

-----------------------------------------------------------------------------
(* The goroutine of await *)

\* The hook may replace the arguments, the tool may refuse them.
HookEnds ==
    /\ batch.at \in {"hook", "drain"} /\ waiting.at = "running"
    /\ \E args \in {"asked", "edited"}, out \in {"ok", "error"} :
          /\ out = "error" => (runCanceled \/ "faults" \in runnerWorld)
          /\ args = "edited" => plan[batch.i].edited
          /\ toolCalls' = [toolCalls EXCEPT ![batch.i].args = IF batch.at = "hook" THEN args ELSE @]
          /\ waiting' = [at |-> "over", out |-> out]
    /\ UNCHANGED <<chosen, batch, readyQueue, transcript, toolState, granted, runCanceled, mode>>

PrepareEnds ==
    /\ batch.at = "prepare" /\ waiting.at = "running"
    /\ waiting' = [at |-> "over", out |-> IF plan[batch.i].kind = "broken" THEN "error" ELSE "ok"]
    /\ UNCHANGED <<chosen, batch, toolCalls, readyQueue, transcript, toolState, granted, runCanceled, mode>>

Approve(who) == toolCalls' = [toolCalls EXCEPT ![batch.i].approved = toolCalls[batch.i].args, ![batch.i].by = who]

\* Mutant: a grant for one tool is taken for every tool.
GrantedLoosely(t) == granted # {}

\* AwaitToolConfirmation: the grants of the session.
Granted(t) == {t.tool, "*"} \cap granted # {}

\* confirm and AwaitToolConfirmation: policy, grant, or the user's answer; a wait that ends without an
\* answer stops the batch.
ConfirmEnds ==
    LET t == plan[batch.i]
        verdict == Permission(t, toolCalls[batch.i].asBackground)
        Over(out) == waiting' = [at |-> "over", out |-> out] IN
    /\ batch.at = "confirm" /\ waiting.at = "running"
    /\ \/ verdict = "denied" /\ Over("denied") /\ UNCHANGED <<toolCalls, granted>>
       \/ verdict = "allowed" /\ Over("allowed") /\ Approve("policy") /\ UNCHANGED granted
       \/ verdict = "ask" /\ Granted(t) /\ Over("allowed") /\ Approve("grant") /\ UNCHANGED granted
       \/ /\ verdict = "ask" /\ ~Granted(t)
          /\ \/ Over("stopped") /\ UNCHANGED <<toolCalls, granted>>
             \/ Over("denied") /\ UNCHANGED <<toolCalls, granted>>
             \/ \E scope \in {{}, {t.tool}, {"*"}} :
                   Over("allowed") /\ Approve("user") /\ granted' = granted \cup scope
    /\ UNCHANGED <<chosen, batch, readyQueue, transcript, toolState, runCanceled, mode>>

-----------------------------------------------------------------------------
(* The workers *)

WorkerDone(i, result) ==
    /\ toolCalls' = [toolCalls EXCEPT ![i].worker = "over", ![i].result = result]
    /\ readyQueue' = Append(readyQueue, i)

\* Mutant: the worker uses the arguments of the model's request.
ExecutedAsked(i) == "asked"

\* executePrepared: the prepared request, if it still is the one that was confirmed.
Executed(i) == toolCalls[i].args

WorkerStarts(i) ==
    /\ toolCalls[i].worker = "new"
    /\ IF runCanceled THEN WorkerDone(i, "canceled")
       ELSE /\ toolCalls' = [toolCalls EXCEPT ![i].worker = "running", ![i].ran = Executed(i)]
            /\ UNCHANGED readyQueue
    /\ UNCHANGED <<chosen, batch, waiting, transcript, toolState, granted, runCanceled, mode>>

\* A tool ends by itself or because its own request, or the whole batch, was cancelled.
WorkerEnds(i) ==
    /\ toolCalls[i].worker = "running"
    /\ \/ ~runCanceled /\ WorkerDone(i, "ok")
       \/ ~runCanceled /\ "faults" \in runnerWorld /\ WorkerDone(i, "failed")
       \/ runCanceled /\ WorkerDone(i, "canceled")
       \/ "stop" \in runnerWorld /\ WorkerDone(i, "canceled")
    /\ UNCHANGED <<chosen, batch, waiting, transcript, toolState, granted, runCanceled, mode>>

-----------------------------------------------------------------------------
(* What happens around the batch *)

StopBatch ==
    /\ "stop" \in runnerWorld /\ batch.at \notin {"leave", "returned"} /\ ~runCanceled /\ runCanceled' = TRUE
    /\ UNCHANGED <<chosen, batch, waiting, toolCalls, readyQueue, transcript, toolState, granted, mode>>

\* The user takes a background task over; RefreshExecution sees it at the next call.
TakeOver ==
    /\ "promote" \in runnerWorld /\ mode = "background" /\ mode' = "work"
    /\ UNCHANGED <<chosen, batch, waiting, toolCalls, readyQueue, transcript, toolState, granted, runCanceled>>

\* StateService.Commit for a message that names a tool, 0 here, while the batch runs.
Directive ==
    /\ "directive" \in runnerWorld /\ 0 \notin toolState.stored
    /\ toolState' = [toolState EXCEPT !.stored = @ \cup {0}]
    /\ UNCHANGED <<chosen, batch, waiting, toolCalls, readyQueue, transcript, granted, runCanceled, mode>>

CoordinatorStep ==
    \/ BatchBegins \/ NextCall \/ AwaitCompletes \/ AwaitCanceled \/ Drain \/ AwaitDone \/ StartToolWorker
    \/ CollectCompletes \/ CollectEnds \/ LeaveCancels \/ Returns
WaitingStep == HookEnds \/ PrepareEnds \/ ConfirmEnds
WorkerStep(i) == WorkerStarts(i) \/ WorkerEnds(i)

RunnerNext ==
    \/ CoordinatorStep \/ WaitingStep \/ \E i \in Indices : WorkerStep(i)
    \/ StopBatch \/ TakeOver \/ Directive

\* Hooks and tools return when they are cancelled, and a confirmation ends.
RunnerSpec ==
    /\ RunnerInit /\ [][RunnerNext]_runnerVars
    /\ WF_runnerVars(CoordinatorStep) /\ WF_runnerVars(WaitingStep)
    /\ WF_runnerVars(\E i \in Indices : WorkerStep(i))

-----------------------------------------------------------------------------
\* When Run returns nothing of the batch goes on: its workers are joined and so is the goroutine of
\* a wait that was cut short (the deferred cancel and Wait, await's <-done).
NothingLeftRunning ==
    batch.at = "returned" => waiting = NoWait /\ \A i \in Indices : toolCalls[i].worker \in {"none", "over"}

\* A tool runs with the arguments that were approved, and a dangerous one only when the user said so
\* for it, for its tool or for the session; what the policy forbids never runs (confirm, executePrepared).
RanAsApproved ==
    \A i \in Indices : Ran(i) =>
        /\ toolCalls[i].ran = toolCalls[i].approved
        /\ plan[i].kind \notin {"missing", "broken", "media"}
        /\ plan[i].kind # "remote" /\ actor = "user" => (plan[i].owner \/ plan[i].risk <= UserMaxRisk) /\ ~plan[i].superadminOnly
        /\ toolCalls[i].asBackground /\ plan[i].tool = "shell" => plan[i].risk < CriticalRisk
        /\ toolCalls[i].by = "grant" =>
              \E j \in 1 .. i - 1 : toolCalls[j].by = "user" /\ ({plan[i].tool, "*"} \cap granted # {})

\* The grants of a session come from the user's answers in it, and a grant for a tool from an answer
\* to a call of that tool (setToolAutoConfirmed).
GrantsAsked ==
    \A g \in granted : \E i \in Indices : toolCalls[i].by = "user" /\ g \in {plan[i].tool, "*"}

\* The head is sealed exactly when every slot has its result, a result is of its own call, and Run
\* reports success only then (Result, Flush).
SlotFilled(i) == transcript.slot[i] \notin {"none", "pending"}
SealedWhenFull ==
    /\ (transcript.head = "completed") = (\A i \in Indices : SlotFilled(i))
    /\ \A i \in Indices : SlotFilled(i) => transcript.slot[i] = toolCalls[i].result
    /\ batch.result = "ok" => transcript.head = "completed"

\* No call is queued or completed twice (ready holds one place per call).
QueuedOnce ==
    /\ \A a, b \in DOMAIN readyQueue : a # b => readyQueue[a] # readyQueue[b]
    /\ \A a \in DOMAIN readyQueue : toolCalls[readyQueue[a]].result # "none" /\ transcript.slot[readyQueue[a]] = "pending"

\* Every discovery whose result was stored is in the session's tool state, whatever order the calls
\* ended in, and the rule card was shown once (complete merges into the caller's row).
DiscoveriesKept ==
    /\ \A i \in Indices : plan[i].kind = "discover" /\ transcript.slot[i] = "ok" => i \in toolState.stored
    /\ toolState.row \ {0} = toolState.stored \ {0} /\ toolState.cards <= 1

\* A tool the user loaded with a message stays loaded (state.go: "All updates merge the latest row").
DirectiveKept == [][0 \in toolState.stored => 0 \in toolState.stored']_toolState

\* A stored result is never written again.
ResultsFinal == [][\A i \in Indices : SlotFilled(i) => transcript'.slot[i] = transcript.slot[i]]_transcript

\* A batch returns.
BatchReturns == (batch.at # "begin") ~> (batch.at = "returned")
=============================================================================
