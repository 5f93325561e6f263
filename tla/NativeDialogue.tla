--------------------------- MODULE NativeDialogue ---------------------------
(***************************************************************************)
(* The native dialogue of a Responses session: agent/responses (loop.go,   *)
(* persistence.go, model_call.go, native_call.go, context.go), the model   *)
(* call and commit gate of agent/dialogue, and the tables that            *)
(* storage/sqlite/dialogue_repository.go, tool_batch.go and                *)
(* native_snapshot.go write.  One attempt of the turn is admitted at a     *)
(* time, but an attempt that was superseded still runs until it notices.   *)
(* Items are their identity: which input, which call, which definition.    *)
(***************************************************************************)
EXTENDS Naturals, Sequences, FiniteSets

CONSTANTS
    DialogueAttempts,   \* bound of the attempts, in the order of their admission
    CallIDs,            \* calls the model makes in one response
    ToolNames,          \* tools that may be offered
    MaxExchanges, MaxRounds, MaxInputs

ASSUME DialogueAssumption ==
    /\ DialogueAttempts \in Nat /\ MaxExchanges \in Nat
    /\ MaxRounds \in Nat /\ MaxInputs \in Nat

VARIABLES
    inputs,         \* native_inputs
    exchanges,      \* native_exchanges, with their native_calls and message slots
    checkpoints,    \* native_checkpoints: the live chain and the snapshots off it
    checkpoint,        \* llm_checkpoint of the session; 0: none
    seed,           \* the root material a branch started from: none, fresh or consumed
    takenOver,       \* the session was taken over from a background run
    live,           \* the admitted attempt; 0: none
    attempt,        \* turnState of each attempt
    branch          \* material of a fork, a background copy or a compaction

nativeVars == <<inputs, exchanges, checkpoints, checkpoint, seed, takenOver, live, attempt>>
dialogueVars == <<nativeVars, branch>>

AttemptIDs == 1 .. DialogueAttempts
InputIDs == 1 .. Len(inputs)
ExchangeIDs == 1 .. Len(exchanges)
CheckpointIDs == 1 .. Len(checkpoints)
NoBranch == [pc |-> "none", kind |-> "none", expected |-> 0, covers |-> {}]
NoAttempt == [pc |-> "new", cp |-> 0, defs |-> {}, notice |-> FALSE, tools |-> {}, rounds |-> 0,
            inputs |-> {}, exchange |-> 0]

CallStatuses == {"pending", "completed", "interrupted"}
Batches == UNION {[C -> CallStatuses] : C \in SUBSET CallIDs}

DialogueTypeOK ==
    /\ \A i \in InputIDs : inputs[i] \in
          [kind : {"user", "result", "tools", "notice"}, exchange : 0 .. Len(exchanges),
           call : CallIDs \cup {"none"}, saved : BOOLEAN, defs : SUBSET ToolNames, by : 0 .. Len(exchanges)]
    /\ \A e \in ExchangeIDs : exchanges[e] \in
          [prev : 0 .. Len(checkpoints), manifest : SUBSET InputIDs, allowed : SUBSET ToolNames,
           notice : BOOLEAN, status : {"pending", "completed", "failed"}, items : SUBSET CallIDs, calls : Batches, slots : Batches, head : CallStatuses \cup {"none"}]
    /\ \A k \in CheckpointIDs : checkpoints[k] \in
          [parent : 0 .. Len(checkpoints), exchange : ExchangeIDs, seeded : BOOLEAN, calls : Batches]
    /\ checkpoint \in 0 .. Len(checkpoints) /\ seed \in {"none", "fresh", "consumed"}
    /\ takenOver \in BOOLEAN /\ live \in 0 .. DialogueAttempts
    /\ \A a \in AttemptIDs : attempt[a].pc \in
          {"new", "admitted", "loaded", "saved", "round", "noticed", "ready", "streaming", "answered", "calls",
           "tools", "spent", "reply", "done"}
    /\ branch.pc \in {"none", "prepared", "created"} /\ branch.covers \subseteq ExchangeIDs

\* A session starts without history, or with the seed of a fork, a copy or a compaction.
DialogueInit ==
    /\ inputs = <<>> /\ exchanges = <<>> /\ checkpoints = <<>> /\ checkpoint = 0
    /\ seed \in {"none", "fresh"} /\ takenOver = FALSE
    /\ live = 0 /\ attempt = [a \in AttemptIDs |-> NoAttempt] /\ branch = NoBranch

---------------------------------------------------------------------------
(* What the tables say.                                                    *)

\* The ancestry of a checkpoint (LoadNativeWindow): the checkpoints before it and itself.
Ancestry(c) ==
    LET before[k \in 0 .. Len(checkpoints)] ==
            IF k = 0 THEN {} ELSE {k} \cup before[checkpoints[k].parent]
    IN before[c]

ChainExchanges(c) == {checkpoints[k].exchange : k \in Ancestry(c)}
PendingInputs == {i \in InputIDs : inputs[i].by = 0}
ConsumedBy(e) == {i \in InputIDs : inputs[i].by = e}

\* The inputs of a window: those its chain consumed.
WindowInputs(c) == UNION {ConsumedBy(e) : e \in ChainExchanges(c)}
DefinitionsIn(I) == UNION {inputs[i].defs : i \in I}
Answers(I, e, c) == {i \in I : inputs[i].kind = "result" /\ inputs[i].exchange = e /\ inputs[i].call = c}

\* Context.Load on a checkpoint: every exchange of its chain is complete, follows its parent,
\* and lists exactly the inputs it consumed.
WindowLoads(c) ==
    \A k \in Ancestry(c) :
        LET e == checkpoints[k].exchange IN
        /\ exchanges[e].status = "completed" /\ exchanges[e].prev = checkpoints[k].parent
        /\ exchanges[e].manifest = ConsumedBy(e)
        /\ checkpoints[k].seeded = (seed # "none")

\* validateInitialInputs: without checkpoint and seed, what is there is the users' inputs,
\* still queued, with definitions and at most one notice.
InitialInputsValid ==
    /\ \A i \in InputIDs : inputs[i].kind # "result" /\ inputs[i].by = 0
    /\ Cardinality({i \in InputIDs : inputs[i].kind = "notice"}) <= 1

TurnLoads == IF checkpoint # 0 THEN WindowLoads(checkpoint)
             ELSE seed = "fresh" \/ (seed = "none" /\ InitialInputsValid)

---------------------------------------------------------------------------
(* Steps of an attempt.                                                    *)

\* Mutant: the gate knows the execution and not its attempt.
MayCommitExecution(a) == live # 0

\* CommitGate.Enter: only the admitted attempt writes.
MayCommit(a) == live = a

At(a, pc) == attempt[a].pc = pc
Move(a, pc) == attempt' = [attempt EXCEPT ![a].pc = pc]

NewInput(kind, defs) ==
    [kind |-> kind, exchange |-> 0, call |-> "none", saved |-> TRUE, defs |-> defs, by |-> 0]

\* Dialogue.Commit checks that the checkpoint is the one the attempt read.
CommitInput(a, kind, defs) ==
    /\ Len(inputs) < MaxInputs
    /\ attempt[a].cp = checkpoint /\ inputs' = Append(inputs, NewInput(kind, defs))

\* Execution admits the next attempt; one that is running is superseded.
AdmitAttempt(a) ==
    /\ At(a, "new") /\ \A b \in AttemptIDs : b < a => ~At(b, "new")
    /\ \A b \in AttemptIDs : b + 1 < a => At(b, "done")
    /\ live' = a /\ Move(a, "admitted")
    /\ UNCHANGED <<inputs, exchanges, checkpoints, checkpoint, seed, takenOver>>

\* A turn ends: failed, canceled, stopped or complete.
Ended(a) == [attempt EXCEPT ![a] = [NoAttempt EXCEPT !.pc = "done"]]
EndAttempt(a) == attempt' = Ended(a) /\ live' = IF live = a THEN 0 ELSE live

FailAttempt(a) ==
    /\ attempt[a].pc \notin {"new", "done"} /\ EndAttempt(a)
    /\ UNCHANGED <<inputs, exchanges, checkpoints, checkpoint, seed, takenOver>>

\* Loop.PrepareTurn: checkpoint, seed and the definitions of the window.
PrepareAttempt(a) ==
    /\ At(a, "admitted") /\ TurnLoads
    /\ attempt' = [attempt EXCEPT ![a] = [@ EXCEPT !.pc = "loaded", !.cp = checkpoint,
                                                   !.defs = DefinitionsIn(WindowInputs(checkpoint))]]
    /\ UNCHANGED <<inputs, exchanges, checkpoints, checkpoint, seed, takenOver, live>>

\* inputCommitter.Commit
SaveUser(a) ==
    /\ At(a, "loaded") /\ MayCommit(a) /\ CommitInput(a, "user", {}) /\ Move(a, "saved")
    /\ UNCHANGED <<exchanges, checkpoints, checkpoint, seed, takenOver, live>>

Unfinished(e) ==
    IF e = 0 THEN {} ELSE {c \in DOMAIN exchanges[e].calls : exchanges[e].calls[c] = "pending"}

\* Mutant: the calls that have ended are closed again.
UnfinishedAll(e) == DOMAIN exchanges[e].calls

\* The calls that closeInterruptedCalls closes.
ToClose(e) == Unfinished(e)

\* Mutant: the snapshot does not say which exchange it is of.
SnapshotAlone(calls) == Append(checkpoints, [checkpoints[checkpoint] EXCEPT !.calls = calls, !.exchange = 0])

\* appendNativeSnapshot freezes the current checkpoint with the calls as they are now.
Snapshot(calls) == Append(checkpoints, [checkpoints[checkpoint] EXCEPT !.calls = calls])

\* closeInterruptedCalls: what an earlier turn left open is marked, never run again; the
\* results stored when the batch began say that the outcome is unknown.
CloseInterrupted(a) ==
    /\ At(a, "saved")
    /\ LET e == IF attempt[a].cp = 0 THEN 0 ELSE checkpoints[attempt[a].cp].exchange IN
       \/ /\ Unfinished(e) = {}
          /\ UNCHANGED <<exchanges, checkpoints>>
       \/ /\ Unfinished(e) # {}
          /\ MayCommit(a) /\ attempt[a].cp = checkpoint
          /\ LET closed == [c \in DOMAIN exchanges[e].calls |->
                               IF c \in ToClose(e) THEN "interrupted" ELSE exchanges[e].calls[c]]
             IN /\ exchanges' = [exchanges EXCEPT ![e] = [@ EXCEPT !.calls = closed, !.head = "interrupted",
                                    !.slots = [c \in DOMAIN @ |-> IF @[c] = "pending" THEN "interrupted" ELSE @[c]]]]
                /\ checkpoints' = Snapshot(closed)
    /\ Move(a, "round")
    /\ UNCHANGED <<inputs, checkpoint, seed, takenOver, live>>

\* A message that came during the tools joins the next request (DrainPending, PrepareCall).
JoinPending(a) ==
    /\ At(a, "round") /\ attempt[a].rounds > 0 /\ MayCommit(a)
    /\ CommitInput(a, "user", {}) /\ Move(a, "round")
    /\ UNCHANGED <<exchanges, checkpoints, checkpoint, seed, takenOver, live>>

TakeOverSession ==
    /\ ~takenOver /\ takenOver' = TRUE
    /\ UNCHANGED <<inputs, exchanges, checkpoints, checkpoint, seed, live, attempt>>

\* Mutant: a notice is queued whether or not one waits.
NoticeWaitsNot == FALSE

\* isForegroundNotice on the queued inputs
NoticeWaits == \E i \in PendingInputs : inputs[i].kind = "notice"

\* queueForegroundNotice, with the session as RefreshSession read it
QueueNotice(a) ==
    /\ At(a, "round")
    /\ \/ (~takenOver \/ NoticeWaits) /\ UNCHANGED inputs
       \/ takenOver /\ ~NoticeWaits /\ MayCommit(a) /\ CommitInput(a, "notice", {})
    /\ attempt' = [attempt EXCEPT ![a].pc = "noticed", ![a].notice = takenOver]
    /\ UNCHANGED <<exchanges, checkpoints, checkpoint, seed, takenOver, live>>

\* Mutant: only the definitions of the window count as known.
KnownInWindow(a) == attempt[a].defs

\* The definitions of the window and of the queue.
KnownDefinitions(a) == attempt[a].defs \cup DefinitionsIn(PendingInputs)

\* queueToolDefinitions and the list of inputs this call consumes; the tools offered may
\* differ between rounds, and the summary round offers none.
QueueDefinitions(a) ==
    /\ At(a, "noticed")
    /\ \E tools \in IF attempt[a].rounds > MaxRounds THEN {{}} ELSE SUBSET ToolNames :
          LET added == tools \ KnownDefinitions(a) IN
          /\ IF added = {} THEN UNCHANGED inputs
             ELSE MayCommit(a) /\ CommitInput(a, "tools", added)
          /\ attempt' = [attempt EXCEPT ![a] = [@ EXCEPT !.pc = "ready", !.defs = KnownDefinitions(a) \cup added,
                                                  !.tools = tools, !.inputs = {i \in DOMAIN inputs' : inputs'[i].by = 0}]]
    /\ UNCHANGED <<exchanges, checkpoints, checkpoint, seed, takenOver, live>>

\* nativeCall saves the request before it is sent.  Whether it continues the response on the
\* server or replays the local window, it says the same to the model: the chain and the inputs.
CreateExchange(a) ==
    /\ At(a, "ready") /\ MayCommit(a) /\ Len(exchanges) < MaxExchanges
    /\ exchanges' = Append(exchanges,
          [prev |-> attempt[a].cp, manifest |-> attempt[a].inputs, allowed |-> attempt[a].tools,
           notice |-> attempt[a].notice, status |-> "pending", items |-> {}, calls |-> <<>>, slots |-> <<>>, head |-> "none"])
    /\ attempt' = [attempt EXCEPT ![a].pc = "streaming", ![a].exchange = Len(exchanges) + 1]
    /\ UNCHANGED <<inputs, checkpoints, checkpoint, seed, takenOver, live>>

\* FinishExchange, which neither the gate nor a cancellation holds back.
FinishExchange(a, status) ==
    LET e == attempt[a].exchange IN
    /\ At(a, "streaming") /\ exchanges[e].status = "pending"
    /\ \E items \in IF status = "completed" THEN {{}, CallIDs} ELSE {{}} :
          exchanges' = [exchanges EXCEPT ![e] = [@ EXCEPT !.status = status, !.items = items]]
    /\ UNCHANGED <<inputs, checkpoints, checkpoint, seed, takenOver>>

\* A completed response, with the reply or with calls of tools that were allowed.
Answered(a) ==
    /\ FinishExchange(a, "completed") /\ UNCHANGED live
    /\ LET items == exchanges'[attempt[a].exchange].items IN
       /\ items # {} => attempt[a].tools # {}
       /\ Move(a, IF items = {} THEN "reply" ELSE "calls")

\* A completed response that the turn cannot use: a call that was not allowed, a failing
\* hook, a user who cannot be reached.
Unusable(a) == FinishExchange(a, "completed") /\ EndAttempt(a)

\* A failed one: llm.Retry sends the same inputs in a new exchange, also when the server
\* has lost the response it continued and the local window is replayed.
Retried(a) == FinishExchange(a, "failed") /\ Move(a, "ready") /\ UNCHANGED live

CallFails(a) == FinishExchange(a, "failed") /\ EndAttempt(a)

\* Mutant: of the users' inputs, the latest is enough.
ConsumedLatest(a) ==
    {i \in attempt[a].inputs : inputs[i].kind = "user" =>
        \A j \in attempt[a].inputs : inputs[j].kind = "user" => j <= i}

\* Mutant: the definitions stay queued.
ConsumedTalk(a) == {i \in attempt[a].inputs : inputs[i].kind # "tools"}

\* The inputs that the checkpoint consumes.
Consumed(a) == attempt[a].inputs

\* turnState.advance and Dialogue.Commit: checkpoint, consumed inputs and consumed seed.
Advance(a, calls) ==
    /\ MayCommit(a) /\ attempt[a].cp = checkpoint
    /\ exchanges[attempt[a].exchange].status = "completed"
    /\ \A i \in Consumed(a) : inputs[i].by = 0
    /\ checkpoints' = Append(checkpoints,
          [parent |-> checkpoint, exchange |-> attempt[a].exchange, seeded |-> seed # "none", calls |-> calls])
    /\ checkpoint' = Len(checkpoints) + 1
    /\ seed' = IF seed = "fresh" THEN "consumed" ELSE seed

Marked(a) == [i \in InputIDs |-> IF i \in Consumed(a) THEN [inputs[i] EXCEPT !.by = attempt[a].exchange]
                                 ELSE inputs[i]]

\* replyCommitter.Commit ends the turn.
CommitNativeReply(a) ==
    /\ At(a, "reply") /\ Advance(a, <<>>) /\ inputs' = Marked(a) /\ EndAttempt(a)
    /\ UNCHANGED <<exchanges, takenOver>>

\* Mutant: results are stored when they exist.
BatchResultsNone(e, calls) == <<>>

\* toolCommitter.Begin stores a result for every call, saying that its outcome is unknown.
BatchResults(e, calls) ==
    LET order == CHOOSE s \in [1 .. Cardinality(calls) -> calls] : {s[n] : n \in DOMAIN s} = calls IN
    [n \in 1 .. Cardinality(calls) |->
        [kind |-> "result", exchange |-> e, call |-> order[n], saved |-> FALSE, defs |-> {}, by |-> 0]]

BeginBatch(a) ==
    LET e == attempt[a].exchange
        open == [c \in exchanges[e].items |-> "pending"]
    IN /\ At(a, "calls") /\ Advance(a, open)
       /\ inputs' = Marked(a) \o BatchResults(e, exchanges[e].items)
       /\ exchanges' = [exchanges EXCEPT ![e] = [@ EXCEPT !.calls = open, !.slots = open, !.head = "pending"]]
       /\ attempt' = [attempt EXCEPT ![a] = [@ EXCEPT !.pc = "tools", !.cp = checkpoint',
                                                     !.inputs = {}, !.rounds = @ + 1]]
       /\ UNCHANGED <<takenOver, live>>

\* Mutant: the snapshot is taken when the batch begins to have results.
LastOfAny(a) == Cardinality(Unfinished(attempt[a].exchange)) = Cardinality(exchanges[attempt[a].exchange].items)

\* remaining = 1
LastResult(a) == Cardinality(Unfinished(attempt[a].exchange)) = 1

\* commitToolResult: a slot is sealed while it is pending; with the last one the head is.
Sealed(e, c, last) ==
    [exchanges[e] EXCEPT !.calls[c] = "completed", !.slots[c] = "completed",
                         !.head = IF last THEN "completed" ELSE @]

\* toolCommitter.Result replaces the stored result, seals its slot and, with the last one,
\* the batch, and snapshots it.
SaveResult(a, c) ==
    LET e == attempt[a].exchange
        sealed == Sealed(e, c, LastResult(a))
    IN /\ At(a, "tools") /\ c \in Unfinished(e) /\ exchanges[e].slots[c] = "pending"
       /\ MayCommit(a) /\ attempt[a].cp = checkpoint
       /\ inputs' = [i \in InputIDs |-> IF i \in Answers(InputIDs, e, c) THEN [inputs[i] EXCEPT !.saved = TRUE]
                                        ELSE inputs[i]]
       /\ exchanges' = [exchanges EXCEPT ![e] = sealed]
       /\ checkpoints' = IF LastResult(a) THEN Snapshot(sealed.calls) ELSE checkpoints
       /\ UNCHANGED <<checkpoint, seed, takenOver, live, attempt>>

\* Flush, and the next round; beyond the limit of rounds a summary is asked for.
FlushBatch(a) ==
    /\ At(a, "tools") /\ Unfinished(attempt[a].exchange) = {}
    /\ Move(a, IF attempt[a].rounds > MaxRounds THEN "spent" ELSE "round")
    /\ UNCHANGED <<inputs, exchanges, checkpoints, checkpoint, seed, takenOver, live>>

\* The request for a summary is stored as the user's.
SaveSummaryInput(a) ==
    /\ At(a, "spent") /\ MayCommit(a) /\ CommitInput(a, "user", {}) /\ Move(a, "round")
    /\ UNCHANGED <<exchanges, checkpoints, checkpoint, seed, takenOver, live>>

\* The process dies: the attempts are gone, the tables stay.
CrashDialogue ==
    /\ live # 0 /\ live' = 0
    /\ attempt' = [a \in AttemptIDs |-> IF At(a, "new") THEN attempt[a] ELSE [NoAttempt EXCEPT !.pc = "done"]]
    /\ UNCHANGED <<inputs, exchanges, checkpoints, checkpoint, seed, takenOver>>

AttemptStep(a) ==
    \/ PrepareAttempt(a) \/ SaveUser(a) \/ CloseInterrupted(a) \/ JoinPending(a)
    \/ QueueNotice(a) \/ QueueDefinitions(a) \/ CreateExchange(a)
    \/ Answered(a) \/ Unusable(a) \/ Retried(a) \/ CallFails(a)
    \/ CommitNativeReply(a) \/ BeginBatch(a) \/ (\E c \in CallIDs : SaveResult(a, c))
    \/ FlushBatch(a) \/ SaveSummaryInput(a)

---------------------------------------------------------------------------
(* Branches of the session.                                                *)

\* CheckpointForMessage: the newest checkpoint of the message that ends an exchange.
Newest(e) == LET of == {k \in CheckpointIDs : checkpoints[k].exchange = e} IN
             IF of = {} THEN 0 ELSE CHOOSE k \in of : \A j \in of : j <= k

\* closeBranchCalls and validateCallLinks: no call of the window is open.
Closed(k) == \A c \in DOMAIN checkpoints[k].calls : checkpoints[k].calls[c] # "pending"

BranchPrepared(kind, k) ==
    branch' = [pc |-> "prepared", kind |-> kind, expected |-> checkpoint, covers |-> ChainExchanges(k)]

\* PrepareFork at any message of the history.
PrepareFork ==
    /\ branch.pc = "none" /\ checkpoint # 0
    /\ \E e \in ExchangeIDs : Newest(e) # 0 /\ Closed(Newest(e)) /\ BranchPrepared("fork", Newest(e))
    /\ UNCHANGED nativeVars

\* PrepareCopy takes the committed window: nothing waits but the results of a sealed batch.
PrepareCopy ==
    /\ branch.pc = "none" /\ checkpoint # 0
    /\ LET e == checkpoints[checkpoint].exchange IN
       /\ PendingInputs \subseteq {i \in InputIDs : inputs[i].kind = "result" /\ inputs[i].exchange = e}
       /\ Closed(Newest(e)) /\ BranchPrepared("copy", Newest(e))
    /\ UNCHANGED nativeVars

\* Compactor.Prepare, while no turn runs, also summarises what is queued: a stored result,
\* saved or not, answers its call.
PrepareCompact ==
    /\ branch.pc = "none" /\ checkpoint # 0 /\ live = 0
    /\ BranchPrepared("compact", checkpoint) /\ UNCHANGED nativeVars

\* Mutant: the source may have moved on.
Unmoved(b) == TRUE

\* CreateMaterial compares the checkpoint of the source.
SourceUnchanged(b) == b.expected = checkpoint

CreateMaterial ==
    /\ branch.pc = "prepared"
    /\ branch' = IF SourceUnchanged(branch) THEN [NoBranch EXCEPT !.pc = "created"] ELSE NoBranch
    /\ UNCHANGED nativeVars

BranchStep ==
    PrepareFork \/ PrepareCopy \/ PrepareCompact \/ CreateMaterial

DialogueNext ==
    \/ (TakeOverSession \/ CrashDialogue) /\ UNCHANGED branch
    \/ \E a \in AttemptIDs : (AdmitAttempt(a) \/ FailAttempt(a) \/ AttemptStep(a)) /\ UNCHANGED branch
    \/ BranchStep

DialogueSpec == DialogueInit /\ [][DialogueNext]_dialogueVars
---------------------------------------------------------------------------
(* Properties.                                                             *)

\* Whatever failed, was superseded or crashed before, the next turn of the session can load
\* its history (Loop.PrepareTurn and Context.Load find no broken chain or manifest).
HistoryLoads == TurnLoads

\* The admitted attempt works on the checkpoint of the session: none of its commits is
\* refused with "native checkpoint changed".
AttemptUpToDate ==
    live # 0 /\ attempt[live].pc \notin {"new", "admitted", "done"} => attempt[live].cp = checkpoint

\* A request answers every call of its history exactly once, and the calls of the response
\* it continues itself (validateCallLinks), also when their turn was interrupted.
CallsAnswered ==
    \A x \in ExchangeIDs : \A k \in Ancestry(exchanges[x].prev) :
        LET e == checkpoints[k].exchange
            sent == WindowInputs(exchanges[x].prev) \cup exchanges[x].manifest
        IN \A c \in exchanges[e].items :
              /\ Cardinality(Answers(sent, e, c)) = 1
              /\ k = exchanges[x].prev => Answers(exchanges[x].manifest, e, c) # {}

\* The two records of a tool call, its row and its message slot, never disagree, and the head
\* of the batch says completed exactly when all its calls are.
SlotsAgree ==
    \A e \in ExchangeIDs :
        /\ exchanges[e].calls = exchanges[e].slots
        /\ exchanges[e].head = "completed" <=>
              exchanges[e].calls # <<>> /\ \A c \in DOMAIN exchanges[e].calls : exchanges[e].calls[c] = "completed"

\* A batch that is sealed can be forked: the newest checkpoint of its message knows every
\* outcome (CheckpointForMessage, PrepareFork).
SealedForks ==
    \A e \in ExchangeIDs :
        Newest(e) # 0 /\ Unfinished(e) = {} => checkpoints[Newest(e)].calls = exchanges[e].calls

\* Tools that a request allows are defined once in what the model has seen, and a promoted
\* session's request carries one notice.
DefinedOnce ==
    \A x \in ExchangeIDs :
        LET seen == WindowInputs(exchanges[x].prev) \cup exchanges[x].manifest IN
        /\ \A t \in exchanges[x].allowed : Cardinality({i \in seen : t \in inputs[i].defs}) = 1
        /\ Cardinality({i \in exchanges[x].manifest : inputs[i].kind = "notice"})
              = IF exchanges[x].notice THEN 1 ELSE 0

\* What users said reaches the model in the order it was said.
ConsumedInOrder ==
    \A i, j \in InputIDs :
        i < j /\ inputs[i].kind = "user" /\ inputs[j].kind = "user" /\ inputs[j].by # 0 =>
            inputs[i].by # 0 /\ inputs[i].by <= inputs[j].by

\* A copy or a compaction holds all that was committed when it was created, although turns
\* went on while it was prepared.
BranchWhole ==
    [][branch'.pc = "created" /\ branch.pc # "created" /\ branch.kind # "fork" =>
          branch.covers = ChainExchanges(checkpoint)]_dialogueVars

\* A sealed call keeps its outcome, a consumed input its content and its exchange, and a
\* finished exchange its facts.
SealedForever ==
    [][/\ \A i \in InputIDs : inputs[i].by # 0 => inputs'[i] = inputs[i]
       /\ \A e \in ExchangeIDs :
             /\ exchanges[e].status # "pending" => exchanges'[e].status = exchanges[e].status
             /\ \A c \in DOMAIN exchanges[e].calls :
                   exchanges[e].calls[c] # "pending" => exchanges'[e].calls[c] = exchanges[e].calls[c]
      ]_dialogueVars
=============================================================================
