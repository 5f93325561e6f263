------------------------------- MODULE Elnis -------------------------------
(***************************************************************************)
(* The event intake (internal/background/elnis) and its tables: requests   *)
(* with the same key race each other, accepted events are executed by the  *)
(* request or by a worker, reports are delivered from an outbox that the   *)
(* recovery loop also works on, and the process stops or crashes at any    *)
(* point and starts again.  Reads and writes of the tables fail; one fault  *)
(* is a step in which the calls the code makes fail, the ones that would    *)
(* record the failure included.                                             *)
(***************************************************************************)
EXTENDS Naturals, Sequences, FiniteSets

CONSTANTS
    Keys,           \* elwisp name, source and id of an event
    Requests,       \* goroutines of the HTTP server
    LLMWorkers,     \* workers of the event queue
    Addressees,     \* resolved targets of a report
    QueueSize,      \* capacity of the event queue
    MaxRequests, MaxElnisFaults, MaxRestarts   \* bounds

ASSUME ElnisAssumption ==
    /\ QueueSize \in Nat /\ MaxRequests \in Nat /\ MaxElnisFaults \in Nat /\ MaxRestarts \in Nat

VARIABLES
    event,      \* elnis_events: status by key
    outbox,     \* elnis_report_deliveries: status by key and target
    request,    \* HTTP handlers
    llmQueue,
    doer,       \* event workers and the report worker
    promoted,   \* keys whose session the user has taken over
    elnis,      \* the runtime: "new", "ready", "closing", "done"
    executed,   \* history: how often the event of a key was executed
    unsaved,    \* history: keys a write of whose status failed since the start
    spent       \* the bounds used up

elnisVars == <<event, outbox, request, llmQueue, doer, promoted, elnis, executed, unsaved, spent>>

Reporter == "reporter"
Doers == LLMWorkers \cup {Reporter}
Final == {"completed", "failed", "taken_over"}
Interruptible == {"accepted", "queued", "running"}
NoRequest == [at |-> "rest", key |-> "none", mode |-> "none"]
NoWork == [at |-> "rest", key |-> "none", todo |-> {}]
NoOutbox == [a \in Addressees |-> "none"]

ElnisTypeOK ==
    /\ event \in [Keys -> {"none", "result_ready", "delivering"} \cup Final \cup Interruptible]
    /\ outbox \in [Keys -> [Addressees -> {"none", "pending", "failed", "delivered"}]]
    /\ request \in [Requests -> {NoRequest} \cup
          [at : {"lookup", "create", "dispatch"}, key : Keys, mode : {"record", "direct", "llm"}]]
    /\ llmQueue \in Seq(Keys) /\ Len(llmQueue) <= QueueSize
    /\ doer \in [Doers -> {NoWork} \cup
          [at : {"run", "prepare", "claim", "check", "send", "mark"}, key : Keys, todo : SUBSET Addressees]]
    /\ promoted \subseteq Keys /\ unsaved \subseteq Keys
    /\ elnis \in {"new", "ready", "closing", "done"}

ElnisInit ==
    /\ event = [k \in Keys |-> "none"]
    /\ outbox = [k \in Keys |-> NoOutbox]
    /\ request = [r \in Requests |-> NoRequest]
    /\ llmQueue = <<>>
    /\ doer = [w \in Doers |-> NoWork]
    /\ promoted = {} /\ unsaved = {}
    /\ elnis = "new"
    /\ executed = [k \in Keys |-> 0]
    /\ spent = [requests |-> 0, faults |-> 0, restarts |-> 0]

SetStatus(k, status) == event' = [event EXCEPT ![k] = status]
DoerAt(w, at) == doer' = [doer EXCEPT ![w] = IF at = "rest" THEN NoWork ELSE [@ EXCEPT !.at = at]]
RequestAt(r, at) == request' = [request EXCEPT ![r] = IF at = "rest" THEN NoRequest ELSE [@ EXCEPT !.at = at]]
ElnisFault == spent.faults < MaxElnisFaults /\ spent' = [spent EXCEPT !.faults = @ + 1]
Written(k, status) == SetStatus(k, status) /\ UNCHANGED <<unsaved, spent>>

\* The caller only logs the error, or returns it to one that does.
NotWritten(k) == ElnisFault /\ unsaved' = unsaved \cup {k} /\ UNCHANGED event

\* completeEvent and completeTakeover, with a context of their own.
FinishEvent(k, status) == Written(k, status) \/ NotWritten(k)

\* Mutant: everything that is not completed.
FailUncompleted == [k \in Keys |-> IF event[k] \in {"none", "completed"} THEN event[k] ELSE "failed"]

\* FailInterrupted: what only memory could go on with has failed.
FailInterrupted == [k \in Keys |-> IF event[k] \in Interruptible THEN "failed" ELSE event[k]]

-----------------------------------------------------------------------------
(* Lifecycle.                                                               *)

\* Mutant: what was being delivered is not taken up again.
RecoveredInterrupted == FailInterrupted

\* RecoverInterrupted and resetDeliveringReports, before anything else runs; if one of
\* them or the listener fails, the start fails.
Recovered == [k \in Keys |-> IF event[k] = "delivering" THEN "result_ready" ELSE FailInterrupted[k]]

StartElnis ==
    /\ elnis = "new"
    /\ \/ elnis' = "ready" /\ event' = Recovered /\ UNCHANGED spent
       \/ elnis' = "done" /\ event' \in {event, FailInterrupted, Recovered} /\ ElnisFault
    /\ unsaved' = {}
    /\ UNCHANGED <<outbox, request, llmQueue, doer, promoted, executed>>

BeginCloseElnis ==
    /\ elnis = "ready" /\ elnis' = "closing"
    /\ UNCHANGED <<event, outbox, request, llmQueue, doer, promoted, executed, unsaved, spent>>

\* After the connections and the workers: the last writes, and the queue is emptied.
CloseElnis ==
    /\ elnis = "closing"
    /\ \A r \in Requests : request[r] = NoRequest
    /\ \A w \in Doers : doer[w] = NoWork
    /\ elnis' = "done"
    /\ \/ event' = FailInterrupted /\ UNCHANGED spent
       \/ ElnisFault /\ UNCHANGED event
    /\ llmQueue' = <<>>
    /\ UNCHANGED <<outbox, request, doer, promoted, executed, unsaved>>

\* The process ends, orderly or not, and another one starts.
RestartElnis ==
    /\ spent.restarts < MaxRestarts /\ spent' = [spent EXCEPT !.restarts = @ + 1]
    /\ elnis' = "new"
    /\ request' = [r \in Requests |-> NoRequest]
    /\ doer' = [w \in Doers |-> NoWork]
    /\ llmQueue' = <<>>
    /\ UNCHANGED <<event, outbox, promoted, executed, unsaved>>

-----------------------------------------------------------------------------
(* A request.                                                               *)

\* Handle, DispatchElvena and prepareEvent accept a request that is authorized.
Dispatch(r, k, mode) ==
    /\ elnis = "ready" /\ request[r].at = "rest" /\ spent.requests < MaxRequests
    /\ spent' = [spent EXCEPT !.requests = @ + 1]
    /\ request' = [request EXCEPT ![r] = [at |-> "lookup", key |-> k, mode |-> mode]]
    /\ UNCHANGED <<event, outbox, llmQueue, doer, promoted, elnis, executed, unsaved>>

\* GetByKey: a known key is a duplicate; the read may fail.
LookUp(r) ==
    /\ request[r].at = "lookup"
    /\ \/ event[request[r].key] = "none" /\ RequestAt(r, "create")
       \/ RequestAt(r, "rest")
    /\ UNCHANGED <<event, outbox, llmQueue, doer, promoted, elnis, executed, unsaved, spent>>

\* Mutant: the table accepts the key again.
CreatableAgain(k) == TRUE

\* The key is unique in the table.
Creatable(k) == event[k] = "none"

\* Create, or no row: a request that comes second is a duplicate, the write may fail.
CreateEvent(r) ==
    LET k == request[r].key IN
    /\ request[r].at = "create"
    /\ \/ /\ Creatable(k) /\ RequestAt(r, "dispatch")
          /\ SetStatus(k, IF request[r].mode = "llm" THEN "queued" ELSE "accepted")
       \/ RequestAt(r, "rest") /\ UNCHANGED event
    /\ UNCHANGED <<outbox, llmQueue, doer, promoted, elnis, executed, unsaved, spent>>

\* ModeRecord, and runDirect: calls and sends, complete or failing.
RunDirect(r) ==
    LET k == request[r].key IN
    /\ request[r].at = "dispatch" /\ request[r].mode # "llm"
    /\ executed' = [executed EXCEPT ![k] = @ + 1]
    /\ \/ FinishEvent(k, "completed")
       \/ request[r].mode = "direct" /\ FinishEvent(k, "failed")
    /\ RequestAt(r, "rest")
    /\ UNCHANGED <<outbox, llmQueue, doer, promoted, elnis>>

\* Mutant: one more than the capacity.
QueueRoomOver == Len(llmQueue) <= QueueSize

\* The send on the queue's channel does not block.
QueueRoom == Len(llmQueue) < QueueSize

\* enqueueLLM; it also fails when the request was cancelled.
EnqueueLLM(r) ==
    LET k == request[r].key IN
    /\ request[r].at = "dispatch" /\ request[r].mode = "llm"
    /\ \/ elnis = "ready" /\ QueueRoom /\ llmQueue' = Append(llmQueue, k) /\ UNCHANGED <<event, unsaved, spent>>
       \/ FinishEvent(k, "failed") /\ UNCHANGED llmQueue
    /\ RequestAt(r, "rest")
    /\ UNCHANGED <<outbox, doer, promoted, elnis, executed>>

-----------------------------------------------------------------------------
(* Event workers.                                                           *)

\* The status "running" is written before anything else; a worker that is to end drops
\* what it received.
TakeEvent(w) ==
    LET k == Head(llmQueue) IN
    /\ elnis \in {"ready", "closing"} /\ doer[w].at = "rest" /\ Len(llmQueue) > 0
    /\ llmQueue' = Tail(llmQueue)
    /\ \/ /\ elnis = "ready" /\ Written(k, "running")
          /\ doer' = [doer EXCEPT ![w] = [at |-> "run", key |-> k, todo |-> {}]]
       \/ elnis = "ready" /\ NotWritten(k) /\ UNCHANGED doer
       \/ elnis = "closing" /\ UNCHANGED <<event, doer, unsaved, spent>>
    /\ UNCHANGED <<outbox, request, promoted, elnis, executed>>

\* RunLLMEvent: the session was taken over; the run fails, or is cancelled; there is
\* nothing to report; or a report is prepared.
RunLLMEvent(w) ==
    LET k == doer[w].key IN
    /\ doer[w].at = "run"
    /\ executed' = [executed EXCEPT ![k] = @ + 1]
    /\ \/ k \in promoted /\ FinishEvent(k, "taken_over") /\ DoerAt(w, "rest")
       \/ k \notin promoted /\ \E status \in {"failed", "completed"} : FinishEvent(k, status) /\ DoerAt(w, "rest")
       \/ k \notin promoted /\ elnis = "ready" /\ DoerAt(w, "prepare") /\ UNCHANGED <<event, unsaved, spent>>
    /\ UNCHANGED <<outbox, request, llmQueue, promoted, elnis>>

\* prepareReport, one transaction for the result and the outbox; when it fails, the
\* event has failed.
PrepareReport(w) ==
    LET k == doer[w].key IN
    /\ doer[w].at = "prepare"
    /\ \/ /\ k \notin promoted
          /\ Written(k, "result_ready") /\ DoerAt(w, "claim")
          /\ outbox' = [outbox EXCEPT ![k] = [a \in Addressees |-> "pending"]]
       \/ /\ (k \in promoted /\ Written(k, "taken_over")) \/ FinishEvent(k, "failed")
          /\ DoerAt(w, "rest") /\ UNCHANGED outbox
    /\ UNCHANGED <<request, llmQueue, promoted, elnis, executed>>

-----------------------------------------------------------------------------
(* The outbox.                                                              *)

\* recoverReports, at the start and every 30 seconds: a listed report.
RecoverReport(k) ==
    /\ elnis = "ready" /\ doer[Reporter].at = "rest" /\ event[k] = "result_ready"
    /\ doer' = [doer EXCEPT ![Reporter] = [at |-> "claim", key |-> k, todo |-> {}]]
    /\ UNCHANGED <<event, outbox, request, llmQueue, promoted, elnis, executed, unsaved, spent>>

\* Mutant: a report is claimed also from another.
ClaimableAlways(k) == event[k] \in {"result_ready", "delivering"}

\* ClaimReport compares the status.
Claimable(k) == event[k] = "result_ready"

\* Mutant: a row that failed is not tried again.
UndeliveredNew(k) == {a \in Addressees : outbox[k][a] = "pending"}

\* ListReportDeliveries, without what is delivered.
Undelivered(k) == {a \in Addressees : outbox[k][a] # "delivered"}

\* releaseReport: the report is ready again; if that is not written either, it stays
\* "delivering".
ReleaseReport(k) ==
    \/ SetStatus(k, "result_ready") /\ UNCHANGED unsaved
    \/ unsaved' = unsaved \cup {k} /\ UNCHANGED event

\* Claim, then the rows not yet delivered are read, or the claim is given back.
ClaimReport(w) ==
    LET k == doer[w].key IN
    /\ doer[w].at = "claim"
    /\ \/ /\ Claimable(k) /\ elnis = "ready" /\ Written(k, "delivering")
          /\ doer' = [doer EXCEPT ![w].at = "check", ![w].todo = Undelivered(k)]
       \/ /\ DoerAt(w, "rest")
          /\ \/ ~(Claimable(k) /\ elnis = "ready") /\ UNCHANGED <<event, unsaved, spent>>
             \/ ElnisFault /\ UNCHANGED <<event, unsaved>>
             \/ Claimable(k) /\ ElnisFault /\ SetStatus(k, "delivering") /\ unsaved' = unsaved \cup {k}
    /\ UNCHANGED <<outbox, request, llmQueue, promoted, elnis, executed>>

\* deliverReport, before each target, and CompleteReport after the last one; when the
\* look at the session or CompleteReport fails, the report is released.
CheckReport(w) ==
    LET k == doer[w].key IN
    /\ doer[w].at = "check"
    /\ \/ /\ doer[w].todo # {} /\ k \notin promoted
          /\ DoerAt(w, "send") /\ UNCHANGED <<event, unsaved, spent>>
       \/ /\ DoerAt(w, "rest")
          /\ \/ doer[w].todo # {} /\ k \in promoted /\ FinishEvent(k, "taken_over")
             \/ doer[w].todo = {} /\ Written(k, "completed")
             \/ doer[w].todo # {} /\ elnis = "closing" /\ Written(k, "result_ready")
             \/ ElnisFault /\ ReleaseReport(k)
    /\ UNCHANGED <<outbox, request, llmQueue, promoted, elnis, executed>>

\* The next target, in the order of the rows; its outputs are one batch.
NextTarget(w) == CHOOSE a \in doer[w].todo : TRUE

\* Mutant: the report is not released.
AfterFailedSendKept == "delivering"

\* MarkReportDeliveryFailed makes the report ready again with the failed row.
AfterFailedSend == "result_ready"

\* The send; failReportDelivery, which only logs that it could not write.
SendReport(w) ==
    LET k == doer[w].key IN
    /\ doer[w].at = "send"
    /\ \/ /\ elnis = "ready" /\ DoerAt(w, "mark")
          /\ UNCHANGED <<event, outbox, unsaved, spent>>
       \/ /\ ElnisFault \/ (elnis = "closing" /\ UNCHANGED spent)
          /\ SetStatus(k, AfterFailedSend) /\ UNCHANGED unsaved
          /\ outbox' = [outbox EXCEPT ![k][NextTarget(w)] = "failed"]
          /\ DoerAt(w, "rest")
       \/ NotWritten(k) /\ DoerAt(w, "rest") /\ UNCHANGED outbox
    /\ UNCHANGED <<request, llmQueue, promoted, elnis, executed>>

\* MarkReportDeliveriesDelivered for the target that was sent to; when it fails, the
\* report is released and its target is sent to again.
MarkDelivered(w) ==
    LET k == doer[w].key IN
    /\ doer[w].at = "mark"
    /\ \/ /\ outbox' = [outbox EXCEPT ![k][NextTarget(w)] = "delivered"]
          /\ doer' = [doer EXCEPT ![w].at = "check", ![w].todo = @ \ {NextTarget(w)}]
          /\ UNCHANGED <<event, unsaved, spent>>
       \/ ElnisFault /\ ReleaseReport(k) /\ DoerAt(w, "rest") /\ UNCHANGED outbox
    /\ UNCHANGED <<request, llmQueue, promoted, elnis, executed>>

PromoteSession(k) ==
    /\ event[k] \in {"running", "result_ready", "delivering"} /\ k \notin promoted
    /\ promoted' = promoted \cup {k}
    /\ UNCHANGED <<event, outbox, request, llmQueue, doer, elnis, executed, unsaved, spent>>

RequestStep(r) == LookUp(r) \/ CreateEvent(r) \/ RunDirect(r) \/ EnqueueLLM(r)
DoerStep(w) ==
    RunLLMEvent(w) \/ PrepareReport(w) \/ ClaimReport(w) \/ CheckReport(w)
    \/ SendReport(w) \/ MarkDelivered(w)

ElnisNext ==
    \/ StartElnis \/ BeginCloseElnis \/ CloseElnis \/ RestartElnis
    \/ \E r \in Requests : RequestStep(r) \/ \E k \in Keys, mode \in {"record", "direct", "llm"} : Dispatch(r, k, mode)
    \/ \E w \in LLMWorkers : TakeEvent(w)
    \/ \E w \in Doers : DoerStep(w)
    \/ \E k \in Keys : RecoverReport(k) \/ PromoteSession(k)

\* Goroutines go on; the recovery loop ticks; a process that ended is started again.
ElnisFairness ==
    /\ \A r \in Requests : WF_elnisVars(RequestStep(r))
    /\ \A w \in Doers : WF_elnisVars(DoerStep(w))
    /\ WF_elnisVars(\E w \in LLMWorkers : TakeEvent(w))
    /\ WF_elnisVars(\E k \in Keys : RecoverReport(k))
    /\ WF_elnisVars(StartElnis) /\ WF_elnisVars(CloseElnis)

ElnisSpec == ElnisInit /\ [][ElnisNext]_elnisVars /\ ElnisFairness

-----------------------------------------------------------------------------
(* Properties.                                                              *)

\* An event is executed at most once: duplicates that race past the lookup are stopped
\* by the table, and a restart does not repeat an execution.
ExecutedOnce == \A k \in Keys : executed[k] <= 1

\* While the service runs nothing is stranded: an event that is not final is in the
\* hands of a request, of the queue or of a worker, or waits in the outbox; only one a
\* status of which could not be written is left to the next start.
NothingStranded ==
    elnis = "ready" => \A k \in Keys \ unsaved :
        /\ event[k] \in Interruptible =>
              \/ \E r \in Requests : request[r].key = k
              \/ \E i \in DOMAIN llmQueue : llmQueue[i] = k
              \/ \E w \in Doers : doer[w].key = k
        /\ event[k] = "delivering" => \E w \in Doers : doer[w].key = k /\ doer[w].at \in {"check", "send", "mark"}

\* A report is in the hands of one deliverer, the worker that made it or the recovery.
OneDeliverer ==
    \A v, w \in Doers :
        v # w /\ {doer[v].at, doer[w].at} \subseteq {"check", "send", "mark"} => doer[v].key # doer[w].key

\* A final status is never left, and a completed event's report has reached all of its
\* targets.
FinalStays == [][\A k \in Keys : event[k] \in Final => event'[k] = event[k]]_elnisVars
CompletedIsDelivered ==
    \A k \in Keys : event[k] = "completed" => \A a \in Addressees : outbox[k][a] \in {"none", "delivered"}

\* A report that was prepared comes to an end, across failing sends, reads and marks and
\* restarts, if the service is kept running and no status of it fails to be written.
ReportsEnd ==
    \A k \in Keys : event[k] = "result_ready" ~> (event[k] \in Final \/ elnis # "ready" \/ k \in unsaved)
=============================================================================
