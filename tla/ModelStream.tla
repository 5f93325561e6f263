----------------------------- MODULE ModelStream -----------------------------
(***************************************************************************)
(* One operation on a model and its attempts: internal/llm with its HTTP   *)
(* client, the two protocols (chat completions and responses) and the      *)
(* callers that consume their streams.                                     *)
(*                                                                         *)
(* The operations: "talk", a call of the dialogue (agent/dialogue Call     *)
(* around agent/chat callOnce); "text", GenerateText; "compact",           *)
(* CompactPrepared.  All three run under llm.Retry.                        *)
(*                                                                         *)
(* An attempt has four goroutines, each with its place in pipe[attempt]:   *)
(* the scanner of the body (scanStreamLines), the assembler of frames      *)
(* (readFrames), the reader of the protocol (readStream) and the consumer, *)
(* which is the caller.  frames and out are channels without a buffer: a   *)
(* value passes when both sides are there.  What the provider answers is   *)
(* chosen when an attempt connects; a line of the body is a kind of        *)
(* content, or "blank", the line that ends a frame.                        *)
(***************************************************************************)
EXTENDS Integers, Sequences, SequencesExt

CONSTANTS
    ModelOperations,    \* the operations looked at: [kind |-> talk, text, compact, api |-> chat, native]
    ModelAnswers,       \* what a provider may answer to <<kind, api>>: [status, code, prefix, lines, end]
    MaxRetries,    \* attempts after the first one
    InitialDelay,  \* the wait before the second attempt
    MaxDuration,   \* the largest duration: a longer one would overflow
    ToolsEnabled,  \* the session is one for work
    StreamFaults   \* bound: cancellations and failing calls of one operation

ASSUME StreamAssumption ==
    /\ MaxRetries \in Nat /\ InitialDelay \in Nat \ {0} /\ MaxDuration \in Nat
    /\ InitialDelay <= MaxDuration /\ StreamFaults \in Nat

VARIABLES
    modelCall, \* the operation: kind, api, its place (at), attempt, delay, err, out
    pipe,      \* the goroutines of each attempt
    canceled,  \* the context of the operation is canceled
    screen,    \* the text the user sees: what was sent since the last reset
    notes      \* observations published for each attempt, errors told to the hooks, faults

streamVars == <<modelCall, pipe, canceled, screen, notes>>

Attempts == 1..(MaxRetries + 1)
NothingConsumed == [text |-> <<>>, calls |-> <<>>, items |-> <<>>, output |-> <<>>, whole |-> FALSE, provider |-> FALSE]

-----------------------------------------------------------------------------
(* Failures: llm/error.go.  A failure that no boundary has classified is   *)
(* "plain"; Retry ends with it.                                            *)
ProviderKind(status, code) ==
    CASE code = "chain" /\ status \in {0, 400, 404} -> "previous_response_unavailable"
      [] code \in {"request_timeout", "timeout_error"} -> "timeout"
      [] code \in {"rate_limit_exceeded", "rate_limit_error"} -> "rate_limited"
      [] code \in {"server_error", "overloaded_error"} -> "temporary_failure"
      [] code \in {"invalid_request_error", "insufficient_quota"} -> "request_rejected"
      [] OTHER -> CASE status = 408 -> "timeout"
                    [] status = 429 -> "rate_limited"
                    [] status \in {409, 425} \/ status \in 500..599 -> "temporary_failure"
                    [] status \in 400..499 -> "request_rejected"
                    [] OTHER -> "unknown"

TransportKind(cause) ==
    IF cause = "refused" THEN "disconnected" ELSE IF cause \in {"canceled", "timeout"} THEN cause ELSE "unknown"

\* MapStreamError: what is classified stays, the rest is a failure of the stream.
StreamKind(cause) ==
    IF cause \in {"canceled", "previous_response_unavailable"} THEN cause ELSE "stream_failure"

Retryable(kind) ==
    kind \in {"timeout", "disconnected", "rate_limited", "temporary_failure", "stream_failure"}

\* Retry: the delay doubles and stays where another doubling would overflow.
NextRetryDelay(d) == IF d <= MaxDuration \div 2 THEN 2 * d ELSE d

-----------------------------------------------------------------------------
NoPipe == [answer |-> "none", lines |-> <<>>, line |-> <<>>, scan |-> "off",
           fr |-> "off", frame |-> "none", data |-> <<>>, seen |-> FALSE,
           rd |-> "off", event |-> [kind |-> "none"], parts |-> [i \in {1, 2} |-> 0], sealed |-> FALSE,
           closed |-> TRUE, released |-> TRUE]

\* prepareStreamBody: a body is taken for a stream by its first line.
Streams(answer) == answer.prefix = "sse"

Opened(answer) == [NoPipe EXCEPT !.answer = answer, !.lines = answer.lines, !.scan = "on", !.fr = "select",
                                 !.rd = "select", !.closed = FALSE, !.released = FALSE]

\* The contexts: released is the cancel function of the attempt, closed that of the SSE.
AttemptOver(a) == canceled \/ pipe[a].released
BodyOver(a) == AttemptOver(a) \/ pipe[a].closed

MayFault == notes.faults < StreamFaults
StreamFault(n) == [n EXCEPT !.faults = @ + 1]

StreamInit ==
    /\ \E op \in ModelOperations :
         modelCall = [kind |-> op.kind, api |-> op.api, at |-> "prepare", attempt |-> 0, delay |-> InitialDelay,
                   err |-> "none", out |-> NothingConsumed]
    /\ pipe = [a \in Attempts |-> NoPipe]
    /\ canceled = FALSE
    /\ screen = <<>>
    /\ notes = [observed |-> [a \in 0..(MaxRetries + 1) |-> 0], told |-> 0, faults |-> 0]

ThisAttempt == modelCall.attempt
Talking == modelCall.kind = "talk"

\* The user stops the request, or its time is over.
CancelOperation ==
    /\ ~canceled /\ modelCall.at # "returned" /\ MayFault
    /\ canceled' = TRUE /\ notes' = StreamFault(notes)
    /\ UNCHANGED <<modelCall, pipe, screen>>

-----------------------------------------------------------------------------
(* The caller: Retry and the call of the dialogue around it.               *)

\* PrepareCall and the preparation of the protocol; one that fails is observed and returned.
PrepareModelCall ==
    /\ modelCall.at = "prepare"
    /\ \/ modelCall' = [modelCall EXCEPT !.at = "check", !.attempt = 1] /\ UNCHANGED notes
       \/ /\ Talking /\ MayFault
          /\ modelCall' = [modelCall EXCEPT !.at = "returned", !.err = "plain"]
          /\ notes' = [StreamFault(notes) EXCEPT !.observed[0] = @ + 1]
    /\ UNCHANGED <<pipe, canceled, screen>>

\* The head of the loop of Retry, and for a call of the dialogue the reset of what is shown.
BeginAttempt ==
    /\ modelCall.at = "check"
    /\ \/ canceled /\ modelCall' = [modelCall EXCEPT !.at = "returned", !.err = "canceled"] /\ UNCHANGED <<screen, notes>>
       \/ /\ ~canceled
          /\ modelCall' = [modelCall EXCEPT !.at = "connect", !.err = "none", !.out = NothingConsumed]
          /\ screen' = IF Talking /\ ThisAttempt > 1 THEN <<>> ELSE screen
          /\ UNCHANGED notes
       \/ /\ ~canceled /\ Talking /\ ThisAttempt > 1 /\ MayFault          \* the reset cannot be sent
          /\ modelCall' = [modelCall EXCEPT !.at = "judge", !.err = "plain", !.out = NothingConsumed]
          /\ notes' = StreamFault(notes) /\ UNCHANGED screen
    /\ UNCHANGED <<pipe, canceled>>

\* An attempt ends with err: its observation is published, and Retry looks at it.  A failure of
\* the provider is marked for the hooks unless it is the cancellation of the operation.
Concluded(c, err, out) ==
    [c EXCEPT !.at = "judge", !.err = err,
              !.out = [out EXCEPT !.provider = @ /\ ~(canceled /\ err = "canceled")]]

Observed == IF Talking THEN [notes EXCEPT !.observed[ThisAttempt] = @ + 1] ELSE notes

\* transport.Do and OpenSSE: the request fails, is answered with an error, or with a body that is
\* no stream; the wait for the first line ends with the context or with the timer.
Connect ==
    /\ modelCall.at = "connect"
    /\ LET failed(kind) == /\ modelCall' = Concluded(modelCall, kind, [NothingConsumed EXCEPT !.provider = TRUE])
                           /\ notes' = Observed
                           /\ UNCHANGED pipe
       IN \/ canceled /\ failed("canceled")
          \/ \E answer \in ModelAnswers[<<modelCall.kind, modelCall.api>>] :
               \/ answer.status = 0 /\ failed(TransportKind(answer.code))
               \/ answer.status \notin {0, 200} /\ failed(ProviderKind(answer.status, answer.code))
               \/ answer.status = 200 /\ ~Streams(answer) /\ failed(StreamKind("html"))
               \/ /\ answer.status = 200 /\ Streams(answer)
                  /\ modelCall' = [modelCall EXCEPT !.at = "range"]
                  /\ pipe' = [pipe EXCEPT ![ThisAttempt] = Opened(answer)]
                  /\ UNCHANGED notes
    /\ UNCHANGED <<canceled, screen>>

-----------------------------------------------------------------------------
(* The goroutines of an attempt.                                           *)

\* scanStreamLines: the next line, the end of the body or its failure, or the context's end.
ScanLine(a) ==
    LET p == pipe[a] IN
    /\ p.scan = "on"
    /\ \/ /\ BodyOver(a)
          /\ \/ pipe' = [pipe EXCEPT ![a].scan = "off"]
             \/ p.line = <<>> /\ pipe' = [pipe EXCEPT ![a].scan = "off", ![a].line = <<"canceled">>]
       \/ /\ ~BodyOver(a) /\ p.line = <<>> /\ p.lines # <<>>
          /\ pipe' = [pipe EXCEPT ![a].line = <<Head(p.lines)>>, ![a].lines = Tail(p.lines)]
       \/ /\ ~BodyOver(a) /\ p.lines = <<>> /\ p.answer.end = "eof"
          /\ pipe' = [pipe EXCEPT ![a].scan = "off"]
       \/ /\ ~BodyOver(a) /\ p.lines = <<>> /\ p.answer.end = "broken" /\ p.line = <<>>
          /\ pipe' = [pipe EXCEPT ![a].scan = "off", ![a].line = <<"broken">>]
    /\ UNCHANGED <<modelCall, canceled, screen, notes>>

\* What is left of the body when readFrames or readStream are gone: nothing reads it any more.
BodyLeft(p) == [p EXCEPT !.closed = TRUE, !.lines = <<>>, !.line = <<>>, !.scan = "off", !.data = <<>>]

\* readFrames takes a line: a blank one sends the frame that was collected, if there is one.
TakeLine(a) ==
    LET p == pipe[a]  l == Head(p.line)  q == [p EXCEPT !.line = <<>>] IN
    /\ p.fr = "select" /\ p.line # <<>>
    /\ pipe' = [pipe EXCEPT ![a] =
         IF l \in {"broken", "canceled"} THEN [q EXCEPT !.fr = "send", !.frame = l]
         ELSE IF l = "blank"
              THEN IF q.data = <<>> THEN q
                   ELSE [q EXCEPT !.fr = "send", !.data = <<>>,
                                  !.frame = IF Len(q.data) = 1 THEN q.data[1] ELSE "junk"]
         ELSE [q EXCEPT !.data = Append(@, l), !.seen = TRUE]]
    /\ UNCHANGED <<modelCall, canceled, screen, notes>>

\* Its other cases: the lines have ended, a timer (first chunk, then idle), or the context's end.
EndFrames(a) ==
    LET p == pipe[a] IN
    /\ \/ p.fr = "select" /\ p.line = <<>> /\ p.scan = "off" /\ pipe' = [pipe EXCEPT ![a].fr = "send", ![a].frame = "eof"]
       \/ p.fr = "select" /\ pipe' = [pipe EXCEPT ![a].fr = "send", ![a].frame = IF p.seen THEN "idle" ELSE "first"]
       \/ p.fr \in {"select", "send"} /\ BodyOver(a) /\ pipe' = [pipe EXCEPT ![a] = [BodyLeft(p) EXCEPT !.fr = "over", !.frame = "none"]]
    /\ UNCHANGED <<modelCall, canceled, screen, notes>>

LastFrames == {"eof", "broken", "canceled", "first", "idle"}

\* The reader of chat completions: what it sends for a frame, and its state after it.
ChatRead(p, f) ==
    LET sealing == f = "finish"
        assembled == SelectSeq(<<1, 2>>, LAMBDA i : p.parts[i] > 0)
    IN  CASE f = "done" -> [p EXCEPT !.rd = "over"]
          [] f \in LastFrames -> [p EXCEPT !.rd = "last", !.event = [kind |-> "error", err |-> StreamKind(f)]]
          [] f \in {"junk", "fault"} -> [p EXCEPT !.rd = "last", !.event = [kind |-> "error", err |-> StreamKind(f)]]
          [] p.sealed -> IF f = "usage" THEN [p EXCEPT !.rd = "send", !.event = [kind |-> "usage"]] ELSE p
          [] f = "usage" -> [p EXCEPT !.rd = "send", !.event = [kind |-> "usage"]]
          [] f = "cut" -> [p EXCEPT !.rd = "last", !.event = [kind |-> "error", err |-> StreamKind(f)]]
          [] f \in {"part1", "part2"} ->
               [p EXCEPT !.rd = "send", !.event = [kind |-> "calls", calls |-> <<>>],
                         !.parts[IF f = "part1" THEN 1 ELSE 2] = @ + 1]
          [] sealing -> [p EXCEPT !.rd = "send", !.sealed = TRUE,
                                  !.event = [kind |-> "calls",
                                             calls |-> [i \in DOMAIN assembled |->
                                                           <<assembled[i], p.parts[assembled[i]]>>]]]
          [] OTHER -> [p EXCEPT !.rd = "send", !.event = [kind |-> "text", text |-> f]]

\* The output that a terminal response lists; some providers list none.
OutputOf == [completed |-> <<>>, completed_one |-> <<"item", "compaction">>, completed_two |-> <<"compaction", "compaction">>]

\* The reader of responses: the types of its events and of the frames must agree, and the first
\* terminal event ends the stream.
NativeRead(p, f) ==
    LET error(kind) == [p EXCEPT !.rd = "last", !.event = [kind |-> "error", err |-> kind]] IN
    CASE f \in LastFrames \cup {"junk", "odd", "spoiled", "failed"} -> error(StreamKind(f))
      [] f = "chain" -> error(StreamKind(ProviderKind(0, "chain")))
      [] f \in DOMAIN OutputOf -> [p EXCEPT !.rd = "last", !.event = [kind |-> "completed", output |-> OutputOf[f]]]
      [] f \in {"item", "compaction"} -> [p EXCEPT !.rd = "send", !.event = [kind |-> "item", item |-> f]]
      [] OTHER -> [p EXCEPT !.rd = "send", !.event = [kind |-> "text", text |-> f]]

ReaderGone(p) == [BodyLeft(p) EXCEPT !.event = [kind |-> "none"], !.rd = "over"]

\* A frame passes from readFrames to readStream.  The frame after which readFrames ends closes
\* the body with it.
PassFrame(a) ==
    LET p == pipe[a]
        rest == IF p.frame \in LastFrames THEN [BodyLeft(p) EXCEPT !.fr = "over"] ELSE [p EXCEPT !.fr = "select"]
        read == IF modelCall.api = "chat" THEN ChatRead([rest EXCEPT !.frame = "none"], p.frame)
                ELSE NativeRead([rest EXCEPT !.frame = "none"], p.frame)
    IN  /\ p.fr = "send" /\ p.rd = "select"
        /\ pipe' = [pipe EXCEPT ![a] = IF read.rd = "over" THEN ReaderGone(read) ELSE read]
        /\ UNCHANGED <<modelCall, canceled, screen, notes>>

\* readStream ends when there are no more frames, or when nobody waits for what it has to send.
EndReader(a) ==
    LET p == pipe[a] IN
    /\ \/ p.rd = "select" /\ p.fr = "over"
       \/ p.rd \in {"send", "last"} /\ AttemptOver(a)
    /\ pipe' = [pipe EXCEPT ![a] = ReaderGone(p)]
    /\ UNCHANGED <<modelCall, canceled, screen, notes>>

-----------------------------------------------------------------------------
(* The consumers.                                                          *)
EventTaken(p) == IF p.rd = "last" THEN ReaderGone(p) ELSE [p EXCEPT !.rd = "select", !.event = [kind |-> "none"]]

\* The consumer leaves its loop: callOnce cancels and drains the stream before it returns, the
\* others only cancel.
Leaves(err, out) ==
    modelCall' = IF Talking THEN [modelCall EXCEPT !.at = "drain", !.err = err, !.out = out]
              ELSE Concluded(modelCall, err, out)

\* An event passes from readStream to its consumer.
PassEvent ==
    LET p == pipe[ThisAttempt]  e == p.event  o == modelCall.out
        gives(o2) == modelCall' = [modelCall EXCEPT !.out = o2]
        taken(q) == pipe' = [pipe EXCEPT ![ThisAttempt] = q]
        released == [EventTaken(p) EXCEPT !.released = TRUE]
    IN  /\ modelCall.at = "range" /\ p.rd \in {"send", "last"}
        /\ CASE e.kind = "error" ->
                  /\ Leaves(e.err, [o EXCEPT !.provider = TRUE])
                  /\ taken(released) /\ UNCHANGED <<screen, notes>>
             [] e.kind = "usage" -> UNCHANGED <<modelCall, screen, notes>> /\ taken(EventTaken(p))
             [] e.kind = "calls" ->
                  IF Talking
                  THEN /\ gives([o EXCEPT !.calls = IF ToolsEnabled THEN @ \o e.calls ELSE @])
                       /\ taken(EventTaken(p)) /\ UNCHANGED <<screen, notes>>
                  ELSE /\ IF e.calls # <<>> THEN Leaves("plain", o) /\ taken(released)
                          ELSE UNCHANGED modelCall /\ taken(EventTaken(p))
                       /\ UNCHANGED <<screen, notes>>
             [] e.kind = "item" -> /\ gives([o EXCEPT !.items = Append(@, e.item)])
                                   /\ taken(EventTaken(p)) /\ UNCHANGED <<screen, notes>>
             [] e.kind = "completed" -> /\ gives([o EXCEPT !.whole = TRUE, !.output = IF e.output = <<>> THEN o.items ELSE e.output])
                                        /\ taken(EventTaken(p)) /\ UNCHANGED <<screen, notes>>
             [] OTHER ->
                  LET o2 == IF modelCall.api = "chat" THEN [o EXCEPT !.text = Append(@, e.text)] ELSE o IN
                  \/ /\ gives(o2) /\ taken(EventTaken(p))
                     /\ screen' = IF Talking THEN Append(screen, e.text) ELSE screen
                     /\ UNCHANGED notes
                  \/ /\ Talking /\ MayFault                     \* the text cannot be sent
                     /\ Leaves("plain", o2) /\ taken(released)
                     /\ notes' = StreamFault(notes) /\ UNCHANGED screen
        /\ UNCHANGED canceled

\* compactOutput: exactly one compaction, in what the terminal response lists, and in the items
\* that came before it when there were any.
OneCompaction(items) == Len(SelectSeq(items, LAMBDA i : i = "compaction")) = 1
Compacted(o) == (o.items # <<>> => OneCompaction(o.items)) /\ OneCompaction(o.output)

\* What the consumer makes of a stream that has ended without an error.
Verdict(o) ==
    IF (modelCall.api = "native" /\ ~o.whole) \/ (modelCall.kind = "compact" /\ ~Compacted(o)) THEN "plain" ELSE "none"

\* The channel is closed: the result, unless the operation was canceled.
StreamEnds ==
    LET o == modelCall.out
        leaves(err) == Leaves(err, o) /\ pipe' = [pipe EXCEPT ![ThisAttempt].released = TRUE]
    IN  /\ modelCall.at = "range" /\ pipe[ThisAttempt].rd = "over"
        /\ \/ canceled /\ leaves("canceled") /\ UNCHANGED notes
           \/ /\ ~canceled
              /\ leaves(Verdict(o)) /\ UNCHANGED notes
           \/ /\ ~canceled /\ Talking /\ MayFault               \* the end cannot be sent
              /\ leaves("plain") /\ notes' = StreamFault(notes)
        /\ UNCHANGED <<canceled, screen>>

\* callOnce's deferred function: what the reader still has to say is taken and thrown away.
DrainStream ==
    /\ modelCall.at = "drain"
    /\ LET p == pipe[ThisAttempt] IN
       \/ /\ p.rd = "over"
          /\ modelCall' = Concluded(modelCall, modelCall.err, modelCall.out)
          /\ notes' = Observed
          /\ UNCHANGED pipe
       \/ /\ p.rd \in {"send", "last"}
          /\ pipe' = [pipe EXCEPT ![ThisAttempt] = EventTaken(p)]
          /\ UNCHANGED <<modelCall, notes>>
    /\ UNCHANGED <<canceled, screen>>

-----------------------------------------------------------------------------
(* Retry looks at the result of an attempt.                                *)
TriesAgain == Retryable(modelCall.err) /\ ThisAttempt <= MaxRetries

\* Call tells the hooks of a failure of the provider, and not of a cancellation.
OperationReturns(err) ==
    /\ modelCall' = [modelCall EXCEPT !.at = "returned", !.err = err]
    /\ notes' = IF Talking /\ err # "none" /\ modelCall.out.provider /\ ~(canceled /\ err = "canceled")
                THEN [notes EXCEPT !.told = @ + 1] ELSE notes

RetryJudges ==
    /\ modelCall.at = "judge"
    /\ IF modelCall.err = "none"
       THEN \/ OperationReturns("none")
            \/ /\ Talking /\ MayFault                              \* a hook refuses the response
               /\ modelCall' = [modelCall EXCEPT !.at = "returned", !.err = "plain"]
               /\ notes' = StreamFault(notes)
       ELSE IF canceled THEN OperationReturns("canceled")
       ELSE IF TriesAgain THEN modelCall' = [modelCall EXCEPT !.at = "wait"] /\ UNCHANGED notes
       ELSE OperationReturns(modelCall.err)
    /\ UNCHANGED <<pipe, canceled, screen>>

\* The timer of the delay, or the context's end.
RetryWaits ==
    /\ modelCall.at = "wait"
    /\ \/ canceled /\ OperationReturns("canceled")
       \/ /\ modelCall' = [modelCall EXCEPT !.at = "check", !.attempt = @ + 1, !.delay = NextRetryDelay(@)]
          /\ UNCHANGED notes
    /\ UNCHANGED <<pipe, canceled, screen>>

StreamDone == modelCall.at = "returned" /\ \A a \in Attempts : pipe[a].rd \in {"off", "over"} /\ pipe[a].fr \in {"off", "over"}

StreamGoroutine(a) == ScanLine(a) \/ TakeLine(a) \/ EndFrames(a) \/ PassFrame(a) \/ EndReader(a)

StreamNext ==
    \/ CancelOperation \/ PrepareModelCall \/ BeginAttempt \/ Connect \/ PassEvent \/ StreamEnds \/ DrainStream \/ RetryJudges \/ RetryWaits
    \/ \E a \in Attempts : StreamGoroutine(a)

StreamSpec == StreamInit /\ [][StreamNext]_streamVars
-----------------------------------------------------------------------------
(* Properties.                                                             *)
StreamTypeOK ==
    /\ modelCall.at \in {"prepare", "check", "connect", "range", "drain", "judge", "wait", "returned"}
    /\ modelCall.attempt \in 0..(MaxRetries + 1)
    /\ \A a \in Attempts : /\ pipe[a].scan \in {"off", "on"} /\ Len(pipe[a].line) <= 1
                            /\ pipe[a].fr \in {"off", "select", "send", "over"}
                            /\ pipe[a].rd \in {"off", "select", "send", "last", "over"}

\* The frames of a body, seen at once: the data lines that a blank line follows.
FramesOf(lines) ==
    LET ends == {i \in 2..Len(lines) : lines[i] = "blank" /\ lines[i - 1] # "blank"}
        ordered == SetToSortSeq(ends, <)
    IN  [n \in DOMAIN ordered |->
           LET i == ordered[n] IN IF i > 2 /\ lines[i - 2] # "blank" THEN "junk" ELSE lines[i - 1]]

\* The frames of the attempt up to the first one that is f, and all of them when none is.
UpTo(fs, f) == LET at == {i \in DOMAIN fs : fs[i] = f} IN
    IF at = {} THEN fs ELSE SubSeq(fs, 1, (CHOOSE i \in at : \A j \in at : i <= j))

ChatTexts == {"hello", "world"}
HowMany(fs, f) == Len(SelectSeq(fs, LAMBDA g : g = f))

\* A reply that is reported as a success is the whole one: its stream came to [DONE] and no
\* error was in it, and its text is what was sent before the choice was finished, with every
\* tool call assembled from all its fragments, once, in the order of their indices (stream.go:29-114).
WholeReply ==
    modelCall.at = "returned" /\ modelCall.err = "none" /\ modelCall.api = "chat" =>
        LET fs == UpTo(FramesOf(pipe[ThisAttempt].answer.lines), "done")
            choice == UpTo(fs, "finish")
            calls == SelectSeq(<<1, 2>>, LAMBDA i : HowMany(choice, IF i = 1 THEN "part1" ELSE "part2") > 0)
        IN  /\ HowMany(fs, "done") = 1
            /\ \A i \in DOMAIN fs : fs[i] \notin {"junk", "fault"}
            /\ modelCall.out.text = SelectSeq(choice, LAMBDA f : f \in ChatTexts)
            /\ modelCall.out.calls =
                 IF ~ToolsEnabled \/ ~Talking \/ HowMany(choice, "finish") = 0 THEN <<>>
                 ELSE [n \in DOMAIN calls |->
                         <<calls[n], HowMany(choice, IF calls[n] = 1 THEN "part1" ELSE "part2")>>]
            /\ ~Talking => calls = <<>> \/ HowMany(choice, "finish") = 0

\* What the user sees is text of the attempt under way and of no earlier one: a retry takes back
\* what the failed attempt has shown, before it shows anything (dialogue/model_call.go:74-78).
ScreenOfAttempt ==
    Talking => /\ modelCall.at \in {"range", "drain"} => IsPrefix(screen, modelCall.out.text)
               /\ modelCall.at = "returned" /\ modelCall.err = "none" => screen = modelCall.out.text

\* An attempt of the dialogue is observed once, and the hooks are told once of a failure of the
\* provider, the last one, and of no cancellation (dialogue/model_call.go:79-95).
ObservedOnce ==
    /\ \A a \in Attempts : notes.observed[a] <= 1
    /\ modelCall.at = "returned" /\ Talking =>
         /\ \A a \in 1..(ThisAttempt - 1) : notes.observed[a] = 1
         /\ notes.told = IF modelCall.out.provider /\ modelCall.err \notin {"none", "canceled"} THEN 1 ELSE 0

\* No goroutine of a dialogue's attempt is still sending, and its body is closed, when Retry
\* looks at its result (retry.go:24, chat/model_call.go:98-105).
NothingLeftOfAttempt ==
    Talking /\ modelCall.at \notin {"range", "drain"} =>
        \A a \in Attempts : pipe[a].rd \in {"off", "over"} /\ pipe[a].closed

\* A compaction is accepted only from a completed response that holds exactly one, in its own
\* list as in the items before it (responses/compact.go:96-118).
CompactionExact ==
    modelCall.at = "returned" /\ modelCall.err = "none" /\ modelCall.api = "native" =>
        LET fs == FramesOf(pipe[ThisAttempt].answer.lines)
            ending == {i \in DOMAIN fs : fs[i] \in DOMAIN OutputOf}
        IN  \E i \in ending :
              LET before == SubSeq(fs, 1, i - 1)  listed == OutputOf[fs[i]] IN
              /\ \A j \in DOMAIN before : before[j] \notin {"junk", "odd", "spoiled", "failed", "chain"} \cup DOMAIN OutputOf
              /\ modelCall.kind = "compact" =>
                   /\ HowMany(before, "compaction") <= 1 /\ HowMany(listed, "compaction") <= 1
                   /\ HowMany(before, "compaction") + HowMany(listed, "compaction") > 0

\* Another attempt follows only a failure that its source called retryable, within the budget
\* and after a wait that never shrinks nor overflows; what is returned is never a failure that
\* would have been tried again (retry.go:23-57).
RetriesJustified ==
    [][/\ modelCall'.attempt > modelCall.attempt /\ modelCall.attempt > 0 =>
            /\ Retryable(modelCall.err) /\ modelCall'.attempt = modelCall.attempt + 1 /\ modelCall'.attempt \in Attempts
            /\ modelCall'.delay \in modelCall.delay..MaxDuration
       /\ modelCall'.at = "returned" /\ modelCall.at # "returned" =>
            /\ Retryable(modelCall'.err) => modelCall.attempt = MaxRetries + 1
            /\ modelCall'.err = "canceled" => canceled]_streamVars
=============================================================================
