------------------------------ MODULE Telegram -----------------------------
(***************************************************************************)
(* The Telegram adapter (internal/platform/telegram: lifecycle.go,         *)
(* message.go, client.go): long polling with an offset that confirms what  *)
(* was received, one goroutine per accepted update, API operations that    *)
(* outlive the ingress, and closing in two stages.  The server keeps an    *)
(* update until a poll asks for a later one; a restarted process polls     *)
(* from the start.                                                         *)
(***************************************************************************)
EXTENDS Naturals, Sequences, FiniteSets

CONSTANTS MaxUpdates, Operations, MaxBots

ASSUME TelegramAssumption == MaxUpdates \in Nat /\ MaxBots \in Nat

VARIABLES
    bot,        \* the adapter: started, closing, done, release
    poll,       \* runPolling: where it is, the offset, the updates still to go through
    updates,    \* updates the server has received, numbered from 1
    confirmed,  \* those the server has dropped
    accepted,   \* updates accepted by this process, in order
    working,    \* those being handled
    taken,      \* updates accepted by any process
    operation,  \* each API operation
    bots

tgVars == <<bot, poll, updates, confirmed, accepted, working, taken, operation, bots>>

NewBot == [started |-> FALSE, closing |-> FALSE, done |-> FALSE, release |-> "no"]
NewPoll == [at |-> "off", offset |-> 0, batch |-> <<>>]

TelegramTypeOK ==
    /\ bot \in [started : BOOLEAN, closing : BOOLEAN, done : BOOLEAN, release : {"no", "begun", "done"}]
    /\ poll.at \in {"off", "hello", "asking", "batch", "sleeping", "ended"}
    /\ poll.offset \in 0 .. MaxUpdates + 1 /\ poll.batch \in Seq(1 .. MaxUpdates)
    /\ updates \in 0 .. MaxUpdates /\ confirmed \in 0 .. MaxUpdates
    /\ accepted \in Seq(1 .. MaxUpdates) /\ working \subseteq 1 .. MaxUpdates /\ taken \subseteq 1 .. MaxUpdates
    /\ operation \in [Operations -> {"no", "running", "over"}] /\ bots \in 0 .. MaxBots

TelegramInit ==
    /\ bot = NewBot /\ poll = NewPoll /\ updates = 0 /\ confirmed = 0
    /\ accepted = <<>> /\ working = {} /\ taken = {}
    /\ operation = [o \in Operations |-> "no"] /\ bots = 0

-----------------------------------------------------------------------------
(* Lifecycle.                                                               *)

TelegramStart(enabled) ==
    /\ ~bot.started /\ ~bot.closing
    /\ bot' = [bot EXCEPT !.started = TRUE]
    /\ poll' = [poll EXCEPT !.at = IF enabled THEN "hello" ELSE "ended"]
    /\ UNCHANGED <<updates, confirmed, accepted, working, taken, operation, bots>>

TelegramBeginClose ==
    /\ ~bot.closing /\ bot' = [bot EXCEPT !.closing = TRUE]
    /\ UNCHANGED <<poll, updates, confirmed, accepted, working, taken, operation, bots>>

\* Mutant: done does not wait for the updates in hand.
PollOverOnly == bot.started => poll.at = "ended"

\* pollDone and the accepted updates
PollOver == (bot.started => poll.at = "ended") /\ working = {}

TelegramDone ==
    /\ bot.closing /\ ~bot.done /\ PollOver /\ bot' = [bot EXCEPT !.done = TRUE]
    /\ UNCHANGED <<poll, updates, confirmed, accepted, working, taken, operation, bots>>

TelegramRelease ==
    /\ bot.done /\ bot.release = "no" /\ bot' = [bot EXCEPT !.release = "begun"]
    /\ UNCHANGED <<poll, updates, confirmed, accepted, working, taken, operation, bots>>

\* operations.Wait
TelegramReleased ==
    /\ bot.release = "begun" /\ \A o \in Operations : operation[o] # "running"
    /\ bot' = [bot EXCEPT !.release = "done"]
    /\ UNCHANGED <<poll, updates, confirmed, accepted, working, taken, operation, bots>>

\* Mutant: operations are always admitted.
OperationAdmittedAlways == TRUE

\* beginOperation
OperationAdmitted == bot.release = "no"

BeginOperation(o) ==
    /\ operation[o] = "no" /\ operation' = [operation EXCEPT ![o] = IF OperationAdmitted THEN "running" ELSE "over"]
    /\ UNCHANGED <<bot, poll, updates, confirmed, accepted, working, taken, bots>>

EndOperation(o) ==
    /\ operation[o] = "running" /\ operation' = [operation EXCEPT ![o] = "over"]
    /\ UNCHANGED <<bot, poll, updates, confirmed, accepted, working, taken, bots>>

-----------------------------------------------------------------------------
(* Polling.                                                                 *)

\* getMe, then the commands and the announcement, whose failures are only logged.
Hello ==
    /\ poll.at = "hello" /\ ~bot.closing
    /\ poll' = [poll EXCEPT !.at = "asking"]
    /\ UNCHANGED <<bot, updates, confirmed, accepted, working, taken, operation, bots>>

HelloFails ==
    /\ poll.at = "hello" /\ poll' = [poll EXCEPT !.at = "sleeping"]
    /\ UNCHANGED <<bot, updates, confirmed, accepted, working, taken, operation, bots>>

\* getUpdates: the server drops what is before the offset and returns some of the rest.
GetUpdates ==
    LET c == IF poll.offset > confirmed + 1 THEN poll.offset - 1 ELSE confirmed IN
    /\ poll.at = "asking" /\ ~bot.closing
    /\ confirmed' = c
    /\ \E n \in IF updates > c THEN c + 1 .. updates ELSE {c} :
          poll' = [poll EXCEPT !.at = "batch", !.batch = [i \in 1 .. n - c |-> c + i]]
    /\ UNCHANGED <<bot, updates, accepted, working, taken, operation, bots>>

\* Mutant: a failed poll is the last one.
GetUpdatesFailsForGood ==
    /\ poll.at = "asking" /\ poll' = [poll EXCEPT !.at = "ended"]
    /\ UNCHANGED <<bot, updates, confirmed, accepted, working, taken, operation, bots>>

\* The answer is lost or the request fails; the server may have seen the offset.
GetUpdatesFails ==
    /\ poll.at = "asking" /\ poll' = [poll EXCEPT !.at = "sleeping"]
    /\ confirmed' \in {confirmed, IF poll.offset > confirmed + 1 /\ ~bot.closing THEN poll.offset - 1 ELSE confirmed}
    /\ UNCHANGED <<bot, updates, accepted, working, taken, operation, bots>>

\* Mutants: the offset is the number of the update itself, or skips one.
NextOffsetSame(u) == u
NextOffsetSkips(u) == u + 2

\* The offset of the next poll is one past the newest update seen.
NextOffset(u) == IF u >= poll.offset THEN u + 1 ELSE poll.offset

AcceptsUpdate == ~bot.closing

\* acceptUpdate: one goroutine per update.
AcceptUpdate ==
    /\ poll.at = "batch" /\ poll.batch # <<>>
    /\ LET u == Head(poll.batch) IN
       /\ poll' = [poll EXCEPT !.offset = NextOffset(u), !.batch = Tail(@)]
       /\ IF AcceptsUpdate THEN /\ accepted' = Append(accepted, u) /\ taken' = taken \cup {u}
                                /\ working' = working \cup {u}
                           ELSE UNCHANGED <<accepted, taken, working>>
    /\ UNCHANGED <<bot, updates, confirmed, operation, bots>>

BatchOver ==
    /\ poll.at = "batch" /\ poll.batch = <<>>
    /\ poll' = [poll EXCEPT !.at = "asking"]
    /\ UNCHANGED <<bot, updates, confirmed, accepted, working, taken, operation, bots>>

PollWakes ==
    /\ poll.at = "sleeping" /\ ~bot.closing /\ poll' = [poll EXCEPT !.at = "hello"]
    /\ UNCHANGED <<bot, updates, confirmed, accepted, working, taken, operation, bots>>

\* Mutant: a poll in flight is not cancelled.
PollEndsAt == {"hello", "sleeping"}

\* Where the loop watches the work context.
StopsAt == {"hello", "asking", "sleeping"}

PollStops ==
    /\ bot.closing /\ poll.at \in StopsAt
    /\ poll' = [poll EXCEPT !.at = "ended"]
    /\ UNCHANGED <<bot, updates, confirmed, accepted, working, taken, operation, bots>>

\* handleUpdate ends, whatever its lookups and the handler made of it.
UpdateOver(u) ==
    /\ u \in working /\ working' = working \ {u}
    /\ UNCHANGED <<bot, poll, updates, confirmed, accepted, taken, operation, bots>>

-----------------------------------------------------------------------------
(* The server, and the process.                                             *)

NewUpdate ==
    /\ updates < MaxUpdates /\ updates' = updates + 1
    /\ UNCHANGED <<bot, poll, confirmed, accepted, working, taken, operation, bots>>

\* After the final close the process starts again, with a new adapter.
RestartBot ==
    /\ bot.release = "done" /\ bots < MaxBots
    /\ bots' = bots + 1 /\ bot' = NewBot /\ poll' = NewPoll
    /\ accepted' = <<>> /\ working' = {} /\ operation' = [o \in Operations |-> "no"]
    /\ UNCHANGED <<updates, confirmed, taken>>

PollStep == Hello \/ GetUpdates \/ AcceptUpdate \/ BatchOver \/ PollWakes
PollEnds == AcceptUpdate \/ BatchOver \/ PollStops

TelegramNext ==
    \/ \E e \in BOOLEAN : TelegramStart(e)
    \/ TelegramBeginClose \/ TelegramDone \/ TelegramRelease \/ TelegramReleased
    \/ \E o \in Operations : BeginOperation(o) \/ EndOperation(o)
    \/ PollStep \/ HelloFails \/ GetUpdatesFails \/ PollStops
    \/ \E u \in 1 .. MaxUpdates : UpdateOver(u)
    \/ NewUpdate \/ RestartBot

TelegramFairness ==
    /\ WF_tgVars(PollEnds) /\ WF_tgVars(PollWakes) /\ SF_tgVars(Hello) /\ SF_tgVars(GetUpdates)
    /\ WF_tgVars(TelegramDone) /\ WF_tgVars(\E u \in 1 .. MaxUpdates : UpdateOver(u))

TelegramSpec == TelegramInit /\ [][TelegramNext]_tgVars /\ TelegramFairness

-----------------------------------------------------------------------------
(* Properties.                                                              *)

\* A process accepts no update twice and none out of order, whatever polls fail.
UpdatesOnce == \A i, j \in DOMAIN accepted : i < j => accepted[i] < accepted[j]

\* An update the server has dropped was accepted: what a closing adapter refuses is
\* delivered again to the next process (lifecycle.go, runPolling and acceptUpdate).
NoUpdateLost == \A u \in 1 .. confirmed : u \in taken

\* done comes after the polls and every accepted update; operations may still run.
TelegramQuiet == bot.done => poll.at \in {"off", "ended"} /\ working = {}

\* closeDone comes after every operation, and none begins afterwards.
OperationsJoined == bot.release = "done" => \A o \in Operations : operation[o] # "running"

\* Every update is accepted in the end, unless the adapter closes.
UpdatesArrive == \A u \in 1 .. MaxUpdates : updates >= u /\ poll.at = "asking" ~> u \in taken \/ bot.closing

\* Closing ends the ingress.
TelegramCloses == bot.closing ~> bot.done
=============================================================================
