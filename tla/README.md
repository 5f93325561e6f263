# Elbot: TLA+ models, checks and proofs

Elbot is a chat agent: messages arrive from chat platforms, are bound to a *session* of their
*scope* (owner, platform, chat), and are answered by a loop of model calls and tool calls that
a user may interrupt, extend, stop or confirm while it runs. Around it the program keeps
timers, jobs, events, hook processes, media, files, skills and memories. Nearly everything hard
in it is in the coordination of goroutines, and in what survives a failure between two steps.
This directory holds TLA+ modules of that, the TLC configurations that check them, and TLAPS
proofs. `PROJECT.json` maps every definition to the lines it models, lists the hazards with the
properties that are about them, and gives for each checked property a plausible bug of the code
that breaks it.

## 1. Inventory

Paths are under `src/internal/`. A component is *partly* modelled when some of its operations
that change state are left out; the note in `PROJECT.json` says which.

| component | state | what is hard | correct when | modelled |
|---|---|---|---|---|
| turn lifecycle (`turn/lifecycle`, `turn/confirmation`, `turn/execution.go`) | one entry per session: phase, input, pending input, execution, attempt, the channels `attemptDone` and `riskDone` | called by the attempt's goroutine, messages, commands, timers and the shutdown with no common lock | a started attempt keeps its entry until its own goroutine leaves; every join is answered; no channel is closed twice; a stop is final; only the user approves | TurnOps, TurnLifecycle |
| turn supervisor, execution coordinator, requests, confirmation, request commands (`agent/execution`, `request`, `agent/confirmation`) | goroutines of messages, `y`, `/stop`, `/compact`; observers and timeouts of requests; the pending confirmation | a snapshot read under the admission lock is acted on while the runner, which takes no lock, moves on | the manager's protocol is kept; no reservation without a goroutine; nothing lands after a stop; every message settles | partly: ExecutionCoordinator |
| dialogue loop, agent responses (`agent/dialogue`, `agent/responses`) | the native history: inputs, exchanges, batches of calls, checkpoints, branches | rows of one round written by their own steps, results in any order, interruption and crash between them | what is stored can be loaded and continued; one answer per call; sealed history is forked, never written | partly: NativeDialogue |
| model clients (`llm`) | attempts with their streams, retries, compaction | a retry against the goroutines of the attempt before, partial streams | a success is the whole reply; nothing of an old attempt shows | partly: ModelStream |
| session binding and admission (`session/binding`) | current binding per scope, counted gates per key, leases, close state | ordered multi-lock acquisition with cancellation and recycled gates; teardown against admissions | mutual exclusion per key, stable bindings inside an admission, no deadlock | SessionAdmission, AdmissionLocks |
| session control and idle expiry (`session/control`, `session/branch`) | session rows, bindings, idle timers, caches | late timer callbacks against activity, compaction, forks and cleanup | a session in use is never retired, an idle one in the end | partly: SessionControl |
| session naming (`session/naming`) | title jobs | generated titles against renames, forgetting and close | one task per session; the user's title stays | SessionNaming |
| signals and events (`signal`, `events`) | lanes, workers, connections, emissions | close against delivery, disconnects inside a snapshot | serial lanes, no lost wake-up, done is last | SignalQueue, SignalBus |
| tool runner (`tool/execution`) | a batch of calls with approval, workers, results | parallel and serial calls, cancellation, grants | what runs was approved; one result per call | partly: ToolRunner |
| registry, discovery, preload (`tool/registry`, `tool/discovery`, `tool/preload`, `tool/state`) | groups, cached tags, a session's tools | circular dependencies, hidden tools, concurrent registration | found once and only what is allowed | partly: ToolCatalog |
| skills and built-in tools (`tool/skill`, `tool/builtin`) | folders, records, catalogue | folders change between showing and writing; a reload fails half way | a registered scan is whole; a failed write is undone | partly: Skills, Memories |
| memory (`memory`, `tool/builtin/long_memory`) | files, index tables, backup of a migration | edits by hand, failures between statements and renames | index and directory agree; a migration loses nothing | partly: Memories |
| file operations (`fileops`) | locks per file, backups per binding | another program writes between check and rename; two paths of one file | nothing written but what was approved; diff and edit agree | FileRollback, FileText |
| hook pipeline and rules (`hook/pipeline`, `hook/rules`, `hook/control`) | rules, plugins, calls, one-shot processes | reloads during calls, error hooks of error hooks, processes that hang | rules are of one load; no process outlives its rule | partly: HookDispatch |
| hook runtime (`hook/runtime`) | worker processes, route leases, shared values, media leases | a restart timer against stop and close; answers of replaced instances | one process; what was stopped stays stopped; exact counts | partly: HookWorker, HookRoutes, HookResources |
| cron (`background/cron`) | jobs, rounds, reports per target | restart and reconnection in the middle of a delivery; a job changed while it runs | one deliverer, no second sending, no stale entry but of a job that could not be read | partly: CronManager, CronDelivery |
| Elnis event intake (`background/elnis`) | events, queue, outbox | racing duplicates, crash after execution and before the report | executed once, nothing stranded but by a failing write | partly: Elnis |
| media objects (`media/object` and its rows) | rows, contents, references, deletion marks | the cleaner against a new reference | what is held can be read; counts agree | partly: MediaObjects |
| chat platforms (`platform/qq-onebot`, `platform/qqofficial`, `platform/telegram`) | connections, requests, sequence numbers, tokens | reconnection, late and repeated answers, close | own answers only; nothing twice and nothing skipped; release is last | partly: OneBotTransport, OneBotAdapter, QQOfficial, Telegram |
| command line platform (`platform/cli`) | server, connections, granted media; the client's fall back | two-stage close against handshakes and deliveries | each held medium has somebody who releases it | partly: CliRemote |
| storage (`storage/sqlite`) | schema versions, rows, record numbers | an upgrade that is interrupted at any statement | an upgraded database is a fresh one, a refused one is untouched | partly: SqliteStore |
| application, hosts, wiring (`app`, `background`, `platform`: the lifecycles) | the lines of the program and the resources they share | start that fails half way; one deadline for the shutdown | resources are closed last; the fault is returned | partly: AppLifecycle |
| session branches and promotion, agent input, model manager, commands and completion, Elvena and Elyph | parsing, selection, text | | | no |

Components call each other directly (the coordinator calls the turn manager and the session
manager), through channels closed once (`attemptDone`, `riskDone`, `Execution.done`), through
contexts (a request's cancellation and its observer), through the database and the file system,
and through signals published outside the locks.

## 2. Modules

```
core      TurnOps                      operators on one turn entry
            TurnLifecycle              the turn manager and its callers' protocol
            ExecutionCoordinator       agent/execution as goroutines over the same operators
          AdmissionLocks               what the admission promises: exclusive, ordered locks
            SessionAdmission           the session manager's gates, leases, bindings, shutdown
parts     SessionControl SessionNaming                       sessions
          CronManager CronDelivery Elnis                     background work
          SignalQueue SignalBus                              signals
          HookWorker HookRoutes HookResources HookDispatch   hook host
          AppLifecycle                                       the program
          MediaObjects SqliteStore                           stored data
          NativeDialogue ModelStream                         the dialogue with the model
          OneBotTransport OneBotAdapter QQOfficial Telegram CliRemote   platforms
          FileRollback FileText                              files
          ToolRunner ToolCatalog Skills Memories             tools
TLC       MCTurnLifecycle MCExecutionCoordinator MCSessionAdmission
          MCComponents MCProgressData MCProgressHosts        suites of the parts
proofs    TurnLifecycleProofs ExecutionCoordinatorProofs SessionAdmissionProofs
          SessionsProofs BackgroundProofs HostsProofs PlatformsProofs SuiteProofs
```

### The core

**TurnOps** translates the bodies of the manager's operations, each of which runs under its
mutex: what an operation leaves in the entry, which channels it closes, which execution it
cancels. Input is the sequence of messages that were merged; the text and the media of a
message are not looked at by any of this code.

**TurnLifecycle** is the manager together with the protocol of its callers: which goroutine may
call what. `turns` is the manager's table, `closed` the channels closed, `outcome` the
executions finished, `working` the attempts whose goroutine has not left, `canceled` the
canceled requests, `waits` the goroutines inside `WaitRisk`. A channel is named by the attempt
or the wait that made it, so "closed twice" and "closed nil" are states (`ChannelsCloseOnce`).

**ExecutionCoordinator** replaces that protocol by the code: a record per goroutine (`procs`)
with its place in `AcceptInput`, `ResumeAppend`, `Run`, `runAttempt`, `runTurn`, `runCompact`
or `/stop`, and one action per step between which another goroutine can act. Steps inside one
call under the manager's mutex are one action; the admission lock of the scope is `gate`, held
across steps where the code holds it. The runner's own turn operations, the observer and the
shutdown do not take the gate, as in the code. `TL == INSTANCE TurnLifecycle WITH working <-
Working` maps its state to the manager's, and `Implements` says that every step is one
TurnLifecycle allows.

**SessionAdmission** models `session/binding`. Each goroutine (`Clients`) calls one of the
entry points again and again; `level` is its depth of nested leases, `at` the lease that holds
a key, `ref` the gate object it counts on, `todo` the keys it still wants. A gate object
(`Gates`) has a count `refs` and a `token`; `gates` is the manager's map from keys to gates,
from which the last user takes the object and into which `enterKeys` puts a new one. A step is
one critical section of the manager's mutex or one channel operation (`Want`, `Acquire`,
`GiveUp`, `Release`); the scope's binding is read in one step and its session locked in a later
one. Inside, `Commit` is what the callers in `session/control` do: rebind, unbind or expire the
scope, or delete a session, which clears its bindings in every scope without those scopes'
locks. Changes are queued in the outermost lease and published after its gates are released.
`BeginClose` and `Close` are the shutdown. **AdmissionLocks** is the promise to callers: a key
has one holder, keys are taken in ascending and released in descending order. `Locks` maps
`held` to the keys a goroutine holds and `Implements` is the refinement.

Abstractions of the coordinator: one scope (operations of two scopes share only the manager's
mutex, and the proofs about TurnLifecycle hold for any number of sessions); the model's and the
tools' work is a nondeterministic end; persistence succeeds or fails; identifiers are model
values and running out of them (a bound) is the allocation error the code handles; the text of
replies, status records and usage is left out. `taken`, `landed`, `halted` are history
variables: messages an attempt received, attempts that committed, attempts the user was told
are stopped.

### The parts

Each part is one state machine with its own variables, written like the core: a record per
goroutine with its place in the code, one action per step between which another goroutine,
process or failure can act. Several use a *world* or *script*, a constant chosen in the initial
state and never changed, for what users, peers and faults do in a behaviour; it keeps unrelated
races apart and leaves the guards of the code alone.

- **SessionControl**: rows, bindings, the index of timers and every armed timer or late
  callback (`schedules`), executions, and what the world adds: hooks that switch sessions,
  forks, background bindings, compaction, cleanup, close.
- **SessionNaming**: naming tasks with their retries, the conditional save of a title, renames
  and forgetting by the user, close.
- **CronManager**: stored jobs, the scheduler's entries, the worker's set of names and its
  wake, handlers under way, stop; any read of the refresher may fail (`unread` remembers of
  which names the latest did). **CronDelivery**: one job's row with rounds and tokens, the
  handler and a recovery worker per platform, crashes, reconnections, and changes of the
  definition meanwhile. **Elnis**: requests with one key racing past the lookup, the queue and
  its workers, the outbox, restarts. A fault is a step in which a read or write of the tables
  fails, also the one that would record the failure; `unsaved` remembers the events a status of
  which could not be written since the start (or, after the run, the session not looked up:
  `llm.go:103`, which has the same end).
- **SignalQueue**: lanes, workers started and retired on demand, capacity, submitters'
  cancellation, close. **SignalBus**: an emission over a frozen snapshot of connections,
  forwarded callbacks, disconnects that drain or do not, deadlines, close.
- **HookWorker**: a worker's processes, starts, stops, restart timers, reloads asked for by the
  plugin, manager close. **HookRoutes**: transient instances, the route lock, leases with
  timers, cancellation at the lock. **HookResources**: the shared key-value store with its
  expiry loop, and the leases on media with renewal, cleanup retries and shutdown.
  **HookDispatch**: the pipeline with reloads, error hooks and close; and one rule with the
  process of an exec action and its frames.
- **AppLifecycle**: `internal/app` from opening the shared resources over building and starting
  the lines to the wait and the shutdown within one deadline, with the calls between the lines;
  any step may fail.
- **MediaObjects**: one object, its row, contents, references, holds and signed addresses, its
  callers under the store's lock, and the cleaner. **SqliteStore**: which objects the schema
  has at each version, each migration statement by statement in its transaction, the conversion
  of old rows, crashes, and the blocks in which record numbers are taken.
- **NativeDialogue**: the tables of the native history as the commits leave them, with two
  attempts, interruption, branches, compaction and a crash between any two commits.
  **ModelStream**: one operation on a model with its attempts: chunks of a stream sent by a
  goroutine, its consumers, retries, and what is shown.
- **OneBotTransport**, **OneBotAdapter**, **QQOfficial** (the gateway, and the client with its
  token and reply numbers), **Telegram**: connections that fail and come back, the server's
  part of the protocol as the code relies on it (external), messages under way, and close.
  **CliRemote**: the command line's server and client.
- **FileRollback**: edits, approvals, backups and rollbacks of one file with two paths, another
  program writing in between, bindings that end. **FileText**: the algorithms on texts as
  operators: line edits applied at once, the diff, hunks, line endings, windows.
- **ToolRunner**: one batch with preparation, confirmation, workers and the coordinator that
  alone stores. **ToolCatalog**: groups of definitions, the search through dependencies,
  preload, registrations of remote groups. **Skills**: two folders of one name and one with a
  program to build, operations on them and an editor outside the program. **Memories**: the
  long memories as files with an index, and the resident ones with their migration.

## 3. Runs

The core has runs of its own; the parts share three suites. The state of a suite is the states
of its parts and `part`, which names the one that runs; the others keep one of their initial
states (`SuiteInit` pins those that have many). So the behaviours of a suite are those of each
part alone, `SuiteView` lets TLC compare only the part that runs, and a group property such as
`HostSafe` is the conjunction of what its parts promise. Parts are not interleaved with each
other: nothing the code shares between them is left in two parts, and what one needs of another
is an action of its own (a database call that fails, a peer that answers).

| run | instance | shows |
|---|---|---|
| `turn_lifecycle` | 1 session, 2 executions, 2 attempts and a compaction run, 2 confirmations | `TurnOwned`, `ChannelsCloseOnce`, `ConfirmationsAnswered`, `StopIsFinal`, `ReservationKeepsExecution` under every order of the manager's callers |
| `execution` | 2 messages, a `y`, a `/stop`, a confirmation, tools, timeouts | the coordinator implements the manager's protocol (`Implements`); a reservation has a goroutine (`CoordinatorSound`); nothing lands after a stop (`HaltedLandsNothing`) |
| `execution_faults` | the same without `/stop`, every fallible step failing, shutdown | error paths leave no reservation behind |
| `compaction` | 2 sessions, 2 messages, `/compact`, `/stop`, automatic compaction, failures | the hand-over of binding and execution to the new session (`RunsInCurrentSession`) |
| `execution_liveness` | 2 messages, `y`, `/stop`, tools, a confirmation, fair | every message is settled and every stopped turn removed |
| `admission` | 2 scopes, 1 session, 2 goroutines, 4 versions; sessions, binding and target entries | types, exact gate counts, bindings stable inside, handles valid exactly while current, teardown, publication outside the locks |
| `admission_liveness` | 2 goroutines, 1 scope, 2 sessions, fair | one holder per key, the refinement of AdmissionLocks, every entry returns, a shutdown completes |
| `components` | all parts but SqliteStore, each on its instance | ten groups of invariants and action properties, below |
| `progress_data` | names, media, database, files, cron, events, smaller and fair | `DataSafe` and `ConvertedWhole` with failures and crashes; what must eventually happen to stored data and jobs |
| `progress_hosts` | signals, hooks, tools, platforms, smaller and fair | requests return, connections come back, and what is closed ends |
| `queued_lost`, `append_overtaken` | 2 or 3 messages | the disagreements of section 6 |

### What the groups say

- `SessionsSafe`: an idle binding has its timer (`IdleBindingsTimed`), the WaitGroup counts
  exactly the timers and callbacks there are, index, bindings and rows agree, caches go with
  the last user; one naming task per session.
- `BackgroundSafe`: one deliverer per job, a report is stored only in the round that claimed
  its run, a one-time job is switched off only when delivered; no stale scheduler entry but of
  a job whose latest read failed, no lost wake, one run per job; an event is executed once, is
  stranded while the service runs only if a status of it could not be written, has one
  deliverer, and is completed only when everybody got the report.
- `HostSafe`: lanes are serial, runnable work has a worker, nobody sleeps while there is room;
  a connection is done after its last callback; one process per worker, its channel is closed
  once, stopped means stopped, a restart or a promised reload is not forgotten; route work is
  counted, a waiting lease has its timer and a live instance; sizes and index of the shared
  values are exact and the loop does not oversleep; a medium in use is held and a lease nobody
  works on is indexed; rules are those of one load, in priority order, and errors of error
  hooks end; no process outlives its rule and a result counts only after a good exit; resources
  are closed after all that uses them, no call is in a closed line, a clean end leaves nothing,
  and the fault is what `Run` returns.
- `MediaSafe`, `DataSafe`: who holds an object reads it, an available row has its content, a
  dying object is unreferenced, references agree, a temporary one has a releaser; and
  (`DataSafe`) an upgraded schema is the one a new database has, object for object, each
  statement applies, rows keep a structured kind, record numbers are never handed out twice.
- `DialogueSafe`: the next turn can load the history, a commit is never refused for its
  checkpoint, each call is answered once, row and slot agree, sealed batches can be forked,
  tools are defined once, inputs are in order; a success is a whole reply, the screen shows
  only the attempt under way, observers and hooks are told once, nothing of an attempt is left
  when it is retried, a compaction is exactly one.
- `PlatformsSafe`: own answers only, no socket or goroutine outlives its adapter, messages are
  handed on once and in order across resumes, no update is skipped, reply numbers are unique,
  nothing is posted twice; on the command line each held medium has an owner, grants are held,
  nothing of a connection is left at the end, and the local fall back only when nobody served.
- `FilesSafe`: one operation per file whichever path it came by, backups agree with their
  scopes and limits, only what was approved is written; edits of a batch act at once, line
  operations do what their names say, the diff and its hunks lead from the old text to the new,
  endings are kept, reading windows cover the file.
- `ToolsSafe`: nothing is left running when a batch returns, what runs is what was approved,
  grants come from the user, a sealed head has every result, discoveries are kept; the
  registered skills are one whole scan that is on disk, a failed write is undone, a good build
  is of the source shown; a search finds each tool once and only allowed ones; the index of the
  memories is that of the directory, and a migration keeps the old memories.
- `ServiceSteps`: no step retires a binding in use or before the deadline of its last activity,
  overwrites a user's title, sends a delivered output again, leaves a final status, replaces a
  result an emission has seen, lets a stale timer touch a newer lease, prunes a lease or marks
  an object early.
- `TalkSteps`: no step changes a sealed call, stores half a branch, retries without a reason or
  beyond the budget, lets an old socket's error hit the new one, puts an older token back,
  writes over what it has not seen, uses a backup that is gone, replaces a stored result,
  writes over a skill or memory that was not shown, or lets something in when the server
  closes.
- `DataProgress`, `BackgroundProgress`, `SignalProgress`, `HookProgress`, `PlatformProgress`:
  close completes, what was begun ends, what is due is done.

### Bounds

`MaxInput` caps the merged input of TurnLifecycle (in the coordinator's runs it is never
reached, for each message is merged once). Three attempts let a turn be interrupted, resumed
and followed; two messages and a resumer are what every property needs to go wrong in the
mutated models. Messages, confirmations, gates and goroutines are symmetric, and `Symmetry`
permutes them only where no liveness is checked. `MaxVersion` caps the changes of bindings:
four let a session be bound in two scopes and be cleared from both, or a scope be bound,
unbound and bound again. A gate object nobody refers to may be made again, so as many objects
as keys that can be in use at once are enough.

In the suites (`MCComponents.cfg` and the definitions at the top of `MCComponents`) each part
has the fewest actors its hazards need: two sessions and one scope with one call and four
timers, one happening per world; cron with two platforms, two outputs and one of three limits
(two runs; an edit of the definition; a take-over and one fault, two in `MCProgressData`); two
requests with one key, one worker, one restart, one fault (of one or several calls of a step);
two tasks of one lane and two without; one emission over a handler and a forwarding connection;
one run of a worker and its two processes (two runs in `MCProgressHosts`, any number in the
proof), two restarts, a stop and the closing; two instances on a route and two events; three
keys of which two fit; two callers of a lease until `MediaHorizon`; three operations on two
versions of hook files; one failing step in the start of the program; two attempts, calls and
exchanges of a dialogue; one retry of a stream with one cut; two requests over two sockets;
three numbered events over two gateway sessions; two posts of a reply; three updates; one or
two requests to the command line's server with one fault; three file operations on one file by
two paths; batches of two calls; two skill operations; three memory files with at most two
edits. Times count in ticks as few as the deadlines compared need. Counters that the code lets
grow (`Horizon`, `MaxChanges`, `MaxRevision`, `MaxDials`, ...) stop in the guard of the action
that would pass them. Every property of every passing run has a mutant of the code in
`PROJECT.json` that breaks it under the same configuration, so none holds for want of cases.

Deadlock is checked in the runs of the core: a goroutine stuck on a channel or a gate shows as
one, since `Quiet` allows stuttering only when all have returned. The suites say
`CHECK_DEADLOCK FALSE`, for their parts come to rest: a program that was closed stops, and a
service nobody calls waits; that nobody hangs is there what the progress properties say.

### Fairness

`FairSpec` of the coordinator assumes weak fairness of each goroutine's steps (the Go scheduler
runs a runnable goroutine; model and tool calls return, being bounded by the request's
timeout), of each observer's callback and of each `WaitRisk` (its timer fires). In
SessionAdmission each goroutine's steps and the closing goroutine are weakly fair, and
`Acquire` is strongly fair: a Go channel queues its blocked senders, so one that keeps waiting
for a gate's token gets it although others take the same gate in between.

In the suites `SuiteFairness` has weak fairness for each goroutine, timer and callback, and
strong fairness where something is only possible again and again: a connection attempt or a
poll that does not fail for ever (`Connected`, `OpenStep`, `Hello`, `GetUpdates`), the
cleaner's mutex among callers that keep taking it (`CleanLock`), and a reconnecting platform
that the cron service finds up (`RunMissedOnce`). Nothing is assumed of users, peers, failures
or crashes; that the program is started again after a crash, and closed by its host, is assumed
where the property says so. Of a hook host `HookProgress` asks that it closes unless it waits
for a channel nobody will close (disagreement 8).

## 4. Proofs

Eight modules hold theorems, each checked by TLAPS to the last leaf, for any values of the
constants that satisfy the named assumptions of the modules (names are distinct, bounds are
naturals; TLC evaluates them in every run). `PROJECT.json` lists the results; each is an
invariant or an action property of a specification, and rests on an inductive invariant that
was first checked by TLC on the instance of the part.

**TurnLifecycleProofs.** None of the manager's invariants is inductive alone. `IndInv` adds to
them the shape of an entry (`EntryShape`: what each phase says of attempt, channels, pending
input and reservation) and the link between an entry, its owner and its wait. The argument for
one owner: an entry's `attemptDone` is set only by the start of an attempt, whose name is
fresh; while it is set no operation removes the entry but the owner's, because every stop only
marks it; so the owner finds its own entry and closes its own channel, once. `Inductive` is
proved action by action, with `StopKeeps`, `ReleaseKeeps`, `ReplaceKeeps` for the three shapes
of change that actions share. `StopFinal` and `ReservationSafe` are action properties and
follow from `IndInv` step by step.

**ExecutionCoordinatorProofs.** `CoordInv` says where a goroutine may have an attempt, that an
attempt has one goroutine, that the entry bearing it is the goroutine's own, what holding the
gate guarantees, and who runs what is reserved. It and the manager's `IndInv`, instantiated
over the goroutines' attempts, need each other: a step is one of the manager only where
`CoordInv` holds (`Simulation`), and `CoordInv` is kept only where the entries are as the
manager keeps them. From the pair follow `CoordinatorSafe`, `RunsStayCurrent`,
`HaltedStaysHalted` and `KeepsProtocol`, the refinement. Its hypotheses `Inputs = Input` and
`MaxInput = Nil` lift the cap on the length of a merged input that only TLC needs: the code has
none, and under it the coordinator would rightly not refine a manager that refuses a longer
one.

**SessionAdmissionProofs.** For any finite set of scopes and any sessions, goroutines and
gates. `IndInv` adds to the properties: the place of a goroutine tells its depth (`Nesting`); a
binding seen names its session (`Named`); references agree with the map, no two keys share a
gate and the count is the number of users (`GateMap`); a goroutine refers to what it holds and
to the one key it waits for (`Holding`); inner leases hold later keys (`Ordered`); the
manager's counter is the number of leases (`Counted`). Mutual exclusion rests on the count: a
gate is dropped only by its last user, so two goroutines that refer to one key refer to one
object, and its token is empty only when neither holds it. `BindInv` adds which keys a
goroutine inside a binding has, and gives `BindingsSafe`: nobody else may move the binding it
found, handles are valid exactly while current, and nothing unpublished is left at the
teardown. The refinement needs `Ordered`, for a release must give back the last key of all
leases, not only of the innermost.

**SessionsProofs.** `NamingInv` is the one-task mark with its owner. `ControlInv` counts the
armed timers and callbacks and says what a callback of an earlier schedule may still rely on;
its type invariant with the cardinality of the schedules makes `TimersCounted` inductive.
`SessionIdleTimed` has the hypothesis that no `/stop` ends a *paused* execution
(`NoSilentStop`: world `"stop"` excluded), since with it the property is false: disagreement 5
below.

**BackgroundProofs.** `ManagerInv` relates entries, the set of names and the worker's place in
its batch; `CronInv` relates the gate, the row with its token, what each worker remembers of it
and what was really sent; `ElnisInv` puts an event in at most one pair of hands, and in one as
long as it is neither final, nor waiting in the outbox, nor `unsaved`. `CronNoResend` needs the
last part of `CronInv`: a worker's memory of a row is trusted only while its token is the
row's.

**HostsProofs.** `MediaObjectInv` adds to the checked invariants what each step of a caller
under the lock has established (`StepsSound`) and what a mark or an orphan time on the row
means (`RowSound`); `MediaClaimedLate` and `MediaHistoryKept` follow per step. `LeaseInv`: one
goroutine works on a lease (`OneWorks`), the deadline indexed is not before what any caller was
told (`ToldKept`), a lease in use is held. One assumption is arithmetic: `2 ^ n` is a natural,
which the provers do not know. `BusInv`: what a task of the bus still works with is counted by
its emission and by its connection (`BusHeld`), from which follow that a connection is done
last and that results are kept. `RouteInv`: a lease, its timer and its instance agree, an event
is invoked under the route's lock. `WorkerInv`: a process that runs is the one in `cmd`; a run
between its two looks at the worker finds no process and an open channel unless another run is
there too (`StartsApart`); while nobody asks for a start, a stop keeps what it saw
(`StopKnows`). Proving it showed that starts can overlap after an earlier one failed late
(disagreement 8), so `StopMeansStopped` and `DoneClosedOnce` are about workers to which that
has not happened (the history field `overlap`), and that `RestartScheduled` as first stated was
false with two stops at once.

**PlatformsProofs.** The echoes of requests in flight are distinct and an answer found is of
the request that holds its channel (`TransportInv`). A session of the QQ gateway that can be
resumed is the newest one and its number is the last that was dispatched (`GatewayInv`); no two
posts of the QQ client have one number and one refresh of its token runs (`QQClientInv`). What
Telegram was asked for lies before the offset and what a batch still holds is consecutive
(`TelegramInv`); a OneBot adapter remembers the last message with an id (`OneBotInv`). `CliInv`
gives every hold one owner. Proving it showed that `NobodyLeft` as first stated, after the
release only an output holds its own medium, was false: an output whose write fails may take
the grant of another task from the connection's books and still be publishing it. The property
now says so (`HeldByDelivery`), and the instance has a world in which it happens. The
assumptions on constants are those of the modules, among them that `0` is nobody and that a
session has an event (Ready).

**SuiteProofs** carries these to the properties of the suite: a step of the suite is a step of
one part and the others rest, so the invariant of a part is one of the suite where that part
runs. `SuiteMediaSafe`, `SuiteSessionsSafe`, `SuiteBackgroundSafe`, `SuitePlatformsSafe` and
`SuiteServiceSteps` state five of its groups in full.

## 5. Only model-checked, and not modelled

Stays with TLC:

- all liveness: the prover does not handle fairness and ENABLED;
- `FilesSafe` and `ToolsSafe`, whose parts FileText and ToolCatalog compute with recursive
  functions over sequences and graphs: what they return for every input needs induction over
  data, which the installed provers cannot instantiate; the same holds of the frames of a rule
  in HookDispatch, of the stream in ModelStream, and of the migrations in SqliteStore, which
  fold over the list of versions;
- `HostSafe`, `DialogueSafe`, `TalkSteps` and `DataSafe` as groups: of their parts the bus, the
  routes, the media leases, the worker and the media objects are proved in HostsProofs, and
  `LateErrorHarmless`, `CacheNewest` and `NothingNewWhenClosing` in PlatformsProofs; the others
  are checked on their instances only.

Not modelled: parsing and formatting (agent input, commands and completion, Elvena, Elyph),
selection of models and the reading of configuration, the composition of prompts and the
estimate of tokens, the terminal interface, the conversion of messages between platforms, the
transfer of media, the HTTP surface and authentication of Elnis, the wire protocol of hooks,
the web, shell and chat history tools, usage and status records, and the repositories' queries,
which appear as atomic steps of the parts that call them. They hold no state that two
goroutines share, or are input and output only. Between the parts, composition stops at the
interfaces: a property that spans, say, the runner's batch and the native history is stated on
each side of the interface and not across it.

## 6. Disagreements found

With a run:

1. `queued_lost`: a message told "queued → next LLM call" is lost if the turn completes between
   the snapshot and `AppendPendingInput`, whose result is not looked at
   (`agent/execution/execution_input.go:122`).
2. `append_overtaken`: after `y`, the old `Run` starts the reserved turn with the queued input
   alone; the appended message is received by nobody (`execution_run.go:77`).

Seen while modelling, and left out of the properties by the restriction named:

3. A message that loses the admission is dispatched again with its finished execution and, the
   session being idle by then, refused as canceled (`execution_input.go:129`,
   `execution.go:79`, `execution_admission.go:67`).
4. The observer of a timed out request stops a turn that was put to the append question since
   it looked (`execution_run.go:184`; `docs/commands.md:80` lets the question stand).
5. A `/stop` of a paused turn starts no idle timer, so the binding never expires by itself
   (`session/control/expiration.go`; `docs.en/configuration.md:374`). World `"stop"` of
   SessionControl shows it.
6. Cron: a report of a new round can be made from the definition read before an edit
   (`ReportOfDefinition`; `background/cron/execution.go:45`,
   `tool/builtin/cron_contract.go:27`); reading and scheduling are said to be serial
   (`refresh.go:11`), but a handler that read a job as disabled removes the entry a refresh has
   made since (`EnabledHasEntry`; `manager.go:329`). A refresh whose read failed is only logged
   and not repeated until the job is announced again or its run ends (`refresh.go:45`): the
   entry of a deleted job stays and fires in vain, an enabled one has none. `NoStaleEntry` and
   `EnabledHasEntry` speak of the other jobs.
7. Signals: a forwarded emission can report a cancellation though nobody canceled it, for the
   downstream exit cancels the task before the result is copied (`ForwardedResult`;
   `signal/signal.go:83`, `:218`), and a signal can be done before a callback it transferred
   for a connection that has left its snapshot (`BusDoneLast`).
8. Hook workers: a shutdown that joins another stop behind a start without a process waits for
   a channel nobody closes (`HostCloses`; `hook/runtime/manager.go:278`); two restarts may wait
   after one exit (`OneRestart`; `docs.en/hooks.md:557`); a worker shown as ready may have no
   process (`ReadyHasProcess`; `worker.go:212`). A start that fails after its process has gone
   clears `starting`, which by then may be another start's (`worker.go:195`): two runs are then
   between their looks at the worker (`overlap`), the channel of one replaces the other's and
   is closed twice (`worker.go:233`), and a stop can return while a process runs. A caller that
   gives up at the route lock leaves a transient process (`TransientOwned` with world
   `"giveup"`; `worker.go:350`, `docs.en/hooks.md:11`).
9. A reload a plugin began before another one finishes puts its older rules back
   (`hook/control/service.go:71`), and renamed duplicates of rules can collide
   (`hook/rules/config.go:141`).
10. `platform/share/backoff.go` says that a successful connection resets the delay; the QQ
    gateway resets it when a connection ends without an error (`qqofficial/lifecycle.go`,
    `runGateway`). It says that the delay is capped, but a base above the default cap is used
    as it is.
11. Two inserts into an empty file in one batch join into one line, and inserting after and
    deleting the only unterminated line leaves a blank one (`fileops/edit.go`; the tool's
    description says that lines are separated automatically).
12. A directive stored by a finishing tool can overwrite one stored meanwhile
    (`tool/execution/runner.go`, against the contract of `tool/state/state.go` that updates
    merge the latest row); a Go skill's binary can be rebuilt between its confirmation and its
    run (`tool/share/prepared.go`).
13. `llm/retry.go:24` asks that a call release its resources before it returns; `GenerateText`
    and `CompactPrepared` only cancel them. `NothingLeftOfAttempt` therefore speaks of the
    dialogue's attempts.
14. On the command line the refusal of a message's media carries the input's number, which the
    client knows only from pending completions, and is dropped (`platform/cli/remote`).
15. Long memories: a failure between the insert of a file's row and the insert of its text
    leaves a row whose stamp is current, so that no later synchronization indexes the text,
    against the comment of `long_memory/index.go` that a failed synchronization is retried;
    `SearchedIndexed` is restricted to behaviours without one. A crash between the backup and
    the rename of the resident memories' migration makes later loads fail until the backup is
    moved by hand, as the error says.

16. Elnis: a failure that cannot be recorded is only logged or returned to a caller that logs
    it (`outbox.go:175`, `:188`, `llm.go:34`, `:57`, `:101`, `:125`, `service.go:221`, `:247`,
    `:301`). The event stays queued, running or delivering in nobody's hands until the next
    start, since the recovery loop lists only what is `result_ready`; `NothingStranded` and
    `ReportsEnd` except these (`unsaved`). When the mark after a send fails, the report is
    released and its target gets it a second time (`outbox.go:153`): no property says that a
    report is sent once.

## 7. What is left

- Proofs of the parts that are only model-checked and are state machines without recursion.
- The spans between parts named in section 5: batch and native history, event intake and
  dialogue.
- The routing of notifications, the transfer of media, and the periodic maintenance as parts of
  their own.
