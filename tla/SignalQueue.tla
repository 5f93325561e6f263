---------------------------- MODULE SignalQueue ----------------------------
(***************************************************************************)
(* The task queue of internal/signal (queue.go): lanes of tasks with equal *)
(* keys, workers that start and retire on demand, admission up to a        *)
(* capacity, cancellation of waiting tasks and the two ways of closing.    *)
(***************************************************************************)
EXTENDS Naturals, Integers, FiniteSets, SequencesExt

CONSTANTS
    QTasks,        \* tasks that may be submitted
    KeyOf,         \* task -> key; NoKey for tasks without one
    Draining,      \* tasks with the Drain policy; the others are CancelPending
    NoKey,
    Capacity, Concurrency

ASSUME QueueAssumption ==
    /\ DOMAIN KeyOf = QTasks /\ Draining \subseteq QTasks
    /\ Capacity \in Nat \ {0} /\ Concurrency \in Nat \ {0}

VARIABLES
    task,      \* state of each task
    lanes,     \* key -> waiting tasks, in order of submission
    ready,     \* list of runnable lanes
    workers,   \* started workers
    awake,     \* submitters woken from the wait for capacity
    queue      \* "open", "closed", "done"

queueVars == <<task, lanes, ready, workers, awake, queue>>

LaneKeys == Range(KeyOf)
InState(st) == {t \in QTasks : task[t] = st}
Running == InState("active") \cup InState("ended")
Pending == Cardinality(InState("pending"))
FinishingTask == Cardinality(InState("removed"))

QueueTypeOK ==
    /\ task \in [QTasks -> {"new", "waiting", "refused", "pending", "active", "ended", "removed", "finished"}]
    /\ lanes \in [LaneKeys -> Seq(QTasks)]
    /\ ready \in Seq(LaneKeys)
    /\ workers \in 0 .. Concurrency
    /\ awake \subseteq InState("waiting")
    /\ queue \in {"open", "closed", "done"}

QueueInit ==
    /\ task = [t \in QTasks |-> "new"]
    /\ lanes = [k \in LaneKeys |-> <<>>]
    /\ ready = <<>> /\ workers = 0 /\ awake = {}
    /\ queue = "open"

\* Mutant: a busy key does not keep its lane from the list.
MadeReadyBusy(rdy, k, jobs, active) == IF jobs # <<>> /\ ~Contains(rdy, k) THEN Append(rdy, k) ELSE rdy

\* makeReady: a lane with tasks is listed once, a keyed one only while none of its
\* tasks runs.
MadeReady(rdy, k, jobs, active) ==
    IF jobs # <<>> /\ ~Contains(rdy, k) /\ (k = NoKey \/ active = {}) THEN Append(rdy, k) ELSE rdy

\* The running tasks of a lane.
ActiveOf(k, tsk) == {t \in QTasks : KeyOf[t] = k /\ tsk[t] \in {"active", "ended"}}

\* Mutant: only the first waiting submitter is woken, by a task that leaves for good.
WokenNone == {}

\* notifyCapacity wakes every waiting submitter.
Woken == InState("waiting")

\* removePending: an emptied lane leaves the list.
RemovedReady(rdy, k, jobs, active) == MadeReady(IF jobs = <<>> THEN Remove(rdy, k) ELSE rdy, k, jobs, active)

\* Mutant: no worker is started.
StartedOne(rdy, lns, tsk, n) == n

\* Mutant: a worker more than the limit is started.
StartedOver(rdy, lns, tsk, n) == IF rdy = <<>> THEN n ELSE n + 1

\* startWorkers counts what is runnable and not yet served by a started worker.
Started(rdy, lns, tsk, n) ==
    LET runnable == FoldLeft(LAMBDA acc, k : acc + IF k = NoKey THEN Len(lns[k]) ELSE 1, 0, rdy)
        running  == Cardinality({t \in QTasks : tsk[t] \in {"active", "ended"}})
        missing  == running + runnable - n
    IN IF missing <= 0 THEN n ELSE IF n + missing > Concurrency THEN Concurrency ELSE n + missing

\* Mutant: the tasks being finished elsewhere are forgotten.
FinishedClosedEarly(q, n, tsk) ==
    IF q = "closed" /\ n = 0 /\ {t \in QTasks : tsk[t] = "pending"} = {} THEN "done" ELSE q

\* Mutant: only a worker announces the end.
FinishedClosedByWorker(q, n, tsk) ==
    IF q = "closed" /\ n = 0 /\ {t \in QTasks : tsk[t] \in {"pending", "removed"}} = {} /\ n < workers THEN "done" ELSE q

\* finishClosed
FinishedClosed(q, n, tsk) ==
    IF q = "closed" /\ n = 0 /\ {t \in QTasks : tsk[t] \in {"pending", "removed"}} = {} THEN "done" ELSE q

-----------------------------------------------------------------------------

\* The end of Submit: into the lane, and a worker for it if one is missing.
EnterLane(t) ==
    LET k == KeyOf[t]
        lns == [lanes EXCEPT ![k] = Append(@, t)]
        tsk == [task EXCEPT ![t] = "pending"]
        rdy == MadeReady(ready, k, lns[k], ActiveOf(k, tsk))
    IN /\ task' = tsk /\ lanes' = lns /\ ready' = rdy
       /\ workers' = Started(rdy, lns, tsk, workers)

\* Submit: refused when closed; a full queue refuses, or the caller waits.
Submit(t) ==
    /\ task[t] = "new"
    /\ \/ queue = "open" /\ Pending < Capacity /\ EnterLane(t)
       \/ /\ queue = "open" /\ Pending = Capacity
          /\ \E st \in {"waiting", "refused"} : task' = [task EXCEPT ![t] = st]
          /\ UNCHANGED <<lanes, ready, workers>>
       \/ /\ queue # "open"
          /\ task' = [task EXCEPT ![t] = "refused"] /\ UNCHANGED <<lanes, ready, workers>>
    /\ UNCHANGED <<awake, queue>>

\* A woken submitter looks again.
WakeSubmit(t) ==
    /\ task[t] = "waiting" /\ t \in awake
    /\ awake' = awake \ {t}
    /\ \/ queue # "open" /\ task' = [task EXCEPT ![t] = "refused"] /\ UNCHANGED <<lanes, ready, workers>>
       \/ queue = "open" /\ Pending < Capacity /\ EnterLane(t)
       \/ queue = "open" /\ Pending = Capacity /\ UNCHANGED <<task, lanes, ready, workers>>
    /\ UNCHANGED queue

\* The context of a waiting submitter, or its admission timeout, ends.
GiveUp(t) ==
    /\ task[t] = "waiting"
    /\ task' = [task EXCEPT ![t] = "refused"] /\ awake' = awake \ {t}
    /\ UNCHANGED <<lanes, ready, workers, queue>>

\* cancelPending: the context of an admitted task ends before it ran.
CancelTask(t) ==
    LET k == KeyOf[t]
        jobs == Remove(lanes[k], t)
    IN /\ task[t] = "pending"
       /\ task' = [task EXCEPT ![t] = "removed"]
       /\ lanes' = [lanes EXCEPT ![k] = jobs]
       /\ ready' = RemovedReady(ready, k, jobs, ActiveOf(k, task))
       /\ awake' = Woken
       /\ UNCHANGED <<workers, queue>>

\* Finish of a removed task, called without the lock; then the queue may be done.
FinishRemoved(t) ==
    LET tsk == [task EXCEPT ![t] = "finished"] IN
    /\ task[t] = "removed"
    /\ task' = tsk
    /\ queue' = FinishedClosed(queue, workers, tsk)
    /\ UNCHANGED <<lanes, ready, workers, awake>>

-----------------------------------------------------------------------------
(* Workers: started ones that run no task look for one, or retire.          *)

IdleWorkers == workers - Cardinality(Running)

TakeTask ==
    LET k == Head(ready)
        t == Head(lanes[k])
        jobs == Tail(lanes[k])
        tsk == [task EXCEPT ![t] = "active"]
    IN /\ IdleWorkers > 0 /\ ready # <<>>
       /\ task' = tsk
       /\ lanes' = [lanes EXCEPT ![k] = jobs]
       /\ ready' = RemovedReady(Tail(ready), k, jobs, ActiveOf(k, tsk))
       /\ awake' = Woken
       /\ UNCHANGED <<workers, queue>>

\* The task returns, or sees its cancelled context, and Finish is called.
EndTask(t) ==
    /\ task[t] = "active"
    /\ task' = [task EXCEPT ![t] = "ended"]
    /\ UNCHANGED <<lanes, ready, workers, awake, queue>>

\* Mutant: the lane of a finished task is not listed again.
LaneAfterForgotten(rdy, k, jobs, active) == rdy

\* The lane a worker leaves.
LaneAfter(rdy, k, jobs, active) == MadeReady(rdy, k, jobs, active)

\* The worker leaves the lane, which may be runnable again.
LeaveLane(t) ==
    LET k == KeyOf[t]
        tsk == [task EXCEPT ![t] = "finished"]
    IN /\ task[t] = "ended"
       /\ task' = tsk
       /\ ready' = LaneAfter(ready, k, lanes[k], ActiveOf(k, tsk))
       /\ UNCHANGED <<lanes, workers, awake, queue>>

RetireWorker ==
    /\ IdleWorkers > 0 /\ ready = <<>>
    /\ workers' = workers - 1
    /\ queue' = FinishedClosed(queue, workers - 1, task)
    /\ UNCHANGED <<task, lanes, ready, awake>>

\* stop: waiting tasks that are not to be drained, or all, are removed; running ones
\* are cancelled and end by themselves.
StopQueue(all) ==
    LET gone(t) == task[t] = "pending" /\ (all \/ t \notin Draining)
        tsk == [t \in QTasks |-> IF gone(t) THEN "removed" ELSE task[t]]
        lns == [k \in LaneKeys |-> SelectSeq(lanes[k], LAMBDA t : ~gone(t))]
    IN /\ task' = tsk /\ lanes' = lns
       /\ ready' = SelectSeq(ready, LAMBDA k : lns[k] # <<>>)
       /\ awake' = Woken
       /\ queue' = FinishedClosed("closed", workers, tsk)
       /\ UNCHANGED workers

BeginCloseQueue == queue = "open" /\ StopQueue(FALSE)

\* Close whose context ends first.
CloseQueueTimeout == queue = "closed" /\ StopQueue(TRUE)

QueueStep(t) == WakeSubmit(t) \/ FinishRemoved(t) \/ EndTask(t) \/ LeaveLane(t)

QueueNext ==
    \/ \E t \in QTasks : Submit(t) \/ GiveUp(t) \/ CancelTask(t) \/ QueueStep(t)
    \/ TakeTask \/ RetireWorker \/ BeginCloseQueue \/ CloseQueueTimeout

QueueFairness ==
    /\ \A t \in QTasks : WF_queueVars(QueueStep(t))
    /\ WF_queueVars(TakeTask) /\ WF_queueVars(RetireWorker)

QueueSpec == QueueInit /\ [][QueueNext]_queueVars /\ QueueFairness

-----------------------------------------------------------------------------
(* Properties.                                                              *)

\* Tasks of one key never overlap.
LaneSerial == \A k \in LaneKeys \ {NoKey} : Cardinality(ActiveOf(k, task)) <= 1

\* Runnable work has a worker: a listed lane finds a started worker without a task,
\* unless all workers are busy; and a lane that could run is listed.
WorkHasWorker ==
    /\ ready # <<>> => IdleWorkers > 0 \/ workers = Concurrency
    /\ \A k \in LaneKeys : lanes[k] # <<>> /\ (k = NoKey \/ ActiveOf(k, task) = {}) => Contains(ready, k)

\* A submitter sleeps only while the queue is open and full.
NoLostWakeup == \A t \in InState("waiting") \ awake : queue = "open" /\ Pending = Capacity

\* Done is announced after every accepted task was finished.
DoneIsDone == queue = "done" => \A t \in QTasks : task[t] \in {"new", "waiting", "refused", "finished"}

\* Every accepted task is finished, and closing completes.
TasksFinish == \A t \in QTasks : task[t] = "pending" ~> task[t] = "finished"
QueueCloses == queue = "closed" ~> queue = "done"
=============================================================================
