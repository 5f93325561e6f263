----------------------------- MODULE HookRoutes -----------------------------
(***************************************************************************)
(* Transient hook workers on one route (internal/hook/runtime/routes.go,   *)
(* Handle, startTransient and stopTransient of manager.go, handle and      *)
(* lockRoute of worker.go): waiting leases with their expiry timers,       *)
(* invocations with their tokens, and the count of owned work that the     *)
(* shutdown joins.  A step is one critical section of the manager's lock.  *)
(***************************************************************************)
EXTENDS Integers, FiniteSets

CONSTANTS
    Instances,      \* worker instances, each used once
    HookOf,         \* the plugin of each instance
    Events,         \* goroutines that route one event after the other
    Leases,         \* numbers of the leases, in order of their creation
    RouteWorlds,         \* alternative environments: among "expiry", "cancel", "exit", "close", "giveup"
    Nowhere         \* no instance, nobody

ASSUME RoutesAssumption ==
    IsFiniteSet(Instances) /\ Nowhere \notin Instances \cup Events /\ Leases \subseteq Nat \ {0}

VARIABLES
    instance,   \* process of each instance, and its manualStop mark
    indexed,    \* the instances in m.transient
    lease,      \* routes[key]: instance and number, or none
    timer,      \* expiry timer of each lease
    hookEvent,      \* where each goroutine is in Route, Handle and handle
    holder,     \* who holds the route lock of each instance
    ownedWork,       \* the counter of workWG
    gate,       \* the manager: "open", "closing", "closed"
    routesWorld       \* what else happens in this behaviour

routesVars == <<instance, indexed, lease, timer, hookEvent, holder, ownedWork, gate, routesWorld>>

NoLease == [of |-> Nowhere, number |-> 0]
NoEvent == [at |-> "idle", of |-> Nowhere, continuation |-> FALSE, token |-> FALSE,
            canceled |-> FALSE, failed |-> FALSE]

RoutesTypeOK ==
    /\ instance \in [Instances -> [state : {"unused", "starting", "ready", "exited", "stopped"},
                                   manual : BOOLEAN, stops : 0 .. 1]]
    /\ indexed \subseteq Instances
    /\ \A i, j \in indexed : HookOf[i] = HookOf[j] => i = j
    /\ lease \in [of : Instances, number : Leases] \cup {NoLease}
    /\ timer \in [Leases -> [state : {"none", "armed", "fired", "over"}, of : Instances \cup {Nowhere}]]
    /\ hookEvent \in [Events -> [at : {"idle", "trigger", "starting", "locking", "active", "invoked", "ending", "leaving"},
                             of : Instances \cup {Nowhere}, continuation : BOOLEAN, token : BOOLEAN,
                             canceled : BOOLEAN, failed : BOOLEAN]]
    /\ holder \in [Instances -> Events \cup {Nowhere}]
    /\ ownedWork \in Nat /\ gate \in {"open", "closing", "closed"} /\ routesWorld \in RouteWorlds

RoutesInit ==
    /\ instance = [i \in Instances |-> [state |-> "unused", manual |-> FALSE, stops |-> 0]]
    /\ indexed = {} /\ lease = NoLease
    /\ timer = [l \in Leases |-> [state |-> "none", of |-> Nowhere]]
    /\ hookEvent = [e \in Events |-> NoEvent]
    /\ holder = [i \in Instances |-> Nowhere]
    /\ ownedWork = 0 /\ gate = "open" /\ routesWorld \in RouteWorlds

-----------------------------------------------------------------------------
(* Helpers under the manager's lock, on the state s of one critical section. *)

Now == [instance |-> instance, indexed |-> indexed, lease |-> lease, timer |-> timer, event |-> hookEvent, work |-> ownedWork]

Become(s) ==
    /\ instance' = s.instance /\ indexed' = s.indexed /\ lease' = s.lease
    /\ timer' = s.timer /\ hookEvent' = s.event /\ ownedWork' = s.work

\* Mutant: the count of a stopped timer is kept although its callback never runs.
ClearLeaseCounted(s) ==
    IF s.lease = NoLease THEN s
    ELSE [s EXCEPT !.lease = NoLease, !.timer[s.lease.number].state = IF @ = "armed" THEN "over" ELSE @]

\* A timer stopped in time; n is the number of no lease when there is none.
TimersWithout(timers, n) ==
    [l \in Leases |-> IF l = n /\ timers[l].state = "armed" THEN [timers[l] EXCEPT !.state = "over"] ELSE timers[l]]

\* clearLeaseLocked: a timer stopped in time gives its count back, one that fired does it itself.
ClearLease(s) ==
    IF s.lease = NoLease THEN s
    ELSE [s EXCEPT !.lease = NoLease,
                   !.timer = TimersWithout(s.timer, s.lease.number),
                   !.work = IF s.timer[s.lease.number].state = "armed" THEN s.work - 1 ELSE s.work]

\* Every invocation of the instances in is is cancelled.
CancelTokens(s, is) ==
    [s EXCEPT !.event = [e \in Events |-> [s.event[e] EXCEPT !.canceled = @ \/ (s.event[e].token /\ s.event[e].of \in is)]]]

\* clearWorkerLocked
ClearWorker(s, i) ==
    CancelTokens(IF s.lease.of = i THEN ClearLease(s) ELSE s, {i})

\* stopTransient: removal from the index, mark, and the counted asynchronous stop.
StopTransient(s, i) ==
    IF gate # "open" \/ i \notin s.indexed THEN s
    ELSE LET c == ClearWorker([s EXCEPT !.indexed = @ \ {i}], i) IN
         [c EXCEPT !.instance[i].manual = TRUE, !.instance[i].stops = 1, !.work = @ + 1]

-----------------------------------------------------------------------------
(* Route and Handle.                                                        *)

\* lookupLease: only a lease that has not expired; it is used after the lock is released.
LookupLease(e) ==
    /\ hookEvent[e].at = "idle" /\ gate = "open"
    /\ hookEvent' = [hookEvent EXCEPT ![e] =
          IF lease # NoLease /\ timer[lease.number].state = "armed"
          THEN [NoEvent EXCEPT !.at = "locking", !.of = lease.of, !.continuation = TRUE]
          ELSE [NoEvent EXCEPT !.at = "trigger"]]
    /\ UNCHANGED <<instance, indexed, lease, timer, holder, ownedWork, gate, routesWorld>>

\* startTransient: the indexed instance of the plugin, or a new one.
StartTransient(e, i) ==
    /\ hookEvent[e].at = "trigger" /\ gate = "open"
    /\ \A j \in indexed : HookOf[j] = HookOf[i] => ~instance[j].manual
    /\ i \in indexed \/ (instance[i].state = "unused" /\ \A j \in indexed : HookOf[j] # HookOf[i])
    /\ indexed' = indexed \cup {i}
    /\ instance' = IF i \in indexed THEN instance ELSE [instance EXCEPT ![i].state = "starting"]
    /\ hookEvent' = [hookEvent EXCEPT ![e].at = "starting", ![e].of = i]
    /\ UNCHANGED <<lease, timer, holder, ownedWork, gate, routesWorld>>

NotTriggered(e) ==
    /\ hookEvent[e].at = "trigger"
    /\ hookEvent' = [hookEvent EXCEPT ![e] = NoEvent]
    /\ UNCHANGED <<instance, indexed, lease, timer, holder, ownedWork, gate, routesWorld>>

\* waitReady: ready, or an error (start failure, timeout, the event's context).
WaitReady(e) ==
    LET i == hookEvent[e].of IN
    /\ hookEvent[e].at = "starting"
    /\ \/ /\ instance[i].state = "ready"
          /\ hookEvent' = [hookEvent EXCEPT ![e].at = "locking"]
          /\ UNCHANGED <<instance, indexed, lease, timer, ownedWork>>
       \/ Become(StopTransient([Now EXCEPT !.event[e] = NoEvent], i))
    /\ UNCHANGED <<holder, gate, routesWorld>>

-----------------------------------------------------------------------------
(* The worker's handle.                                                     *)

\* Mutant: the route lock is free as soon as the plugin has answered.
RouteFreeAnswered(i) ==
    \A e \in Events : ~(hookEvent[e].of = i /\ hookEvent[e].at \in {"active", "invoked"})

\* lockRoute
RouteFree(i) == holder[i] = Nowhere

\* The lock, then the worker's own state: a marked or broken worker takes no event.
LockRoute(e) ==
    LET i == hookEvent[e].of IN
    /\ hookEvent[e].at = "locking" /\ RouteFree(i)
    /\ holder' = [holder EXCEPT ![i] = e]
    /\ hookEvent' = [hookEvent EXCEPT ![e] = IF ~instance[i].manual /\ instance[i].state = "ready"
                                     THEN [@ EXCEPT !.at = "active"]
                                     ELSE [@ EXCEPT !.at = "ending", !.failed = TRUE]]
    /\ UNCHANGED <<instance, indexed, lease, timer, ownedWork, gate, routesWorld>>

\* The event's context ends first: handle returns before any of its cleanups is registered.
LockAbandoned(e) ==
    /\ "giveup" \in routesWorld /\ hookEvent[e].at = "locking"
    /\ hookEvent' = [hookEvent EXCEPT ![e] = NoEvent]
    /\ UNCHANGED <<instance, indexed, lease, timer, holder, ownedWork, gate, routesWorld>>

\* beginInvocation; the request itself is refused when the process is gone.
Invocable(i) == gate = "open" /\ ~instance[i].manual

BeginInvocation(e) ==
    LET i == hookEvent[e].of IN
    /\ hookEvent[e].at = "active"
    /\ IF Invocable(i)
       THEN /\ hookEvent' = [hookEvent EXCEPT ![e] = IF instance[i].state = "ready" THEN [@ EXCEPT !.at = "invoked", !.token = TRUE]
                                            ELSE [@ EXCEPT !.at = "ending", !.token = TRUE, !.failed = TRUE]]
            /\ ownedWork' = ownedWork + 1
       ELSE hookEvent' = [hookEvent EXCEPT ![e].at = "ending", ![e].failed = TRUE] /\ UNCHANGED ownedWork
    /\ UNCHANGED <<instance, indexed, lease, timer, holder, gate, routesWorld>>

\* request fails: cancellation, timeout, exit of the process, a result that is refused.
\* With an answer and a cancellation both there, select takes either.
RequestFails(e) ==
    /\ hookEvent[e].at = "invoked"
    /\ hookEvent' = [hookEvent EXCEPT ![e].at = "ending", ![e].failed = TRUE]
    /\ UNCHANGED <<instance, indexed, lease, timer, holder, ownedWork, gate, routesWorld>>

\* Mutant: the cancellation is only looked at before the lock is taken.
SettableOpen(e) == gate = "open"

Settable(e) == ~hookEvent[e].canceled /\ gate = "open"

\* An answer "waiting": setLease.  The new lease replaces the old one, and ends the instance of another plugin.
SetLease(e) ==
    LET i == hookEvent[e].of
        cleared == ClearLease(Now)
        freed == IF lease # NoLease /\ lease.of # i THEN StopTransient(cleared, lease.of) ELSE cleared IN
    /\ hookEvent[e].at = "invoked"
    /\ \/ /\ ~Settable(e)
          /\ hookEvent' = [hookEvent EXCEPT ![e].at = "ending", ![e].failed = TRUE]
          /\ UNCHANGED <<instance, indexed, lease, timer, ownedWork>>
       \/ /\ Settable(e)
          /\ \E l \in Leases :
                /\ timer[l].state = "none" /\ \A k \in Leases : k < l => timer[k].state # "none"
                /\ Become([freed EXCEPT !.lease = [of |-> i, number |-> l], !.timer[l] = [state |-> "armed", of |-> i],
                                        !.work = @ + 1, !.event[e].at = "ending"])
    /\ UNCHANGED <<holder, gate, routesWorld>>

\* An answer "completed": a continuation releases the lease of this worker, whatever its number.
Completed(e) ==
    LET s == IF hookEvent[e].continuation /\ lease.of = hookEvent[e].of THEN ClearLease(Now) ELSE Now IN
    /\ hookEvent[e].at = "invoked"
    /\ Become([s EXCEPT !.event[e].at = "ending"])
    /\ UNCHANGED <<holder, gate, routesWorld>>

\* Mutant: only an error ends the instance.
UnneededFailed(e) == hookEvent[e].failed

\* The deferred check of handle: an instance without a lease has nothing to wait for.
Unneeded(e) == hookEvent[e].failed \/ lease.of # hookEvent[e].of

EndHandle(e) ==
    /\ hookEvent[e].at = "ending"
    /\ Become(LET s == [Now EXCEPT !.event[e].at = "leaving"] IN
              IF Unneeded(e) THEN StopTransient(s, hookEvent[e].of) ELSE s)
    /\ UNCHANGED <<holder, gate, routesWorld>>

\* Mutant: an invocation that was refused gives a count back.
LeaveAnyway(e) ==
    /\ hookEvent[e].at = "leaving"
    /\ holder' = [holder EXCEPT ![hookEvent[e].of] = Nowhere]
    /\ ownedWork' = ownedWork - 1
    /\ hookEvent' = [hookEvent EXCEPT ![e] = NoEvent]
    /\ UNCHANGED <<instance, indexed, lease, timer, gate, routesWorld>>

\* The route is released, then endInvocation gives the count back.
LeaveHandle(e) ==
    /\ hookEvent[e].at = "leaving"
    /\ holder' = [holder EXCEPT ![hookEvent[e].of] = Nowhere]
    /\ ownedWork' = IF hookEvent[e].token THEN ownedWork - 1 ELSE ownedWork
    /\ hookEvent' = [hookEvent EXCEPT ![e] = NoEvent]
    /\ UNCHANGED <<instance, indexed, lease, timer, gate, routesWorld>>

-----------------------------------------------------------------------------
(* Timers, cancellation, processes, shutdown.                               *)

LeaseElapses(l) ==
    /\ "expiry" \in routesWorld /\ timer[l].state = "armed"
    /\ timer' = [timer EXCEPT ![l].state = "fired"]
    /\ UNCHANGED <<instance, indexed, lease, hookEvent, holder, ownedWork, gate, routesWorld>>

\* Mutant: the callback recognises its lease by the instance.
ExpiredByInstance(l, i) == lease.of = i

\* The timer identifies the lease: a renewed or replaced one is left alone.
Expired(l, i) == lease.number = l

\* expireLease waits for the execution on the route, then looks again; the shutdown
\* ends the wait.
ExpireLease(l) ==
    LET i == timer[l].of
        s == [Now EXCEPT !.timer[l].state = "over", !.work = @ - 1] IN
    /\ timer[l].state = "fired"
    /\ \/ RouteFree(i) /\ Become(IF Expired(l, i) THEN StopTransient(ClearLease(s), i) ELSE s)
       \/ gate # "open" /\ Become(s)
    /\ UNCHANGED <<holder, gate, routesWorld>>

\* Cancel: the lease, every invocation of the route, and their transient instances.
CancelRoute ==
    LET running == {hookEvent[e].of : e \in {x \in Events : hookEvent[x].token}}
        s == CancelTokens(ClearLease(Now), Instances)
        doomed == (running \cup {lease.of}) \cap indexed
        StopAll(t) == [t EXCEPT !.indexed = @ \ doomed,
                                !.instance = [i \in Instances |-> IF i \in doomed
                                                 THEN [t.instance[i] EXCEPT !.manual = TRUE, !.stops = 1] ELSE t.instance[i]],
                                !.work = @ + Cardinality(doomed)] IN
    /\ "cancel" \in routesWorld /\ gate = "open" /\ (lease # NoLease \/ running # {})
    /\ Become(StopAll(s))
    /\ UNCHANGED <<holder, gate, routesWorld>>

BecomesReady(i) ==
    /\ instance[i].state = "starting"
    /\ instance' = [instance EXCEPT ![i].state = IF instance[i].manual THEN "stopped" ELSE "ready"]
    /\ UNCHANGED <<indexed, lease, timer, hookEvent, holder, ownedWork, gate, routesWorld>>

\* A process exits by itself, and waitLoop then clears what belongs to it.
InstanceExits(i) ==
    /\ "exit" \in routesWorld /\ instance[i].state = "ready" /\ ~instance[i].manual
    /\ instance' = [instance EXCEPT ![i].state = "exited"]
    /\ UNCHANGED <<indexed, lease, timer, hookEvent, holder, ownedWork, gate, routesWorld>>

SweepExited(i) ==
    /\ instance[i].state = "exited" /\ i \in indexed /\ ~instance[i].manual
    /\ Become(ClearWorker([Now EXCEPT !.indexed = @ \ {i}], i))
    /\ UNCHANGED <<holder, gate, routesWorld>>

\* The asynchronous stop of stopTransient, or the shutdown's, has joined the process.
StopEnds(i) ==
    /\ instance[i].manual /\ instance[i].state \in {"ready", "exited", "stopped"}
    /\ instance[i].stops = 1 \/ instance[i].state # "stopped"
    /\ instance' = [instance EXCEPT ![i].state = "stopped", ![i].stops = 0]
    /\ ownedWork' = ownedWork - instance[i].stops
    /\ UNCHANGED <<indexed, lease, timer, hookEvent, holder, gate, routesWorld>>

\* Close stops the indexed instances itself.
CloseRoutes ==
    /\ "close" \in routesWorld /\ gate = "open" /\ gate' = "closing"
    /\ Become(LET s == CancelTokens(ClearLease(Now), Instances) IN
              [s EXCEPT !.instance = [i \in Instances |-> [s.instance[i] EXCEPT !.manual = @ \/ i \in indexed]]])
    /\ UNCHANGED <<holder, routesWorld>>

\* Mutant: the shutdown only waits for the indexed instances.
WorkJoinedIndexed == \A i \in indexed : instance[i].state = "stopped"

\* finishClose: the indexed instances, then workWG.
WorkJoined == ownedWork = 0 /\ \A i \in indexed : instance[i].state = "stopped"

RoutesClosed ==
    /\ gate = "closing" /\ WorkJoined
    /\ gate' = "closed"
    /\ UNCHANGED <<instance, indexed, lease, timer, hookEvent, holder, ownedWork, routesWorld>>

EventStep(e) ==
    \/ NotTriggered(e) \/ WaitReady(e) \/ LockRoute(e) \/ BeginInvocation(e) \/ RequestFails(e)
    \/ SetLease(e) \/ Completed(e) \/ EndHandle(e) \/ LeaveHandle(e)

RoutesNext ==
    \/ \E e \in Events : LookupLease(e) \/ LockAbandoned(e) \/ EventStep(e) \/ \E i \in Instances : StartTransient(e, i)
    \/ \E l \in Leases : LeaseElapses(l) \/ ExpireLease(l)
    \/ \E i \in Instances : BecomesReady(i) \/ InstanceExits(i) \/ SweepExited(i) \/ StopEnds(i)
    \/ CancelRoute \/ CloseRoutes \/ RoutesClosed

RoutesFairness ==
    /\ \A e \in Events : WF_routesVars(EventStep(e))
    /\ \A l \in Leases : WF_routesVars(ExpireLease(l))
    /\ \A i \in Instances : WF_routesVars(BecomesReady(i)) /\ WF_routesVars(StopEnds(i)) /\ WF_routesVars(SweepExited(i))
    /\ WF_routesVars(RoutesClosed)

RoutesSpec == RoutesInit /\ [][RoutesNext]_routesVars /\ RoutesFairness

-----------------------------------------------------------------------------
(* Properties.                                                              *)

\* The counter of owned work is the number of invocations, of timers that may still
\* call back and of asynchronous stops: the shutdown waits for all and only these.
WorkCounted ==
    ownedWork = Cardinality({e \in Events : hookEvent[e].token}) + Cardinality({l \in Leases : timer[l].state \in {"armed", "fired"}})
           + Cardinality({i \in Instances : instance[i].stops = 1})

\* A waiting lease always has its timer and belongs to an instance that nobody has
\* stopped, whatever stop, exit or cancellation raced with the answer that set it.
LeaseIsLive ==
    lease # NoLease => /\ timer[lease.number].state \in {"armed", "fired"}
                       /\ ~instance[lease.of].manual
                       /\ lease.of \in indexed

\* Two events of one route are never inside one worker at the same time.
RouteSerial ==
    \A e, f \in Events :
        /\ e # f /\ hookEvent[e].of = hookEvent[f].of
        /\ hookEvent[e].at \in {"active", "invoked", "ending", "leaving"}
        => hookEvent[f].at \in {"starting", "locking"}

\* A transient process exists only for an event or a lease, so that none is left behind;
\* a caller that gives up at the route lock ("giveup") breaks it.
TransientOwned ==
    \A i \in Instances : gate = "open" /\ instance[i].state = "ready" /\ ~instance[i].manual =>
        /\ i \in indexed
        /\ lease.of = i \/ \E e \in Events : hookEvent[e].of = i

\* An expiry callback removes no lease but its own: a renewed lease outlives the
\* timers of the ones before it.
StaleTimerHarmless ==
    [][\A l \in Leases : timer[l].state = "fired" /\ timer'[l].state = "over" /\ lease # NoLease /\ lease.number # l
          => lease' = lease]_routesVars

\* When the manager reports its end, no transient process, timer or invocation is left,
\* the ones that had already left the index included.
RoutesClosedLast ==
    gate = "closed" => /\ \A i \in Instances : instance[i].state \in {"unused", "exited", "stopped"}
                       /\ \A l \in Leases : timer[l].state \in {"none", "over"}
                       /\ \A e \in Events : ~hookEvent[e].token

\* The shutdown completes, although it waits for callbacks and stops it no longer indexes.
RoutesClose == gate = "closing" ~> gate = "closed"
=============================================================================
