--------------------------- MODULE SessionControl ---------------------------
(***************************************************************************)
(* The session service (internal/session/control and branch): session      *)
(* rows, the binding of each scope, the idle timer of each binding, and    *)
(* what executions, hooks, timers, maintenance and the shutdown do to      *)
(* them.  An operation that runs inside one admission is one action:       *)
(* SessionAdmission shows that admissions exclude each other.  What takes  *)
(* no admission (an execution's end, a timer's firing, the shutdown)       *)
(* interleaves, and the timer's callback is two actions.                   *)
(***************************************************************************)
EXTENDS Naturals, FiniteSets

CONSTANTS
    Scopes,       \* who talks where
    Sessions,     \* session ids
    Timed,        \* the scopes whose idle expiration is enabled (ttl > 0)
    Worlds,       \* what may happen beside messages: a set of sets of Happenings
    MaxBindings,  \* bound: activations
    MaxSchedules, \* bound: timer versions of one binding
    MaxCalls,     \* bound: callbacks of timers that run at once
    Nobody        \* no binding

Happenings == {"stop", "hook", "fork", "background", "compact", "cleanup", "close"}

ASSUME ControlAssumption ==
    /\ Timed \subseteq Scopes
    /\ Worlds \subseteq SUBSET Happenings
    /\ MaxBindings \in Nat /\ MaxSchedules \in Nat /\ MaxCalls \in Nat

VARIABLES
    rows,      \* the stored kind of each session
    aged,      \* sessions whose updated_at is before the cleanup's cutoff
    current,   \* the binding of each scope
    epoch,     \* activations so far: the version of the newest binding
    idle,      \* idleBinding of each tracked binding
    calls,     \* timer callbacks running
    timers,    \* the WaitGroup's count
    service,   \* started, closed, done
    work,      \* what keeps a session active: turns, paused turns, hook requests
    notices,   \* sessions a goroutine is about to call SessionIdle for
    caches,    \* sessions with state in memory that ReleaseSession drops
    fork,      \* the branch operation between its two admissions
    sweep,     \* ids ListExpiredIDs returned that CleanupExpired still visits
    world      \* the happenings of this behaviour, which never change

controlVars == <<rows, aged, current, epoch, idle, calls, timers, service, work,
                 notices, caches, fork, sweep, world>>

Kinds == {"absent", "foreground", "background", "promoted", "deleted"}
Works == {"turn", "paused", "hook"}
Bindings == [scope : Scopes, session : Sessions, version : 1 .. MaxBindings]
Forks == [op : {"fork", "copy"}, scope : Scopes, source : Sessions,
          original : Bindings \cup {Nobody}]
NoFork == [op |-> "none"]

\* Nobody is neither a session nor a binding.
ASSUME NobodyAssumption == Nobody \notin Sessions \cup [scope : Scopes, session : Sessions, version : Nat]

ControlTypeOK ==
    /\ rows \in [Sessions -> Kinds]
    /\ aged \subseteq Sessions
    /\ current \in [Scopes -> Bindings \cup {Nobody}]
    /\ epoch \in 0 .. MaxBindings
    /\ DOMAIN idle \subseteq Bindings
    /\ \A b \in DOMAIN idle : idle[b] \in
          [deadline : {"none", "ahead", "past"}, version : Nat,
           timer : {"none", "armed", "fired"}]
    /\ calls \subseteq [binding : Bindings, version : Nat,
                        at : {"entering", "checked"}]
    /\ timers \in Nat
    /\ service \in {"started", "closed", "done"}
    /\ work \in [Sessions -> SUBSET Works]
    /\ notices \subseteq Sessions /\ caches \subseteq Sessions
    /\ fork \in Forks \cup {NoFork}
    /\ sweep \subseteq Sessions
    /\ world \in Worlds

ControlInit ==
    /\ rows = [s \in Sessions |-> "absent"]
    /\ aged = {}
    /\ current = [sc \in Scopes |-> Nobody]
    /\ epoch = 0
    /\ idle = [b \in {} |-> Nobody]
    /\ calls = {}
    /\ timers = 0
    /\ service = "started"
    /\ work = [s \in Sessions |-> {}]
    /\ notices = {} /\ caches = {} /\ sweep = {}
    /\ fork = NoFork
    /\ world \in Worlds

-----------------------------------------------------------------------------
(* What the operations look at.                                             *)

Stored(s) == rows[s] \in {"foreground", "background", "promoted"}
InUse(s) == work[s] # {}
BoundTo(s) == {b \in DOMAIN idle : b.session = s}
Holding(b) == \E c \in calls : c.at = "checked" /\ c.binding = b

\* No callback is inside an admission of the scope, or of the session.
FreeScope(sc) == \A c \in calls : c.at = "checked" => c.binding.scope # sc
FreeSession(s) == \A c \in calls : c.at = "checked" => c.binding.session # s

\* Mutant: a busy session is replaced.
CanReplaceAny(sc, target) == TRUE

\* canReplaceCurrent
CanReplaceCurrent(sc, target) ==
    LET b == current[sc] IN
    b # Nobody /\ b.session # target => ~InUse(b.session)

Activatable(sc, s) ==
    /\ FreeScope(sc) /\ FreeSession(s)
    /\ current[sc] # Nobody => FreeSession(current[sc].session)

-----------------------------------------------------------------------------
(* Timers.  A state with its timer stopped, and scheduled again.            *)

StopTimer(st) == [st EXCEPT !.version = @ + 1, !.timer = "none"]

Schedule(b, st) ==
    IF service = "started" /\ b.scope \in Timed /\ st.deadline # "none"
    THEN [StopTimer(st) EXCEPT !.timer = "armed"]
    ELSE StopTimer(st)

Armed(f) == Cardinality({b \in DOMAIN f : f[b].timer = "armed"})

\* Mutant: a timer that has fired is taken off the WaitGroup by its stop as well.
RetimedFired(f) == timers' = timers + Armed(f) - Cardinality({b \in DOMAIN idle : idle[b].timer # "none"})

\* Stop and AfterFunc keep the WaitGroup at the armed timers and the callbacks.
Retimed(f) == timers' = timers + Armed(f) - Armed(idle)

Room(b) == idle[b].version + 2 < MaxSchedules

\* Mutant: the first activity starts the clock.
TrackUntimed(b) == [deadline |-> "none", version |-> 1, timer |-> "none"]

\* trackBinding
TrackBinding(b) ==
    Schedule(b, [deadline |-> IF InUse(b.session) THEN "none" ELSE "ahead",
                 version |-> 0, timer |-> "none"])

Refreshed(b) ==
    Schedule(b, [idle[b] EXCEPT !.deadline = IF InUse(b.session) THEN "none" ELSE "ahead"])

-----------------------------------------------------------------------------
(* SetCurrent and clearSessionBindings: the binding, its timer, the caches. *)

\* Mutant: a replaced binding stays indexed.
DropNothing(S) == idle

\* forgetBinding for the bindings of S
Drop(S) == [b \in DOMAIN idle \ S |-> idle[b]]

\* Mutant: nobody releases.
ReleaseNever(s, tracked, kept) == kept

\* releaseSessionIfIdle
ReleaseIfIdle(s, tracked, kept) ==
    IF \A b \in DOMAIN tracked : b.session # s
       THEN IF InUse(s) THEN kept ELSE kept \ {s}
       ELSE kept

SetCurrent(sc, target) ==
    LET old == current[sc]
        next == IF target = Nobody THEN Nobody
                ELSE [scope |-> sc, session |-> target, version |-> epoch + 1]
        left == Drop({old})
        tracked == IF next = Nobody THEN left
                   ELSE [b \in DOMAIN left \cup {next} |->
                           IF b = next THEN TrackBinding(next) ELSE left[b]]
    IN IF (IF old = Nobody THEN Nobody ELSE old.session) = target
       THEN UNCHANGED <<current, epoch, idle, timers, caches>>
       ELSE /\ next # Nobody => epoch < MaxBindings
            /\ current' = [current EXCEPT ![sc] = next]
            /\ epoch' = IF next = Nobody THEN epoch ELSE epoch + 1
            /\ idle' = tracked
            /\ Retimed(tracked)
            /\ caches' = IF old = Nobody THEN caches
                         ELSE ReleaseIfIdle(old.session, tracked, caches)

ClearSessionBindings(s) ==
    LET left == Drop(BoundTo(s)) IN
    /\ current' = [sc \in Scopes |->
                     IF current[sc] # Nobody /\ current[sc].session = s THEN Nobody ELSE current[sc]]
    /\ idle' = left
    /\ Retimed(left)
    /\ caches' = ReleaseIfIdle(s, left, caches)

-----------------------------------------------------------------------------
(* Current session: create, reset, resume, promote, delete.                 *)

CreateSession(sc, s) ==
    /\ service = "started"
    /\ Activatable(sc, s) /\ rows[s] = "absent"
    /\ CanReplaceCurrent(sc, Nobody)
    /\ rows' = [rows EXCEPT ![s] = "foreground"]
    /\ SetCurrent(sc, s)
    /\ UNCHANGED <<aged, calls, service, work, notices, fork, sweep, world>>

ResetCurrent(sc) ==
    /\ service = "started"
    /\ current[sc] # Nobody /\ Activatable(sc, current[sc].session)
    /\ CanReplaceCurrent(sc, Nobody)
    /\ SetCurrent(sc, Nobody)
    /\ UNCHANGED <<rows, aged, calls, service, work, notices, fork, sweep, world>>

\* Resume, ResumeLast and Unarchive: a background session is promoted for good
\* and its running execution adopts the binding.
ActivateExisting(sc, s) ==
    /\ service = "started"
    /\ Activatable(sc, s) /\ Stored(s)
    /\ CanReplaceCurrent(sc, s)
    /\ rows' = [rows EXCEPT ![s] = IF @ = "background" THEN "promoted" ELSE @]
    /\ aged' = aged \ {s}
    /\ SetCurrent(sc, s)
    /\ UNCHANGED <<calls, service, work, notices, fork, sweep, world>>

DeleteSession(sc, s) ==
    /\ service = "started"
    /\ Activatable(sc, s) /\ Stored(s)
    /\ ~InUse(s)
    /\ rows' = [rows EXCEPT ![s] = "deleted"]
    /\ ClearSessionBindings(s)
    /\ UNCHANGED <<aged, epoch, calls, service, work, notices, fork, sweep, world>>

PrepareBackground(s) ==
    /\ "background" \in world /\ service = "started"
    /\ FreeSession(s) /\ rows[s] \in {"absent", "background"}
    /\ rows' = [rows EXCEPT ![s] = "background"]
    /\ aged' = aged \ {s}
    /\ UNCHANGED <<current, epoch, idle, calls, timers, service, work, notices, caches, fork, sweep, world>>

-----------------------------------------------------------------------------
(* CleanupExpired: a list of ids, then one admission for each.              *)

\* Time passes: the row's updated_at falls behind the cutoff.
Age(s) ==
    /\ "cleanup" \in world
    /\ Stored(s) /\ aged = {}  \* bound: one session at a time
    /\ aged' = aged \cup {s}
    /\ UNCHANGED <<rows, current, epoch, idle, calls, timers, service, work, notices, caches, fork, sweep, world>>

ListExpired ==
    /\ sweep = {} /\ {s \in aged : Stored(s)} # {}
    /\ sweep' = {s \in aged : Stored(s)}
    /\ UNCHANGED <<rows, aged, current, epoch, idle, calls, timers, service, work, notices, caches, fork, world>>

CleanupExpired(s) ==
    /\ s \in sweep /\ FreeSession(s)
    /\ sweep' = sweep \ {s}
    /\ IF ~InUse(s) /\ Stored(s) /\ s \in aged
       THEN rows' = [rows EXCEPT ![s] = "deleted"] /\ ClearSessionBindings(s)
       ELSE UNCHANGED <<rows, current, idle, timers, caches>>
    /\ UNCHANGED <<aged, epoch, calls, service, work, notices, fork, world>>

-----------------------------------------------------------------------------
(* Fork and CopyBackground: capture, prepare outside, check again, commit.  *)

ForkCapture(op, sc, s) ==
    /\ "fork" \in world /\ service = "started"
    /\ fork = NoFork
    /\ Activatable(sc, s) /\ Stored(s)
    /\ CASE op = "fork" -> current[sc] # Nobody => ~InUse(current[sc].session)
         [] op = "copy" -> rows[s] = "background" /\ ~InUse(s)
    /\ fork' = [op |-> op, scope |-> sc, source |-> s, original |-> current[sc]]
    /\ UNCHANGED <<rows, aged, current, epoch, idle, calls, timers, service, work, notices, caches, sweep, world>>

ForkAbandon ==
    /\ fork # NoFork
    /\ fork' = NoFork
    /\ UNCHANGED <<rows, aged, current, epoch, idle, calls, timers, service, work, notices, caches, sweep, world>>

ForkCommit(s) ==
    LET sc == fork.scope IN
    /\ fork # NoFork /\ fork.op = "fork"
    /\ rows[s] = "absent" /\ Activatable(sc, s) /\ FreeSession(fork.source)
    /\ current[sc] = fork.original
    /\ CanReplaceCurrent(sc, Nobody)
    /\ Stored(fork.source)
    /\ rows' = [rows EXCEPT ![s] = "foreground"]
    /\ SetCurrent(sc, s)
    /\ fork' = NoFork
    /\ UNCHANGED <<aged, calls, service, work, notices, sweep, world>>

CopyCommit(s) ==
    /\ fork # NoFork /\ fork.op = "copy"
    /\ rows[s] = "absent" /\ FreeSession(fork.source)
    /\ rows[fork.source] = "background" /\ ~InUse(fork.source)
    /\ rows' = [rows EXCEPT ![s] = "background"]
    /\ fork' = NoFork
    /\ UNCHANGED <<aged, current, epoch, idle, calls, timers, service, work, notices, caches, sweep, world>>

\* CreateCompacted: the running turn moves with the binding to a new session;
\* the source's compaction run ends afterwards like any other work.
Compact(sc, s) ==
    LET b == current[sc] IN
    /\ "compact" \in world
    /\ b # Nobody /\ "turn" \in work[b.session]
    /\ Activatable(sc, s) /\ rows[s] = "absent"
    /\ rows' = [rows EXCEPT ![s] = "foreground"]
    /\ SetCurrent(sc, s)
    /\ work' = [work EXCEPT ![s] = @ \cup {"turn"}]
    /\ UNCHANGED <<aged, calls, service, notices, fork, sweep, world>>

-----------------------------------------------------------------------------
(* Activity.  A message refreshes its binding, then a turn is reserved.     *)

RecordActivity(b) ==
    /\ service = "started"
    /\ current[b.scope] = b /\ FreeScope(b.scope) /\ FreeSession(b.session)
    /\ Room(b)
    /\ LET f == [idle EXCEPT ![b] = Refreshed(b)] IN idle' = f /\ Retimed(f)
    /\ work' \in {work, [work EXCEPT ![b.session] = IF @ \cap {"turn", "paused"} = {}
                                                    THEN @ \cup {"turn"} ELSE @]}
    /\ caches' = IF InUse(b.session) \/ work' # work THEN caches \cup {b.session} ELSE caches
    /\ aged' = aged \ {b.session}
    /\ UNCHANGED <<rows, current, epoch, calls, service, notices, fork, sweep, world>>

\* A hook handler's request, or a background run of the session.
BeginWork(s, kind) ==
    /\ service = "started"
    /\ FreeSession(s) /\ Stored(s) /\ kind \notin work[s]
    /\ \A b \in BoundTo(s) : Room(b)
    /\ \/ kind = "hook" /\ "hook" \in world
       \/ kind = "turn" /\ rows[s] = "background" /\ work[s] \cap {"turn", "paused"} = {}
    /\ work' = [work EXCEPT ![s] = @ \cup {kind}]
    /\ caches' = caches \cup {s}
    /\ UNCHANGED <<rows, aged, current, epoch, idle, calls, timers, service, notices, fork, sweep, world>>

\* The work's goroutine has left; its last call will be SessionIdle.
EndWork(s, kind) ==
    /\ kind \in work[s] \cap {"turn", "hook"}
    /\ work' = [work EXCEPT ![s] = @ \ {kind}]
    /\ notices' = notices \cup {s}
    /\ UNCHANGED <<rows, aged, current, epoch, idle, calls, timers, service, caches, fork, sweep, world>>

\* A message interrupts the turn and waits for the user's y: the attempt leaves,
\* the entry stays without a goroutine.
Pause(s) ==
    /\ "turn" \in work[s]
    /\ work' = [work EXCEPT ![s] = (@ \ {"turn"}) \cup {"paused"}]
    /\ notices' = notices \cup {s}
    /\ UNCHANGED <<rows, aged, current, epoch, idle, calls, timers, service, caches, fork, sweep, world>>

\* y: ResumeAppend records activity and the turn runs on.
ResumeAppend(b) ==
    /\ service = "started"
    /\ current[b.scope] = b /\ FreeScope(b.scope) /\ FreeSession(b.session)
    /\ "paused" \in work[b.session] /\ Room(b)
    /\ LET f == [idle EXCEPT ![b] = Refreshed(b)] IN idle' = f /\ Retimed(f)
    /\ work' = [work EXCEPT ![b.session] = (@ \ {"paused"}) \cup {"turn"}]
    /\ UNCHANGED <<rows, aged, current, epoch, calls, service, notices, caches, fork, sweep, world>>

\* /stop removes a paused entry at once; no goroutine is left to report it.
StopPaused(b) ==
    /\ "stop" \in world
    /\ current[b.scope] = b /\ FreeScope(b.scope) /\ FreeSession(b.session)
    /\ "paused" \in work[b.session]
    /\ work' = [work EXCEPT ![b.session] = @ \ {"paused"}]
    /\ UNCHANGED <<rows, aged, current, epoch, idle, calls, timers, service, notices, caches, fork, sweep, world>>

SessionIdle(s) ==
    /\ s \in notices /\ FreeSession(s)
    /\ notices' = notices \ {s}
    /\ LET f == [b \in DOMAIN idle |-> IF b.session = s
                   THEN Schedule(b, [idle[b] EXCEPT !.deadline = "ahead"]) ELSE idle[b]] IN
       CASE InUse(s) -> UNCHANGED <<idle, timers, caches>>
         [] ~InUse(s) /\ BoundTo(s) = {} ->
              caches' = caches \ {s} /\ UNCHANGED <<idle, timers>>
         [] ~InUse(s) /\ BoundTo(s) # {} /\ service # "started" ->
              UNCHANGED <<idle, timers, caches>>
         [] ~InUse(s) /\ BoundTo(s) # {} /\ service = "started" ->
              idle' = f /\ Retimed(f) /\ UNCHANGED caches
    /\ UNCHANGED <<rows, aged, current, epoch, calls, service, work, fork, sweep, world>>

-----------------------------------------------------------------------------
(* The timers.                                                              *)

\* Time passes beyond a deadline.
Elapse(b) ==
    /\ idle[b].deadline = "ahead"
    /\ idle' = [idle EXCEPT ![b].deadline = "past"]
    /\ UNCHANGED <<rows, aged, current, epoch, calls, timers, service, work, notices, caches, fork, sweep, world>>

\* The runtime starts the callback, usually after the deadline and, when the
\* clock was set, before it.
FireTimer(b) ==
    /\ idle[b].timer = "armed"
    /\ idle[b].deadline = "past" \/ Room(b)
    /\ Cardinality(calls) < MaxCalls
    /\ calls' = calls \cup {[binding |-> b, version |-> idle[b].version, at |-> "entering"]}
    /\ idle' = [idle EXCEPT ![b].timer = "fired"]
    /\ UNCHANGED <<rows, aged, current, epoch, timers, service, work, notices, caches, fork, sweep, world>>

\* Mutant: a refused callback forgets the WaitGroup.
LeaveUncounted(c) == calls' = calls \ {c} /\ UNCHANGED timers

\* The callback returns: timers.Done.
Leave(c) == calls' = calls \ {c} /\ timers' = timers - 1

\* expireBinding up to the first unlock: the admission is refused, or the timer
\* was rescheduled meanwhile, or the callback is the current one.
ExpireEnter(c) ==
    LET b == c.binding
        stale == service # "started" \/ b \notin DOMAIN idle \/ idle[b].version # c.version
    IN /\ c \in calls /\ c.at = "entering"
       /\ service = "started" /\ current[b.scope] = b
             => FreeScope(b.scope) /\ FreeSession(b.session)
       /\ IF service # "started" \/ current[b.scope] # b \/ stale
          THEN Leave(c) /\ UNCHANGED idle
          ELSE /\ calls' = (calls \ {c}) \cup {[c EXCEPT !.at = "checked"]}
               /\ idle' = [idle EXCEPT ![b].timer = "none"]
               /\ UNCHANGED timers
       /\ UNCHANGED <<rows, aged, current, epoch, service, work, notices, caches, fork, sweep, world>>

\* Mutant: a callback that starts early expires the binding.
NeverEarly(st) == FALSE

TooEarly(st) == st.deadline = "ahead"

\* The rest of expireBinding, inside the admission: busy, too early, or expired.
ExpireDecide(c) ==
    LET b == c.binding
        st == idle[b]
        left == Drop({b})
        again == [idle EXCEPT ![b] = Schedule(b, st)]
    IN /\ c \in calls /\ c.at = "checked"
       /\ calls' = calls \ {c}
       /\ CASE InUse(b.session) ->
                 /\ idle' = [idle EXCEPT ![b].deadline = "none"]
                 /\ timers' = timers - 1
                 /\ UNCHANGED <<current, epoch, caches>>
            [] ~InUse(b.session) /\ TooEarly(st) ->
                 /\ idle' = again
                 /\ timers' = timers - 1 + Armed(again) - Armed(idle)
                 /\ UNCHANGED <<current, epoch, caches>>
            [] ~InUse(b.session) /\ ~TooEarly(st) ->
                 /\ current' = [current EXCEPT ![b.scope] = Nobody]
                 /\ idle' = left
                 /\ timers' = timers - 1 + Armed(left) - Armed(idle)
                 /\ caches' = ReleaseIfIdle(b.session, left, caches)
                 /\ UNCHANGED epoch
       /\ UNCHANGED <<rows, aged, service, work, notices, fork, sweep, world>>

-----------------------------------------------------------------------------
(* Shutdown.                                                                *)

BeginClose ==
    /\ "close" \in world /\ service = "started"
    /\ service' = "closed"
    /\ LET f == [b \in DOMAIN idle |-> StopTimer(idle[b])] IN idle' = f /\ Retimed(f)
    /\ UNCHANGED <<rows, aged, current, epoch, calls, work, notices, caches, fork, sweep, world>>

\* Close is called when callers and executions have left; it waits for the timers.
Close ==
    /\ service = "closed" /\ timers = 0
    /\ notices = {} /\ \A s \in Sessions : work[s] \subseteq {"paused"}
    /\ sweep = {} /\ fork = NoFork
    /\ service' = "done"
    /\ UNCHANGED <<rows, aged, current, epoch, idle, calls, timers, work, notices, caches, fork, sweep, world>>

ControlNext ==
    \/ \E sc \in Scopes : ResetCurrent(sc)
    \/ \E sc \in Scopes, s \in Sessions :
          \/ CreateSession(sc, s) \/ ActivateExisting(sc, s) \/ DeleteSession(sc, s) \/ Compact(sc, s)
          \/ \E op \in {"fork", "copy"} : ForkCapture(op, sc, s)
    \/ ForkAbandon \/ ListExpired \/ BeginClose \/ Close
    \/ \E s \in Sessions :
          \/ PrepareBackground(s) \/ Age(s) \/ CleanupExpired(s)
          \/ ForkCommit(s) \/ CopyCommit(s) \/ Pause(s) \/ SessionIdle(s)
          \/ \E kind \in {"turn", "hook"} : BeginWork(s, kind) \/ EndWork(s, kind)
    \/ \E b \in DOMAIN idle :
          RecordActivity(b) \/ ResumeAppend(b) \/ StopPaused(b) \/ Elapse(b) \/ FireTimer(b)
    \/ \E c \in calls : ExpireEnter(c) \/ ExpireDecide(c)

-----------------------------------------------------------------------------
(* Properties.                                                              *)

\* A binding whose session is idle, with no SessionIdle call on its way, has its
\* timer running (expiration.go: "after being busy, SessionIdle restarts the clock").
IdleBindingsTimed ==
    \A b \in DOMAIN idle :
       service = "started" /\ b.scope \in Timed /\ ~InUse(b.session) /\ b.session \notin notices
       => \/ idle[b].timer = "armed"
          \/ \E c \in calls : c.binding = b /\ (c.at = "checked" \/ c.version = idle[b].version)

\* The WaitGroup counts the armed timers and the callbacks that have not returned,
\* so that Close returns after the last of them.
TimersCounted ==
    /\ timers = Armed(idle) + Cardinality(calls)
    /\ service = "done" => calls = {}

\* The timers' index, the bindings and the rows agree: a tracked binding is the
\* current one of its scope, and its session is stored and not a background one.
TrackedAreCurrent ==
    /\ DOMAIN idle = {current[sc] : sc \in Scopes} \ {Nobody}
    /\ \A b \in DOMAIN idle : rows[b.session] \in {"foreground", "promoted"}

\* State kept in memory for a session is dropped once nothing uses the session:
\* whoever leaves last, execution or binding, releases it.
CachesReleased ==
    service = "started" => \A s \in caches : InUse(s) \/ BoundTo(s) # {} \/ s \in notices

\* A session in use keeps its binding: only a compaction moves it, together with the turn.
BusyKeepsBinding ==
    [][\A sc \in Scopes :
         current[sc] # Nobody /\ InUse(current[sc].session) /\ current'[sc] # current[sc]
         => current'[sc] # Nobody /\ "turn" \in work'[current'[sc].session]]_controlVars

\* A timer retires a binding only when the deadline set by the last activity has passed:
\* no callback of an earlier schedule does.
ExpiresAfterDeadline ==
    [][\A b \in DOMAIN idle :
         Holding(b) /\ b \notin DOMAIN idle' => idle[b].deadline = "past"]_controlVars

ControlSpec == ControlInit /\ [][ControlNext]_controlVars
=============================================================================
