-------------------------- MODULE SessionAdmission --------------------------
(***************************************************************************)
(* The session manager's admission and bindings (internal/session/binding).*)
(* A goroutine enters one or more nested leases: EnterScope, EnterSessions,*)
(* EnterActivation (the scope, then the targets and the session the scope  *)
(* is bound to), EnterBinding (the scope and session of a binding it saw), *)
(* or enterTarget (a scope and an activation nested in it).  A key's lock  *)
(* is a gate object, made on demand, counted and dropped when nobody holds *)
(* or awaits it.  Inside, the goroutine may change the binding of its      *)
(* scope (SetCurrent) or clear those of a session (ClearSessionBindings);  *)
(* the events go out when its outermost lease has released its gates.      *)
(*                                                                         *)
(* A step is one critical section of the manager's mutex or one channel    *)
(* operation.  Binding handles are named by their version.                 *)
(***************************************************************************)
EXTENDS FiniteSets, Naturals

CONSTANTS Scopes, Sessions, Clients,
          Gates,      \* gate objects; an unreferenced one may be made again
          MaxVersion, \* bound of the binding version
          Enters,     \* the entry points used
          Nil

VARIABLES
    gates, refs, token,   \* the map of gates; of each gate its count and token
    active,               \* admitted calls
    closed,               \* BeginClose was called
    idles,                \* how often the idle channel was closed
    torn,                 \* Close has dropped the maps
    version, current,     \* the last version, the binding of each scope
    bound,                \* what each version is a binding of, and if it is valid
    delivered,            \* versions whose event was emitted
    pc, job,              \* of each client: its place and what it entered for
    level,                \* its depth of leases
    todo,                 \* keys the lease being entered still wants
    ref,                  \* the gate object it counts on for a key
    at,                   \* the lease a key is held by, 0 when it is not held
    queued,               \* committed versions its outermost lease will publish
    canceled              \* its context was canceled

gateVars == <<gates, refs, token>>
lifeVars == <<active, closed, idles, torn>>
bindVars == <<version, current, bound>>
vars == <<gates, refs, token, active, closed, idles, torn, version, current,
          bound, delivered, pc, job, level, todo, ref, at, queued, canceled>>

Locks == INSTANCE AdmissionLocks
         WITH held <- [c \in Clients |-> {k \in DOMAIN at[c] : at[c][k] # 0}]

Keys == Locks!Keys
Before(k, l) == Locks!Before(k, l)

ScopeKey(s) == <<0, s>>
SessionKey(i) == <<1, i>>

Versions == 1 .. MaxVersion

EntryPoints == {"scope", "sessions", "activation", "binding", "target"}

ASSUME NamesAssumption == /\ Scopes \subseteq Nat /\ IsFiniteSet(Scopes)
                          /\ Sessions \subseteq Nat

ASSUME EntersAssumption == Enters \subseteq EntryPoints /\ MaxVersion \in Nat

ASSUME NilAssumption == Nil \notin Gates

\* What a client entered for.  ids are the sessions it names.
Job == [enter : EntryPoints, scope : Scopes \cup {Nil}, ids : SUBSET Sessions,
        binding : Versions \cup {0}]

NoJob == [enter |-> "scope", scope |-> Nil, ids |-> {}, binding |-> 0]

Unbound == [scope |-> Nil, session |-> Nil, valid |-> FALSE]

Pcs == {"out", "admit", "want", "acquire", "check", "inside", "leave", "finish"}

TypeOK ==
    /\ gates \in [Keys -> Gates \cup {Nil}]
    /\ refs \in [Gates -> Nat] /\ token \in [Gates -> BOOLEAN]
    /\ active \in Nat /\ closed \in BOOLEAN /\ idles \in Nat /\ torn \in BOOLEAN
    /\ version \in 0 .. MaxVersion
    /\ current \in [Scopes -> Versions \cup {0}]
    /\ bound \in [Versions -> [scope : Scopes \cup {Nil},
                               session : Sessions \cup {Nil}, valid : BOOLEAN]]
    /\ delivered \subseteq Versions
    /\ pc \in [Clients -> Pcs] /\ job \in [Clients -> Job]
    /\ level \in [Clients -> 0 .. 3]
    /\ todo \in [Clients -> SUBSET Keys]
    /\ ref \in [Clients -> [Keys -> Gates \cup {Nil}]]
    /\ at \in [Clients -> [Keys -> 0 .. 3]]
    /\ queued \in [Clients -> SUBSET Versions]
    /\ canceled \subseteq Clients

Init ==
    /\ gates = [k \in Keys |-> Nil]
    /\ refs = [g \in Gates |-> 0] /\ token = [g \in Gates |-> FALSE]
    /\ active = 0 /\ closed = FALSE /\ idles = 0 /\ torn = FALSE
    /\ version = 0 /\ current = [s \in Scopes |-> 0]
    /\ bound = [v \in Versions |-> Unbound]
    /\ delivered = {}
    /\ pc = [c \in Clients |-> "out"] /\ job = [c \in Clients |-> NoJob]
    /\ level = [c \in Clients |-> 0]
    /\ todo = [c \in Clients |-> {}]
    /\ ref = [c \in Clients |-> [k \in Keys |-> Nil]]
    /\ at = [c \in Clients |-> [k \in Keys |-> 0]]
    /\ queued = [c \in Clients |-> {}]
    /\ canceled = {}

-----------------------------------------------------------------------------
Held(c) == {k \in Keys : at[c][k] # 0}

Goto(c, l) == pc' = [pc EXCEPT ![c] = l]

Stay(c, l) == Goto(c, l) /\ UNCHANGED <<job, canceled>>

\* The outermost call is over; its context is forgotten.
Return(c) == /\ Goto(c, "out")
             /\ job' = [job EXCEPT ![c] = NoJob]
             /\ canceled' = canceled \ {c}

\* CurrentBinding: the session a scope is bound to, if any.
CurrentIds(s) == IF current[s] = 0 THEN {} ELSE {bound[current[s]].session}

SessionKeys(ids) == {SessionKey(i) : i \in ids}

Depth(j) == CASE j.enter \in {"scope", "sessions"}      -> 1
              [] j.enter \in {"activation", "binding"}  -> 2
              [] j.enter = "target"                     -> 3

\* Mutant: EnterBinding does not lock the session.
AskedScopeOnly(j, n) ==
    IF j.enter = "sessions" THEN SessionKeys(j.ids)
    ELSE IF n < Depth(j) \/ j.enter \in {"scope", "binding"} THEN {ScopeKey(j.scope)}
    ELSE SessionKeys(j.ids \cup CurrentIds(j.scope))

\* The keys the n-th nested lease of a job asks for.
Asked(j, n) ==
    IF j.enter = "sessions" THEN SessionKeys(j.ids)
    ELSE IF n < Depth(j) \/ j.enter = "scope" THEN {ScopeKey(j.scope)}
    ELSE IF j.enter = "binding" THEN SessionKeys({bound[j.binding].session})
    ELSE SessionKeys(j.ids \cup CurrentIds(j.scope))

\* A goroutine calls an entry point, with a fresh context.  A binding is one that
\* was current when it looked, outside any admission.  A target is one session (a
\* blank one stands for the scope's own and is looked up before it is locked).
Begin(c) ==
    /\ pc[c] = "out"
    /\ \E e \in Enters, s \in Scopes, ids \in SUBSET Sessions :
         /\ e = "sessions" => ids # {}
         /\ e \in {"scope", "binding"} => ids = {}
         /\ e = "target" => Cardinality(ids) = 1
         /\ e = "binding" => current[s] # 0
         /\ LET j == [enter |-> e, scope |-> s, ids |-> ids,
                      binding |-> IF e = "binding" THEN current[s] ELSE 0]
            IN  /\ job' = [job EXCEPT ![c] = j]
                /\ todo' = [todo EXCEPT ![c] = Asked(j, 1)]
    /\ Goto(c, "admit")
    /\ UNCHANGED <<gateVars, lifeVars, bindVars, delivered, level, ref, at, queued,
                   canceled>>

\* Later a canceled context changes nothing here.
Cancel(c) ==
    /\ pc[c] \in {"admit", "want", "acquire", "check"}
    /\ canceled' = canceled \cup {c}
    /\ UNCHANGED <<gateVars, lifeVars, bindVars, delivered, pc, job, level, todo,
                   ref, at, queued>>

-----------------------------------------------------------------------------
(* enterKeys.                                                               *)

\* Keys held by an outer lease are not taken again; a key below one that is held
\* is refused, as are a canceled context and a closed manager.
Admit(c) ==
    LET wanted == todo[c] \ Held(c)
        refused == \/ c \in canceled
                   \/ \E k \in wanted, l \in Held(c) : Before(k, l)
                   \/ closed
    IN  /\ pc[c] = "admit"
        /\ IF refused
           THEN /\ IF level[c] = 0 THEN Return(c) ELSE Stay(c, "leave")
                /\ todo' = [todo EXCEPT ![c] = {}]
                /\ UNCHANGED <<active, level>>
           ELSE /\ active' = active + 1
                /\ level' = [level EXCEPT ![c] = @ + 1]
                /\ todo' = [todo EXCEPT ![c] = wanted]
                /\ Stay(c, IF wanted = {} THEN "check" ELSE "want")
        /\ UNCHANGED <<gateVars, closed, idles, torn, bindVars, delivered, ref, at,
                       queued>>

\* Mutant: the keys are not sorted.
IsNextUnsorted(c, k) ==
    k \in todo[c] /\ (pc[c] = "acquire" => ref[c][k] # Nil)

\* The wanted keys are taken in their order.
IsNext(c, k) == k \in todo[c] /\ \A l \in todo[c] \ {k} : Before(k, l)

\* A gate object nobody refers to.
Unused(g) == /\ \A k \in Keys : gates[k] # g
             /\ \A c \in Clients, k \in Keys : ref[c][k] # g

Want(c) ==
    /\ pc[c] = "want"
    /\ \E k \in Keys : IsNext(c, k) /\ \E g \in Gates :
         /\ IF gates[k] = Nil THEN Unused(g) ELSE g = gates[k]
         /\ gates' = [gates EXCEPT ![k] = g]
         /\ refs' = [refs EXCEPT ![g] = IF gates[k] = Nil THEN 1 ELSE @ + 1]
         /\ token' = [token EXCEPT ![g] = gates[k] # Nil /\ @]
         /\ ref' = [ref EXCEPT ![c][k] = g]
    /\ Goto(c, "acquire")
    /\ UNCHANGED <<lifeVars, bindVars, delivered, job, level, todo, at, queued,
                   canceled>>

Acquire(c) ==
    /\ pc[c] = "acquire"
    /\ \E k \in Keys :
         /\ IsNext(c, k)
         /\ ~token[ref[c][k]]
         /\ token' = [token EXCEPT ![ref[c][k]] = TRUE]
         /\ at' = [at EXCEPT ![c][k] = level[c]]
         /\ todo' = [todo EXCEPT ![c] = @ \ {k}]
         /\ Goto(c, IF todo[c] = {k} THEN "check" ELSE "want")
    /\ UNCHANGED <<gates, refs, lifeVars, bindVars, delivered, job, level, ref,
                   queued, canceled>>

\* Mutant: the count is taken down twice.
DropTwice(c, k) ==
    LET g == ref[c][k]
    IN  /\ refs' = [refs EXCEPT ![g] = @ - 2]
        /\ gates' = IF refs[g] = 2 THEN [gates EXCEPT ![k] = Nil] ELSE gates
        /\ ref' = [ref EXCEPT ![c][k] = Nil]

\* Mutant: the map entry goes with the holder, whoever still waits.
DropEarly(c, k) ==
    /\ refs' = [refs EXCEPT ![ref[c][k]] = @ - 1]
    /\ gates' = [gates EXCEPT ![k] = Nil]
    /\ ref' = [ref EXCEPT ![c][k] = Nil]

\* releaseGate, after the token was taken back.
Drop(c, k) ==
    LET g == ref[c][k]
    IN  /\ refs' = [refs EXCEPT ![g] = @ - 1]
        /\ gates' = IF refs[g] = 1 THEN [gates EXCEPT ![k] = Nil] ELSE gates
        /\ ref' = [ref EXCEPT ![c][k] = Nil]

\* The wait ends with the context or with the manager.
GiveUp(c) ==
    /\ pc[c] = "acquire"
    /\ c \in canceled \/ closed
    /\ \E k \in Keys : IsNext(c, k) /\ Drop(c, k)
    /\ todo' = [todo EXCEPT ![c] = {}]
    /\ Goto(c, "leave")
    /\ UNCHANGED <<token, lifeVars, bindVars, delivered, job, level, at, queued,
                   canceled>>

\* All gates are held: the context and the manager are looked at once more, and
\* EnterBinding looks whether its binding is still the scope's.  For a nested lease
\* the scope's binding is read now, and may be cleared before its keys are locked.
Check(c) ==
    LET j == job[c]
        expired == /\ j.enter = "binding" /\ level[c] = Depth(j)
                   /\ ~(bound[j.binding].valid /\ current[j.scope] = j.binding)
    IN  /\ pc[c] = "check"
        /\ IF c \in canceled \/ closed \/ expired
           THEN Goto(c, "leave") /\ UNCHANGED todo
           ELSE IF level[c] < Depth(j)
           THEN /\ Goto(c, "admit")
                /\ todo' = [todo EXCEPT ![c] = Asked(j, level[c] + 1)]
           ELSE Goto(c, "inside") /\ UNCHANGED todo
        /\ UNCHANGED <<gateVars, lifeVars, bindVars, delivered, job, level, ref, at,
                       queued, canceled>>

-----------------------------------------------------------------------------
(* Inside the admission.                                                    *)

\* SetCurrent; 0 for no session.  A scope already bound to it is left alone.
SetCurrent(c, s, i) ==
    LET old == current[s]
        v == version + 1
        freed == IF old = 0 THEN bound ELSE [bound EXCEPT ![old].valid = FALSE]
    IN  /\ version < MaxVersion
        /\ IF i = Nil THEN old # 0 ELSE CurrentIds(s) # {i}
        /\ version' = v
        /\ current' = [current EXCEPT ![s] = IF i = Nil THEN 0 ELSE v]
        /\ bound' = IF i = Nil THEN freed
                    ELSE [freed EXCEPT ![v] = [scope |-> s, session |-> i,
                                               valid |-> TRUE]]
        /\ queued' = [queued EXCEPT ![c] = @ \cup {v}]

\* Mutant: the handles of a deleted session stay valid.
ClearKeepsHandles(c, i) ==
    LET hit == {s \in Scopes : CurrentIds(s) = {i}}
        last == version + Cardinality(hit)
    IN  /\ hit # {}
        /\ last <= MaxVersion
        /\ version' = last
        /\ current' = [s \in Scopes |-> IF s \in hit THEN 0 ELSE current[s]]
        /\ queued' = [queued EXCEPT ![c] = @ \cup (version + 1 .. last)]
        /\ UNCHANGED bound

\* ClearSessionBindings: every binding of the session, each with a version.
ClearSessionBindings(c, i) ==
    LET hit == {s \in Scopes : CurrentIds(s) = {i}}
        last == version + Cardinality(hit)
    IN  /\ hit # {}
        /\ last <= MaxVersion
        /\ version' = last
        /\ current' = [s \in Scopes |-> IF s \in hit THEN 0 ELSE current[s]]
        /\ bound' = [v \in Versions |->
                       IF \E s \in hit : current[s] = v
                       THEN [bound[v] EXCEPT !.valid = FALSE] ELSE bound[v]]
        /\ queued' = [queued EXCEPT ![c] = @ \cup (version + 1 .. last)]

\* What the callers of each entry point do with it: activate or reset the scope,
\* delete a session, expire the binding, or nothing that changes a binding.
Commit(c) ==
    LET j == job[c]
    IN  /\ pc[c] = "inside"
        /\ \/ j.enter \in {"activation", "target"}
              /\ \E i \in j.ids \cup {Nil} : SetCurrent(c, j.scope, i)
           \/ j.enter = "binding" /\ SetCurrent(c, j.scope, Nil)
           \/ j.enter \in {"target", "sessions"}
              /\ \E i \in j.ids : ClearSessionBindings(c, i)
           \/ UNCHANGED <<bindVars, queued>>
        /\ Goto(c, "leave")
        /\ UNCHANGED <<gateVars, lifeVars, delivered, job, level, todo, ref, at,
                       canceled>>

-----------------------------------------------------------------------------
(* Leaving the innermost lease.                                             *)

\* The keys of the lease are released in reverse order.
IsLast(c, k) == /\ at[c][k] = level[c]
                /\ \A l \in Keys \ {k} : at[c][l] = level[c] => Before(l, k)

Release(c) ==
    /\ pc[c] = "leave"
    /\ \E k \in Keys : /\ IsLast(c, k)
                       /\ token' = [token EXCEPT ![ref[c][k]] = FALSE]
                       /\ Drop(c, k)
                       /\ at' = [at EXCEPT ![c][k] = 0]
    /\ UNCHANGED <<lifeVars, bindVars, delivered, pc, job, level, todo, queued,
                   canceled>>

\* Mutant: events go out before the gates are released.
PublishFirst(c) ==
    /\ pc[c] = "leave"
    /\ queued[c] # {} \/ \A k \in Keys : at[c][k] # level[c]
    /\ delivered' = delivered \cup queued[c]
    /\ queued' = [queued EXCEPT ![c] = {}]
    /\ Goto(c, IF queued[c] # {} THEN "leave" ELSE "finish")
    /\ UNCHANGED <<gateVars, lifeVars, bindVars, job, level, todo, ref, at,
                   canceled>>

\* Mutant: a closed manager emits nothing more.
PublishUnlessClosed(c) ==
    /\ pc[c] = "leave"
    /\ \A k \in Keys : at[c][k] # level[c]
    /\ IF level[c] = 1
       THEN /\ delivered' = IF closed THEN delivered ELSE delivered \cup queued[c]
            /\ queued' = [queued EXCEPT ![c] = {}]
       ELSE UNCHANGED <<delivered, queued>>
    /\ Goto(c, "finish")
    /\ UNCHANGED <<gateVars, lifeVars, bindVars, job, level, todo, ref, at,
                   canceled>>

\* The outermost lease publishes what was committed, with no gate held.
Publish(c) ==
    /\ pc[c] = "leave"
    /\ \A k \in Keys : at[c][k] # level[c]
    /\ IF level[c] = 1
       THEN /\ delivered' = delivered \cup queued[c]
            /\ queued' = [queued EXCEPT ![c] = {}]
       ELSE UNCHANGED <<delivered, queued>>
    /\ Goto(c, "finish")
    /\ UNCHANGED <<gateVars, lifeVars, bindVars, job, level, todo, ref, at,
                   canceled>>

\* Mutant: only BeginClose looks whether the manager is idle.
FinishAdmissionForgets(c) ==
    /\ pc[c] = "finish"
    /\ active' = active - 1
    /\ level' = [level EXCEPT ![c] = @ - 1]
    /\ IF level[c] = 1 THEN Return(c) ELSE Stay(c, "leave")
    /\ UNCHANGED <<gateVars, closed, idles, torn, bindVars, delivered, todo, ref,
                   at, queued>>

FinishAdmission(c) ==
    /\ pc[c] = "finish"
    /\ active' = active - 1
    /\ idles' = IF closed /\ active = 1 THEN idles + 1 ELSE idles
    /\ level' = [level EXCEPT ![c] = @ - 1]
    /\ IF level[c] = 1 THEN Return(c) ELSE Stay(c, "leave")
    /\ UNCHANGED <<gateVars, closed, torn, bindVars, delivered, todo, ref, at,
                   queued>>

-----------------------------------------------------------------------------
\* Mutant: the admissions in progress are not waited for.
BeginCloseEager ==
    /\ ~closed
    /\ closed' = TRUE
    /\ idles' = idles + 1
    /\ UNCHANGED <<gateVars, active, torn, bindVars, delivered, pc, job, level,
                   todo, ref, at, queued, canceled>>

BeginClose ==
    /\ ~closed
    /\ closed' = TRUE
    /\ idles' = IF active = 0 THEN idles + 1 ELSE idles
    /\ UNCHANGED <<gateVars, active, torn, bindVars, delivered, pc, job, level,
                   todo, ref, at, queued, canceled>>

\* Close's goroutine: once idle, the signal is closed and the maps are dropped.
Close ==
    /\ idles > 0 /\ ~torn
    /\ torn' = TRUE
    /\ bound' = [v \in Versions |-> IF \E s \in Scopes : current[s] = v
                                    THEN [bound[v] EXCEPT !.valid = FALSE]
                                    ELSE bound[v]]
    /\ current' = [s \in Scopes |-> 0]
    /\ gates' = [k \in Keys |-> Nil]
    /\ UNCHANGED <<refs, token, active, closed, idles, version, delivered, pc, job,
                   level, todo, ref, at, queued, canceled>>

Step(c) == \/ Admit(c) \/ Want(c) \/ Acquire(c) \/ GiveUp(c) \/ Check(c)
           \/ Commit(c) \/ Release(c) \/ Publish(c) \/ FinishAdmission(c)

Next == \/ \E c \in Clients : Begin(c) \/ Cancel(c) \/ Step(c)
        \/ BeginClose \/ Close

Spec == Init /\ [][Next]_vars

\* Goroutines run; a sender waiting on a gate's token is served in its turn, for
\* channels queue their senders.
Fairness == /\ \A c \in Clients : WF_vars(Step(c)) /\ SF_vars(Acquire(c))
            /\ WF_vars(Close)

FairSpec == Spec /\ Fairness

-----------------------------------------------------------------------------
(* Properties.                                                              *)

\* The gates implement exclusive locks taken in ascending order, although the
\* gate object of a key comes and goes.
Implements == Locks!Spec

\* A key is held by one goroutine at a time.
MutualExclusion ==
    \A c, d \in Clients : c # d => Held(c) \cap Held(d) = {}

\* The map keeps exactly the gates that are held or awaited: none is dropped
\* under a goroutine that counts on it and none is left behind.
GatesCounted ==
    ~torn => \A k \in Keys :
        /\ \A c \in Clients : ref[c][k] # Nil => gates[k] = ref[c][k]
        /\ gates[k] # Nil =>
             refs[gates[k]] = Cardinality({c \in Clients : ref[c][k] # Nil})
        /\ gates[k] # Nil => \E c \in Clients : ref[c][k] # Nil

\* Inside EnterBinding the binding stays the scope's own and valid, although
\* other goroutines delete sessions without the scope's lock.
BindingStable ==
    \A c \in Clients : pc[c] = "inside" /\ job[c].enter = "binding" =>
        /\ bound[job[c].binding].valid
        /\ current[job[c].scope] = job[c].binding

\* A handle is valid exactly while it is the current one of its scope.
ValidIsCurrent ==
    \A v \in Versions : bound[v].valid <=> \E s \in Scopes : current[s] = v

\* Nobody is inside, or on the way in, when the maps are dropped, and the idle
\* channel is closed once.
QuietTeardown == /\ torn => \A c \in Clients : level[c] = 0
                 /\ idles <= 1

\* Every committed change is published before the signal is closed.
ChangesPublished == torn => delivered = 1 .. version

\* The bindings a client holds or is told of are those of the manager: stable while it is
\* inside, valid exactly when current, and every change of them published before the end.
BindingsSound == BindingStable /\ ValidIsCurrent /\ ChangesPublished

\* Published changes were committed, and outside every lock of the publisher.
PublishedUnlocked ==
    [][\A c \in Clients : queued[c] # {} /\ queued'[c] = {} => Held(c) = {}]_vars

\* Every entry ends: with the admission and its release, or refused.
EveryEntryReturns == \A c \in Clients : pc[c] # "out" ~> pc[c] = "out"

\* A shutdown completes.
CloseCompletes == closed ~> torn
=============================================================================
