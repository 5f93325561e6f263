--------------------------- MODULE SessionNaming ---------------------------
(***************************************************************************)
(* Automatic titles (internal/session/naming).  Replies trigger naming     *)
(* tasks that outlive their turn, while the user renames or deletes the    *)
(* session, its cache is forgotten and the service shuts down.             *)
(***************************************************************************)
EXTENDS Naturals, FiniteSets

CONSTANTS
    Named,        \* sessions
    Tasks,        \* goroutines that may run a naming
    MaxFailures   \* maxNamingFailures

ASSUME NamingAssumption == MaxFailures \in Nat \ {0}

VARIABLES
    title,    \* title of a stored session and who set it; "deleted"
    naming,   \* namingStates: the cached state of a session
    namingTask,     \* what each goroutine is doing
    namer     \* the service: "running", "closed", "done"

namingVars == <<title, naming, namingTask, namer>>

NoState == [inFlight |-> FALSE, retired |-> FALSE, done |-> FALSE, failures |-> 0]
Resting == [session |-> "none", at |-> "rest"]
NamingSteps == {"load", "generate", "auto", "fallback", "finish"}

\* A session without an entry in the map behaves as one with a fresh entry.
NamingTypeOK ==
    /\ title \in [Named -> {"initial", "auto", "fallback", "manual", "deleted"}]
    /\ naming \in [Named -> [inFlight : BOOLEAN, retired : BOOLEAN, done : BOOLEAN,
                             failures : 0 .. MaxFailures]]
    /\ namingTask \in [Tasks -> [session : Named, at : NamingSteps] \cup {Resting}]
    /\ namer \in {"running", "closed", "done"}

NamingInit ==
    /\ title \in [Named -> {"initial", "manual"}]
    /\ naming = [s \in Named |-> NoState]
    /\ namingTask = [t \in Tasks |-> Resting]
    /\ namer = "running"

NamingAt(t, step) == namingTask[t].at = step
NamingGoto(t, step) == namingTask' = [namingTask EXCEPT ![t].at = step]

\* Mutant: the state is dropped under a running task.
ForgottenAlways(st) == NoState

\* ForgetSession on a state: one in flight is only marked.
Forgotten(st) == IF st.inFlight THEN [st EXCEPT !.retired = TRUE] ELSE NoState

-----------------------------------------------------------------------------

\* beginNaming reserves the session before any I/O.
BeginNaming(t, s) ==
    /\ namer = "running" /\ NamingAt(t, "rest")
    /\ ~naming[s].inFlight /\ ~naming[s].done
    /\ naming' = [naming EXCEPT ![s].inFlight = TRUE]
    /\ namingTask' = [namingTask EXCEPT ![t] = [session |-> s, at |-> "load"]]
    /\ UNCHANGED <<title, namer>>

\* MaybeScheduleNaming's preparation: the row is gone, already titled, unreadable
\* or too short for a title; or the namingTask is started.
PrepareNaming(t) ==
    LET s == namingTask[t].session IN
    /\ NamingAt(t, "load")
    /\ \/ /\ title[s] = "deleted"
          /\ naming' = [naming EXCEPT ![s] = Forgotten(@)]
          /\ NamingGoto(t, "finish")
       \/ /\ title[s] \notin {"deleted", "initial"}
          /\ naming' = [naming EXCEPT ![s].done = TRUE]
          /\ NamingGoto(t, "finish")
       \/ /\ UNCHANGED naming
          /\ \/ NamingGoto(t, "finish")
             \/ title[s] = "initial" /\ NamingGoto(t, "generate")
    /\ UNCHANGED <<title, namer>>

\* Mutant: one attempt more than the limit.
MayGenerateMore(n) == n <= MaxFailures

MayGenerate(n) == n < MaxFailures

\* runNaming: the model answers with a title, fails or returns a placeholder; a
\* cancelled namingTask neither saves nor counts a failure; the third failure falls back
\* to the first message, if that is a title.
RunNaming(t) ==
    LET s == namingTask[t].session
        failures == naming[s].failures
    IN /\ NamingAt(t, "generate")
       /\ \/ namer # "running" /\ NamingGoto(t, "finish") /\ UNCHANGED naming
          \/ namer = "running" /\ MayGenerate(failures) /\ NamingGoto(t, "auto") /\ UNCHANGED naming
          \/ /\ namer = "running" /\ MayGenerate(failures)
             /\ naming' = [naming EXCEPT ![s].failures = @ + 1]
             /\ \E next \in IF failures + 1 < MaxFailures THEN {"finish"} ELSE {"finish", "fallback"} :
                   NamingGoto(t, next)
          \/ /\ namer = "running" /\ ~MayGenerate(failures)
             /\ \E next \in {"finish", "fallback"} : NamingGoto(t, next)
             /\ UNCHANGED naming
       /\ UNCHANGED <<title, namer>>

\* Mutant: the title is set whatever the row says by now.
TitledBlindly(old, new) == new

\* setTitle: only an untitled session gets a title.
Titled(old, new) == IF old = "initial" THEN new ELSE old

\* persistTitle: one transaction reads the latest row and sets the title unless one
\* was set meanwhile; or the row is gone, or the write fails.
PersistTitle(t) ==
    LET s == namingTask[t].session IN
    /\ NamingAt(t, "auto") \/ NamingAt(t, "fallback")
    /\ \/ /\ title[s] = "deleted"
          /\ naming' = [naming EXCEPT ![s] = Forgotten(@)]
          /\ UNCHANGED title
       \/ /\ title[s] # "deleted"
          /\ title' = [title EXCEPT ![s] = Titled(@, namingTask[t].at)]
          /\ naming' = [naming EXCEPT ![s].done = TRUE]
       \/ UNCHANGED <<title, naming>>
    /\ NamingGoto(t, "finish")
    /\ UNCHANGED namer

\* Mutant: a retired state is reset, but one that is kept stays in flight.
FinishedInFlight(st) == IF st.retired THEN NoState ELSE st

\* Mutant: a failed persist leaves without the deferred finish.
FinishingOnce(t) == NamingAt(t, "finish") /\ naming[namingTask[t].session].failures = 0

\* The deferred finishNaming runs on every way out.
Finishing(t) == NamingAt(t, "finish")

Finished(st) == IF st.retired THEN NoState ELSE [st EXCEPT !.inFlight = FALSE]

\* finishNaming, after the terminal notification.
FinishNaming(t) ==
    LET s == namingTask[t].session IN
    /\ Finishing(t)
    /\ naming' = [naming EXCEPT ![s] = Finished(@)]
    /\ namingTask' = [namingTask EXCEPT ![t] = Resting]
    /\ UNCHANGED <<title, namer>>

-----------------------------------------------------------------------------
(* Meanwhile.                                                               *)

RenameSession(s) ==
    /\ title[s] # "deleted"
    /\ title' = [title EXCEPT ![s] = "manual"]
    /\ UNCHANGED <<naming, namingTask, namer>>

DeleteRow(s) ==
    /\ title[s] # "deleted"
    /\ title' = [title EXCEPT ![s] = "deleted"]
    /\ UNCHANGED <<naming, namingTask, namer>>

\* ReleaseSession: nobody uses the session any more.
ForgetSession(s) ==
    /\ naming' = [naming EXCEPT ![s] = Forgotten(@)]
    /\ naming' # naming
    /\ UNCHANGED <<title, namingTask, namer>>

BeginCloseNaming ==
    /\ namer = "running"
    /\ namer' = "closed"
    /\ UNCHANGED <<title, naming, namingTask>>

\* Close waits for the WaitGroup of the tasks.
CloseNaming ==
    /\ namer = "closed" /\ \A t \in Tasks : NamingAt(t, "rest")
    /\ namer' = "done"
    /\ naming' = [s \in Named |-> NoState]
    /\ UNCHANGED <<title, namingTask>>

NamingStep(t) == PrepareNaming(t) \/ RunNaming(t) \/ PersistTitle(t) \/ FinishNaming(t)

NamingNext ==
    \/ \E t \in Tasks : NamingStep(t) \/ \E s \in Named : BeginNaming(t, s)
    \/ \E s \in Named : RenameSession(s) \/ DeleteRow(s) \/ ForgetSession(s)
    \/ BeginCloseNaming \/ CloseNaming

NamingFairness ==
    /\ \A t \in Tasks : WF_namingVars(NamingStep(t))
    /\ WF_namingVars(CloseNaming)

NamingSpec == NamingInit /\ [][NamingNext]_namingVars /\ NamingFairness

-----------------------------------------------------------------------------
(* Properties.                                                              *)

\* A session has at most one naming namingTask, also after its cache was forgotten while
\* the namingTask ran (service.go: a retired state goes on excluding others).
OneNamingTask ==
    /\ \A t, u \in Tasks :
          t # u /\ ~NamingAt(t, "rest") /\ ~NamingAt(u, "rest") => namingTask[t].session # namingTask[u].session
    /\ \A s \in Named : naming[s].inFlight <=> \E t \in Tasks : ~NamingAt(t, "rest") /\ namingTask[t].session = s

\* A title is generated for an untitled session only: the user's title, and one
\* generated before, are never replaced by a namingTask that began earlier.
TitleKept ==
    [][\A s \in Named : title'[s] \in {"auto", "fallback"} => title[s] \in {"initial", title'[s]}]_namingVars

\* A namingTask always ends, so the shutdown of the service completes.
NamingCloses == namer = "closed" ~> namer = "done"
=============================================================================
