------------------------- MODULE BackgroundProofs -------------------------
(***************************************************************************)
(* The theorems about the work without a user: a cron job and its reports  *)
(* (CronDelivery), the scheduler's entries (CronManager) and the intake of *)
(* events (Elnis), each with the inductive invariant that carries them.    *)
(***************************************************************************)
EXTENDS CronManager, CronDelivery, Elnis, FiniteSetTheorems, SequenceTheorems, TLAPS

-----------------------------------------------------------------------------
(* CronManager.  A name that is not waiting anywhere has the entry of its   *)
(* stored definition or none, unless its latest read failed: what was read  *)
(* for it and is not yet scheduled is what is stored.                       *)

Definitions == [status : {"missing", "disabled", "enabled"}, version : 0 .. MaxChanges]
Refreshers == [at : {"off", "idle", "busy"}, todo : SUBSET Jobs, hand : SUBSET Jobs, read : [Jobs -> Definitions]]
FiredRuns == [name : Jobs, at : {"load", "remove", "admit", "handler", "refresh", "release"}]

\* Only a busy refresher has names in its batch or in its hand, and before the start there is neither one nor an entry.
RefresherSound ==
    /\ refresher \in Refreshers
    /\ refresher.at # "busy" => refresher.todo = {} /\ refresher.hand = {}
    /\ manager = "new" => refresher.at = "off" /\ \A n \in Jobs : entries[n] = 0

\* Whether an entry is one of the stored definition, or none.
EntryFits(n) == entries[n] # 0 => job[n].status = "enabled" /\ entries[n] = job[n].version

EntriesFollow ==
    ~Stopping => \A n \in Jobs :
        n \notin telling \cup pendingJobs \cup refresher.todo \cup unread =>
           IF n \in refresher.hand THEN refresher.read[n] = job[n] ELSE EntryFits(n)

\* A run marks its name from its admission to its release.
Marking(r) == run[r].at \in {"handler", "refresh", "release"}
RunsApart ==
    /\ \A r \in Runs : Marking(r) => run[r].name \in running
    /\ \A r, q \in Runs : r # q /\ Marking(r) /\ Marking(q) => run[r].name # run[q].name

ManagerInv == ManagerTypeOK /\ RefresherSound /\ EntriesFollow /\ RunsApart /\ WakeNotLost

LEMMA ManagerInitKeeps == ManagerInit => ManagerInv
  <1> SUFFICES ASSUME ManagerInit PROVE ManagerInv
    OBVIOUS
  <1> USE ManagerAssumption DEF ManagerInit
  <1>1. Missing \in Definitions /\ Off \in Refreshers /\ Off.at = "off" /\ Off.todo = {} /\ Off.hand = {}
    BY DEF Missing, Off, Definitions, Refreshers
  <1>2. job \in [Jobs -> Definitions]
    <2>1. [status |-> "enabled", version |-> 1] \in Definitions
      BY DEF Definitions
    <2> QED BY <1>1, <2>1
  <1>3. \A r \in Runs : run[r] = NotFired /\ ~Marking(r)
    BY DEF Marking, NotFired
  <1>4. ManagerTypeOK
    <2>1. refresher.at \in {"off", "idle", "busy"} /\ refresher.todo \subseteq Jobs /\ refresher.hand \subseteq Jobs
      BY <1>1
    <2>2. run \in [Runs -> FiredRuns \cup {NotFired}]
      OBVIOUS
    <2>3. entries \in [Jobs -> 0 .. MaxChanges]
      OBVIOUS
    <2> QED BY <1>2, <2>1, <2>2, <2>3 DEF ManagerTypeOK, Definitions, FiredRuns
  <1>5. RefresherSound /\ EntriesFollow /\ RunsApart /\ WakeNotLost
    BY <1>1, <1>3 DEF RefresherSound, EntriesFollow, EntryFits, RunsApart, WakeNotLost
  <1> QED BY <1>4, <1>5 DEF ManagerInv

\* What a run's step does to its record.
LEMMA RunGoes ==
  ASSUME ManagerInv, NEW r \in Runs, run[r] # NotFired, NEW at \in {"rest", "load", "remove", "admit", "handler", "refresh", "release"}, RunGoto(r, at)
  PROVE  /\ run' \in [Runs -> FiredRuns \cup {NotFired}]
         /\ run'[r].at = at /\ (at # "rest" => run'[r].name = run[r].name)
         /\ \A q \in Runs \ {r} : run'[q] = run[q]
         /\ run[r].name \in Jobs
  <1> DEFINE x == IF at = "rest" THEN NotFired ELSE [run[r] EXCEPT !.at = at]
  <1>1. run' = [run EXCEPT ![r] = x] /\ run \in [Runs -> FiredRuns \cup {NotFired}] /\ run[r] \in FiredRuns
    BY DEF RunGoto, ManagerInv, ManagerTypeOK, FiredRuns
  <1>2. x \in FiredRuns \cup {NotFired} /\ x.at = at /\ (at # "rest" => x.name = run[r].name)
    BY <1>1 DEF FiredRuns, NotFired
  <1> HIDE DEF x
  <1> QED BY <1>1, <1>2 DEF FiredRuns

LEMMA NamesKeep ==
  ASSUME ManagerInv, run' = run, running' = running
  PROVE  RunsApart'
  BY DEF ManagerInv, RunsApart, Marking

LEMMA ChangeJobKeeps ==
  ASSUME ManagerInv, NEW n \in Jobs, NEW st \in {"missing", "disabled", "enabled"}, ChangeJob(n, st)
  PROVE  ManagerInv'
  <1> DEFINE d == [status |-> st, version |-> job[n].version + 1]
  <1>1. /\ job' = [job EXCEPT ![n] = d] /\ job[n].version < MaxChanges /\ telling' = telling \cup {n} /\ job \in [Jobs -> Definitions]
        /\ UNCHANGED <<entries, pendingJobs, refreshWake, refresher, run, running, manager, unread>>
    BY DEF ChangeJob, ManagerInv, ManagerTypeOK, Definitions
  <1>2. d \in Definitions
    <2>1. job[n].version \in 0 .. MaxChanges
      BY <1>1 DEF Definitions
    <2> QED BY <1>1, <2>1, ManagerAssumption DEF Definitions
  <1> HIDE DEF d
  <1>3. job' \in [Jobs -> Definitions] /\ \A m \in Jobs \ {n} : job'[m] = job[m]
    BY <1>1, <1>2
  <1>4. ManagerTypeOK'
    BY <1>1, <1>3 DEF ManagerInv, ManagerTypeOK, Definitions
  <1>5. RefresherSound' /\ WakeNotLost'
    BY <1>1 DEF ManagerInv, RefresherSound, WakeNotLost
  <1>6. EntriesFollow'
    BY <1>1, <1>3 DEF ManagerInv, EntriesFollow, EntryFits, Stopping
  <1> QED BY <1>1, <1>4, <1>5, <1>6, NamesKeep DEF ManagerInv

\* Refreshing a name only adds it to the names that wait.
LEMMA RefreshJobKeeps ==
  ASSUME ManagerInv, NEW n \in Jobs, RefreshJob(n), telling' = telling \/ telling' = telling \ {n},
         UNCHANGED <<job, entries, refresher, manager, unread>>
  PROVE  RefresherSound' /\ EntriesFollow' /\ WakeNotLost' /\ pendingJobs' \subseteq Jobs /\ refreshWake' \in BOOLEAN
  <1>1. CASE Stopping
    BY <1>1 DEF RefreshJob, Stopping, ManagerInv, ManagerTypeOK, RefresherSound, EntriesFollow, WakeNotLost
  <1>2. CASE ~Stopping
    <2>1. pendingJobs' = pendingJobs \cup {n} /\ (refreshWake' <=> TRUE) /\ refreshWake' \in BOOLEAN
      BY <1>2 DEF RefreshJob
    <2>2. EntriesFollow'
      BY <1>2, <2>1 DEF ManagerInv, EntriesFollow, EntryFits, Stopping
    <2> QED BY <2>1, <2>2 DEF ManagerInv, ManagerTypeOK, RefresherSound, WakeNotLost
  <1> QED BY <1>1, <1>2

LEMMA AnnounceJobKeeps ==
  ASSUME ManagerInv, NEW n \in Jobs, AnnounceJob(n)
  PROVE  ManagerInv'
  <1>1. telling' = telling \ {n} /\ RefreshJob(n) /\ UNCHANGED <<job, entries, refresher, run, running, manager, unread>>
    BY DEF AnnounceJob
  <1>2. RefresherSound' /\ EntriesFollow' /\ WakeNotLost' /\ pendingJobs' \subseteq Jobs /\ refreshWake' \in BOOLEAN
    BY <1>1, RefreshJobKeeps
  <1>3. ManagerTypeOK'
    BY <1>1, <1>2 DEF ManagerInv, ManagerTypeOK
  <1> QED BY <1>1, <1>2, <1>3, NamesKeep DEF ManagerInv

\* What the refresher is when it starts a batch, and when it waits.
LEMMA RefresherFacts ==
  ASSUME ManagerInv
  PROVE  /\ Batch \in Refreshers /\ Batch.at = "busy" /\ Batch.todo = pendingJobs /\ Batch.hand = {}
         /\ [Off EXCEPT !.at = "idle"] \in Refreshers /\ [Off EXCEPT !.at = "idle"].at = "idle"
         /\ [Off EXCEPT !.at = "idle"].todo = {} /\ [Off EXCEPT !.at = "idle"].hand = {}
         /\ Off \in Refreshers /\ Off.at = "off" /\ Off.todo = {} /\ Off.hand = {}
         /\ Missing \in Definitions
  <1>1. Missing \in Definitions
    BY ManagerAssumption DEF Missing, Definitions
  <1>2. Off \in Refreshers /\ Off.at = "off" /\ Off.todo = {} /\ Off.hand = {}
    BY <1>1 DEF Off, Refreshers
  <1>3. [Off EXCEPT !.at = "idle"] \in Refreshers /\ [Off EXCEPT !.at = "idle"].at = "idle"
         /\ [Off EXCEPT !.at = "idle"].todo = {} /\ [Off EXCEPT !.at = "idle"].hand = {}
    BY <1>2 DEF Refreshers
  <1>4. Batch \in Refreshers /\ Batch.at = "busy" /\ Batch.todo = pendingJobs /\ Batch.hand = {}
    <2> DEFINE x == [Off EXCEPT !.at = "busy"]
    <2>1. x \in Refreshers /\ x.at = "busy" /\ x.hand = {}
      BY <1>2 DEF Refreshers
    <2>2. Batch = [x EXCEPT !.todo = pendingJobs]
      BY <1>2 DEF Batch, Refreshers
    <2> HIDE DEF x
    <2> QED BY <2>1, <2>2 DEF Refreshers, ManagerInv, ManagerTypeOK
  <1> QED BY <1>1, <1>2, <1>3, <1>4

\* Start, batches and the stop leave the definitions, the entries and the runs alone.
LEMMA RefresherMoves ==
  ASSUME ManagerInv, refresher' \in Refreshers, UNCHANGED <<job, telling, entries, run, running>>,
         pendingJobs' \subseteq Jobs, unread' \subseteq unread \cup Jobs, refreshWake' \in BOOLEAN, manager' \in {"new", "starting", "running", "stopping", "stopped"},
         refresher'.at # "busy" => refresher'.todo = {} /\ refresher'.hand = {},
         manager' = "new" => manager = "new" /\ refresher'.at = "off",
         ~Stopping' => ~Stopping /\ \A n \in Jobs : n \notin telling \cup pendingJobs' \cup refresher'.todo \cup unread' =>
               IF n \in refresher'.hand THEN refresher'.read[n] = job[n] ELSE EntryFits(n),
         WakeNotLost'
  PROVE  ManagerInv'
  <1>1. ManagerTypeOK'
    BY DEF ManagerInv, ManagerTypeOK, Refreshers
  <1>2. RefresherSound'
    BY DEF ManagerInv, RefresherSound
  <1>3. EntriesFollow'
    BY DEF EntriesFollow, EntryFits
  <1> QED BY <1>1, <1>2, <1>3, NamesKeep DEF ManagerInv

LEMMA StartManagerKeeps ==
  ASSUME ManagerInv, StartManager
  PROVE  ManagerInv'
  <1> DEFINE x == [at |-> "busy", todo |-> {}, hand |-> {n \in Jobs : job[n].status = "enabled"}, read |-> job]
  <1>1. manager = "new" /\ manager' = "starting" /\ refresher' = x /\ UNCHANGED <<job, telling, entries, pendingJobs, refreshWake, run, running, unread>>
    BY DEF StartManager
  <1>2. x \in Refreshers /\ x.at = "busy" /\ x.todo = {} /\ x.hand = {n \in Jobs : job[n].status = "enabled"} /\ x.read = job
    BY DEF Refreshers, ManagerInv, ManagerTypeOK, Definitions
  <1> HIDE DEF x
  <1>3. \A n \in Jobs : entries[n] = 0
    BY <1>1 DEF ManagerInv, RefresherSound
  <1>4. WakeNotLost' /\ ~Stopping
    BY <1>1 DEF WakeNotLost, Stopping
  <1>5. pendingJobs' \subseteq Jobs /\ refreshWake' \in BOOLEAN
    BY <1>1 DEF ManagerInv, ManagerTypeOK
  <1> QED BY <1>1, <1>2, <1>3, <1>4, <1>5, RefresherMoves DEF EntryFits

LEMMA ReadJobKeeps ==
  ASSUME ManagerInv, NEW n \in Jobs, ReadJob(n)
  PROVE  ManagerInv'
  <1> DEFINE x == [refresher EXCEPT !.todo = @ \ {n}]
             y == [x EXCEPT !.hand = {n}]
             z == [y EXCEPT !.read[n] = job[n]]
  <1>1. /\ refresher.at = "busy" /\ ~Stopping /\ n \in refresher.todo /\ refresher.hand = {}
        /\ refresher' = [refresher EXCEPT !.todo = @ \ {n}, !.hand = {n}, !.read[n] = job[n]]
        /\ UNCHANGED <<job, telling, entries, pendingJobs, refreshWake, run, running, manager>> /\ unread' = unread \ {n}
        /\ refresher \in Refreshers /\ job[n] \in Definitions
    BY DEF ReadJob, ManagerInv, ManagerTypeOK, RefresherSound, Definitions
  <1>2. refresher' = z
    BY <1>1 DEF Refreshers
  <1>3. x \in Refreshers /\ x.at = "busy" /\ x.todo = refresher.todo \ {n} /\ x.read = refresher.read
    BY <1>1 DEF Refreshers
  <1> HIDE DEF x
  <1>4. y \in Refreshers /\ y.at = "busy" /\ y.todo = refresher.todo \ {n} /\ y.hand = {n} /\ y.read = refresher.read
    BY <1>3 DEF Refreshers
  <1> HIDE DEF y
  <1>5. z \in Refreshers /\ z.at = "busy" /\ z.todo = refresher.todo \ {n} /\ z.hand = {n} /\ z.read[n] = job[n]
    BY <1>1, <1>4 DEF Refreshers
  <1> HIDE DEF z
  <1>6. manager # "new" /\ WakeNotLost' /\ pendingJobs' \subseteq Jobs /\ unread' \subseteq Jobs /\ refreshWake' \in BOOLEAN
    BY <1>1 DEF ManagerInv, ManagerTypeOK, RefresherSound, WakeNotLost
  <1>7. manager' \in {"new", "starting", "running", "stopping", "stopped"}
    BY <1>1 DEF ManagerInv, ManagerTypeOK
  <1>8. \A m \in Jobs : m \notin telling \cup pendingJobs' \cup refresher'.todo \cup unread' =>
               IF m \in refresher'.hand THEN refresher'.read[m] = job[m] ELSE EntryFits(m)
    <2> SUFFICES ASSUME NEW m \in Jobs, m \notin telling \cup pendingJobs' \cup refresher'.todo \cup unread'
                 PROVE  IF m \in refresher'.hand THEN refresher'.read[m] = job[m] ELSE EntryFits(m)
      OBVIOUS
    <2>1. CASE m = n
      BY <1>2, <1>5, <2>1
    <2>2. CASE m # n
      <3>1. m \notin telling \cup pendingJobs \cup refresher.todo \cup unread /\ m \notin refresher.hand /\ m \notin refresher'.hand
        BY <1>1, <1>2, <1>5, <2>2
      <3> QED BY <1>1, <3>1 DEF ManagerInv, EntriesFollow
    <2> QED BY <2>1, <2>2
  <1> QED BY <1>1, <1>2, <1>5, <1>6, <1>7, <1>8, RefresherMoves

LEMMA ReadFailsKeeps ==
  ASSUME ManagerInv, NEW n \in Jobs, RefreshFails(n)
  PROVE  ManagerInv'
  <1>1. /\ refresher.at = "busy" /\ ~Stopping /\ refresher' = [refresher EXCEPT !.todo = @ \ {n}] /\ unread' = unread \cup {n}
        /\ UNCHANGED <<job, telling, entries, pendingJobs, refreshWake, run, running, manager>> /\ refresher \in Refreshers
    BY DEF RefreshFails, ManagerInv, RefresherSound
  <1>2. /\ refresher' \in Refreshers /\ refresher'.at = "busy" /\ refresher'.todo = refresher.todo \ {n}
        /\ refresher'.hand = refresher.hand /\ refresher'.read = refresher.read
    BY <1>1 DEF Refreshers
  <1>3. /\ manager # "new" /\ WakeNotLost' /\ pendingJobs' \subseteq Jobs /\ unread' \subseteq Jobs /\ refreshWake' \in BOOLEAN
        /\ manager' \in {"new", "starting", "running", "stopping", "stopped"}
    BY <1>1 DEF ManagerInv, ManagerTypeOK, RefresherSound, WakeNotLost
  <1>4. \A m \in Jobs : m \notin telling \cup pendingJobs' \cup refresher'.todo \cup unread' =>
               IF m \in refresher'.hand THEN refresher'.read[m] = job[m] ELSE EntryFits(m)
    BY <1>1, <1>2 DEF ManagerInv, EntriesFollow
  <1> QED BY <1>1, <1>2, <1>3, <1>4, RefresherMoves

LEMMA DrainPendingKeeps ==
  ASSUME ManagerInv, DrainPending
  PROVE  ManagerInv'
  <1>1. manager = "starting" /\ refresher.todo = {} /\ refresher.hand = {} /\ UNCHANGED <<job, telling, entries, refreshWake, run, running, unread>>
    BY DEF DrainPending, BatchDone
  <1>2. ~Stopping /\ refreshWake' \in BOOLEAN /\ pendingJobs \subseteq Jobs
    BY <1>1 DEF Stopping, ManagerInv, ManagerTypeOK
  <1>3. \A n \in Jobs : n \notin telling \cup pendingJobs \cup unread => EntryFits(n)
    BY <1>1, <1>2 DEF ManagerInv, EntriesFollow
  <1>4. CASE pendingJobs = {}
    <2>1. manager' = "running" /\ refresher' = [Off EXCEPT !.at = "idle"] /\ pendingJobs' = {}
      BY <1>4 DEF DrainPending
    <2> QED BY <1>1, <1>2, <1>3, <1>4, <2>1, RefresherFacts, RefresherMoves DEF WakeNotLost
  <1>5. CASE pendingJobs # {}
    <2>1. manager' = "starting" /\ refresher' = Batch /\ pendingJobs' = {}
      BY <1>1, <1>5 DEF DrainPending
    <2>2. WakeNotLost'
      BY <2>1 DEF WakeNotLost
    <2> QED BY <1>1, <1>2, <1>3, <2>1, <2>2, RefresherFacts, RefresherMoves
  <1> QED BY <1>4, <1>5

LEMMA TakeBatchKeeps ==
  ASSUME ManagerInv, TakeBatch
  PROVE  ManagerInv'
  <1>1. /\ manager = "running" /\ refresher.at = "idle" /\ refresher' = Batch /\ pendingJobs' = {} /\ (refreshWake' <=> FALSE)
        /\ refreshWake' \in BOOLEAN /\ UNCHANGED <<job, telling, entries, run, running, manager, unread>>
    BY DEF TakeBatch
  <1>2. ~Stopping /\ refresher.todo = {} /\ refresher.hand = {}
    BY <1>1 DEF Stopping, ManagerInv, RefresherSound
  <1>3. \A n \in Jobs : n \notin telling \cup pendingJobs \cup unread => EntryFits(n)
    BY <1>2 DEF ManagerInv, EntriesFollow
  <1>4. WakeNotLost'
    BY <1>1 DEF WakeNotLost
  <1> QED BY <1>1, <1>2, <1>3, <1>4, RefresherFacts, RefresherMoves

LEMMA EndBatchKeeps ==
  ASSUME ManagerInv, EndBatch
  PROVE  ManagerInv'
  <1>1. /\ manager = "running" /\ refresher.todo = {} /\ refresher.hand = {} /\ refresher' = [Off EXCEPT !.at = "idle"]
        /\ UNCHANGED <<job, telling, entries, pendingJobs, refreshWake, run, running, manager, unread>>
    BY DEF EndBatch, BatchDone
  <1>2. ~Stopping /\ WakeNotLost' /\ pendingJobs' \subseteq Jobs /\ refreshWake' \in BOOLEAN
    BY <1>1 DEF Stopping, ManagerInv, ManagerTypeOK, WakeNotLost
  <1>3. \A n \in Jobs : n \notin telling \cup pendingJobs \cup unread => EntryFits(n)
    BY <1>1, <1>2 DEF ManagerInv, EntriesFollow
  <1> QED BY <1>1, <1>2, <1>3, RefresherFacts, RefresherMoves

LEMMA StoppingKeeps ==
  ASSUME ManagerInv, StopManager \/ EndRefreshes \/ StopDone
  PROVE  ManagerInv'
  <1>1. /\ manager' \in {"stopping", "stopped"} /\ UNCHANGED <<job, telling, entries, refreshWake, run, running, unread>>
        /\ refresher' = refresher \/ refresher' = Off
        /\ pendingJobs' = pendingJobs \/ pendingJobs' = {}
    BY DEF StopManager, EndRefreshes, StopDone
  <1>2. Stopping' /\ WakeNotLost' /\ pendingJobs' \subseteq Jobs /\ refreshWake' \in BOOLEAN
    BY <1>1 DEF Stopping, ManagerInv, ManagerTypeOK, WakeNotLost
  <1>3. refresher' \in Refreshers /\ (refresher'.at # "busy" => refresher'.todo = {} /\ refresher'.hand = {})
    BY <1>1, RefresherFacts DEF ManagerInv, RefresherSound
  <1> QED BY <1>1, <1>2, <1>3, RefresherMoves

LEMMA ScheduleJobKeeps ==
  ASSUME ManagerInv, NEW n \in Jobs, ScheduleJob(n)
  PROVE  ManagerInv'
  <1> DEFINE x == [refresher EXCEPT !.hand = @ \ {n}]
             y == [x EXCEPT !.read[n] = Missing]
  <1>1. /\ refresher.at = "busy" /\ ~Stopping /\ n \in refresher.hand /\ entries' = [entries EXCEPT ![n] = Scheduled(n)]
        /\ refresher' = [refresher EXCEPT !.hand = @ \ {n}, !.read[n] = Missing]
        /\ UNCHANGED <<job, telling, pendingJobs, refreshWake, run, running, manager, unread>>
        /\ refresher \in Refreshers
    BY DEF ScheduleJob, ManagerInv, RefresherSound
  <1>2. refresher' = y
    BY <1>1 DEF Refreshers
  <1>3. x \in Refreshers /\ x.at = "busy" /\ x.todo = refresher.todo /\ x.hand = refresher.hand \ {n} /\ x.read = refresher.read
    BY <1>1 DEF Refreshers
  <1> HIDE DEF x
  <1>4. /\ y \in Refreshers /\ y.at = "busy" /\ y.todo = refresher.todo /\ y.hand = refresher.hand \ {n}
        /\ \A m \in Jobs \ {n} : y.read[m] = refresher.read[m]
    BY <1>3, RefresherFacts DEF Refreshers
  <1> HIDE DEF y
  <1>5. refresher.read[n] \in Definitions /\ Scheduled(n) \in 0 .. MaxChanges
    BY <1>1, ManagerAssumption DEF Refreshers, Definitions, Scheduled
  <1>6. entries' \in [Jobs -> 0 .. MaxChanges] /\ entries'[n] = Scheduled(n) /\ \A m \in Jobs \ {n} : entries'[m] = entries[m]
    BY <1>1, <1>5 DEF ManagerInv, ManagerTypeOK
  <1>7. ManagerTypeOK'
    BY <1>1, <1>2, <1>4, <1>6 DEF ManagerInv, ManagerTypeOK, Refreshers
  <1>8. RefresherSound' /\ WakeNotLost'
    BY <1>1, <1>2, <1>4 DEF ManagerInv, RefresherSound, WakeNotLost
  <1>9. EntriesFollow'
    <2> SUFFICES ASSUME NEW m \in Jobs, m \notin telling \cup pendingJobs \cup refresher.todo \cup unread
                 PROVE  IF m \in refresher'.hand THEN refresher'.read[m] = job[m] ELSE EntryFits(m)'
      BY <1>1, <1>2, <1>4 DEF EntriesFollow, Stopping
    <2>1. IF m \in refresher.hand THEN refresher.read[m] = job[m] ELSE EntryFits(m)
      BY <1>1 DEF ManagerInv, EntriesFollow
    <2>2. CASE m = n
      BY <1>1, <1>2, <1>4, <1>6, <2>1, <2>2 DEF EntryFits, Scheduled
    <2>3. CASE m # n
      BY <1>1, <1>2, <1>4, <1>6, <2>1, <2>3 DEF EntryFits
    <2> QED BY <2>2, <2>3
  <1> QED BY <1>1, <1>7, <1>8, <1>9, NamesKeep DEF ManagerInv

LEMMA FireKeeps ==
  ASSUME ManagerInv, NEW r \in Runs, NEW n \in Jobs, Fire(r, n)
  PROVE  ManagerInv'
  <1> DEFINE x == [name |-> n, at |-> "load"]
  <1>1. run' = [run EXCEPT ![r] = x] /\ UNCHANGED <<job, telling, entries, pendingJobs, refreshWake, refresher, running, manager, unread>>
    BY DEF Fire
  <1>2. x \in FiredRuns /\ x.at = "load"
    BY DEF FiredRuns
  <1> HIDE DEF x
  <1>3. run' \in [Runs -> FiredRuns \cup {NotFired}] /\ run'[r].at = "load" /\ \A q \in Runs \ {r} : run'[q] = run[q]
    BY <1>1, <1>2 DEF ManagerInv, ManagerTypeOK, FiredRuns
  <1>4. ManagerTypeOK'
    BY <1>1, <1>3 DEF ManagerInv, ManagerTypeOK, FiredRuns
  <1>5. RefresherSound' /\ EntriesFollow' /\ WakeNotLost'
    BY <1>1 DEF ManagerInv, RefresherSound, EntriesFollow, EntryFits, Stopping, WakeNotLost
  <1>6. RunsApart'
    BY <1>1, <1>3 DEF ManagerInv, RunsApart, Marking
  <1> QED BY <1>4, <1>5, <1>6 DEF ManagerInv

LEMMA RunStepKeeps ==
  ASSUME ManagerInv, NEW r \in Runs, RunStep(r)
  PROVE  ManagerInv'
  <1>0. run[r] # NotFired /\ run[r].at # "rest"
    BY DEF RunStep, LoadRun, RemoveEntry, AdmitRun, HandlerReturns, RefreshAfterRun, ReleaseRun, NotFired
  <1>1. CASE LoadRun(r) \/ HandlerReturns(r) \/ (AdmitRun(r) /\ ~Admitted(r))
    <2>1. PICK at \in {"rest", "remove", "admit", "refresh"} : RunGoto(r, at) /\ (at = "refresh" => run[r].at = "handler")
      BY <1>1 DEF LoadRun, HandlerReturns, AdmitRun
    <2>2. UNCHANGED <<job, telling, entries, pendingJobs, refreshWake, refresher, running, manager, unread>>
      BY <1>1 DEF LoadRun, HandlerReturns, AdmitRun
    <2>3. /\ run' \in [Runs -> FiredRuns \cup {NotFired}] /\ run'[r].at = at /\ (at # "rest" => run'[r].name = run[r].name)
          /\ \A q \in Runs \ {r} : run'[q] = run[q]
      BY <1>0, <2>1, RunGoes
    <2>4. ManagerTypeOK'
      BY <2>2, <2>3 DEF ManagerInv, ManagerTypeOK, FiredRuns
    <2>5. RefresherSound' /\ EntriesFollow' /\ WakeNotLost'
      BY <2>2 DEF ManagerInv, RefresherSound, EntriesFollow, EntryFits, Stopping, WakeNotLost
    <2>6. RunsApart'
      BY <2>1, <2>2, <2>3 DEF ManagerInv, RunsApart, Marking
    <2> QED BY <2>4, <2>5, <2>6 DEF ManagerInv
  <1>2. CASE RemoveEntry(r)
    <2>1. /\ run[r].at = "remove" /\ RunGoto(r, "rest") /\ entries' = [entries EXCEPT ![run[r].name] = 0]
          /\ UNCHANGED <<job, telling, pendingJobs, refreshWake, refresher, running, manager, unread>>
      BY <1>2 DEF RemoveEntry
    <2>2. /\ run' \in [Runs -> FiredRuns \cup {NotFired}] /\ run'[r].at = "rest" /\ (\A q \in Runs \ {r} : run'[q] = run[q])
          /\ run[r].name \in Jobs
      BY <1>0, <2>1, RunGoes
    <2>3. entries' \in [Jobs -> 0 .. MaxChanges] /\ \A n \in Jobs : entries'[n] \in {0, entries[n]}
      <3>1. entries \in [Jobs -> 0 .. MaxChanges] /\ 0 \in 0 .. MaxChanges
        BY ManagerAssumption DEF ManagerInv, ManagerTypeOK
      <3> QED BY <2>1, <2>2, <3>1
    <2>4. ManagerTypeOK'
      BY <2>1, <2>2, <2>3 DEF ManagerInv, ManagerTypeOK, FiredRuns
    <2>5. RefresherSound' /\ WakeNotLost'
      BY <2>1, <2>3 DEF ManagerInv, RefresherSound, WakeNotLost
    <2>6. EntriesFollow'
      BY <2>1, <2>3 DEF ManagerInv, EntriesFollow, EntryFits, Stopping
    <2>7. RunsApart'
      BY <2>1, <2>2 DEF ManagerInv, RunsApart, Marking
    <2> QED BY <2>4, <2>5, <2>6, <2>7 DEF ManagerInv
  <1>3. CASE AdmitRun(r) /\ Admitted(r)
    <2>1. /\ run[r].at = "admit" /\ RunGoto(r, "handler") /\ running' = running \cup {run[r].name} /\ run[r].name \notin running
          /\ UNCHANGED <<job, telling, entries, pendingJobs, refreshWake, refresher, manager, unread>>
      BY <1>3 DEF AdmitRun, Admitted
    <2>2. /\ run' \in [Runs -> FiredRuns \cup {NotFired}] /\ run'[r].at = "handler" /\ run'[r].name = run[r].name
          /\ (\A q \in Runs \ {r} : run'[q] = run[q]) /\ run[r].name \in Jobs
      BY <1>0, <2>1, RunGoes
    <2>3. ManagerTypeOK'
      BY <2>1, <2>2 DEF ManagerInv, ManagerTypeOK, FiredRuns
    <2>4. RefresherSound' /\ EntriesFollow' /\ WakeNotLost'
      BY <2>1 DEF ManagerInv, RefresherSound, EntriesFollow, EntryFits, Stopping, WakeNotLost
    <2>5. RunsApart'
      BY <2>1, <2>2 DEF ManagerInv, RunsApart, Marking
    <2> QED BY <2>3, <2>4, <2>5 DEF ManagerInv
  <1>4. CASE RefreshAfterRun(r)
    <2>1. /\ run[r].at = "refresh" /\ RunGoto(r, "release") /\ RefreshJob(run[r].name)
          /\ UNCHANGED <<job, telling, entries, refresher, running, manager, unread>>
      BY <1>4 DEF RefreshAfterRun
    <2>2. /\ run' \in [Runs -> FiredRuns \cup {NotFired}] /\ run'[r].at = "release" /\ run'[r].name = run[r].name
          /\ (\A q \in Runs \ {r} : run'[q] = run[q]) /\ run[r].name \in Jobs
      BY <1>0, <2>1, RunGoes
    <2>3. RefresherSound' /\ EntriesFollow' /\ WakeNotLost' /\ pendingJobs' \subseteq Jobs /\ refreshWake' \in BOOLEAN
      BY <2>1, <2>2, RefreshJobKeeps
    <2>4. ManagerTypeOK'
      BY <2>1, <2>2, <2>3 DEF ManagerInv, ManagerTypeOK, FiredRuns
    <2>5. RunsApart'
      BY <2>1, <2>2 DEF ManagerInv, RunsApart, Marking
    <2> QED BY <2>3, <2>4, <2>5 DEF ManagerInv
  <1>5. CASE ReleaseRun(r)
    <2>1. /\ run[r].at = "release" /\ RunGoto(r, "rest") /\ running' = running \ {run[r].name}
          /\ UNCHANGED <<job, telling, entries, pendingJobs, refreshWake, refresher, manager, unread>>
      BY <1>5 DEF ReleaseRun
    <2>2. /\ run' \in [Runs -> FiredRuns \cup {NotFired}] /\ run'[r].at = "rest" /\ \A q \in Runs \ {r} : run'[q] = run[q]
      BY <1>0, <2>1, RunGoes
    <2>3. ManagerTypeOK'
      BY <2>1, <2>2 DEF ManagerInv, ManagerTypeOK, FiredRuns
    <2>4. RefresherSound' /\ EntriesFollow' /\ WakeNotLost'
      BY <2>1 DEF ManagerInv, RefresherSound, EntriesFollow, EntryFits, Stopping, WakeNotLost
    <2>5. RunsApart'
      BY <2>1, <2>2 DEF ManagerInv, RunsApart, Marking
    <2> QED BY <2>3, <2>4, <2>5 DEF ManagerInv
  <1> QED BY <1>1, <1>2, <1>3, <1>4, <1>5 DEF RunStep, AdmitRun

LEMMA ManagerStepKeeps ==
  ASSUME ManagerInv, [ManagerNext]_managerVars
  PROVE  ManagerInv'
  <1>1. CASE UNCHANGED managerVars
    BY <1>1 DEF managerVars, ManagerInv, ManagerTypeOK, RefresherSound, EntriesFollow, EntryFits, Stopping, RunsApart, Marking, WakeNotLost
  <1>2. CASE \E n \in Jobs : AnnounceJob(n)
    BY <1>2, AnnounceJobKeeps
  <1>3. CASE \E n \in Jobs, st \in {"missing", "disabled", "enabled"} : ChangeJob(n, st)
    BY <1>3, ChangeJobKeeps
  <1>4. CASE StartManager \/ StopManager \/ StopDone
    BY <1>4, StartManagerKeeps, StoppingKeeps
  <1>5. CASE RefreshStep
    BY <1>5, DrainPendingKeeps, TakeBatchKeeps, EndBatchKeeps, StoppingKeeps, ReadJobKeeps, ReadFailsKeeps, ScheduleJobKeeps DEF RefreshStep
  <1>6. CASE \E r \in Runs : RunStep(r)
    BY <1>6, RunStepKeeps
  <1>7. CASE \E r \in Runs, n \in Jobs : Fire(r, n)
    BY <1>7, FireKeeps
  <1> QED BY <1>1, <1>2, <1>3, <1>4, <1>5, <1>6, <1>7 DEF ManagerNext

LEMMA ManagerInvSafe == ManagerInv => ManagerTypeOK /\ NoStaleEntry /\ WakeNotLost /\ OneRunPerJob
  <1> SUFFICES ASSUME ManagerInv PROVE NoStaleEntry /\ OneRunPerJob
    BY DEF ManagerInv
  <1>1. NoStaleEntry
    BY DEF ManagerInv, RefresherSound, EntriesFollow, EntryFits, Stopping, NoStaleEntry, Settled
  <1>2. OneRunPerJob
    BY DEF ManagerInv, RunsApart, Marking, OneRunPerJob
  <1> QED BY <1>1, <1>2

\* Once announced changes were worked off, no entry is left of a disabled, deleted or older definition, whatever
\* batches, runs and changes overlapped and whatever reads failed; only a name whose latest read failed is exempt
\* (manager.go: scheduleJob, refresh.go: runRefreshes, refreshPending).
THEOREM ManagerNoStaleEntry == ManagerSpec => []NoStaleEntry
  <1>1. ManagerInit => ManagerInv
    BY ManagerInitKeeps
  <1>2. ManagerInv /\ [ManagerNext]_managerVars => ManagerInv'
    BY ManagerStepKeeps
  <1>3. ManagerInv => NoStaleEntry
    BY ManagerInvSafe
  <1> QED BY <1>1, <1>2, <1>3, PTL DEF ManagerSpec

\* A job's handler runs once at a time, however often its entry fires (manager.go: runJob).
THEOREM ManagerOneRun == ManagerSpec => []OneRunPerJob
  <1>1. ManagerInit => ManagerInv
    BY ManagerInitKeeps
  <1>2. ManagerInv /\ [ManagerNext]_managerVars => ManagerInv'
    BY ManagerStepKeeps
  <1>3. ManagerInv => OneRunPerJob
    BY ManagerInvSafe
  <1> QED BY <1>1, <1>2, <1>3, PTL DEF ManagerSpec

-----------------------------------------------------------------------------
(* CronDelivery.  The gate leaves one worker under way.  What it holds is   *)
(* of the round of the row exactly as long as the token agrees, and every   *)
(* output marked as delivered was sent.                                     *)

Activities == {"rest", "claim", "run", "save", "check", "send", "persist", "fallback", "disable"}
MemStates == [at : Activities, token : 0 .. limit.runs, id : Nat, once : BOOLEAN, all : BOOLEAN, version : 0 .. limit.edits,
              state : DeliveryState, to : Platforms, out : 1 .. Len(OutputIDs)]
RowStates == [id : Nat, enabled : BOOLEAN, once : BOOLEAN, all : BOOLEAN, token : 0 .. limit.runs,
              state : DeliveryState, version : 0 .. limit.edits]
DoneSent(state) == \A p \in Platforms, o \in Outputs : DeliveryStatusDone(state.done[p][o]) => <<state.run, p, o>> \in sent
Active(w) == deliverer[w].at # "rest"

CronTypes ==
    /\ row \in RowStates /\ deliverer \in [Workers -> MemStates]
    /\ editor \in [on : BOOLEAN, enabled : BOOLEAN, once : BOOLEAN, all : BOOLEAN]
    /\ connected \subseteq Platforms /\ foreground \subseteq 1 .. limit.runs
    /\ cron \in {"new", "running", "closing", "closed"}
    /\ sent \subseteq (1 .. limit.runs) \X Platforms \X Outputs
    /\ limit \in CronLimits /\ used \in [runs : 0 .. limit.runs, edits : 0 .. limit.edits, faults : Nat]

OneActive == \A v, w \in Workers : Active(v) /\ Active(w) => v = w

\* The row's run was claimed in the row's round.
JobRowSound ==
    /\ row.token <= used.runs /\ row.version <= used.edits /\ row.state.version <= row.version
    /\ row.token # 0 => row.state.run = row.token /\ row.state.claimed = row.version
    /\ row.token = 0 => row.state = NoReport
    /\ DoneSent(row.state) /\ (row.state.taken => row.state.run \in foreground)

\* Only the editor changes the targets, and only a new round or a disabled job.
EditorSound ==
    editor.on => used.edits < limit.edits /\ editor.all = row.all /\ (row.enabled => editor.enabled)

Belongs(m) ==
    /\ m.token <= used.runs /\ m.version <= row.version /\ m.state.version <= m.version /\ m.state.run = m.token
    /\ m.token = 0 => m.at = "claim" /\ m.state = NoReport
    /\ m.token # 0 /\ m.token = row.token => m.state.claimed = row.version
    /\ m.version = row.version /\ (row.enabled \/ (editor.on /\ editor.enabled)) => m.all = row.all
Honest(m) == DoneSent(m.state) /\ (m.state.taken => m.state.run \in foreground)
Status(m) == m.state.done[m.to][OutputIDs[m.out]]
InStep(w, m) ==
    /\ m.at \in {"check", "send", "persist", "fallback"} => m.to \in Filtered(w, m)
    /\ m.at \in {"claim", "check", "send", "disable"} /\ row.state.run = m.state.run /\ ~m.state.taken => row.state = m.state
    /\ m.at = "send" => ~m.state.taken /\ ~DeliveryStatusDone(Status(m))
    /\ m.at = "fallback" => ~m.state.taken /\ Status(m) = "fallback_pending"
Sound(w, m) == Belongs(m) /\ Honest(m) /\ InStep(w, m)
MemSound == \A w \in Workers : Active(w) => Sound(w, deliverer[w])

CronInv == CronTypes /\ OneActive /\ JobRowSound /\ EditorSound /\ MemSound

LEMMA CronConstants ==
  /\ Source \in Platforms /\ Len(OutputIDs) \in Nat /\ Len(OutputIDs) > 0 /\ Outputs = {OutputIDs[i] : i \in 1 .. Len(OutputIDs)}
  /\ \A i \in 1 .. Len(OutputIDs) : OutputIDs[i] \in Outputs
  /\ \A l \in CronLimits : l.runs \in Nat /\ l.edits \in Nat /\ l.faults \in Nat /\ l.takeover \in BOOLEAN
  /\ \A s \in SUBSET Platforms : IsFiniteSet(s)
  <1>1. OutputIDs \in Seq(STRING) /\ Len(OutputIDs) > 0 /\ Source \in Platforms /\ IsFiniteSet(Platforms)
        /\ CronLimits \subseteq [runs : Nat, edits : Nat, faults : Nat, takeover : BOOLEAN]
    BY CronAssumption
  <1>2. Len(OutputIDs) \in Nat /\ DOMAIN OutputIDs = 1 .. Len(OutputIDs)
    BY <1>1, LenProperties
  <1>3. Outputs = {OutputIDs[i] : i \in 1 .. Len(OutputIDs)}
    BY <1>2 DEF Outputs, Range
  <1>4. \A i \in 1 .. Len(OutputIDs) : OutputIDs[i] \in Outputs
    BY <1>3
  <1>5. \A l \in CronLimits : l.runs \in Nat /\ l.edits \in Nat /\ l.faults \in Nat /\ l.takeover \in BOOLEAN
    BY <1>1
  <1>6. \A s \in SUBSET Platforms : IsFiniteSet(s)
    BY <1>1, FS_Subset
  <1> QED BY <1>1, <1>2, <1>3, <1>4, <1>5, <1>6

\* The order in which a set is gone through has every element in one place.
LEMMA OrderProperties ==
  ASSUME NEW S, IsFiniteSet(S)
  PROVE  /\ SetToSeq(S) \in Seq(S) /\ Len(SetToSeq(S)) = Cardinality(S) /\ Cardinality(S) \in Nat
         /\ DOMAIN SetToSeq(S) = 1 .. Cardinality(S)
         /\ \A i \in 1 .. Cardinality(S) : SetToSeq(S)[i] \in S
         /\ \A x \in S : \E i \in 1 .. Cardinality(S) : SetToSeq(S)[i] = x
  <1> DEFINE n == Cardinality(S)
             f == SetToSeq(S)
  <1>1. n \in Nat /\ ExistsBijection(1 .. n, S)
    BY FS_CardinalityType
  <1>2. \E g \in [1 .. n -> S] : IsInjective(g)
    BY <1>1 DEF ExistsBijection, Bijection, Injection
  <1>3. f \in [1 .. n -> S] /\ IsInjective(f)
    BY <1>2 DEF SetToSeq
  <1>4. f \in Injection(1 .. n, S)
    BY <1>3 DEF Injection
  <1>5. IsFiniteSet(1 .. n) /\ Cardinality(1 .. n) = n
    BY <1>1, FS_Interval
  <1> HIDE DEF f
  <1>6. f \in Surjection(1 .. n, S)
    BY <1>4, <1>5, FS_Injection
  <1>7. \A x \in S : \E i \in 1 .. n : f[i] = x
    BY <1>6 DEF Surjection
  <1>8. f \in Seq(S)
    BY <1>1, <1>3, SeqDef
  <1>9. Len(f) = n
    BY <1>1, <1>3, <1>8, LenProperties
  <1> QED BY <1>1, <1>3, <1>7, <1>8, <1>9 DEF f

LEMMA MemFields ==
  ASSUME NEW m \in MemStates
  PROVE  /\ m.at \in Activities /\ m.token \in 0 .. limit.runs /\ m.id \in Nat /\ m.once \in BOOLEAN /\ m.all \in BOOLEAN
         /\ m.version \in 0 .. limit.edits /\ m.state \in DeliveryState /\ m.to \in Platforms /\ m.out \in 1 .. Len(OutputIDs)
  BY DEF MemStates

LEMMA StateFields ==
  ASSUME NEW s \in DeliveryState
  PROVE  /\ s.run \in 0 .. limit.runs /\ s.ready \in BOOLEAN /\ s.need \in BOOLEAN /\ s.outputs \in SUBSET Outputs /\ s.taken \in BOOLEAN
         /\ s.done \in [Platforms -> [Outputs -> Statuses]] /\ s.version \in 0 .. limit.edits /\ s.claimed \in 0 .. limit.edits
  BY DEF DeliveryState

LEMMA FilteredPlatforms ==
  ASSUME NEW w \in Workers, NEW m, m.all \in BOOLEAN
  PROVE  Filtered(w, m) \subseteq Platforms /\ IsFiniteSet(Filtered(w, m))
  BY CronConstants DEF Filtered, Targets

\* The place and the next output of a worker's memory change, its job and its state do not.
SameJob(m, n) ==
    n.token = m.token /\ n.id = m.id /\ n.once = m.once /\ n.all = m.all /\ n.version = m.version

LEMMA MemAt ==
  ASSUME NEW m \in MemStates, NEW at \in Activities
  PROVE  LET n == [m EXCEPT !.at = at]
         IN n \in MemStates /\ n.at = at /\ SameJob(m, n) /\ n.state = m.state /\ n.to = m.to /\ n.out = m.out
  BY DEF MemStates, SameJob

LEMMA MemAtState ==
  ASSUME NEW m \in MemStates, NEW at \in Activities, NEW s \in DeliveryState
  PROVE  LET n == [m EXCEPT !.at = at, !.state = s]
         IN n \in MemStates /\ n.at = at /\ SameJob(m, n) /\ n.state = s /\ n.to = m.to /\ n.out = m.out
  BY DEF MemStates, SameJob

LEMMA MemAtTo ==
  ASSUME NEW m \in MemStates, NEW at \in Activities, NEW p \in Platforms, NEW i \in 1 .. Len(OutputIDs)
  PROVE  LET n == [m EXCEPT !.at = at, !.out = i, !.to = p]
         IN n \in MemStates /\ n.at = at /\ SameJob(m, n) /\ n.state = m.state /\ n.to = p /\ n.out = i
  BY DEF MemStates, SameJob

LEMMA AfterFacts ==
  ASSUME limit \in CronLimits, NEW w \in Workers, NEW m \in MemStates, m.to \in Filtered(w, m)
  PROVE  LET n == After(w, m)
         IN /\ n \in MemStates /\ SameJob(m, n) /\ n.state = m.state /\ n.at \in {"check", "disable"}
            /\ n.at = "check" => n.to \in Filtered(w, m)
  <1> DEFINE F == Filtered(w, m)
             order == SetToSeq(F)
             here == CHOOSE i \in DOMAIN order : order[i] = m.to
             a == [m EXCEPT !.at = "check", !.out = m.out + 1]
             next == order[here + 1]
             b == [m EXCEPT !.at = "check", !.out = 1, !.to = next]
             c == [m EXCEPT !.at = "disable"]
  <1>1. F \subseteq Platforms /\ IsFiniteSet(F)
    <2>1. m.all \in BOOLEAN
      BY MemFields
    <2> QED BY <2>1, FilteredPlatforms
  <1>2. Len(order) = Cardinality(F) /\ Cardinality(F) \in Nat /\ DOMAIN order = 1 .. Cardinality(F)
        /\ (\A i \in 1 .. Cardinality(F) : order[i] \in F) /\ \E i \in 1 .. Cardinality(F) : order[i] = m.to
    BY <1>1, OrderProperties
  <1>3. here \in 1 .. Len(order)
    BY <1>2
  <1>4. here < Len(order) => next \in F
    <2> HIDE DEF F, order, here
    <2> QED BY <1>2, <1>3
  <1>5. After(w, m) = CASE m.out < Len(OutputIDs) -> a [] m.out = Len(OutputIDs) /\ here < Len(order) -> b [] OTHER -> c
    BY Zenon DEF After
  <1> HIDE DEF F, order, here, next
  <1>6. 1 \in 1 .. Len(OutputIDs) /\ (m.out < Len(OutputIDs) => m.out + 1 \in 1 .. Len(OutputIDs))
    BY MemFields, CronConstants
  <1>7. m.out < Len(OutputIDs) => a \in MemStates /\ SameJob(m, a) /\ a.state = m.state /\ a.at = "check" /\ a.to = m.to
    BY <1>6 DEF MemStates, SameJob, Activities
  <1>8. here < Len(order) => b \in MemStates /\ SameJob(m, b) /\ b.state = m.state /\ b.at = "check" /\ b.to = next
    <2> SUFFICES ASSUME here < Len(order)
                 PROVE  b \in MemStates /\ SameJob(m, b) /\ b.state = m.state /\ b.at = "check" /\ b.to = next
      OBVIOUS
    <2>1. next \in Platforms /\ "check" \in Activities
      BY <1>1, <1>4 DEF Activities
    <2> QED BY <2>1, <1>6 DEF MemStates, SameJob
  <1>9. c \in MemStates /\ SameJob(m, c) /\ c.state = m.state /\ c.at = "disable"
    BY MemAt DEF Activities
  <1> HIDE DEF a, b, c
  <1>10. CASE m.out < Len(OutputIDs)
    <2>1. After(w, m) = a
      BY <1>5, <1>10, MemFields, CronConstants
    <2> QED BY <2>1, <1>7, <1>10
  <1>11. CASE m.out = Len(OutputIDs) /\ here < Len(order)
    <2>1. After(w, m) = b
      BY <1>5, <1>11, MemFields, CronConstants
    <2> QED BY <2>1, <1>8, <1>4, <1>11 DEF F
  <1>12. CASE ~(m.out < Len(OutputIDs)) /\ ~(m.out = Len(OutputIDs) /\ here < Len(order))
    <2>1. After(w, m) = c
      BY <1>5, <1>12
    <2> QED BY <2>1, <1>9
  <1> QED BY <1>10, <1>11, <1>12

LEMMA BeginFacts ==
  ASSUME limit \in CronLimits, NEW w \in Workers, NEW mm \in MemStates, NEW s \in DeliveryState, deliverer[w] \in MemStates,
         mm = deliverer[w]
  PROVE  LET n == Begin(w, mm, s)
         IN /\ n \in MemStates /\ SameJob(mm, n) /\ n.state = s /\ n.at \in {"check", "disable"}
            /\ n.at = "check" => n.to \in Filtered(w, mm)
  <1> DEFINE F == Filtered(w, mm)
             at == IF F = {} THEN "disable" ELSE "check"
             to == IF F = {} THEN Source ELSE SetToSeq(F)[1]
             n == [mm EXCEPT !.state = s, !.at = at, !.to = to, !.out = 1]
  <1>1. F \subseteq Platforms /\ IsFiniteSet(F)
    <2>1. mm.all \in BOOLEAN
      BY MemFields
    <2> QED BY <2>1, FilteredPlatforms
  <1>2. F # {} => SetToSeq(F)[1] \in F
    <2>1. Cardinality(F) \in Nat /\ \A i \in 1 .. Cardinality(F) : SetToSeq(F)[i] \in F
      BY <1>1, OrderProperties
    <2>2. F # {} => Cardinality(F) # 0
      BY <1>1, FS_EmptySet
    <2> QED BY <2>1, <2>2
  <1>3. to \in Platforms /\ (at = "check" => to \in F) /\ at \in {"check", "disable"}
    BY <1>1, <1>2, CronConstants
  <1>4. Begin(w, mm, s) = n
    BY DEF Begin
  <1>5. 1 \in 1 .. Len(OutputIDs)
    BY CronConstants
  <1> HIDE DEF at, to, F
  <1>6. n \in MemStates /\ SameJob(mm, n) /\ n.state = s /\ n.at = at /\ n.to = to
    BY <1>3, <1>5 DEF MemStates, SameJob, Activities
  <1> QED BY <1>3, <1>4, <1>6 DEF F

LEMMA SameStates ==
  ASSUME limit' = limit
  PROVE  MemStates' = MemStates /\ RowStates' = RowStates /\ DeliveryState' = DeliveryState
  BY DEF MemStates, RowStates, DeliveryState

LEMMA CronFacts ==
  ASSUME CronInv
  PROVE  /\ limit \in CronLimits /\ limit.runs \in Nat /\ limit.edits \in Nat /\ used.runs \in 0 .. limit.runs /\ used.edits \in 0 .. limit.edits
         /\ row \in RowStates /\ row.token \in 0 .. limit.runs /\ row.version \in 0 .. limit.edits /\ row.state \in DeliveryState
         /\ row.enabled \in BOOLEAN /\ row.once \in BOOLEAN /\ row.all \in BOOLEAN /\ row.id \in Nat
         /\ \A w \in Workers : deliverer[w] \in MemStates
         /\ editor.on \in BOOLEAN /\ editor.enabled \in BOOLEAN /\ editor.once \in BOOLEAN /\ editor.all \in BOOLEAN
  BY CronConstants DEF CronInv, CronTypes, RowStates

LEMMA NoReportFacts ==
  ASSUME limit \in CronLimits
  PROVE  /\ NoReport \in DeliveryState /\ NoReport.run = 0 /\ NoReport.version = 0 /\ ~NoReport.taken /\ ~NoReport.ready
         /\ DoneSent(NoReport) /\ Asleep \in MemStates /\ Asleep.at = "rest"
  <1>1. limit.runs \in Nat /\ limit.edits \in Nat /\ 1 \in 1 .. Len(OutputIDs) /\ Source \in Platforms
    BY CronConstants
  <1>2. NoDelivery \in [Platforms -> [Outputs -> Statuses]]
    BY DEF NoDelivery, Statuses
  <1>3. NoReport \in DeliveryState
    BY <1>1, <1>2 DEF NoReport, DeliveryState
  <1>4. DoneSent(NoReport)
    BY DEF DoneSent, NoReport, NoDelivery, DeliveryStatusDone
  <1>5. Asleep \in MemStates /\ Asleep.at = "rest"
    BY <1>1, <1>3 DEF Asleep, MemStates, Activities
  <1> QED BY <1>3, <1>4, <1>5 DEF NoReport

LEMMA CronInitKeeps == CronInit => CronInv
  <1> SUFFICES ASSUME CronInit PROVE CronInv
    OBVIOUS
  <1>1. limit \in CronLimits /\ limit.runs \in Nat /\ limit.edits \in Nat
    BY CronConstants DEF CronInit
  <1>2. row.id = 0 /\ row.token = 0 /\ row.state = NoReport /\ row.version = 0 /\ row \in RowStates
    <2>1. row \in [id : {0}, enabled : {TRUE}, once : BOOLEAN, all : BOOLEAN, token : {0}, state : {NoReport}, version : {0}]
      BY DEF CronInit
    <2>2. 0 \in 0 .. limit.runs /\ 0 \in 0 .. limit.edits /\ NoReport \in DeliveryState
      BY <1>1, NoReportFacts
    <2>3. {TRUE} \subseteq BOOLEAN /\ {0} \subseteq Nat /\ {0} \subseteq 0 .. limit.runs /\ {0} \subseteq 0 .. limit.edits /\ {NoReport} \subseteq DeliveryState
      BY <2>2
    <2>4. [id : {0}, enabled : {TRUE}, once : BOOLEAN, all : BOOLEAN, token : {0}, state : {NoReport}, version : {0}] \subseteq RowStates
      BY <2>3 DEF RowStates
    <2>5. row.id = 0 /\ row.token = 0 /\ row.state = NoReport /\ row.version = 0
      BY <2>1
    <2> QED BY <2>1, <2>4, <2>5
  <1>3. \A w \in Workers : deliverer[w] = Asleep
    BY DEF CronInit
  <1>4. CronTypes
    BY <1>1, <1>2, NoReportFacts DEF CronInit, CronTypes, NoEdit
  <1>5. OneActive /\ MemSound
    BY <1>3, <1>1, NoReportFacts DEF OneActive, MemSound, Active
  <1>6. JobRowSound
    <2>1. used.runs = 0 /\ used.edits = 0
      BY DEF CronInit
    <2> QED BY <2>1, <1>1, <1>2, NoReportFacts DEF JobRowSound
  <1>7. EditorSound
    BY DEF EditorSound, CronInit, NoEdit
  <1> QED BY <1>4, <1>5, <1>6, <1>7 DEF CronInv

\* What is left to show of a step of one worker, when nobody else is under way.
LEMMA WorkerKeeps ==
  ASSUME CronInv, NEW w \in Workers, Active(w) \/ \A v \in Workers : ~Active(v), NEW m \in MemStates,
         deliverer' = [deliverer EXCEPT ![w] = m], limit' = limit,
         row' \in RowStates, editor' \in [on : BOOLEAN, enabled : BOOLEAN, once : BOOLEAN, all : BOOLEAN],
         connected' \subseteq Platforms, foreground' = foreground, cron' = cron,
         sent' \subseteq (1 .. limit.runs) \X Platforms \X Outputs,
         used' \in [runs : 0 .. limit.runs, edits : 0 .. limit.edits, faults : Nat],
         JobRowSound', EditorSound', m.at # "rest" => Sound(w, m)'
  PROVE  CronInv'
  <1>1. deliverer' \in [Workers -> MemStates] /\ deliverer'[w] = m /\ \A v \in Workers \ {w} : deliverer'[v] = deliverer[v]
    BY DEF CronInv, CronTypes
  <1>2. CronTypes'
    BY <1>1, SameStates DEF CronInv, CronTypes
  <1>3. \A v \in Workers \ {w} : ~Active(v)
    BY DEF CronInv, OneActive
  <1>4. \A v \in Workers \ {w} : ~Active(v)'
    BY <1>1, <1>3 DEF Active
  <1>5. OneActive'
    BY <1>4 DEF OneActive
  <1>6. MemSound'
    <2> SUFFICES ASSUME NEW v \in Workers, Active(v)' PROVE Sound(v, deliverer[v])'
      BY DEF MemSound
    <2>1. v = w /\ deliverer'[v] = m /\ m.at # "rest"
      BY <1>1, <1>4 DEF Active
    <2> QED BY <2>1 DEF Sound, Belongs, Honest, InStep, DoneSent, Status, Filtered, Targets
  <1> QED BY <1>2, <1>5, <1>6 DEF CronInv

LEMMA RowSame ==
  ASSUME CronInv, UNCHANGED <<row, foreground>>, sent \subseteq sent', used.runs <= used'.runs, used'.runs \in Nat, used'.edits = used.edits
  PROVE  JobRowSound'
  <1>1. JobRowSound /\ used.runs \in Nat /\ row.token \in Nat /\ row.token <= used.runs
    BY CronFacts DEF CronInv, JobRowSound
  <1> QED BY <1>1 DEF JobRowSound, DoneSent

LEMMA EditorSame ==
  ASSUME CronInv, UNCHANGED editor, used'.edits = used.edits, row'.all = row.all, row'.enabled => row.enabled, limit' = limit
  PROVE  EditorSound'
  BY DEF CronInv, EditorSound

LEMMA UsedSame ==
  ASSUME CronInv, Fault \/ UNCHANGED used
  PROVE  used' \in [runs : 0 .. limit.runs, edits : 0 .. limit.edits, faults : Nat] /\ used'.runs = used.runs /\ used'.edits = used.edits
  BY DEF CronInv, CronTypes, Fault

\* A worker that rests leaves nothing to be shown but that the row stays sound.
LEMMA RestKeeps ==
  ASSUME CronInv, NEW w \in Workers, Active(w), Rest(w), UNCHANGED <<row, editor, connected, foreground, cron, sent, limit>>,
         used' \in [runs : 0 .. limit.runs, edits : 0 .. limit.edits, faults : Nat], used.runs <= used'.runs, used'.edits = used.edits
  PROVE  CronInv'
  <1>1. deliverer' = [deliverer EXCEPT ![w] = Asleep] /\ Asleep \in MemStates /\ Asleep.at = "rest"
    BY CronFacts, NoReportFacts DEF Rest
  <1>2. JobRowSound' /\ EditorSound' /\ used'.runs \in Nat
    BY RowSame, EditorSame, CronFacts
  <1>3. /\ row' \in RowStates /\ editor' \in [on : BOOLEAN, enabled : BOOLEAN, once : BOOLEAN, all : BOOLEAN]
        /\ connected' \subseteq Platforms /\ sent' \subseteq (1 .. limit.runs) \X Platforms \X Outputs
    BY DEF CronInv, CronTypes
  <1>4. PICK m \in MemStates : m = Asleep
    BY <1>1
  <1> QED BY <1>1, <1>2, <1>3, <1>4, WorkerKeeps

\* The facts about a worker under way that every step of it starts from.
LEMMA HeldFacts ==
  ASSUME CronInv, NEW w \in Workers, Active(w)
  PROVE  /\ deliverer[w] \in MemStates /\ deliverer[w].state \in DeliveryState /\ Sound(w, deliverer[w])
         /\ deliverer[w].token \in 0 .. limit.runs /\ deliverer[w].version \in 0 .. limit.edits /\ deliverer[w].out \in 1 .. Len(OutputIDs)
         /\ OutputIDs[deliverer[w].out] \in Outputs /\ deliverer[w].to \in Platforms /\ deliverer[w].all \in BOOLEAN
         /\ deliverer[w].state.run \in 0 .. limit.runs /\ deliverer[w].state.version \in 0 .. limit.edits
         /\ deliverer[w].state.claimed \in 0 .. limit.edits
         /\ deliverer[w].state.done \in [Platforms -> [Outputs -> Statuses]] /\ deliverer[w].state.taken \in BOOLEAN
  <1>1. deliverer[w] \in MemStates /\ Sound(w, deliverer[w])
    BY CronFacts DEF CronInv, MemSound
  <1> QED BY <1>1, MemFields, StateFields, CronConstants

\* The next activity of a worker that keeps its job and its state.
LEMMA MoveKeeps ==
  ASSUME CronInv, NEW w \in Workers, Active(w), NEW m \in MemStates, deliverer' = [deliverer EXCEPT ![w] = m],
         SameJob(deliverer[w], m), m.state = deliverer[w].state, m.at # "rest", m.at # "claim", deliverer[w].token # 0,
         UNCHANGED <<row, editor, connected, foreground, cron, sent, limit>>, Fault \/ UNCHANGED used, InStep(w, m)
  PROVE  CronInv'
  <1>1. Belongs(deliverer[w]) /\ Honest(deliverer[w])
    BY HeldFacts DEF Sound
  <1>2. used'.runs = used.runs /\ used'.edits = used.edits /\ used' \in [runs : 0 .. limit.runs, edits : 0 .. limit.edits, faults : Nat]
    BY UsedSame
  <1>3. Belongs(m)'
    BY <1>1, <1>2 DEF Belongs, SameJob
  <1>4. Honest(m)'
    BY <1>1 DEF Honest, DoneSent
  <1>5. InStep(w, m)'
    BY DEF InStep, Status, Filtered, Targets
  <1>6. JobRowSound' /\ EditorSound'
    BY <1>2, RowSame, EditorSame, CronFacts
  <1>7. /\ row' \in RowStates /\ editor' \in [on : BOOLEAN, enabled : BOOLEAN, once : BOOLEAN, all : BOOLEAN]
        /\ connected' \subseteq Platforms /\ sent' \subseteq (1 .. limit.runs) \X Platforms \X Outputs
    BY DEF CronInv, CronTypes
  <1> QED BY <1>2, <1>3, <1>4, <1>5, <1>6, <1>7, WorkerKeeps DEF Sound

\* Reading the row under the gate.
LEMMA ReloadKeeps ==
  ASSUME CronInv, NEW w \in Workers, Unlocked, Reload(w), connected' \subseteq Platforms,
         UNCHANGED <<row, editor, foreground, cron, sent, used, limit>>
  PROVE  CronInv'
  <1> DEFINE d == deliverer[w]
             x == [d EXCEPT !.at = "claim", !.token = row.token, !.id = row.id, !.once = row.once,
                            !.all = row.all, !.version = row.version, !.state = row.state]
  <1>1. deliverer' = [deliverer EXCEPT ![w] = x] /\ d \in MemStates
    BY CronFacts DEF Reload
  <1>2. /\ x \in MemStates /\ x.at = "claim" /\ x.token = row.token /\ x.id = row.id /\ x.all = row.all /\ x.version = row.version
        /\ x.state = row.state
    BY <1>1, CronFacts DEF MemStates, Activities
  <1>3. PICK m \in MemStates : m = x
    BY <1>2
  <1> HIDE DEF x
  <1>4. JobRowSound /\ row.state \in DeliveryState
    BY CronFacts DEF CronInv
  <1>5. Belongs(m)'
    <2>1. row.token # 0 => row.state.run = row.token /\ row.state.claimed = row.version
      BY <1>4 DEF JobRowSound
    <2>2. row.token = 0 => row.state = NoReport /\ NoReport.run = 0
      BY <1>4, CronFacts, NoReportFacts DEF JobRowSound
    <2> QED BY <1>2, <1>3, <1>4, <2>1, <2>2, CronFacts DEF Belongs, JobRowSound
  <1>6. Honest(m)'
    BY <1>2, <1>3, <1>4 DEF Honest, JobRowSound, DoneSent
  <1>7. InStep(w, m)'
    BY <1>2, <1>3 DEF InStep
  <1>8. JobRowSound' /\ EditorSound'
    BY RowSame, EditorSame, CronFacts
  <1>9. /\ row' \in RowStates /\ editor' \in [on : BOOLEAN, enabled : BOOLEAN, once : BOOLEAN, all : BOOLEAN]
        /\ sent' \subseteq (1 .. limit.runs) \X Platforms \X Outputs /\ used' \in [runs : 0 .. limit.runs, edits : 0 .. limit.edits, faults : Nat]
    BY DEF CronInv, CronTypes
  <1>10. \A v \in Workers : ~Active(v)
    BY DEF Unlocked, Active
  <1> QED BY <1>1, <1>3, <1>5, <1>6, <1>7, <1>8, <1>9, <1>10, WorkerKeeps DEF Sound

LEMMA ClaimRunKeeps ==
  ASSUME CronInv, NEW w \in Workers, ClaimRun(w)
  PROVE  CronInv'
  <1> DEFINE d == deliverer[w]
             rn == used.runs + 1
             fresh == [NoReport EXCEPT !.run = rn, !.claimed = row.version]
  <1>0. d.at = "claim" /\ Active(w) /\ UNCHANGED <<editor, connected, foreground, cron, sent, limit>>
    BY DEF ClaimRun, Active
  <1>1. \/ /\ rn <= limit.runs /\ used' = [used EXCEPT !.runs = rn] /\ Swappable(w)
           /\ row' = [row EXCEPT !.token = rn, !.state = fresh]
           /\ deliverer' = [deliverer EXCEPT ![w].at = "run", ![w].token = rn, ![w].state = fresh]
        \/ rn <= limit.runs /\ used' = [used EXCEPT !.runs = rn] /\ Rest(w) /\ UNCHANGED row
        \/ /\ d.token # 0 /\ UNCHANGED <<row, used>>
           /\ deliverer' = [deliverer EXCEPT ![w] = IF d.state.ready THEN Begin(w, d, d.state) ELSE [d EXCEPT !.at = "run"]]
    BY DEF ClaimRun
  <1>2. d \in MemStates /\ d.state \in DeliveryState /\ Belongs(d) /\ Honest(d) /\ InStep(w, d)
    BY <1>0, HeldFacts DEF Sound
  <1>3. rn <= limit.runs /\ used' = [used EXCEPT !.runs = rn] => /\ used' \in [runs : 0 .. limit.runs, edits : 0 .. limit.edits, faults : Nat]
                                                                    /\ used'.runs = rn /\ used'.edits = used.edits
    BY CronFacts DEF CronInv, CronTypes
  <1>4. CASE /\ rn <= limit.runs /\ used' = [used EXCEPT !.runs = rn] /\ Swappable(w)
             /\ row' = [row EXCEPT !.token = rn, !.state = fresh]
             /\ deliverer' = [deliverer EXCEPT ![w].at = "run", ![w].token = rn, ![w].state = fresh]
    <2> DEFINE x == [d EXCEPT !.at = "run", !.token = rn, !.state = fresh]
    <2>1. rn \in 1 .. limit.runs /\ used.runs \in Nat /\ limit \in CronLimits
      BY <1>4, CronFacts
    <2> DEFINE y == [NoReport EXCEPT !.run = rn]
    <2>a. NoReport \in DeliveryState /\ row.version \in 0 .. limit.edits /\ rn \in 0 .. limit.runs
      BY <2>1, CronFacts, NoReportFacts
    <2>b. /\ y \in DeliveryState /\ y.run = rn /\ y.version = NoReport.version /\ y.taken = NoReport.taken /\ y.done = NoReport.done
      BY <2>a DEF DeliveryState
    <2>c. fresh = [y EXCEPT !.claimed = row.version]
      BY <2>a
    <2> HIDE DEF y, fresh
    <2>2. /\ fresh \in DeliveryState /\ fresh.run = rn /\ fresh.claimed = row.version /\ fresh.version = 0 /\ ~fresh.taken
          /\ fresh.done = NoReport.done
      BY <2>1, <2>a, <2>b, <2>c, NoReportFacts DEF DeliveryState
    <2>f. PICK fr \in DeliveryState : fr = fresh
      BY <2>2
    <2>g. d.version \in Nat
      BY <1>0, HeldFacts, CronFacts
    <2>d. rn \in 0 .. limit.runs
      BY <2>1
    <2> HIDE DEF rn
    <2>3. x \in MemStates /\ x.at = "run" /\ x.token = rn /\ x.version = d.version /\ x.all = d.all /\ x.state = fresh
      BY <1>2, <2>d, <2>2 DEF MemStates, Activities
    <2>4. /\ row' \in RowStates /\ row'.token = rn /\ row'.state = fresh /\ row'.version = row.version /\ row'.all = row.all
          /\ row'.enabled = row.enabled
      <3> DEFINE z == [row EXCEPT !.token = rn]
      <3>1. z \in RowStates /\ z.token = rn /\ z.version = row.version /\ z.all = row.all /\ z.enabled = row.enabled
        BY <2>d, CronFacts DEF RowStates
      <3>2. row' = [z EXCEPT !.state = fresh]
        BY <1>4
      <3> HIDE DEF z
      <3> QED BY <3>1, <3>2, <2>2 DEF RowStates
    <2>5. deliverer' = [deliverer EXCEPT ![w] = x]
      BY <1>4, CronFacts
    <2>6. PICK m \in MemStates : m = x
      BY <2>3
    <2>e. used'.runs = rn /\ used'.edits = used.edits /\ rn \in Nat /\ used.runs < rn
      BY <1>3, <1>4, <2>1 DEF rn
    <2> HIDE DEF x
    <2>7. Belongs(m)'
      BY <1>0, <1>2, <2>e, <2>1, <2>2, <2>g, <2>3, <2>4, <2>6 DEF Belongs
    <2>8. DoneSent(fr)' /\ Honest(m)'
      <3>1. \A p \in Platforms, o \in Outputs : ~DeliveryStatusDone(fr.done[p][o])
        BY <2>2, <2>f DEF NoReport, NoDelivery, DeliveryStatusDone
      <3> QED BY <2>2, <2>f, <2>3, <2>6, <3>1 DEF Honest, DoneSent
    <2>9. InStep(w, m)'
      BY <2>3, <2>6 DEF InStep
    <2>10. JobRowSound'
      <3>1. row.version <= used.edits /\ row.version \in Nat
        BY CronFacts DEF JobRowSound, CronInv
      <3>2. DoneSent(row.state)'
        BY <2>4, <2>f, <2>8 DEF DoneSent
      <3> QED BY <3>1, <3>2, <1>0, <2>e, <2>1, <2>2, <2>4 DEF JobRowSound
    <2>11. EditorSound'
      BY <1>0, <1>3, <1>4, <2>4, EditorSame
    <2>12. /\ editor' \in [on : BOOLEAN, enabled : BOOLEAN, once : BOOLEAN, all : BOOLEAN]
           /\ connected' \subseteq Platforms /\ sent' \subseteq (1 .. limit.runs) \X Platforms \X Outputs
      BY <1>0 DEF CronInv, CronTypes
    <2> QED BY <1>0, <1>3, <1>4, <2>4, <2>5, <2>6, <2>7, <2>8, <2>9, <2>10, <2>11, <2>12, WorkerKeeps DEF Sound
  <1>5. CASE rn <= limit.runs /\ used' = [used EXCEPT !.runs = rn] /\ Rest(w) /\ UNCHANGED row
    BY <1>0, <1>3, <1>5, CronFacts, RestKeeps
  <1>6. CASE /\ d.token # 0 /\ UNCHANGED <<row, used>>
             /\ deliverer' = [deliverer EXCEPT ![w] = IF d.state.ready THEN Begin(w, d, d.state) ELSE [d EXCEPT !.at = "run"]]
    <2>1. PICK m \in MemStates : /\ deliverer' = [deliverer EXCEPT ![w] = m] /\ SameJob(d, m) /\ m.state = d.state
                                 /\ m.at \in {"check", "disable", "run"} /\ (m.at = "check" => m.to \in Filtered(w, d))
      <3>1. CASE d.state.ready
        BY <1>2, <1>6, <3>1, CronFacts, BeginFacts
      <3>2. CASE ~d.state.ready
        BY <1>2, <1>6, <3>2, MemAt DEF Activities
      <3> QED BY <3>1, <3>2
    <2>2. Filtered(w, m) = Filtered(w, d)
      BY <2>1 DEF Filtered, Targets, SameJob
    <2>3. InStep(w, m)
      BY <1>0, <1>2, <2>1, <2>2 DEF InStep
    <2> QED BY <1>0, <1>6, <2>1, <2>3, MoveKeeps
  <1> QED BY <1>1, <1>4, <1>5, <1>6

LEMMA RunReportKeeps ==
  ASSUME CronInv, NEW w \in Workers, RunReport(w)
  PROVE  CronInv'
  <1> DEFINE d == deliverer[w]
  <1>1. d.at = "run" /\ Active(w) /\ UNCHANGED <<row, editor, connected, foreground, cron, sent, limit>>
    BY DEF RunReport, Active
  <1>6. \/ \E need \in BOOLEAN :
              /\ deliverer' = [deliverer EXCEPT ![w].at = "save",
                              ![w].state = [@ EXCEPT !.ready = TRUE, !.need = need, !.version = d.version,
                                                     !.taken = SessionTakenOver(w),
                                                     !.outputs = IF SessionTakenOver(w) THEN {}
                                                                 ELSE IF need THEN Outputs ELSE Outputs \ {"text"}]]
              /\ UNCHANGED used
        \/ (Fault \/ UNCHANGED used) /\ Rest(w)
    BY DEF RunReport
  <1>2. d \in MemStates /\ d.state \in DeliveryState /\ Belongs(d) /\ Honest(d) /\ InStep(w, d) /\ d.version \in 0 .. limit.edits
    BY <1>1, HeldFacts DEF Sound
  <1>3. used'.runs = used.runs /\ used'.edits = used.edits /\ used' \in [runs : 0 .. limit.runs, edits : 0 .. limit.edits, faults : Nat]
    <2>1. Fault \/ UNCHANGED used
      BY <1>6
    <2> QED BY <2>1, UsedSame
  <1>4. ASSUME NEW need \in BOOLEAN,
               deliverer' = [deliverer EXCEPT ![w].at = "save",
                              ![w].state = [@ EXCEPT !.ready = TRUE, !.need = need, !.version = d.version,
                                                     !.taken = SessionTakenOver(w),
                                                     !.outputs = IF SessionTakenOver(w) THEN {}
                                                                 ELSE IF need THEN Outputs ELSE Outputs \ {"text"}]]
        PROVE  CronInv'
    <2> DEFINE O == IF SessionTakenOver(w) THEN {} ELSE IF need THEN Outputs ELSE Outputs \ {"text"}
               over == SessionTakenOver(w)
               s == [d.state EXCEPT !.ready = TRUE, !.need = need, !.version = d.version, !.taken = over, !.outputs = O]
               x == [d EXCEPT !.at = "save", !.state = s]
    <2>1. O \in SUBSET Outputs /\ over \in BOOLEAN
      BY DEF SessionTakenOver
    <2>2. deliverer' = [deliverer EXCEPT ![w] = x]
      BY <1>4, CronFacts
    <2>3. over => d.state.run \in foreground
      BY DEF SessionTakenOver
    <2> HIDE DEF O, over
    <2>4. /\ s \in DeliveryState /\ s.run = d.state.run /\ s.claimed = d.state.claimed /\ s.version = d.version /\ s.done = d.state.done
          /\ (s.taken => d.state.run \in foreground)
      BY <1>2, <2>1, <2>3 DEF DeliveryState
    <2> HIDE DEF s
    <2>5. x \in MemStates /\ x.at = "save" /\ SameJob(d, x) /\ x.state = s
      BY <1>2, <2>4 DEF MemStates, SameJob, Activities
    <2>6. PICK m \in MemStates : m = x
      BY <2>5
    <2> HIDE DEF x
    <2>7. Belongs(m)'
      BY <1>1, <1>2, <1>3, <2>4, <2>5, <2>6, CronFacts DEF Belongs, SameJob
    <2>8. Honest(m)'
      BY <1>1, <1>2, <2>4, <2>5, <2>6 DEF Honest, DoneSent
    <2>9. InStep(w, m)'
      BY <2>5, <2>6 DEF InStep
    <2>10. JobRowSound' /\ EditorSound'
      BY <1>1, <1>3, RowSame, EditorSame, CronFacts
    <2>11. /\ row' \in RowStates /\ editor' \in [on : BOOLEAN, enabled : BOOLEAN, once : BOOLEAN, all : BOOLEAN]
           /\ connected' \subseteq Platforms /\ sent' \subseteq (1 .. limit.runs) \X Platforms \X Outputs
      BY <1>1 DEF CronInv, CronTypes
    <2> QED BY <1>1, <1>3, <2>2, <2>5, <2>6, <2>7, <2>8, <2>9, <2>10, <2>11, WorkerKeeps DEF Sound
  <1>5. CASE (Fault \/ UNCHANGED used) /\ Rest(w)
    BY <1>1, <1>3, <1>5, CronFacts, RestKeeps
  <1> QED BY <1>4, <1>5, <1>6

\* Storing the state of a worker whose token is the row's.
LEMMA StoreKeeps ==
  ASSUME CronInv, NEW w \in Workers, Active(w), Swappable(w), NEW s \in DeliveryState, row' = [row EXCEPT !.state = s],
         s.run = deliverer[w].state.run, s.claimed = deliverer[w].state.claimed, s.version = deliverer[w].state.version,
         DoneSent(s), s.taken => s.run \in foreground, deliverer[w].token # 0,
         UNCHANGED <<editor, connected, foreground, cron, sent, used, limit>>
  PROVE  /\ row' \in RowStates /\ row'.token = row.token /\ row'.version = row.version /\ row'.all = row.all
         /\ row'.enabled = row.enabled /\ row'.state = s /\ JobRowSound' /\ EditorSound'
  <1>1. /\ row' \in RowStates /\ row'.token = row.token /\ row'.version = row.version /\ row'.all = row.all
        /\ row'.enabled = row.enabled /\ row'.state = s
    BY CronFacts, SameStates DEF RowStates
  <1>2. /\ row.token = deliverer[w].token /\ deliverer[w].state.run = row.token /\ deliverer[w].state.claimed = row.version
        /\ deliverer[w].state.version <= deliverer[w].version /\ deliverer[w].version <= row.version
    BY HeldFacts DEF Sound, Belongs, Swappable
  <1>3. deliverer[w].state.version <= row.version
    BY <1>2, HeldFacts, CronFacts
  <1>4. row.token <= used.runs /\ row.version <= used.edits
    BY DEF CronInv, JobRowSound
  <1>5. DoneSent(row.state)'
    BY <1>1 DEF DoneSent
  <1>6. JobRowSound'
    BY <1>1, <1>2, <1>3, <1>4, <1>5 DEF JobRowSound
  <1>7. EditorSound'
    BY <1>1, EditorSame
  <1> QED BY <1>1, <1>6, <1>7

\* A worker that stored what it holds and goes on.
LEMMA StoredGoesOn ==
  ASSUME CronInv, NEW w \in Workers, Active(w), Swappable(w), NEW s \in DeliveryState, row' = [row EXCEPT !.state = s],
         s.run = deliverer[w].state.run, s.claimed = deliverer[w].state.claimed, s.version = deliverer[w].state.version,
         DoneSent(s), s.taken => s.run \in foreground, deliverer[w].token # 0,
         NEW m \in MemStates, deliverer' = [deliverer EXCEPT ![w] = m], SameJob(deliverer[w], m), m.state = s,
         m.at \in {"check", "send", "disable"}, m.at \in {"check", "send"} => m.to \in Filtered(w, m),
         m.at = "send" => ~s.taken /\ ~DeliveryStatusDone(Status(m)),
         UNCHANGED <<editor, connected, foreground, cron, sent, used, limit>>
  PROVE  CronInv'
  <1>1. /\ row' \in RowStates /\ row'.token = row.token /\ row'.version = row.version /\ row'.all = row.all
        /\ row'.enabled = row.enabled /\ row'.state = s /\ JobRowSound' /\ EditorSound'
    BY StoreKeeps
  <1>2. Belongs(m)'
    BY <1>1, HeldFacts DEF Sound, Belongs, SameJob
  <1>3. Honest(m)'
    BY DEF Honest, DoneSent
  <1>4. InStep(w, m)'
    BY <1>1 DEF InStep, Status, Filtered, Targets
  <1>5. /\ editor' \in [on : BOOLEAN, enabled : BOOLEAN, once : BOOLEAN, all : BOOLEAN]
        /\ connected' \subseteq Platforms /\ sent' \subseteq (1 .. limit.runs) \X Platforms \X Outputs
        /\ used' \in [runs : 0 .. limit.runs, edits : 0 .. limit.edits, faults : Nat]
    BY DEF CronInv, CronTypes
  <1> QED BY <1>1, <1>2, <1>3, <1>4, <1>5, WorkerKeeps DEF Sound

LEMMA SaveReportKeeps ==
  ASSUME CronInv, NEW w \in Workers, SaveReport(w)
  PROVE  CronInv'
  <1> DEFINE d == deliverer[w]
  <1>1. d.at = "save" /\ Active(w) /\ UNCHANGED <<editor, connected, foreground, cron, sent, used, limit>>
    BY DEF SaveReport, Active
  <1>2. d \in MemStates /\ d.state \in DeliveryState /\ Belongs(d) /\ Honest(d) /\ d.token # 0
    BY <1>1, HeldFacts DEF Sound, Belongs
  <1>3. CASE Swappable(w)
    <2>1. row' = [row EXCEPT !.state = d.state] /\ deliverer' = [deliverer EXCEPT ![w] = Begin(w, d, d.state)]
      BY <1>3 DEF SaveReport
    <2>2. PICK m \in MemStates : /\ deliverer' = [deliverer EXCEPT ![w] = m] /\ SameJob(d, m) /\ m.state = d.state
                                 /\ m.at \in {"check", "disable"} /\ (m.at = "check" => m.to \in Filtered(w, d))
      BY <2>1, <1>2, CronFacts, BeginFacts
    <2>3. Filtered(w, m) = Filtered(w, d)
      BY <2>2 DEF Filtered, Targets, SameJob
    <2>4. PICK s \in DeliveryState : s = d.state
      BY <1>2
    <2>5. DoneSent(s) /\ (s.taken => s.run \in foreground)
      BY <1>2, <2>4 DEF Honest
    <2> QED BY <1>1, <1>2, <1>3, <2>1, <2>2, <2>3, <2>4, <2>5, StoredGoesOn
  <1>4. CASE ~Swappable(w)
    <2>1. Rest(w) /\ UNCHANGED row
      BY <1>4 DEF SaveReport
    <2> QED BY <1>1, <2>1, UsedSame, CronFacts, RestKeeps
  <1> QED BY <1>3, <1>4

LEMMA CheckOutputKeeps ==
  ASSUME CronInv, NEW w \in Workers, CheckOutput(w)
  PROVE  CronInv'
  <1> DEFINE d == deliverer[w]
             over == [d.state EXCEPT !.taken = TRUE, !.outputs = {}]
  <1>1. d.at = "check" /\ Active(w) /\ UNCHANGED <<editor, connected, foreground, cron, sent, used, limit>>
    BY DEF CheckOutput, Active
  <1>2. d \in MemStates /\ d.state \in DeliveryState /\ Belongs(d) /\ Honest(d) /\ InStep(w, d) /\ d.token # 0 /\ d.to \in Filtered(w, d)
    BY <1>1, HeldFacts DEF Sound, Belongs, InStep
  <1>3. CASE d.state.taken \/ SessionTakenOver(w)
    <2>1. /\ row' = IF Swappable(w) THEN [row EXCEPT !.state = over] ELSE row
          /\ deliverer' = [deliverer EXCEPT ![w].at = "disable", ![w].state = over]
      BY <1>3 DEF CheckOutput
    <2>2. /\ over \in DeliveryState /\ over.run = d.state.run /\ over.claimed = d.state.claimed /\ over.version = d.state.version
          /\ over.done = d.state.done /\ over.taken = TRUE
      BY <1>2 DEF DeliveryState
    <2>3. PICK s \in DeliveryState : s = over
      BY <2>2
    <2> DEFINE x == [d EXCEPT !.at = "disable", !.state = s]
    <2>4. x \in MemStates /\ x.at = "disable" /\ SameJob(d, x) /\ x.state = s
      BY <1>2 DEF MemStates, SameJob, Activities
    <2>5. deliverer' = [deliverer EXCEPT ![w] = x]
      BY <2>1, <2>3, CronFacts
    <2>6. PICK m \in MemStates : m = x
      BY <2>4
    <2> HIDE DEF x, over
    <2>7. d.state.run \in foreground /\ DoneSent(s)
      BY <1>2, <1>3, <2>2, <2>3 DEF Honest, SessionTakenOver, DoneSent
    <2>8. CASE Swappable(w)
      BY <1>1, <1>2, <2>1, <2>2, <2>3, <2>4, <2>5, <2>6, <2>7, <2>8, StoredGoesOn
    <2>9. CASE ~Swappable(w)
      <3>1. UNCHANGED row
        BY <2>1, <2>9
      <3>2. Belongs(m)'
        BY <1>1, <1>2, <2>2, <2>3, <2>4, <2>6, <3>1 DEF Belongs, SameJob
      <3>3. Honest(m)'
        BY <1>1, <2>2, <2>3, <2>4, <2>6, <2>7 DEF Honest, DoneSent
      <3>4. InStep(w, m)'
        BY <2>2, <2>3, <2>4, <2>6 DEF InStep
      <3>5. JobRowSound' /\ EditorSound'
        BY <1>1, <3>1, RowSame, EditorSame, CronFacts
      <3>6. /\ row' \in RowStates /\ editor' \in [on : BOOLEAN, enabled : BOOLEAN, once : BOOLEAN, all : BOOLEAN]
            /\ connected' \subseteq Platforms /\ sent' \subseteq (1 .. limit.runs) \X Platforms \X Outputs
            /\ used' \in [runs : 0 .. limit.runs, edits : 0 .. limit.edits, faults : Nat]
        BY <1>1, <3>1 DEF CronInv, CronTypes
      <3> QED BY <1>1, <2>5, <2>6, <3>2, <3>3, <3>4, <3>5, <3>6, WorkerKeeps DEF Sound
    <2> QED BY <2>8, <2>9
  <1>4. CASE ~(d.state.taken \/ SessionTakenOver(w))
    <2> DEFINE o == OutputIDs[d.out]
    <2>1. UNCHANGED row /\ deliverer' = [deliverer EXCEPT ![w] = IF DoneOutput(d, o) THEN After(w, d) ELSE [d EXCEPT !.at = "send"]]
      BY <1>4 DEF CheckOutput
    <2>2. PICK m \in MemStates : /\ deliverer' = [deliverer EXCEPT ![w] = m] /\ SameJob(d, m) /\ m.state = d.state
                                 /\ m.at \in {"check", "disable", "send"} /\ (m.at \in {"check", "send"} => m.to \in Filtered(w, d))
                                 /\ (m.at = "send" => m.to = d.to /\ m.out = d.out /\ ~DoneOutput(d, o))
      <3>1. CASE DoneOutput(d, o)
        BY <1>2, <2>1, <3>1, CronFacts, AfterFacts
      <3>2. CASE ~DoneOutput(d, o)
        <4> DEFINE x == [d EXCEPT !.at = "send"]
        <4>1. x \in MemStates /\ x.at = "send" /\ SameJob(d, x) /\ x.state = d.state /\ x.to = d.to /\ x.out = d.out
          BY <1>2 DEF MemStates, SameJob, Activities
        <4>2. deliverer' = [deliverer EXCEPT ![w] = x]
          BY <2>1, <3>2, CronFacts
        <4> HIDE DEF x
        <4> QED BY <1>1, <1>2, <3>2, <4>1, <4>2
      <3> QED BY <3>1, <3>2
    <2>3. Filtered(w, m) = Filtered(w, d)
      BY <2>2 DEF Filtered, Targets, SameJob
    <2>4. m.at = "send" => ~DeliveryStatusDone(Status(m))
      BY <2>2 DEF DoneOutput, Status
    <2>5. InStep(w, m)
      BY <1>1, <1>2, <1>4, <2>2, <2>3, <2>4 DEF InStep
    <2> QED BY <1>1, <1>2, <2>1, <2>2, <2>5, MoveKeeps
  <1> QED BY <1>3, <1>4

LEMMA SendOutputKeeps ==
  ASSUME CronInv, NEW w \in Workers, SendOutput(w)
  PROVE  CronInv'
  <1> DEFINE d == deliverer[w]
             o == OutputIDs[d.out]
             st == d.state.done[d.to][o]
             set(status) == [deliverer EXCEPT ![w].state.done[d.to][o] = status]
  <1>1. d.at = "send" /\ Active(w) /\ UNCHANGED <<row, editor, connected, foreground, cron, limit>>
    BY DEF SendOutput, Active
  <1>2. /\ d \in MemStates /\ d.state \in DeliveryState /\ Belongs(d) /\ Honest(d) /\ InStep(w, d) /\ d.token # 0 /\ d.to \in Filtered(w, d)
        /\ d.to \in Platforms /\ o \in Outputs /\ ~d.state.taken /\ d.state.done \in [Platforms -> [Outputs -> Statuses]]
        /\ d.state.run \in 1 .. limit.runs
    <2>1. /\ d \in MemStates /\ d.state \in DeliveryState /\ Sound(w, d) /\ d.to \in Platforms /\ o \in Outputs
          /\ d.state.done \in [Platforms -> [Outputs -> Statuses]] /\ d.state.run \in 0 .. limit.runs /\ limit.runs \in Nat
      BY <1>1, HeldFacts, CronFacts
    <2> HIDE DEF o
    <2>2. Belongs(d) /\ Honest(d) /\ InStep(w, d)
      BY <2>1 DEF Sound
    <2>3. d.token # 0 /\ d.to \in Filtered(w, d) /\ ~d.state.taken
      BY <1>1, <2>2 DEF Belongs, InStep
    <2>4. d.state.run = d.token /\ d.token \in 0 .. limit.runs
      BY <1>1, <2>2, HeldFacts DEF Belongs
    <2>5. d.state.run \in 1 .. limit.runs
      BY <2>1, <2>3, <2>4
    <2> QED BY <2>1, <2>2, <2>3, <2>5
  <1>3. ASSUME NEW status \in Statuses, NEW at \in {"persist", "fallback"}, deliverer' = [set(status) EXCEPT ![w].at = at],
               DeliveryStatusDone(status) => <<d.state.run, d.to, o>> \in sent', at = "fallback" => status = "fallback_pending",
               sent \subseteq sent', sent' \subseteq (1 .. limit.runs) \X Platforms \X Outputs, Fault \/ UNCHANGED used
        PROVE  CronInv'
    <2> DEFINE done == [d.state.done EXCEPT ![d.to][o] = status]
               s == [d.state EXCEPT !.done = done]
               x == [d EXCEPT !.at = at, !.state = s]
    <2>1. /\ done \in [Platforms -> [Outputs -> Statuses]] /\ done[d.to][o] = status
          /\ \A p \in Platforms, q \in Outputs : <<p, q>> # <<d.to, o>> => done[p][q] = d.state.done[p][q]
      BY <1>2
    <2>2. deliverer' = [deliverer EXCEPT ![w] = x]
      BY <1>2, <1>3, CronFacts DEF MemStates, DeliveryState
    <2> HIDE DEF done
    <2>3. s \in DeliveryState /\ s.run = d.state.run /\ s.claimed = d.state.claimed /\ s.version = d.state.version /\ s.done = done /\ (s.taken <=> d.state.taken)
      BY <1>2, <2>1 DEF DeliveryState
    <2> HIDE DEF s
    <2>4. x \in MemStates /\ x.at = at /\ SameJob(d, x) /\ x.state = s /\ x.to = d.to /\ x.out = d.out
      BY <1>2, <2>3 DEF MemStates, SameJob, Activities
    <2>5. PICK m \in MemStates : m = x
      BY <2>4
    <2> HIDE DEF x
    <2>6. used'.runs = used.runs /\ used'.edits = used.edits /\ used' \in [runs : 0 .. limit.runs, edits : 0 .. limit.edits, faults : Nat]
      BY <1>3, UsedSame
    <2>7. Belongs(m)'
      BY <1>1, <1>2, <2>3, <2>4, <2>5, <2>6 DEF Belongs, SameJob
    <2>8. Honest(m)'
      <3>1. \A p \in Platforms, q \in Outputs : DeliveryStatusDone(done[p][q]) => <<d.state.run, p, q>> \in sent'
        BY <1>2, <1>3, <2>1 DEF Honest, DoneSent
      <3> QED BY <1>1, <1>2, <2>3, <2>4, <2>5, <3>1 DEF Honest, DoneSent
    <2>9. InStep(w, m)'
      BY <1>2, <1>3, <2>1, <2>3, <2>4, <2>5 DEF InStep, Status, Filtered, Targets, SameJob
    <2>10. JobRowSound' /\ EditorSound'
      BY <1>1, <1>3, <2>6, RowSame, EditorSame, CronFacts
    <2>11. /\ row' \in RowStates /\ editor' \in [on : BOOLEAN, enabled : BOOLEAN, once : BOOLEAN, all : BOOLEAN]
           /\ connected' \subseteq Platforms
      BY <1>1 DEF CronInv, CronTypes
    <2> QED BY <1>1, <1>3, <2>2, <2>5, <2>6, <2>7, <2>8, <2>9, <2>10, <2>11, WorkerKeeps DEF Sound
  <1>4. CASE /\ sent' = sent \cup {<<d.state.run, d.to, o>>} /\ UNCHANGED used
             /\ deliverer' = [set(IF st = "fallback_pending" THEN "fallback_delivered" ELSE "delivered") EXCEPT ![w].at = "persist"]
    <2>1. (IF st = "fallback_pending" THEN "fallback_delivered" ELSE "delivered") \in Statuses
      BY DEF Statuses
    <2>2. sent \subseteq sent' /\ <<d.state.run, d.to, o>> \in sent' /\ sent' \subseteq (1 .. limit.runs) \X Platforms \X Outputs
      BY <1>2, <1>4 DEF CronInv, CronTypes
    <2> QED BY <1>3, <1>4, <2>1, <2>2
  <1>5. CASE Fault /\ UNCHANGED sent /\ deliverer' = [deliverer EXCEPT ![w].at = "persist"]
    <2>1. PICK m \in MemStates : /\ deliverer' = [deliverer EXCEPT ![w] = m] /\ SameJob(d, m) /\ m.state = d.state
                                 /\ m.at = "persist" /\ m.to = d.to
      <3> DEFINE x == [d EXCEPT !.at = "persist"]
      <3>1. x \in MemStates /\ x.at = "persist" /\ SameJob(d, x) /\ x.state = d.state /\ x.to = d.to /\ x.out = d.out
        BY <1>2 DEF MemStates, SameJob, Activities
      <3>2. deliverer' = [deliverer EXCEPT ![w] = x]
        BY <1>5, CronFacts
      <3> HIDE DEF x
      <3> QED BY <1>1, <1>2, <3>1, <3>2
    <2>2. InStep(w, m)
      BY <1>2, <2>1 DEF InStep, Filtered, Targets, SameJob
    <2> QED BY <1>1, <1>2, <1>5, <2>1, <2>2, MoveKeeps
  <1>6. CASE Fault /\ UNCHANGED sent /\ deliverer' = [set("fallback_pending") EXCEPT ![w].at = "fallback"]
    <2>1. "fallback_pending" \in Statuses /\ ~DeliveryStatusDone("fallback_pending") /\ sent' \subseteq (1 .. limit.runs) \X Platforms \X Outputs
      BY <1>6 DEF Statuses, DeliveryStatusDone, CronInv, CronTypes
    <2> QED BY <1>3, <1>6, <2>1
  <1>7. CASE Rest(w) /\ UNCHANGED sent /\ (Fault \/ UNCHANGED used)
    <2>1. used'.runs = used.runs /\ used'.edits = used.edits /\ used' \in [runs : 0 .. limit.runs, edits : 0 .. limit.edits, faults : Nat]
      BY <1>7, UsedSame
    <2> QED BY <1>1, <1>7, <2>1, CronFacts, RestKeeps
  <1>8. \/ /\ sent' = sent \cup {<<d.state.run, d.to, o>>} /\ UNCHANGED used
           /\ deliverer' = [set(IF st = "fallback_pending" THEN "fallback_delivered" ELSE "delivered") EXCEPT ![w].at = "persist"]
        \/ Fault /\ UNCHANGED sent /\ deliverer' = [deliverer EXCEPT ![w].at = "persist"]
        \/ Fault /\ UNCHANGED sent /\ deliverer' = [set("fallback_pending") EXCEPT ![w].at = "fallback"]
        \/ Rest(w) /\ UNCHANGED sent /\ (Fault \/ UNCHANGED used)
    BY DEF SendOutput
  <1> QED BY <1>4, <1>5, <1>6, <1>7, <1>8

LEMMA PersistOutputKeeps ==
  ASSUME CronInv, NEW w \in Workers, PersistOutput(w)
  PROVE  CronInv'
  <1> DEFINE d == deliverer[w]
  <1>1. d.at \in {"persist", "fallback"} /\ Active(w) /\ UNCHANGED <<editor, connected, foreground, cron, sent, used, limit>>
    BY DEF PersistOutput, Active
  <1>2. d \in MemStates /\ d.state \in DeliveryState /\ Belongs(d) /\ Honest(d) /\ InStep(w, d) /\ d.token # 0 /\ d.to \in Filtered(w, d)
    BY <1>1, HeldFacts DEF Sound, Belongs, InStep
  <1>3. CASE Swappable(w)
    <2>1. /\ row' = [row EXCEPT !.state = d.state]
          /\ deliverer' = [deliverer EXCEPT ![w] = IF d.at = "persist" THEN After(w, d) ELSE [d EXCEPT !.at = "send"]]
      BY <1>3 DEF PersistOutput
    <2>2. PICK m \in MemStates : /\ deliverer' = [deliverer EXCEPT ![w] = m] /\ SameJob(d, m) /\ m.state = d.state
                                 /\ m.at \in {"check", "disable", "send"} /\ (m.at \in {"check", "send"} => m.to \in Filtered(w, d))
                                 /\ (m.at = "send" => m.to = d.to /\ m.out = d.out /\ d.at = "fallback")
      <3>1. CASE d.at = "persist"
        BY <1>2, <2>1, <3>1, CronFacts, AfterFacts
      <3>2. CASE d.at # "persist"
        <4> DEFINE x == [d EXCEPT !.at = "send"]
        <4>1. x \in MemStates /\ x.at = "send" /\ SameJob(d, x) /\ x.state = d.state /\ x.to = d.to /\ x.out = d.out
          BY <1>2 DEF MemStates, SameJob, Activities
        <4>2. deliverer' = [deliverer EXCEPT ![w] = x]
          BY <2>1, <3>2, CronFacts
        <4> HIDE DEF x
        <4> QED BY <1>1, <1>2, <3>2, <4>1, <4>2
      <3> QED BY <3>1, <3>2
    <2>3. Filtered(w, m) = Filtered(w, d)
      BY <2>2 DEF Filtered, Targets, SameJob
    <2>4. PICK s \in DeliveryState : s = d.state
      BY <1>2
    <2>5. DoneSent(s) /\ (s.taken => s.run \in foreground)
      BY <1>2, <2>4 DEF Honest
    <2>6. m.at = "send" => ~s.taken /\ ~DeliveryStatusDone(Status(m))
      BY <1>2, <2>2, <2>4 DEF InStep, Status, DeliveryStatusDone
    <2> QED BY <1>1, <1>2, <1>3, <2>1, <2>2, <2>3, <2>4, <2>5, <2>6, StoredGoesOn
  <1>4. CASE ~Swappable(w)
    <2>1. Rest(w) /\ UNCHANGED row
      BY <1>4 DEF PersistOutput
    <2> QED BY <1>1, <2>1, UsedSame, CronFacts, RestKeeps
  <1> QED BY <1>3, <1>4

LEMMA DisableCompletedKeeps ==
  ASSUME CronInv, NEW w \in Workers, DisableCompleted(w)
  PROVE  CronInv'
  <1> DEFINE d == deliverer[w]
             off == row.enabled /\ ~(d.once /\ DeliveryComplete(d, d.state) /\ row.token = d.token)
  <1>1. /\ Active(w) /\ Rest(w) /\ UNCHANGED <<editor, connected, foreground, cron, sent, used, limit>>
        /\ row' = [row EXCEPT !.enabled = off]
    BY DEF DisableCompleted, Active
  <1>2. off \in BOOLEAN /\ (off => row.enabled)
    OBVIOUS
  <1> HIDE DEF off
  <1>3. /\ row' \in RowStates /\ row'.token = row.token /\ row'.state = row.state /\ row'.version = row.version /\ row'.all = row.all
        /\ (row'.enabled => row.enabled)
    BY <1>1, <1>2, CronFacts, SameStates DEF RowStates
  <1>4. JobRowSound'
    BY <1>1, <1>3 DEF CronInv, JobRowSound, DoneSent
  <1>5. EditorSound'
    BY <1>1, <1>3, EditorSame
  <1>6. PICK m \in MemStates : m = Asleep /\ deliverer' = [deliverer EXCEPT ![w] = m] /\ m.at = "rest"
    BY <1>1, CronFacts, NoReportFacts DEF Rest
  <1>7. /\ editor' \in [on : BOOLEAN, enabled : BOOLEAN, once : BOOLEAN, all : BOOLEAN]
        /\ connected' \subseteq Platforms /\ sent' \subseteq (1 .. limit.runs) \X Platforms \X Outputs
        /\ used' \in [runs : 0 .. limit.runs, edits : 0 .. limit.edits, faults : Nat]
    BY <1>1 DEF CronInv, CronTypes
  <1> QED BY <1>1, <1>3, <1>4, <1>5, <1>6, <1>7, WorkerKeeps

\* An edit without a new round leaves the run its round.
LEMMA WriteDefinitionKeeps ==
  ASSUME CronInv, WriteDefinition
  PROVE  CronInv'
  <1>1. /\ editor.on /\ editor' = NoEdit /\ used' = [used EXCEPT !.edits = @ + 1]
        /\ UNCHANGED <<deliverer, connected, foreground, cron, sent, limit>>
    BY DEF WriteDefinition
  <1>2. PICK enabled \in BOOLEAN, once \in BOOLEAN, all \in BOOLEAN, reset \in BOOLEAN :
             /\ reset => enabled
             /\ enabled /\ (once # editor.once \/ all # editor.all \/ ~editor.enabled) => reset
             /\ row' = [row EXCEPT !.enabled = enabled, !.once = once, !.all = all,
                           !.token = IF reset THEN 0 ELSE @,
                           !.state = IF reset THEN NoReport ELSE @,
                           !.version = IF reset THEN used.edits + 1 ELSE @]
    BY DEF WriteDefinition
  <1>3. /\ editor.all = row.all /\ (row.enabled => editor.enabled) /\ used.edits + 1 \in 0 .. limit.edits /\ used.edits \in Nat
        /\ row.token \in 0 .. limit.runs /\ row.version \in 0 .. limit.edits /\ row.state \in DeliveryState /\ NoReport \in DeliveryState
        /\ 0 \in 0 .. limit.runs
    BY <1>1, CronFacts, NoReportFacts DEF CronInv, EditorSound
  <1>4. /\ used' \in [runs : 0 .. limit.runs, edits : 0 .. limit.edits, faults : Nat] /\ used'.runs = used.runs /\ used'.edits = used.edits + 1
    BY <1>1, <1>3 DEF CronInv, CronTypes
  <1> DEFINE tok == IF reset THEN 0 ELSE row.token
             st == IF reset THEN NoReport ELSE row.state
             ver == IF reset THEN used.edits + 1 ELSE row.version
             x == [row EXCEPT !.enabled = enabled, !.once = once, !.all = all]
             y == [x EXCEPT !.token = tok, !.state = st, !.version = ver]
  <1>5. x \in RowStates /\ x.enabled = enabled /\ x.all = all /\ x.token = row.token /\ x.state = row.state /\ x.version = row.version
    BY CronFacts DEF RowStates
  <1>6. tok \in 0 .. limit.runs /\ st \in DeliveryState /\ ver \in 0 .. limit.edits
    BY <1>3
  <1>7. row' = y
    BY <1>2
  <1>8. /\ reset => tok = 0 /\ st = NoReport /\ ver = used.edits + 1
        /\ ~reset => tok = row.token /\ st = row.state /\ ver = row.version
    OBVIOUS
  <1> HIDE DEF x, tok, st, ver
  <1>9. y \in RowStates /\ y.enabled = enabled /\ y.all = all /\ y.token = tok /\ y.state = st /\ y.version = ver
    BY <1>5, <1>6 DEF RowStates
  <1> HIDE DEF y
  <1>10. JobRowSound'
    <2>1. JobRowSound /\ used.runs \in Nat
      BY CronFacts DEF CronInv
    <2>2. CASE reset
      BY <1>1, <1>3, <1>4, <1>7, <1>8, <1>9, <2>1, <2>2, CronFacts, NoReportFacts DEF JobRowSound, DoneSent
    <2>3. CASE ~reset
      BY <1>1, <1>3, <1>4, <1>7, <1>8, <1>9, <2>1, <2>3 DEF JobRowSound, DoneSent
    <2> QED BY <2>2, <2>3
  <1>11. EditorSound'
    BY <1>1 DEF EditorSound, NoEdit
  <1>12. CronTypes'
    BY <1>1, <1>4, <1>7, <1>9, SameStates DEF CronInv, CronTypes, NoEdit
  <1>13. OneActive'
    BY <1>1 DEF CronInv, OneActive, Active
  <1>14. MemSound'
    <2> SUFFICES ASSUME NEW w \in Workers, Active(w)' PROVE Sound(w, deliverer[w])'
      BY DEF MemSound
    <2>1. Active(w) /\ deliverer' = deliverer
      BY <1>1 DEF Active
    <2>2. PICK m \in MemStates : m = deliverer[w] /\ Belongs(m) /\ Honest(m) /\ InStep(w, m)
      BY <2>1, HeldFacts DEF Sound
    <2>3. m.version \in Nat /\ m.version <= row.version /\ row.version <= used.edits /\ m.token \in Nat /\ m.token <= used.runs
      BY <2>1, <2>2, HeldFacts, CronFacts DEF Belongs, CronInv, JobRowSound
    <2>4. ~editor'.on
      BY <1>1 DEF NoEdit
    <2>5. Belongs(m)'
      <3>1. CASE reset
        BY <3>1, <2>2, <2>3, <2>4, <1>3, <1>4, <1>7, <1>8, <1>9 DEF Belongs
      <3>2. CASE ~reset
        BY <3>2, <2>2, <2>3, <2>4, <1>1, <1>2, <1>3, <1>4, <1>7, <1>8, <1>9 DEF Belongs
      <3> QED BY <3>1, <3>2
    <2>6. Honest(m)'
      BY <1>1, <2>2 DEF Honest, DoneSent
    <2>7. InStep(w, m)'
      <3>1. CASE reset
        <4>1. row'.state = NoReport /\ row'.state.run = 0
          BY <3>1, <1>7, <1>8, <1>9, CronFacts, NoReportFacts
        <4>2. m.state.run = 0 => m.state = NoReport
          BY <2>2, <2>3 DEF Belongs
        <4> QED BY <4>1, <4>2, <2>2 DEF InStep, Status, Filtered, Targets
      <3>2. CASE ~reset
        <4>1. row'.state = row.state
          BY <3>2, <1>7, <1>8, <1>9
        <4> QED BY <4>1, <2>2 DEF InStep, Status, Filtered, Targets
      <3> QED BY <3>1, <3>2
    <2>8. Sound(w, m)'
      BY <2>5, <2>6, <2>7 DEF Sound
    <2>9. m = deliverer'[w]
      BY <2>1, <2>2
    <2> QED BY <2>8, <2>9 DEF Sound, Belongs, Honest, InStep, DoneSent, Status, Filtered, Targets
  <1> QED BY <1>10, <1>11, <1>12, <1>13, <1>14 DEF CronInv

LEMMA RecreateKeeps ==
  ASSUME CronInv, Recreate
  PROVE  CronInv'
  <1> DEFINE next == row.id + 1
             x == [row EXCEPT !.id = next, !.enabled = TRUE, !.token = 0]
             ver == used.edits + 1
             y == [x EXCEPT !.state = NoReport, !.version = ver]
  <1>1. /\ ~editor.on /\ used.edits < limit.edits /\ used' = [used EXCEPT !.edits = @ + 1]
        /\ UNCHANGED <<deliverer, editor, connected, foreground, cron, sent, limit>>
        /\ row' = y
    BY DEF Recreate
  <1>2. ver \in 0 .. limit.edits /\ used.edits \in Nat /\ NoReport \in DeliveryState /\ 0 \in 0 .. limit.runs /\ limit \in CronLimits
    BY <1>1, CronFacts, NoReportFacts
  <1>3. /\ used' \in [runs : 0 .. limit.runs, edits : 0 .. limit.edits, faults : Nat] /\ used'.runs = used.runs /\ used'.edits = ver
    BY <1>1, <1>2 DEF CronInv, CronTypes
  <1>4. ver = used.edits + 1
    OBVIOUS
  <1>a. next \in Nat
    BY CronFacts
  <1> HIDE DEF next
  <1>5. x \in RowStates /\ x.token = 0 /\ x.all = row.all
    BY <1>2, <1>a, CronFacts DEF RowStates
  <1> HIDE DEF x, ver
  <1>6. y \in RowStates /\ y.token = 0 /\ y.state = NoReport /\ y.version = ver /\ y.all = row.all
    BY <1>2, <1>5 DEF RowStates
  <1> HIDE DEF y
  <1>7. JobRowSound'
    BY <1>1, <1>2, <1>3, <1>4, <1>6, CronFacts, NoReportFacts DEF JobRowSound, DoneSent
  <1>8. EditorSound'
    BY <1>1 DEF EditorSound
  <1>9. CronTypes'
    BY <1>1, <1>3, <1>6, SameStates DEF CronInv, CronTypes
  <1>10. OneActive'
    BY <1>1 DEF CronInv, OneActive, Active
  <1>11. MemSound'
    <2> SUFFICES ASSUME NEW w \in Workers, Active(w)' PROVE Sound(w, deliverer[w])'
      BY DEF MemSound
    <2>1. Active(w) /\ deliverer' = deliverer
      BY <1>1 DEF Active
    <2>2. PICK m \in MemStates : m = deliverer[w] /\ Belongs(m) /\ Honest(m) /\ InStep(w, m)
      BY <2>1, HeldFacts DEF Sound
    <2>3. m.version \in Nat /\ m.version <= row.version /\ row.version <= used.edits /\ m.token \in Nat /\ m.token <= used.runs /\ row.version \in Nat
      BY <2>1, <2>2, HeldFacts, CronFacts DEF Belongs, CronInv, JobRowSound
    <2>4. Belongs(m)'
      BY <2>2, <2>3, <1>1, <1>2, <1>3, <1>4, <1>6 DEF Belongs
    <2>5. Honest(m)'
      BY <1>1, <2>2 DEF Honest, DoneSent
    <2>6. InStep(w, m)'
      <3>1. row'.state = NoReport /\ row'.state.run = 0
        BY <1>1, <1>6, CronFacts, NoReportFacts
      <3>2. m.state.run = 0 => m.state = NoReport
        BY <2>2, <2>3 DEF Belongs
      <3> QED BY <3>1, <3>2, <2>2 DEF InStep, Status, Filtered, Targets
    <2>7. Sound(w, m)'
      BY <2>4, <2>5, <2>6 DEF Sound
    <2>8. m = deliverer'[w]
      BY <2>1, <2>2
    <2> QED BY <2>7, <2>8 DEF Sound, Belongs, Honest, InStep, DoneSent, Status, Filtered, Targets
  <1> QED BY <1>7, <1>8, <1>9, <1>10, <1>11 DEF CronInv

\* Steps that change neither the row nor a worker.
LEMMA QuietKeeps ==
  ASSUME CronInv, UNCHANGED <<row, deliverer, sent, used, limit>>, foreground \subseteq foreground', foreground' \subseteq 1 .. limit.runs,
         connected' \subseteq Platforms, cron' \in {"new", "running", "closing", "closed"},
         \/ editor' = editor
         \/ ~editor.on /\ used.edits < limit.edits /\ editor' = [on |-> TRUE, enabled |-> row.enabled, once |-> row.once, all |-> row.all]
  PROVE  CronInv'
  <1>1. CronTypes'
    <2>1. editor' \in [on : BOOLEAN, enabled : BOOLEAN, once : BOOLEAN, all : BOOLEAN]
      <3>1. CASE editor' = editor
        BY <3>1 DEF CronInv, CronTypes
      <3>2. CASE editor' = [on |-> TRUE, enabled |-> row.enabled, once |-> row.once, all |-> row.all]
        <4>1. row.enabled \in BOOLEAN /\ row.once \in BOOLEAN /\ row.all \in BOOLEAN
          BY CronFacts
        <4>2. PICK b1 \in BOOLEAN, b2 \in BOOLEAN, b3 \in BOOLEAN : row.enabled = b1 /\ row.once = b2 /\ row.all = b3
          BY <4>1
        <4>3. editor' = [on |-> TRUE, enabled |-> b1, once |-> b2, all |-> b3]
          BY <3>2, <4>2
        <4>4. [on |-> TRUE, enabled |-> b1, once |-> b2, all |-> b3] \in [on : BOOLEAN, enabled : BOOLEAN, once : BOOLEAN, all : BOOLEAN]
          OBVIOUS
        <4> QED BY <4>3, <4>4
      <3> QED BY <3>1, <3>2
    <2> QED BY <2>1, SameStates DEF CronInv, CronTypes
  <1>2. OneActive' /\ JobRowSound'
    BY DEF CronInv, OneActive, Active, JobRowSound, DoneSent
  <1>3. EditorSound'
    BY DEF CronInv, EditorSound
  <1>4. (row.enabled \/ (editor.on /\ editor.enabled))' => row.enabled \/ (editor.on /\ editor.enabled)
    BY CronFacts
  <1>5. MemSound'
    <2> SUFFICES ASSUME NEW w \in Workers, Active(w)' PROVE Sound(w, deliverer[w])'
      BY DEF MemSound
    <2>1. Sound(w, deliverer[w])
      BY DEF Active, CronInv, MemSound
    <2>2. Belongs(deliverer[w])'
      BY <2>1, <1>4 DEF Sound, Belongs
    <2>3. Honest(deliverer[w])' /\ InStep(w, deliverer[w])'
      BY <2>1 DEF Sound, Honest, DoneSent, InStep, Status, Filtered, Targets
    <2> QED BY <2>2, <2>3 DEF Sound
  <1> QED BY <1>1, <1>2, <1>3, <1>5 DEF CronInv

LEMMA CrashCronKeeps ==
  ASSUME CronInv, CrashCron
  PROVE  CronInv'
  <1>1. /\ deliverer' = [w \in Workers |-> Asleep] /\ editor' = NoEdit /\ connected' = {} /\ cron' = "new" /\ Fault
        /\ UNCHANGED <<row, foreground, sent, limit>>
    BY DEF CrashCron
  <1>2. used'.runs = used.runs /\ used'.edits = used.edits /\ used' \in [runs : 0 .. limit.runs, edits : 0 .. limit.edits, faults : Nat]
    BY <1>1, UsedSame
  <1>3. Asleep \in MemStates /\ Asleep.at = "rest"
    BY CronFacts, NoReportFacts
  <1>4. CronTypes'
    BY <1>1, <1>2, <1>3, SameStates DEF CronInv, CronTypes, NoEdit
  <1>5. OneActive' /\ MemSound'
    BY <1>1, <1>3 DEF OneActive, MemSound, Active
  <1>6. JobRowSound'
    BY <1>1, <1>2, RowSame, CronFacts
  <1>7. EditorSound'
    BY <1>1 DEF EditorSound, NoEdit
  <1> QED BY <1>4, <1>5, <1>6, <1>7 DEF CronInv

LEMMA CronStepKeeps ==
  ASSUME CronInv, [CronNext]_cronVars
  PROVE  CronInv'
  <1>0. /\ foreground \subseteq 1 .. limit.runs /\ connected \subseteq Platforms /\ cron \in {"new", "running", "closing", "closed"}
        /\ used.runs \in 0 .. limit.runs /\ limit.runs \in Nat
    BY CronFacts DEF CronInv, CronTypes
  <1>1. CASE UNCHANGED cronVars
    BY <1>0, <1>1, QuietKeeps DEF cronVars
  <1>2. CASE \E p \in Platforms : EnqueuePlatformConnected(p)
    BY <1>0, <1>2, QuietKeeps DEF EnqueuePlatformConnected
  <1>3. CASE StartCron \/ BeginCloseCron \/ CloseCron
    BY <1>0, <1>3, QuietKeeps DEF StartCron, BeginCloseCron, CloseCron
  <1>4. CASE \E w \in Workers : DeliveryStep(w)
    BY <1>4, ClaimRunKeeps, RunReportKeeps, SaveReportKeeps, CheckOutputKeeps, SendOutputKeeps, PersistOutputKeeps, DisableCompletedKeeps
       DEF DeliveryStep
  <1>5. CASE RunHandler
    <2>1. Handler \in Workers
      BY DEF Workers
    <2> QED BY <1>0, <1>5, <2>1, ReloadKeeps DEF RunHandler
  <1>6. CASE \E p \in Platforms : RunMissedOnce(p)
    <2>1. PICK p \in Platforms : RunMissedOnce(p)
      BY <1>6
    <2>2. p \in Workers /\ connected' \subseteq Platforms /\ UNCHANGED <<row, editor, foreground, cron, sent, used, limit>>
      BY <1>0, <2>1 DEF RunMissedOnce, Workers
    <2>3. CASE Unlocked /\ Reload(p)
      BY <2>2, <2>3, ReloadKeeps
    <2>4. CASE UNCHANGED deliverer
      BY <1>0, <2>2, <2>4, QuietKeeps
    <2> QED BY <2>1, <2>3, <2>4 DEF RunMissedOnce
  <1>7. CASE ReadDefinition
    BY <1>0, <1>7, QuietKeeps DEF ReadDefinition
  <1>8. CASE WriteDefinition \/ Recreate \/ CrashCron
    BY <1>8, WriteDefinitionKeeps, RecreateKeeps, CrashCronKeeps
  <1>9. CASE TakeOverRun
    <2>1. PICK rn \in 1 .. used.runs : foreground' = foreground \cup {rn}
      BY <1>9 DEF TakeOverRun
    <2>2. rn \in 1 .. limit.runs
      BY <1>0, <2>1
    <2>3. foreground \subseteq foreground' /\ foreground' \subseteq 1 .. limit.runs
      BY <1>0, <2>1, <2>2
    <2> QED BY <1>0, <1>9, <2>3, QuietKeeps DEF TakeOverRun
  <1> QED BY <1>1, <1>2, <1>3, <1>4, <1>5, <1>6, <1>7, <1>8, <1>9 DEF CronNext

LEMMA CronInvSafe == CronInv => CronTypeOK /\ OneDelivery /\ ReportOfItsRound
  <1> SUFFICES ASSUME CronInv PROVE CronTypeOK /\ OneDelivery /\ ReportOfItsRound
    OBVIOUS
  <1>1. CronTypeOK
    BY CronFacts, MemFields DEF CronInv, CronTypes, CronTypeOK, RowStates, Activities
  <1>2. OneDelivery
    <2> DEFINE A == {w \in Workers : deliverer[w].at # "rest"}
    <2>1. \A v, w \in A : v = w
      BY DEF CronInv, OneActive, Active
    <2>2. CASE A = {}
      BY <2>2, FS_EmptySet DEF OneDelivery
    <2>3. CASE A # {}
      <3>1. PICK w \in A : A = {w}
        BY <2>1, <2>3
      <3> QED BY <3>1, FS_Singleton DEF OneDelivery
    <2> QED BY <2>2, <2>3
  <1>3. ReportOfItsRound
    BY CronFacts, NoReportFacts DEF CronInv, JobRowSound, ReportOfItsRound
  <1> QED BY <1>1, <1>2, <1>3

\* A send that leaves a worker with something to store was of an output that is not marked in the row.
LEMMA SendIsNew ==
  ASSUME CronInv, [CronNext]_cronVars, NEW w \in Workers,
         deliverer[w].at = "send", deliverer'[w].at = "persist", row.state.run = deliverer[w].state.run
  PROVE  ~DeliveryStatusDone(row.state.done[deliverer[w].to][OutputIDs[deliverer[w].out]])
  <1>1. InStep(w, deliverer[w])
    BY HeldFacts DEF Active, Sound
  <1>2. ~deliverer[w].state.taken /\ row.state = deliverer[w].state
    BY <1>1 DEF InStep
  <1> QED BY <1>1, <1>2 DEF InStep, Status

\* Only the last step of a delivery switches a job off while its worker comes to rest.
LEMMA DisablingStep ==
  ASSUME CronInv, [CronNext]_cronVars, NEW w \in Workers,
         deliverer[w].at = "disable", deliverer'[w].at = "rest", row.enabled, ~row'.enabled
  PROVE  DisableCompleted(w)
  <1>1. deliverer' # deliverer /\ row' # row
    OBVIOUS
  <1>2. \A v \in Workers : v # w => deliverer[v].at = "rest"
    BY DEF CronInv, OneActive, Active
  <1>3. \E v \in Workers : DeliveryStep(v)
    BY <1>1, <1>2 DEF CronNext, cronVars, EnqueuePlatformConnected, StartCron, BeginCloseCron, CloseCron, RunHandler,
          RunMissedOnce, ReadDefinition, WriteDefinition, Recreate, TakeOverRun, CrashCron
  <1>4. PICK v \in Workers : DeliveryStep(v)
    BY <1>3
  <1>5. deliverer[v].at # "rest"
    BY <1>4 DEF DeliveryStep, ClaimRun, RunReport, SaveReport, CheckOutput, SendOutput, PersistOutput, DisableCompleted
  <1>6. v = w
    BY <1>2, <1>5
  <1> QED BY <1>4, <1>6 DEF DeliveryStep, ClaimRun, RunReport, SaveReport, CheckOutput, SendOutput, PersistOutput

\* What the last step of a delivery switches off was delivered.
LEMMA DisabledIsDelivered ==
  ASSUME CronInv, NEW w \in Workers, DisableCompleted(w), row.enabled, ~row'.enabled
  PROVE  \/ row.state.version # row.version
         \/ row.state.run \in foreground
         \/ \A p \in Targets(row), o \in row.state.outputs : <<row.state.run, p, o>> \in sent
  <1> DEFINE d == deliverer[w]
             off == row.enabled /\ ~(d.once /\ DeliveryComplete(d, d.state) /\ row.token = d.token)
  <1>1. Active(w) /\ d.at = "disable" /\ row' = [row EXCEPT !.enabled = off]
    BY DEF DisableCompleted, Active
  <1>2. row'.enabled = off
    BY <1>1, CronFacts DEF RowStates
  <1>3. d.once /\ DeliveryComplete(d, d.state) /\ row.token = d.token
    BY <1>2
  <1>4. Belongs(d) /\ Honest(d) /\ InStep(w, d) /\ d.state \in DeliveryState
    BY <1>1, HeldFacts DEF Sound
  <1>5. row.token # 0 /\ row.state.run = d.state.run
    BY <1>1, <1>3, <1>4 DEF Belongs, CronInv, JobRowSound
  <1>6. CASE d.state.taken
    BY <1>4, <1>5, <1>6 DEF Honest
  <1>7. CASE ~d.state.taken /\ row.state.version = row.version
    <2>1. row.state = d.state
      BY <1>1, <1>4, <1>5, <1>7 DEF InStep
    <2>2. d.version = row.version
      <3>1. d.version \in Nat /\ row.version \in Nat /\ d.state.version \in Nat
        BY <1>1, HeldFacts, CronFacts
      <3> QED BY <3>1, <1>4, <1>7, <2>1 DEF Belongs
    <2>3. Targets(row) = Targets(d) /\ Targets(row) \subseteq Platforms
      BY <1>4, <2>2, CronFacts, CronConstants DEF Belongs, Targets
    <2>4. \A p \in Targets(d), o \in d.state.outputs : DeliveryStatusDone(d.state.done[p][o])
      BY <1>3, <1>7 DEF DeliveryComplete
    <2>5. d.state.outputs \subseteq Outputs
      BY <1>4, StateFields
    <2> QED BY <1>4, <2>1, <2>3, <2>4, <2>5 DEF Honest, DoneSent
  <1> QED BY <1>6, <1>7

\* Every state of the delivery of a cron job satisfies the inductive invariant.
THEOREM CronInductive == CronSpec => []CronInv
  <1>1. CronInit => CronInv
    BY CronInitKeeps
  <1>2. CronInv /\ [CronNext]_cronVars => CronInv'
    BY CronStepKeeps
  <1> QED BY <1>1, <1>2, PTL DEF CronSpec

\* One worker at a time delivers a job, and a report is stored only in the round its run was claimed in, whatever is
\* edited, deleted, created again or lost in a crash meanwhile (lockDeliveryJob, CompareAndSwapDelivery).
THEOREM CronDeliverySafe == CronSpec => [](OneDelivery /\ ReportOfItsRound)
  <1>1. CronInv => OneDelivery /\ ReportOfItsRound
    BY CronInvSafe
  <1> QED BY <1>1, CronInductive, PTL

\* An output that the row marks as delivered in a run is not sent again in it (deliverPrepared, persistDeliveryState).
THEOREM CronNoResend == CronSpec => NoResend
  <1>1. CronInv /\ [CronNext]_cronVars =>
          [\A w \in Workers :
             deliverer[w].at = "send" /\ deliverer'[w].at = "persist" /\ row.state.run = deliverer[w].state.run =>
                ~DeliveryStatusDone(row.state.done[deliverer[w].to][OutputIDs[deliverer[w].out]])]_cronVars
    BY SendIsNew
  <1> QED BY <1>1, CronInductive, PTL DEF CronSpec, NoResend

\* A once job is switched off by its delivery only when every output of its report has reached every target, or the
\* user took the run over (disableCompletedDelivery, deliveryComplete).
THEOREM CronDisabledWhenDelivered == CronSpec => DisabledWhenDelivered
  <1>1. CronInv /\ [CronNext]_cronVars =>
          [\A w \in Workers :
             deliverer[w].at = "disable" /\ deliverer'[w].at = "rest" /\ row.enabled /\ ~row'.enabled =>
                \/ row.state.version # row.version
                \/ row.state.run \in foreground
                \/ \A p \in Targets(row), o \in row.state.outputs : <<row.state.run, p, o>> \in sent]_cronVars
    BY DisablingStep, DisabledIsDelivered
  <1> QED BY <1>1, CronInductive, PTL DEF CronSpec, DisabledWhenDelivered

-----------------------------------------------------------------------------
(* Elnis.  An accepted event is in one pair of hands until it is executed:  *)
(* its request's, the queue's or its worker's; a report under way is its    *)
(* deliverer's alone.  Only a status that could not be written leaves the   *)
(* event with nobody, until the next start.                                 *)

EventStates == {"none", "result_ready", "delivering"} \cup Final \cup Interruptible
RequestStates == [at : {"lookup", "create", "dispatch"}, key : Keys, mode : {"record", "direct", "llm"}]
DoerStates == [at : {"run", "prepare", "claim", "check", "send", "mark"}, key : Keys, todo : SUBSET Addressees]
Dispatching(r) == request[r].at = "dispatch"
Executing(w) == doer[w].at \in {"run", "prepare"}
Delivers(w) == doer[w].at \in {"check", "send", "mark"}

\* A request that dispatches an event is the only one that does, and the event was not executed.
RequestHolds(r) ==
    Dispatching(r) =>
        /\ event[request[r].key] = IF request[r].mode = "llm" THEN "queued" ELSE "accepted"
        /\ executed[request[r].key] = 0
        /\ \A q \in Requests : q # r /\ Dispatching(q) => request[q].key # request[r].key
        /\ \A i \in 1 .. Len(llmQueue) : llmQueue[i] # request[r].key

RequestsHold == \A r \in Requests : RequestHolds(r)

QueueHolds ==
    \A i \in 1 .. Len(llmQueue) :
        /\ event[llmQueue[i]] = "queued" /\ executed[llmQueue[i]] = 0
        /\ \A j \in 1 .. Len(llmQueue) : j # i => llmQueue[j] # llmQueue[i]

WorkerHolds(w) ==
    Executing(w) =>
        /\ event[doer[w].key] = "running" /\ (doer[w].at = "run" => executed[doer[w].key] = 0)
        /\ \A v \in Doers : v # w /\ Executing(v) => doer[v].key # doer[w].key

WorkersHold == \A w \in Doers : WorkerHolds(w)

\* What a deliverer need not send to any more was delivered.
DelivererHolds(w) ==
    Delivers(w) =>
        /\ event[doer[w].key] = "delivering"
        /\ \A a \in Addressees \ doer[w].todo : outbox[doer[w].key][a] = "delivered"
        /\ doer[w].at \in {"send", "mark"} => doer[w].todo # {}
        /\ \A v \in Doers : v # w /\ Delivers(v) => doer[v].key # doer[w].key

DeliverersHold == \A w \in Doers : DelivererHolds(w)

\* The outbox is empty until a report is prepared, and through when the event is completed.
OutboxSound ==
    \A k \in Keys, a \in Addressees :
        /\ event[k] \in {"none"} \cup Interruptible => outbox[k][a] = "none"
        /\ event[k] = "completed" => outbox[k][a] \in {"none", "delivered"}

ExecutedSound ==
    /\ executed \in [Keys -> {0, 1}]
    /\ \A k \in Keys : event[k] = "none" => executed[k] = 0

QuietWhenOff ==
    elnis \in {"new", "done"} =>
        /\ \A r \in Requests : request[r] = NoRequest
        /\ \A w \in Doers : doer[w] = NoWork
        /\ Len(llmQueue) = 0

\* Whoever an event waits for is there.
Held(k) ==
        /\ event[k] = "accepted" => \E r \in Requests : Dispatching(r) /\ request[r].key = k
        /\ event[k] = "queued" => \/ \E r \in Requests : Dispatching(r) /\ request[r].key = k
                                  \/ \E i \in 1 .. Len(llmQueue) : llmQueue[i] = k
        /\ event[k] = "running" => \E w \in Doers : Executing(w) /\ doer[w].key = k
        /\ event[k] = "delivering" => \E w \in Doers : Delivers(w) /\ doer[w].key = k

InHands == elnis = "ready" => \A k \in Keys \ unsaved : Held(k)

ElnisInv ==
    /\ ElnisTypeOK /\ RequestsHold /\ QueueHolds /\ WorkersHold /\ DeliverersHold
    /\ OutboxSound /\ ExecutedSound /\ QuietWhenOff /\ InHands

LEMMA ElnisTypes ==
  ASSUME ElnisInv
  PROVE  /\ event \in [Keys -> EventStates] /\ outbox \in [Keys -> [Addressees -> {"none", "pending", "failed", "delivered"}]]
         /\ request \in [Requests -> {NoRequest} \cup RequestStates] /\ doer \in [Doers -> {NoWork} \cup DoerStates]
         /\ llmQueue \in Seq(Keys) /\ Len(llmQueue) \in Nat /\ Len(llmQueue) <= QueueSize /\ QueueSize \in Nat
         /\ executed \in [Keys -> {0, 1}] /\ promoted \subseteq Keys /\ unsaved \subseteq Keys
         /\ elnis \in {"new", "ready", "closing", "done"}
         /\ \A i \in 1 .. Len(llmQueue) : llmQueue[i] \in Keys
         /\ \A r \in Requests : request[r].at # "rest" =>
               request[r] \in RequestStates /\ request[r].key \in Keys /\ elnis \in {"ready", "closing"}
         /\ \A w \in Doers : doer[w].at # "rest" =>
               doer[w] \in DoerStates /\ doer[w].key \in Keys /\ doer[w].todo \subseteq Addressees /\ elnis \in {"ready", "closing"}
  <1>1. /\ event \in [Keys -> EventStates] /\ outbox \in [Keys -> [Addressees -> {"none", "pending", "failed", "delivered"}]]
        /\ request \in [Requests -> {NoRequest} \cup RequestStates] /\ doer \in [Doers -> {NoWork} \cup DoerStates]
        /\ llmQueue \in Seq(Keys) /\ Len(llmQueue) <= QueueSize /\ QueueSize \in Nat
        /\ executed \in [Keys -> {0, 1}] /\ promoted \subseteq Keys /\ unsaved \subseteq Keys
        /\ elnis \in {"new", "ready", "closing", "done"}
    BY ElnisAssumption DEF ElnisInv, ElnisTypeOK, ExecutedSound, EventStates, RequestStates, DoerStates
  <1>2. Len(llmQueue) \in Nat /\ \A i \in 1 .. Len(llmQueue) : llmQueue[i] \in Keys
    BY <1>1
  <1>3. elnis \in {"new", "done"} => (\A r \in Requests : request[r].at = "rest") /\ \A w \in Doers : doer[w].at = "rest"
    BY DEF ElnisInv, QuietWhenOff, NoRequest, NoWork
  <1>4. \A r \in Requests : request[r].at # "rest" => request[r] \in RequestStates /\ request[r].key \in Keys
    BY <1>1 DEF NoRequest, RequestStates
  <1>5. \A w \in Doers : doer[w].at # "rest" => doer[w] \in DoerStates /\ doer[w].key \in Keys /\ doer[w].todo \subseteq Addressees
    BY <1>1 DEF NoWork, DoerStates
  <1> QED BY <1>1, <1>2, <1>3, <1>4, <1>5

LEMMA ElnisInitKeeps == ElnisInit => ElnisInv
  <1> SUFFICES ASSUME ElnisInit PROVE ElnisInv
    OBVIOUS
  <1> USE ElnisAssumption DEF ElnisInit
  <1>1. Len(llmQueue) = 0 /\ llmQueue \in Seq(Keys)
    OBVIOUS
  <1>2. (\A r \in Requests : request[r].at = "rest") /\ (\A w \in Doers : doer[w].at = "rest") /\ (\A k \in Keys, a \in Addressees : outbox[k][a] = "none")
    BY DEF NoRequest, NoWork, NoOutbox
  <1>3. ElnisTypeOK
    BY <1>1 DEF ElnisTypeOK, NoOutbox
  <1>4. RequestsHold /\ QueueHolds /\ WorkersHold /\ DeliverersHold
    BY <1>1, <1>2 DEF RequestsHold, RequestHolds, QueueHolds, WorkersHold, WorkerHolds, DeliverersHold, DelivererHolds, Dispatching, Executing, Delivers
  <1>5. OutboxSound /\ ExecutedSound /\ QuietWhenOff /\ InHands
    BY <1>1, <1>2 DEF OutboxSound, ExecutedSound, QuietWhenOff, InHands, Held
  <1> QED BY <1>3, <1>4, <1>5 DEF ElnisInv

\* At most the status of k changes, and what could not be written is remembered.
OnlyOf(k) ==
    /\ event' \in [Keys -> EventStates] /\ \A j \in Keys \ {k} : event'[j] = event[j]
    /\ unsaved \subseteq unsaved' /\ unsaved' \subseteq Keys

\* The status that is written, or the one that stays because the write failed.
LEMMA StatusFacts ==
  ASSUME ElnisInv, NEW k \in Keys
  PROVE  /\ \A st \in EventStates : SetStatus(k, st) /\ unsaved' \in {unsaved, unsaved \cup {k}} => OnlyOf(k) /\ event'[k] = st
         /\ event' = event /\ unsaved' \in {unsaved, unsaved \cup {k}} => OnlyOf(k) /\ event'[k] = event[k]
         /\ \A st \in EventStates : FinishEvent(k, st) => OnlyOf(k) /\ (event'[k] = st \/ (event'[k] = event[k] /\ k \in unsaved'))
         /\ ReleaseReport(k) => OnlyOf(k) /\ (event'[k] = "result_ready" \/ (event'[k] = event[k] /\ k \in unsaved'))
  <1>1. \A st \in EventStates : SetStatus(k, st) /\ unsaved' \in {unsaved, unsaved \cup {k}} => OnlyOf(k) /\ event'[k] = st
    BY ElnisTypes DEF SetStatus, OnlyOf
  <1>2. event' = event /\ unsaved' \in {unsaved, unsaved \cup {k}} => OnlyOf(k) /\ event'[k] = event[k]
    BY ElnisTypes DEF OnlyOf
  <1>3. "result_ready" \in EventStates
    BY DEF EventStates
  <1> QED BY <1>1, <1>2, <1>3 DEF FinishEvent, Written, NotWritten, ReleaseReport

LEMMA RequestFacts ==
  ASSUME ElnisInv, NEW r \in Requests, request[r].at # "rest", NEW at \in {"rest", "create", "dispatch"}, RequestAt(r, at)
  PROVE  /\ request' \in [Requests -> {NoRequest} \cup RequestStates] /\ request'[r].at = at
         /\ at # "rest" => request'[r].key = request[r].key /\ request'[r].mode = request[r].mode
         /\ \A q \in Requests \ {r} : request'[q] = request[q]
  <1> DEFINE x == IF at = "rest" THEN NoRequest ELSE [request[r] EXCEPT !.at = at]
  <1>1. request' = [request EXCEPT ![r] = x] /\ request \in [Requests -> {NoRequest} \cup RequestStates] /\ request[r] \in RequestStates
    BY ElnisTypes DEF RequestAt
  <1>2. x \in {NoRequest} \cup RequestStates /\ x.at = at /\ (at # "rest" => x.key = request[r].key /\ x.mode = request[r].mode)
    BY <1>1 DEF RequestStates, NoRequest
  <1> HIDE DEF x
  <1> QED BY <1>1, <1>2

LEMMA DoerFacts ==
  ASSUME ElnisInv, NEW w \in Doers, doer[w].at # "rest", NEW at \in {"rest", "prepare", "claim", "send", "mark"}, DoerAt(w, at)
  PROVE  /\ doer' \in [Doers -> {NoWork} \cup DoerStates] /\ doer'[w].at = at
         /\ at # "rest" => doer'[w].key = doer[w].key /\ doer'[w].todo = doer[w].todo
         /\ \A v \in Doers \ {w} : doer'[v] = doer[v]
  <1> DEFINE x == IF at = "rest" THEN NoWork ELSE [doer[w] EXCEPT !.at = at]
  <1>1. doer' = [doer EXCEPT ![w] = x] /\ doer \in [Doers -> {NoWork} \cup DoerStates] /\ doer[w] \in DoerStates
    BY ElnisTypes DEF DoerAt
  <1>2. x \in {NoWork} \cup DoerStates /\ x.at = at /\ (at # "rest" => x.key = doer[w].key /\ x.todo = doer[w].todo)
    BY <1>1 DEF DoerStates, NoWork
  <1> HIDE DEF x
  <1> QED BY <1>1, <1>2

\* Claiming and delivering change the targets that are left as well.
LEMMA ChecksFacts ==
  ASSUME ElnisInv, NEW w \in Doers, doer[w].at # "rest", NEW T \in SUBSET Addressees,
         doer' = [doer EXCEPT ![w].at = "check", ![w].todo = T]
  PROVE  /\ doer' \in [Doers -> {NoWork} \cup DoerStates] /\ doer'[w].at = "check"
         /\ doer'[w].key = doer[w].key /\ doer'[w].todo = T
         /\ \A v \in Doers \ {w} : doer'[v] = doer[v]
  <1> DEFINE x == [doer[w] EXCEPT !.at = "check"]
             y == [x EXCEPT !.todo = T]
  <1>1. doer \in [Doers -> {NoWork} \cup DoerStates] /\ doer[w] \in DoerStates
    BY ElnisTypes
  <1>2. doer' = [doer EXCEPT ![w] = y]
    BY <1>1
  <1>3. x \in DoerStates /\ x.at = "check" /\ x.key = doer[w].key
    BY <1>1 DEF DoerStates
  <1> HIDE DEF x
  <1>4. y \in DoerStates /\ y.at = "check" /\ y.key = doer[w].key /\ y.todo = T
    BY <1>3 DEF DoerStates
  <1> HIDE DEF y
  <1> QED BY <1>1, <1>2, <1>4

\* Nobody holds a key whose status says otherwise.
LEMMA HolderFacts ==
  ASSUME ElnisInv, NEW k \in Keys
  PROVE  /\ event[k] # "queued" => \A i \in 1 .. Len(llmQueue) : llmQueue[i] # k
         /\ event[k] # "running" => \A v \in Doers : Executing(v) => doer[v].key # k
         /\ event[k] # "delivering" => \A v \in Doers : Delivers(v) => doer[v].key # k
         /\ event[k] \notin {"queued", "accepted"} => \A q \in Requests : Dispatching(q) => request[q].key # k
  <1>1. event[k] # "queued" => \A i \in 1 .. Len(llmQueue) : llmQueue[i] # k
    BY DEF ElnisInv, QueueHolds
  <1>2. event[k] # "running" => \A v \in Doers : Executing(v) => doer[v].key # k
    BY DEF ElnisInv, WorkersHold, WorkerHolds
  <1>3. event[k] # "delivering" => \A v \in Doers : Delivers(v) => doer[v].key # k
    BY DEF ElnisInv, DeliverersHold, DelivererHolds
  <1>4. event[k] \notin {"queued", "accepted"} => \A q \in Requests : Dispatching(q) => request[q].key # k
    BY DEF ElnisInv, RequestsHold, RequestHolds
  <1> QED BY <1>1, <1>2, <1>3, <1>4

LEMMA HeldKeys ==
  ASSUME ElnisInv
  PROVE  /\ \A r \in Requests : Dispatching(r) => request[r].key \in Keys
         /\ \A w \in Doers : Executing(w) \/ Delivers(w) => doer[w].key \in Keys
  BY ElnisTypes DEF Dispatching, Executing, Delivers

\* A step that no event, and nobody who holds one, takes part in.
LEMMA HoldersStay ==
  ASSUME ElnisInv, UNCHANGED <<event, outbox, llmQueue, executed, unsaved>>, promoted' \subseteq Keys,
         request' \in [Requests -> {NoRequest} \cup RequestStates], doer' \in [Doers -> {NoWork} \cup DoerStates],
         \A r \in Requests : Dispatching(r) \/ Dispatching(r)' => request'[r] = request[r],
         \A w \in Doers : Executing(w) \/ Delivers(w) \/ Executing(w)' \/ Delivers(w)' => doer'[w] = doer[w],
         elnis' = elnis \/ (elnis = "ready" /\ elnis' = "closing"),
         elnis \in {"new", "done"} => request' = request /\ doer' = doer
  PROVE  ElnisInv'
  <1>1. ElnisTypeOK'
    BY ElnisTypes DEF ElnisInv, ElnisTypeOK, RequestStates, DoerStates
  <1>2. RequestsHold' /\ QueueHolds'
    BY DEF ElnisInv, RequestsHold, RequestHolds, QueueHolds, Dispatching
  <1>3. WorkersHold'
    BY DEF ElnisInv, WorkersHold, WorkerHolds, Executing
  <1>4. DeliverersHold'
    BY DEF ElnisInv, DeliverersHold, DelivererHolds, Delivers
  <1>5. OutboxSound' /\ ExecutedSound' /\ QuietWhenOff'
    BY DEF ElnisInv, OutboxSound, ExecutedSound, QuietWhenOff
  <1>6. InHands'
    <2> SUFFICES ASSUME elnis' = "ready", NEW j \in Keys \ unsaved PROVE Held(j)'
      BY DEF InHands
    <2>1. Held(j)
      BY DEF ElnisInv, InHands
    <2> QED BY <2>1 DEF Held, Dispatching, Executing, Delivers
  <1> QED BY <1>1, <1>2, <1>3, <1>4, <1>5, <1>6 DEF ElnisInv

\* The process starts or ends, orderly or not.
LEMMA NobodyHasEvent ==
  ASSUME ElnisInv, UNCHANGED <<outbox, promoted, executed>>, event' \in [Keys -> EventStates],
         \A k \in Keys : event'[k] = event[k] \/ event'[k] \in {"failed", "result_ready"},
         \A r \in Requests : request'[r] = NoRequest, \A w \in Doers : doer'[w] = NoWork,
         request' \in [Requests -> {NoRequest} \cup RequestStates], doer' \in [Doers -> {NoWork} \cup DoerStates],
         llmQueue' \in Seq(Keys), Len(llmQueue') = 0, unsaved' \in {unsaved, {}}, elnis' \in {"new", "ready", "done"},
         elnis' = "ready" => \A k \in Keys : event'[k] \notin Interruptible \cup {"delivering"}
  PROVE  ElnisInv'
  <1>1. (\A r \in Requests : request'[r].at = "rest") /\ \A w \in Doers : doer'[w].at = "rest"
    BY DEF NoRequest, NoWork
  <1>2. ElnisTypeOK'
    BY ElnisTypes DEF ElnisInv, ElnisTypeOK, EventStates, RequestStates, DoerStates
  <1>3. RequestsHold' /\ QueueHolds' /\ WorkersHold' /\ DeliverersHold'
    BY <1>1 DEF RequestsHold, RequestHolds, QueueHolds, WorkersHold, WorkerHolds, DeliverersHold, DelivererHolds, Dispatching, Executing, Delivers
  <1>4. OutboxSound' /\ ExecutedSound' /\ QuietWhenOff'
    BY DEF ElnisInv, OutboxSound, ExecutedSound, QuietWhenOff, Interruptible
  <1>5. InHands'
    BY DEF InHands, Held, Interruptible
  <1> QED BY <1>2, <1>3, <1>4, <1>5 DEF ElnisInv

\* A request that holds an event leaves: the event is through, or its status could not be written.
LEMMA RequestLeaves ==
  ASSUME ElnisInv, NEW r \in Requests, NEW k \in Keys, Dispatching(r), request[r].key = k, RequestAt(r, "rest"), OnlyOf(k),
         event'[k] \in {"completed", "failed"} \/ (event'[k] = event[k] /\ k \in unsaved'),
         executed' \in [Keys -> {0, 1}], \A j \in Keys \ {k} : executed'[j] = executed[j],
         UNCHANGED <<outbox, llmQueue, doer, promoted, elnis>>
  PROVE  ElnisInv'
  <1>1. /\ event[k] \in {"queued", "accepted"} /\ (\A a \in Addressees : outbox[k][a] = "none")
        /\ (\A i \in 1 .. Len(llmQueue) : llmQueue[i] # k) /\ (\A w \in Doers : (Executing(w) \/ Delivers(w)) => doer[w].key # k)
        /\ \A q \in Requests : q # r /\ Dispatching(q) => request[q].key # k
    BY DEF ElnisInv, RequestsHold, RequestHolds, OutboxSound, Interruptible, QueueHolds, WorkersHold, WorkerHolds, DeliverersHold, DelivererHolds
  <1>2. /\ request' \in [Requests -> {NoRequest} \cup RequestStates] /\ request'[r].at = "rest" /\ elnis \in {"ready", "closing"}
        /\ \A q \in Requests \ {r} : request'[q] = request[q]
    BY RequestFacts, ElnisTypes DEF Dispatching
  <1> USE <1>1, <1>2 DEF OnlyOf
  <1>3. ElnisTypeOK'
    BY ElnisTypes DEF ElnisInv, ElnisTypeOK, EventStates, RequestStates, DoerStates
  <1>4. RequestsHold'
    <2> SUFFICES ASSUME NEW q \in Requests, Dispatching(q)' PROVE RequestHolds(q)'
      BY DEF RequestsHold, RequestHolds
    <2>1. q # r /\ Dispatching(q) /\ request'[q] = request[q] /\ request[q].key \in Keys \ {k}
      BY HeldKeys DEF Dispatching
    <2>2. RequestHolds(q)
      BY DEF ElnisInv, RequestsHold
    <2> QED BY <2>1, <2>2 DEF RequestHolds, Dispatching
  <1>5. QueueHolds'
    <2>1. \A i \in 1 .. Len(llmQueue) : llmQueue[i] \in Keys \ {k}
      BY ElnisTypes
    <2> QED BY <2>1 DEF ElnisInv, QueueHolds
  <1>6. WorkersHold'
    BY HeldKeys DEF ElnisInv, WorkersHold, WorkerHolds, Executing
  <1>7. DeliverersHold'
    BY HeldKeys DEF ElnisInv, DeliverersHold, DelivererHolds, Delivers
  <1>8. OutboxSound' /\ ExecutedSound' /\ QuietWhenOff'
    BY DEF ElnisInv, OutboxSound, ExecutedSound, QuietWhenOff, Interruptible
  <1>9. InHands'
    <2> SUFFICES ASSUME elnis' = "ready", NEW j \in Keys \ unsaved' PROVE Held(j)'
      BY DEF InHands
    <2>1. Held(j)
      BY DEF ElnisInv, InHands
    <2>2. CASE j = k
      BY <2>2 DEF Held
    <2>3. CASE j # k
      <3>1. event'[j] = event[j] /\ \A q \in Requests : Dispatching(q) /\ request[q].key = j => request'[q] = request[q]
        BY <2>3
      <3> QED BY <2>1, <3>1 DEF Held, Dispatching, Executing, Delivers
    <2> QED BY <2>2, <2>3
  <1> QED BY <1>3, <1>4, <1>5, <1>6, <1>7, <1>8, <1>9 DEF ElnisInv

\* Only w can hold the event of k.
Alone(w, k) ==
    /\ elnis \in {"ready", "closing"} /\ (Executing(w) \/ Delivers(w) => doer[w].key = k)
    /\ \A v \in Doers \ {w} : Executing(v) \/ Delivers(v) => doer[v].key # k
    /\ (\A q \in Requests : Dispatching(q) => request[q].key # k) /\ (\A i \in 1 .. Len(llmQueue) : llmQueue[i] # k)

\* The tables of k and the hands of w, and no others, change together.
Moves(w, k) ==
    /\ UNCHANGED <<request, llmQueue, promoted, elnis>> /\ OnlyOf(k) /\ event'[k] # "none"
    /\ doer' \in [Doers -> {NoWork} \cup DoerStates] /\ \A v \in Doers \ {w} : doer'[v] = doer[v]
    /\ executed' \in [Keys -> {0, 1}] /\ \A j \in Keys \ {k} : executed'[j] = executed[j]
    /\ outbox' \in [Keys -> [Addressees -> {"none", "pending", "failed", "delivered"}]] /\ \A j \in Keys \ {k} : outbox'[j] = outbox[j]
    /\ event'[k] \in Interruptible => \A a \in Addressees : outbox'[k][a] = "none"
    /\ event'[k] = "completed" => \A a \in Addressees : outbox'[k][a] \in {"none", "delivered"}
    /\ doer'[w].at \in {"run", "prepare"} => doer'[w].key = k /\ event'[k] = "running" /\ doer'[w].at # "run"
    /\ doer'[w].at \in {"check", "send", "mark"} =>
          /\ doer'[w].key = k /\ event'[k] = "delivering"
          /\ \A a \in Addressees \ doer'[w].todo : outbox'[k][a] = "delivered"
          /\ doer'[w].at \in {"send", "mark"} => doer'[w].todo # {}
    /\ k \in unsaved' \/ event'[k] \in Final \cup {"result_ready"} \/ doer'[w].at \in {"prepare", "check", "send", "mark"}

\* A worker or the recovery goes on with the event that only it can hold.
LEMMA DoerMoves ==
  ASSUME ElnisInv, NEW w \in Doers, NEW k \in Keys, Alone(w, k), Moves(w, k)
  PROVE  ElnisInv'
  <1> USE DEF OnlyOf, Alone, Moves
  <1>1. ElnisTypeOK'
    BY ElnisTypes DEF ElnisInv, ElnisTypeOK, EventStates, RequestStates, DoerStates
  <1>2. RequestsHold'
    BY HeldKeys DEF ElnisInv, RequestsHold, RequestHolds, Dispatching
  <1>3. QueueHolds'
    <2>1. \A i \in 1 .. Len(llmQueue) : llmQueue[i] \in Keys \ {k}
      BY ElnisTypes DEF Alone
    <2> QED BY <2>1 DEF ElnisInv, QueueHolds
  <1>4. WorkersHold'
    <2> SUFFICES ASSUME NEW v \in Doers, Executing(v)' PROVE WorkerHolds(v)'
      BY DEF WorkersHold, WorkerHolds
    <2>1. \A u \in Doers \ {w} : Executing(u)' => Executing(u) /\ doer'[u] = doer[u] /\ doer[u].key \in Keys \ {k}
      BY HeldKeys DEF Executing
    <2>2. CASE v = w
      BY <2>1, <2>2 DEF WorkerHolds, Executing
    <2>3. CASE v # w
      <3>1. WorkerHolds(v)
        BY DEF ElnisInv, WorkersHold
      <3>2. doer'[v].key # k /\ event'[doer'[v].key] = event[doer[v].key] /\ executed'[doer'[v].key] = executed[doer[v].key]
        BY <2>1, <2>3
      <3>3. ASSUME NEW u \in Doers, u # v, Executing(u)' PROVE doer'[u].key # doer'[v].key
        <4>1. CASE u = w
          BY <3>2, <3>3, <4>1 DEF Executing
        <4>2. CASE u # w
          BY <2>1, <2>3, <3>1, <3>3, <4>2 DEF WorkerHolds
        <4> QED BY <4>1, <4>2
      <3> QED BY <2>1, <2>3, <3>1, <3>2, <3>3 DEF WorkerHolds, Executing
    <2> QED BY <2>2, <2>3
  <1>5. DeliverersHold'
    <2> SUFFICES ASSUME NEW v \in Doers, Delivers(v)' PROVE DelivererHolds(v)'
      BY DEF DeliverersHold, DelivererHolds
    <2>1. \A u \in Doers \ {w} : Delivers(u)' => Delivers(u) /\ doer'[u] = doer[u] /\ doer[u].key \in Keys \ {k}
      BY HeldKeys DEF Delivers
    <2>2. CASE v = w
      BY <2>1, <2>2 DEF DelivererHolds, Delivers
    <2>3. CASE v # w
      <3>1. DelivererHolds(v)
        BY DEF ElnisInv, DeliverersHold
      <3>2. doer'[v].key # k /\ event'[doer'[v].key] = event[doer[v].key] /\ outbox'[doer'[v].key] = outbox[doer[v].key]
        BY <2>1, <2>3
      <3>3. ASSUME NEW u \in Doers, u # v, Delivers(u)' PROVE doer'[u].key # doer'[v].key
        <4>1. CASE u = w
          BY <3>2, <3>3, <4>1 DEF Delivers
        <4>2. CASE u # w
          BY <2>1, <2>3, <3>1, <3>3, <4>2 DEF DelivererHolds
        <4> QED BY <4>1, <4>2
      <3> QED BY <2>1, <2>3, <3>1, <3>2, <3>3 DEF DelivererHolds, Delivers
    <2> QED BY <2>2, <2>3
  <1>6. OutboxSound'
    <2> SUFFICES ASSUME NEW j \in Keys, NEW a \in Addressees
                 PROVE  /\ event'[j] \in {"none"} \cup Interruptible => outbox'[j][a] = "none"
                        /\ event'[j] = "completed" => outbox'[j][a] \in {"none", "delivered"}
      BY DEF OutboxSound
    <2>1. CASE j = k
      BY <2>1
    <2>2. CASE j # k
      BY <2>2 DEF ElnisInv, OutboxSound
    <2> QED BY <2>1, <2>2
  <1>7. ExecutedSound' /\ QuietWhenOff'
    BY DEF ElnisInv, ExecutedSound, QuietWhenOff
  <1>8. InHands'
    <2> SUFFICES ASSUME elnis' = "ready", NEW j \in Keys \ unsaved' PROVE Held(j)'
      BY DEF InHands
    <2>1. Held(j)
      BY DEF ElnisInv, InHands
    <2>2. CASE j = k
      <3>1. CASE doer'[w].at = "prepare"
        BY <2>2, <3>1 DEF Held, Executing
      <3>2. CASE doer'[w].at \in {"check", "send", "mark"}
        BY <2>2, <3>2 DEF Held, Delivers
      <3>3. CASE event'[k] \in Final \cup {"result_ready"}
        BY <2>2, <3>3 DEF Held, Final
      <3> QED BY <2>2, <3>1, <3>2, <3>3
    <2>3. CASE j # k
      <3>1. event'[j] = event[j] /\ \A v \in Doers : (Executing(v) \/ Delivers(v)) /\ doer[v].key = j => doer'[v] = doer[v]
        BY <2>3
      <3> QED BY <2>1, <3>1 DEF Held, Dispatching, Executing, Delivers
    <2> QED BY <2>2, <2>3
  <1> QED BY <1>1, <1>2, <1>3, <1>4, <1>5, <1>6, <1>7, <1>8 DEF ElnisInv

LEMMA LifecycleKeeps ==
  ASSUME ElnisInv, StartElnis \/ BeginCloseElnis \/ CloseElnis \/ RestartElnis
  PROVE  ElnisInv'
  <1>1. /\ FailInterrupted \in [Keys -> EventStates] /\ Recovered \in [Keys -> EventStates]
        /\ \A k \in Keys : /\ FailInterrupted[k] \in {event[k], "failed"} /\ Recovered[k] \in {event[k], "failed", "result_ready"}
                           /\ Recovered[k] \notin Interruptible \cup {"delivering"}
    BY ElnisTypes DEF Recovered, FailInterrupted, EventStates, Interruptible, Final
  <1>2. <<>> \in Seq(Keys) /\ Len(<<>>) = 0
    OBVIOUS
  <1>3. CASE BeginCloseElnis
    BY <1>3, ElnisTypes, HoldersStay DEF BeginCloseElnis
  <1>4. CASE StartElnis
    <2>1. (\A r \in Requests : request[r] = NoRequest) /\ (\A w \in Doers : doer[w] = NoWork) /\ Len(llmQueue) = 0
      BY <1>4 DEF StartElnis, ElnisInv, QuietWhenOff
    <2>2. /\ UNCHANGED <<outbox, request, llmQueue, doer, promoted, executed>> /\ unsaved' = {}
          /\ event' \in {event, FailInterrupted, Recovered} /\ elnis' \in {"ready", "done"} /\ (elnis' = "ready" => event' = Recovered)
      BY <1>4 DEF StartElnis
    <2>3. event' \in [Keys -> EventStates] /\ \A k \in Keys : event'[k] = event[k] \/ event'[k] \in {"failed", "result_ready"}
      BY <1>1, <2>2, ElnisTypes
    <2> QED BY <1>1, <2>1, <2>2, <2>3, ElnisTypes, NobodyHasEvent
  <1>5. CASE CloseElnis
    <2>1. /\ UNCHANGED <<outbox, request, doer, promoted, executed, unsaved>> /\ event' \in {event, FailInterrupted} /\ elnis' = "done" /\ llmQueue' = <<>>
          /\ (\A r \in Requests : request[r] = NoRequest) /\ \A w \in Doers : doer[w] = NoWork
      BY <1>5 DEF CloseElnis
    <2>2. event' \in [Keys -> EventStates] /\ \A k \in Keys : event'[k] = event[k] \/ event'[k] \in {"failed", "result_ready"}
      BY <1>1, <2>1, ElnisTypes
    <2> QED BY <1>2, <2>1, <2>2, ElnisTypes, NobodyHasEvent
  <1>6. CASE RestartElnis
    <2>1. /\ UNCHANGED <<event, outbox, promoted, executed, unsaved>> /\ elnis' = "new" /\ llmQueue' = <<>>
          /\ request' = [r \in Requests |-> NoRequest] /\ doer' = [w \in Doers |-> NoWork]
      BY <1>6 DEF RestartElnis
    <2> QED BY <1>2, <2>1, ElnisTypes, NobodyHasEvent
  <1> QED BY <1>3, <1>4, <1>5, <1>6

LEMMA QuietStepKeeps ==
  ASSUME ElnisInv,
         \/ \E r \in Requests : LookUp(r) \/ \E k \in Keys, mode \in {"record", "direct", "llm"} : Dispatch(r, k, mode)
         \/ \E k \in Keys : RecoverReport(k) \/ PromoteSession(k)
  PROVE  ElnisInv'
  <1>1. CASE \E r \in Requests, k \in Keys, mode \in {"record", "direct", "llm"} : Dispatch(r, k, mode)
    <2>1. PICK r \in Requests, k \in Keys, mode \in {"record", "direct", "llm"} : Dispatch(r, k, mode)
      BY <1>1
    <2> DEFINE x == [at |-> "lookup", key |-> k, mode |-> mode]
    <2>2. x \in RequestStates /\ x.at = "lookup"
      BY DEF RequestStates
    <2>3. /\ elnis = "ready" /\ request[r].at = "rest" /\ request' = [request EXCEPT ![r] = x]
          /\ UNCHANGED <<event, outbox, llmQueue, doer, promoted, elnis, executed, unsaved>>
      BY <2>1 DEF Dispatch
    <2> HIDE DEF x
    <2>4. request' \in [Requests -> {NoRequest} \cup RequestStates] /\ request'[r].at = "lookup" /\ \A q \in Requests \ {r} : request'[q] = request[q]
      BY <2>2, <2>3, ElnisTypes
    <2>5. \A q \in Requests : Dispatching(q) \/ Dispatching(q)' => request'[q] = request[q]
      BY <2>3, <2>4 DEF Dispatching
    <2> QED BY <2>3, <2>4, <2>5, ElnisTypes, HoldersStay
  <1>2. CASE \E r \in Requests : LookUp(r)
    <2>1. PICK r \in Requests : LookUp(r)
      BY <1>2
    <2>2. PICK at \in {"rest", "create"} : RequestAt(r, at)
      BY <2>1 DEF LookUp
    <2>3. request[r].at = "lookup" /\ UNCHANGED <<event, outbox, llmQueue, doer, promoted, elnis, executed, unsaved>>
      BY <2>1 DEF LookUp
    <2>4. request' \in [Requests -> {NoRequest} \cup RequestStates] /\ request'[r].at = at /\ \A q \in Requests \ {r} : request'[q] = request[q]
      BY <2>2, <2>3, RequestFacts
    <2>5. elnis \in {"ready", "closing"} /\ \A q \in Requests : Dispatching(q) \/ Dispatching(q)' => request'[q] = request[q]
      BY <2>3, <2>4, ElnisTypes DEF Dispatching
    <2> QED BY <2>3, <2>4, <2>5, ElnisTypes, HoldersStay
  <1>3. CASE \E k \in Keys : RecoverReport(k)
    <2>1. PICK k \in Keys : RecoverReport(k)
      BY <1>3
    <2> DEFINE x == [at |-> "claim", key |-> k, todo |-> {}]
    <2>2. x \in DoerStates /\ x.at = "claim"
      BY DEF DoerStates
    <2>3. /\ elnis = "ready" /\ doer[Reporter].at = "rest" /\ doer' = [doer EXCEPT ![Reporter] = x] /\ Reporter \in Doers
          /\ UNCHANGED <<event, outbox, request, llmQueue, promoted, elnis, executed, unsaved>>
      BY <2>1 DEF RecoverReport, Doers
    <2> HIDE DEF x
    <2>4. doer' \in [Doers -> {NoWork} \cup DoerStates] /\ doer'[Reporter].at = "claim" /\ \A v \in Doers \ {Reporter} : doer'[v] = doer[v]
      BY <2>2, <2>3, ElnisTypes
    <2>5. \A v \in Doers : Executing(v) \/ Delivers(v) \/ Executing(v)' \/ Delivers(v)' => doer'[v] = doer[v]
      BY <2>3, <2>4 DEF Executing, Delivers
    <2> QED BY <2>3, <2>4, <2>5, ElnisTypes, HoldersStay
  <1>4. CASE \E k \in Keys : PromoteSession(k)
    BY <1>4, ElnisTypes, HoldersStay DEF PromoteSession
  <1> QED BY <1>1, <1>2, <1>3, <1>4

LEMMA CreateEventKeeps ==
  ASSUME ElnisInv, NEW r \in Requests, CreateEvent(r), RequestAt(r, "dispatch")
  PROVE  ElnisInv'
  <1> DEFINE k == request[r].key
  <1>1. /\ request[r].at = "create" /\ UNCHANGED <<outbox, llmQueue, doer, promoted, elnis, executed, unsaved>>
        /\ k \in Keys /\ elnis \in {"ready", "closing"}
    BY ElnisTypes DEF CreateEvent
  <1>2. /\ request' \in [Requests -> {NoRequest} \cup RequestStates] /\ request'[r].at = "dispatch"
        /\ request'[r].key = k /\ request'[r].mode = request[r].mode /\ \A q \in Requests \ {r} : request'[q] = request[q]
    BY <1>1, RequestFacts
  <1>3. event[k] = "none" /\ SetStatus(k, IF request[r].mode = "llm" THEN "queued" ELSE "accepted")
    <2>1. ~RequestAt(r, "rest")
      BY <1>1, <1>2, RequestFacts
    <2> QED BY <2>1 DEF CreateEvent, Creatable
  <1>4. /\ executed[k] = 0 /\ (\A i \in 1 .. Len(llmQueue) : llmQueue[i] # k) /\ (\A a \in Addressees : outbox[k][a] = "none")
        /\ (\A w \in Doers : (Executing(w) \/ Delivers(w)) => doer[w].key # k) /\ \A q \in Requests : Dispatching(q) => request[q].key # k
    <2>1. executed[k] = 0 /\ \A a \in Addressees : outbox[k][a] = "none"
      BY <1>1, <1>3 DEF ElnisInv, ExecutedSound, OutboxSound
    <2> QED BY <1>1, <1>3, <2>1, HolderFacts
  <1>5. OnlyOf(k) /\ event'[k] = IF request[r].mode = "llm" THEN "queued" ELSE "accepted"
    BY <1>1, <1>3, StatusFacts DEF EventStates, Interruptible
  <1> HIDE DEF k
  <1> USE <1>1, <1>2, <1>4, <1>5 DEF OnlyOf
  <1>6. ElnisTypeOK'
    BY ElnisTypes DEF ElnisInv, ElnisTypeOK, EventStates, RequestStates, DoerStates
  <1>7. RequestsHold'
    <2> SUFFICES ASSUME NEW q \in Requests, Dispatching(q)' PROVE RequestHolds(q)'
      BY DEF RequestsHold, RequestHolds
    <2>1. \A p \in Requests \ {r} : Dispatching(p)' => Dispatching(p) /\ request'[p] = request[p] /\ request[p].key \in Keys \ {k}
      BY HeldKeys DEF Dispatching
    <2>2. CASE q = r
      BY <2>1, <2>2 DEF RequestHolds, Dispatching
    <2>3. CASE q # r
      <3>1. RequestHolds(q)
        BY DEF ElnisInv, RequestsHold
      <3>2. \A p \in Requests : p # q /\ Dispatching(p)' => request'[p].key # request'[q].key
        BY <2>1, <2>3, <3>1 DEF RequestHolds
      <3> QED BY <2>1, <2>3, <3>1, <3>2 DEF RequestHolds
    <2> QED BY <2>2, <2>3
  <1>8. QueueHolds'
    <2>1. \A i \in 1 .. Len(llmQueue) : llmQueue[i] \in Keys \ {k}
      BY ElnisTypes
    <2> QED BY <2>1 DEF ElnisInv, QueueHolds
  <1>9. WorkersHold'
    BY HeldKeys DEF ElnisInv, WorkersHold, WorkerHolds, Executing
  <1>10. DeliverersHold'
    BY HeldKeys DEF ElnisInv, DeliverersHold, DelivererHolds, Delivers
  <1>11. OutboxSound' /\ ExecutedSound' /\ QuietWhenOff'
    BY DEF ElnisInv, OutboxSound, ExecutedSound, QuietWhenOff, Interruptible
  <1>12. InHands'
    <2> SUFFICES ASSUME elnis' = "ready", NEW j \in Keys \ unsaved PROVE Held(j)'
      BY DEF InHands
    <2>1. Held(j)
      BY DEF ElnisInv, InHands
    <2>2. CASE j = k
      BY <2>2 DEF Held, Dispatching
    <2>3. CASE j # k
      <3>1. event'[j] = event[j] /\ \A q \in Requests : Dispatching(q) => request'[q] = request[q]
        BY <2>3 DEF Dispatching
      <3> QED BY <2>1, <3>1 DEF Held, Dispatching, Executing, Delivers
    <2> QED BY <2>2, <2>3
  <1> QED BY <1>6, <1>7, <1>8, <1>9, <1>10, <1>11, <1>12 DEF ElnisInv

\* A duplicate, or a write that failed.
LEMMA CreateRefusedKeeps ==
  ASSUME ElnisInv, NEW r \in Requests, CreateEvent(r), ~RequestAt(r, "dispatch")
  PROVE  ElnisInv'
  <1>1. request[r].at = "create" /\ RequestAt(r, "rest") /\ UNCHANGED <<event, outbox, llmQueue, doer, promoted, elnis, executed, unsaved>>
    BY DEF CreateEvent
  <1>2. /\ request' \in [Requests -> {NoRequest} \cup RequestStates] /\ request'[r].at = "rest" /\ elnis \in {"ready", "closing"}
        /\ \A q \in Requests \ {r} : request'[q] = request[q]
    BY <1>1, RequestFacts, ElnisTypes
  <1>3. \A q \in Requests : Dispatching(q) \/ Dispatching(q)' => request'[q] = request[q]
    BY <1>1, <1>2 DEF Dispatching
  <1> QED BY <1>1, <1>2, <1>3, ElnisTypes, HoldersStay

LEMMA RunDirectKeeps ==
  ASSUME ElnisInv, NEW r \in Requests, RunDirect(r)
  PROVE  ElnisInv'
  <1> DEFINE k == request[r].key
  <1>1. /\ request[r].at = "dispatch" /\ executed' = [executed EXCEPT ![k] = @ + 1] /\ RequestAt(r, "rest")
        /\ UNCHANGED <<outbox, llmQueue, doer, promoted, elnis>> /\ k \in Keys
    BY ElnisTypes DEF RunDirect
  <1>2. executed[k] = 0
    BY <1>1 DEF ElnisInv, RequestsHold, RequestHolds, Dispatching
  <1>3. executed' \in [Keys -> {0, 1}] /\ \A j \in Keys \ {k} : executed'[j] = executed[j]
    BY <1>1, <1>2, ElnisTypes
  <1>4. OnlyOf(k) /\ (event'[k] \in {"completed", "failed"} \/ (event'[k] = event[k] /\ k \in unsaved'))
    <2>1. \E st \in {"completed", "failed"} : FinishEvent(k, st)
      BY DEF RunDirect
    <2> QED BY <1>1, <2>1, StatusFacts DEF EventStates, Final
  <1> QED BY <1>1, <1>3, <1>4, RequestLeaves DEF Dispatching

LEMMA EnqueueLLMKeeps ==
  ASSUME ElnisInv, NEW r \in Requests, EnqueueLLM(r)
  PROVE  ElnisInv'
  <1> DEFINE k == request[r].key
  <1>1. /\ request[r].at = "dispatch" /\ request[r].mode = "llm" /\ RequestAt(r, "rest") /\ UNCHANGED <<outbox, doer, promoted, elnis, executed>>
        /\ k \in Keys
    BY ElnisTypes DEF EnqueueLLM
  <1>2. CASE FinishEvent(k, "failed") /\ UNCHANGED llmQueue
    <2>1. OnlyOf(k) /\ (event'[k] = "failed" \/ (event'[k] = event[k] /\ k \in unsaved'))
      BY <1>1, <1>2, StatusFacts DEF EventStates, Final
    <2> QED BY <1>1, <1>2, <2>1, ElnisTypes, RequestLeaves DEF Dispatching
  <1>3. CASE elnis = "ready" /\ QueueRoom /\ llmQueue' = Append(llmQueue, k) /\ UNCHANGED <<event, unsaved, spent>>
    <2>1. /\ executed[k] = 0 /\ event[k] = "queued"
          /\ (\A i \in 1 .. Len(llmQueue) : llmQueue[i] # k) /\ (\A w \in Doers : (Executing(w) \/ Delivers(w)) => doer[w].key # k)
          /\ \A q \in Requests : q # r /\ Dispatching(q) => request[q].key # k
      BY <1>1 DEF ElnisInv, RequestsHold, RequestHolds, Dispatching, WorkersHold, WorkerHolds, DeliverersHold, DelivererHolds
    <2>2. /\ request' \in [Requests -> {NoRequest} \cup RequestStates] /\ request'[r].at = "rest"
          /\ \A q \in Requests \ {r} : request'[q] = request[q]
      BY <1>1, RequestFacts
    <2>3. /\ llmQueue' \in Seq(Keys) /\ Len(llmQueue') = Len(llmQueue) + 1 /\ llmQueue'[Len(llmQueue) + 1] = k
          /\ (\A i \in 1 .. Len(llmQueue) : llmQueue'[i] = llmQueue[i]) /\ Len(llmQueue) < QueueSize
      <3>1. llmQueue \in Seq(Keys)
        BY ElnisTypes
      <3> QED BY <1>1, <1>3, <3>1, AppendProperties DEF QueueRoom
    <2> HIDE DEF k
    <2> USE <1>1, <1>3, <2>1, <2>2, <2>3, ElnisTypes
    <2>4. ElnisTypeOK'
      BY DEF ElnisInv, ElnisTypeOK, EventStates, RequestStates, DoerStates
    <2>5. RequestsHold'
      <3> SUFFICES ASSUME NEW q \in Requests, Dispatching(q)' PROVE RequestHolds(q)'
        BY DEF RequestsHold, RequestHolds
      <3>1. \A p \in Requests : Dispatching(p)' => p # r /\ Dispatching(p) /\ request'[p] = request[p] /\ request[p].key # k
        BY DEF Dispatching
      <3>2. RequestHolds(q)
        BY DEF ElnisInv, RequestsHold
      <3>3. \A i \in 1 .. Len(llmQueue') : i \in 1 .. Len(llmQueue) \/ i = Len(llmQueue) + 1
        OBVIOUS
      <3> QED BY <3>1, <3>2, <3>3 DEF RequestHolds, Dispatching
    <2>6. QueueHolds'
      <3> SUFFICES ASSUME NEW i \in 1 .. Len(llmQueue')
                   PROVE  /\ event[llmQueue'[i]] = "queued" /\ executed[llmQueue'[i]] = 0
                          /\ \A j \in 1 .. Len(llmQueue') : j # i => llmQueue'[j] # llmQueue'[i]
        BY DEF QueueHolds
      <3>1. \A j \in 1 .. Len(llmQueue') : j \in 1 .. Len(llmQueue) \/ j = Len(llmQueue) + 1
        OBVIOUS
      <3>2. CASE i = Len(llmQueue) + 1
        BY <3>1, <3>2
      <3>3. CASE i \in 1 .. Len(llmQueue)
        <4>1. event[llmQueue[i]] = "queued" /\ executed[llmQueue[i]] = 0 /\ \A j \in 1 .. Len(llmQueue) : j # i => llmQueue[j] # llmQueue[i]
          BY <3>3 DEF ElnisInv, QueueHolds
        <4> QED BY <3>1, <3>3, <4>1
      <3> QED BY <3>1, <3>2, <3>3
    <2>7. WorkersHold' /\ DeliverersHold'
      BY DEF ElnisInv, WorkersHold, WorkerHolds, DeliverersHold, DelivererHolds, Executing, Delivers
    <2>8. OutboxSound' /\ ExecutedSound' /\ QuietWhenOff'
      BY DEF ElnisInv, OutboxSound, ExecutedSound, QuietWhenOff
    <2>9. InHands'
      <3> SUFFICES ASSUME NEW j \in Keys \ unsaved PROVE Held(j)'
        BY DEF InHands
      <3>1. Held(j)
        BY DEF ElnisInv, InHands
      <3>2. CASE j = k
        BY <3>2 DEF Held
      <3>3. CASE j # k
        <4>1. \A q \in Requests : Dispatching(q) /\ request[q].key = j => request'[q] = request[q]
          BY <3>3 DEF k
        <4>2. \A i \in 1 .. Len(llmQueue) : i \in 1 .. Len(llmQueue')
          OBVIOUS
        <4> QED BY <3>1, <3>3, <4>1, <4>2 DEF Held, Dispatching, Executing, Delivers
      <3> QED BY <3>2, <3>3
    <2> QED BY <2>4, <2>5, <2>6, <2>7, <2>8, <2>9 DEF ElnisInv
  <1> QED BY <1>2, <1>3 DEF EnqueueLLM

LEMMA TakeEventKeeps ==
  ASSUME ElnisInv, NEW w \in LLMWorkers, TakeEvent(w)
  PROVE  ElnisInv'
  <1> DEFINE k == Head(llmQueue)
             x == [at |-> "run", key |-> k, todo |-> {}]
  <1>1. /\ elnis \in {"ready", "closing"} /\ doer[w].at = "rest" /\ Len(llmQueue) > 0 /\ llmQueue' = Tail(llmQueue)
        /\ UNCHANGED <<outbox, request, promoted, elnis, executed>> /\ w \in Doers
        /\ \/ doer' = [doer EXCEPT ![w] = x] /\ SetStatus(k, "running") /\ unsaved' = unsaved
           \/ doer' = doer /\ event' = event /\ unsaved' = unsaved \cup {k}
           \/ doer' = doer /\ event' = event /\ unsaved' = unsaved /\ elnis = "closing"
    BY DEF TakeEvent, Written, NotWritten, Doers
  <1>2. /\ k = llmQueue[1] /\ llmQueue' \in Seq(Keys) /\ Len(llmQueue') = Len(llmQueue) - 1 /\ Len(llmQueue) \in Nat
        /\ (\A i \in 1 .. Len(llmQueue') : llmQueue'[i] = llmQueue[i + 1]) /\ k \in Keys
        /\ (\A i \in 2 .. Len(llmQueue) : i - 1 \in 1 .. Len(llmQueue') /\ llmQueue'[i - 1] = llmQueue[i] /\ llmQueue[i] # k)
        /\ event[k] = "queued" /\ executed[k] = 0
    BY <1>1, ElnisTypes, HeadTailProperties DEF ElnisInv, QueueHolds
  <1>3. /\ (\A a \in Addressees : outbox[k][a] = "none") /\ (\A v \in Doers : (Executing(v) \/ Delivers(v)) => doer[v].key # k)
        /\ \A q \in Requests : Dispatching(q) => request[q].key # k
    BY <1>1, <1>2, ElnisTypes DEF ElnisInv, RequestsHold, RequestHolds, OutboxSound, Interruptible, WorkersHold, WorkerHolds, DeliverersHold, DelivererHolds
  <1>4. x \in DoerStates /\ x.at = "run" /\ x.key = k
    BY <1>2 DEF DoerStates
  <1> HIDE DEF x, k
  <1>5. /\ doer' \in [Doers -> {NoWork} \cup DoerStates] /\ OnlyOf(k) /\ \A v \in Doers \ {w} : doer'[v] = doer[v]
        /\ \/ doer'[w].at = "run" /\ doer'[w].key = k /\ event'[k] = "running"
           \/ doer'[w].at = "rest" /\ event'[k] = "queued" /\ (k \in unsaved' \/ elnis = "closing")
    <2>1. "running" \in EventStates /\ doer \in [Doers -> {NoWork} \cup DoerStates] /\ k \in Keys
      BY <1>2, ElnisTypes DEF EventStates, Interruptible
    <2>2. OnlyOf(k) /\ \/ doer' = [doer EXCEPT ![w] = x] /\ event'[k] = "running"
                       \/ doer' = doer /\ event'[k] = event[k] /\ (k \in unsaved' \/ elnis = "closing")
      BY <1>1, <2>1, StatusFacts
    <2>3. /\ doer' \in [Doers -> {NoWork} \cup DoerStates] /\ \A v \in Doers \ {w} : doer'[v] = doer[v]
          /\ (doer' = [doer EXCEPT ![w] = x] => doer'[w] = x)
      BY <1>1, <1>4, <2>1, <2>2
    <2> QED BY <1>1, <1>2, <1>4, <2>2, <2>3
  <1> USE <1>1, <1>2, <1>3, <1>5 DEF OnlyOf
  <1>6. ElnisTypeOK'
    BY ElnisTypes DEF ElnisInv, ElnisTypeOK, EventStates, RequestStates, DoerStates
  <1>7. RequestsHold'
    <2> SUFFICES ASSUME NEW q \in Requests, Dispatching(q) PROVE RequestHolds(q)'
      BY DEF RequestsHold, RequestHolds, Dispatching
    <2>1. RequestHolds(q) /\ request[q].key \in Keys \ {k}
      BY HeldKeys DEF ElnisInv, RequestsHold
    <2>2. \A i \in 1 .. Len(llmQueue') : i + 1 \in 1 .. Len(llmQueue)
      OBVIOUS
    <2> QED BY <2>1, <2>2 DEF RequestHolds, Dispatching
  <1>8. QueueHolds'
    BY DEF ElnisInv, QueueHolds
  <1>9. WorkersHold'
    <2> SUFFICES ASSUME NEW v \in Doers, Executing(v)' PROVE WorkerHolds(v)'
      BY DEF WorkersHold, WorkerHolds
    <2>1. \A u \in Doers \ {w} : Executing(u)' => Executing(u) /\ doer'[u] = doer[u] /\ doer[u].key \in Keys \ {k}
      BY HeldKeys DEF Executing
    <2>2. CASE v = w
      BY <2>1, <2>2 DEF WorkerHolds, Executing
    <2>3. CASE v # w
      <3>1. WorkerHolds(v)
        BY DEF ElnisInv, WorkersHold
      <3>2. \A u \in Doers : u # v /\ Executing(u)' => doer'[u].key # doer'[v].key
        BY <2>1, <2>3, <3>1 DEF WorkerHolds, Executing
      <3> QED BY <2>1, <2>3, <3>1, <3>2 DEF WorkerHolds, Executing
    <2> QED BY <2>2, <2>3
  <1>10. DeliverersHold'
    BY HeldKeys DEF ElnisInv, DeliverersHold, DelivererHolds, Delivers
  <1>11. OutboxSound' /\ ExecutedSound' /\ QuietWhenOff'
    BY DEF ElnisInv, OutboxSound, ExecutedSound, QuietWhenOff
  <1>12. InHands'
    <2> SUFFICES ASSUME elnis = "ready", NEW j \in Keys \ unsaved' PROVE Held(j)'
      BY DEF InHands
    <2>1. Held(j)
      BY DEF ElnisInv, InHands
    <2>2. CASE j = k
      BY <2>2 DEF Held, Executing
    <2>3. CASE j # k
      <3>1. event'[j] = event[j] /\ \A q \in Requests : request'[q] = request[q]
        BY <2>3
      <3>2. ASSUME NEW i \in 1 .. Len(llmQueue), llmQueue[i] = j PROVE \E n \in 1 .. Len(llmQueue') : llmQueue'[n] = j
        <4>1. i \in 2 .. Len(llmQueue)
          BY <3>2, <2>3
        <4> QED BY <3>2, <4>1
      <3>3. \A v \in Doers : doer[v].key = j /\ (Executing(v) \/ Delivers(v)) => v # w /\ doer'[v] = doer[v]
        BY DEF Executing, Delivers
      <3> QED BY <2>1, <3>1, <3>2, <3>3 DEF Held, Dispatching, Executing, Delivers
    <2> QED BY <2>2, <2>3
  <1> QED BY <1>6, <1>7, <1>8, <1>9, <1>10, <1>11, <1>12 DEF ElnisInv

\* A worker is the only one that holds what it executes, a deliverer what it delivers.
LEMMA AloneFacts ==
  ASSUME ElnisInv, NEW w \in Doers, NEW k \in Keys, doer[w].key = k, Executing(w) \/ Delivers(w)
  PROVE  /\ Alone(w, k)
         /\ Executing(w) => event[k] = "running" /\ (\A a \in Addressees : outbox[k][a] = "none") /\ (doer[w].at = "run" => executed[k] = 0)
         /\ Delivers(w) => event[k] = "delivering"
  <1>1. elnis \in {"ready", "closing"}
    BY ElnisTypes DEF Executing, Delivers
  <1>2. Executing(w) => event[k] = "running" /\ (doer[w].at = "run" => executed[k] = 0) /\ \A v \in Doers \ {w} : Executing(v) => doer[v].key # k
    BY DEF ElnisInv, WorkersHold, WorkerHolds
  <1>3. Delivers(w) => event[k] = "delivering" /\ \A v \in Doers \ {w} : Delivers(v) => doer[v].key # k
    BY DEF ElnisInv, DeliverersHold, DelivererHolds
  <1>4. Executing(w) => \A a \in Addressees : outbox[k][a] = "none"
    BY <1>2 DEF ElnisInv, OutboxSound, Interruptible
  <1> QED BY <1>1, <1>2, <1>3, <1>4, HolderFacts DEF Alone

LEMMA RunLLMEventKeeps ==
  ASSUME ElnisInv, NEW w \in Doers, RunLLMEvent(w)
  PROVE  ElnisInv'
  <1> DEFINE k == doer[w].key
  <1>1. doer[w].at = "run" /\ executed' = [executed EXCEPT ![k] = @ + 1] /\ UNCHANGED <<outbox, request, llmQueue, promoted, elnis>>
    BY DEF RunLLMEvent
  <1>2. k \in Keys /\ Executing(w)
    BY <1>1, ElnisTypes DEF Executing
  <1>3. executed' \in [Keys -> {0, 1}] /\ \A j \in Keys \ {k} : executed'[j] = executed[j]
    BY <1>1, <1>2, ElnisTypes, AloneFacts
  <1>4. PICK at \in {"rest", "prepare"} : DoerAt(w, at) /\ (at = "prepare" => event' = event /\ unsaved' = unsaved)
           /\ (at = "rest" => \E st \in {"taken_over", "failed", "completed"} : FinishEvent(k, st))
    BY DEF RunLLMEvent
  <1>5. /\ doer' \in [Doers -> {NoWork} \cup DoerStates] /\ doer'[w].at = at /\ (at # "rest" => doer'[w].key = k)
        /\ \A v \in Doers \ {w} : doer'[v] = doer[v]
    BY <1>1, <1>4, DoerFacts
  <1>6. OnlyOf(k) /\ \/ at = "prepare" /\ event'[k] = event[k]
                     \/ at = "rest" /\ event'[k] \in {"taken_over", "failed", "completed"}
                     \/ at = "rest" /\ event'[k] = event[k] /\ k \in unsaved'
    BY <1>2, <1>4, StatusFacts DEF EventStates, Final
  <1>7. /\ Alone(w, k) /\ event[k] = "running" /\ (\A a \in Addressees : outbox[k][a] = "none")
        /\ outbox \in [Keys -> [Addressees -> {"none", "pending", "failed", "delivered"}]]
    BY <1>2, ElnisTypes, AloneFacts
  <1> HIDE DEF k
  <1>8. Moves(w, k)
    BY <1>1, <1>3, <1>5, <1>6, <1>7 DEF Moves, Final
  <1> QED BY <1>2, <1>7, <1>8, DoerMoves

LEMMA PrepareReportKeeps ==
  ASSUME ElnisInv, NEW w \in Doers, PrepareReport(w)
  PROVE  ElnisInv'
  <1> DEFINE k == doer[w].key
  <1>1. doer[w].at = "prepare" /\ UNCHANGED <<request, llmQueue, promoted, elnis, executed>>
    BY DEF PrepareReport
  <1>2. k \in Keys /\ Executing(w)
    BY <1>1, ElnisTypes DEF Executing
  <1>3. PICK at \in {"rest", "claim"} : DoerAt(w, at)
           /\ (at = "rest" => outbox' = outbox /\ \E st \in {"taken_over", "failed"} : FinishEvent(k, st))
           /\ (at = "claim" => SetStatus(k, "result_ready") /\ unsaved' = unsaved /\ outbox' = [outbox EXCEPT ![k] = [a \in Addressees |-> "pending"]])
    BY DEF PrepareReport, FinishEvent, Written
  <1>4. doer' \in [Doers -> {NoWork} \cup DoerStates] /\ doer'[w].at = at /\ \A v \in Doers \ {w} : doer'[v] = doer[v]
    BY <1>1, <1>3, DoerFacts
  <1>5. OnlyOf(k) /\ \/ event'[k] \in {"taken_over", "failed", "result_ready"}
                     \/ event'[k] = event[k] /\ k \in unsaved' /\ outbox' = outbox
    BY <1>2, <1>3, StatusFacts DEF EventStates, Final
  <1>6. /\ Alone(w, k) /\ event[k] = "running" /\ (\A a \in Addressees : outbox[k][a] = "none")
        /\ outbox \in [Keys -> [Addressees -> {"none", "pending", "failed", "delivered"}]] /\ executed \in [Keys -> {0, 1}]
    BY <1>2, ElnisTypes, AloneFacts
  <1> HIDE DEF k
  <1>7. [a \in Addressees |-> "pending"] \in [Addressees -> {"none", "pending", "failed", "delivered"}]
    OBVIOUS
  <1>8. /\ outbox' \in [Keys -> [Addressees -> {"none", "pending", "failed", "delivered"}]] /\ (\A j \in Keys \ {k} : outbox'[j] = outbox[j])
    BY <1>2, <1>3, <1>6, <1>7
  <1>9. Moves(w, k)
    <2>1. event'[k] = "completed" \/ event'[k] \in Interruptible => outbox' = outbox
      BY <1>5 DEF Interruptible
    <2> QED BY <1>1, <1>4, <1>5, <1>6, <1>8, <2>1 DEF Moves, Final
  <1> QED BY <1>2, <1>6, <1>9, DoerMoves

LEMMA ClaimReportKeeps ==
  ASSUME ElnisInv, NEW w \in Doers, ClaimReport(w)
  PROVE  ElnisInv'
  <1> DEFINE k == doer[w].key
  <1>1. doer[w].at = "claim" /\ k \in Keys /\ UNCHANGED <<outbox, request, llmQueue, promoted, elnis, executed>> /\ elnis \in {"ready", "closing"}
    BY ElnisTypes DEF ClaimReport
  <1>2. CASE DoerAt(w, "rest") /\ event' = event /\ unsaved' = unsaved
    <2>1. doer' \in [Doers -> {NoWork} \cup DoerStates] /\ doer'[w].at = "rest" /\ \A v \in Doers \ {w} : doer'[v] = doer[v]
      BY <1>1, <1>2, DoerFacts
    <2>2. \A v \in Doers : Executing(v) \/ Delivers(v) \/ Executing(v)' \/ Delivers(v)' => doer'[v] = doer[v]
      BY <1>1, <2>1 DEF Executing, Delivers
    <2> QED BY <1>1, <1>2, <2>1, <2>2, ElnisTypes, HoldersStay
  <1>3. CASE event[k] = "result_ready" /\ SetStatus(k, "delivering") /\ unsaved' \in {unsaved, unsaved \cup {k}}
             /\ \/ doer' = [doer EXCEPT ![w].at = "check", ![w].todo = Undelivered(k)]
                \/ DoerAt(w, "rest") /\ k \in unsaved'
    <2>1. OnlyOf(k) /\ event'[k] = "delivering"
      BY <1>1, <1>3, StatusFacts DEF EventStates
    <2>2. Undelivered(k) \in SUBSET Addressees /\ \A a \in Addressees \ Undelivered(k) : outbox[k][a] = "delivered"
      BY DEF Undelivered
    <2>3. /\ doer' \in [Doers -> {NoWork} \cup DoerStates] /\ \A v \in Doers \ {w} : doer'[v] = doer[v]
          /\ \/ doer'[w].at = "check" /\ doer'[w].key = k /\ doer'[w].todo = Undelivered(k)
             \/ doer'[w].at = "rest" /\ k \in unsaved'
      <3>1. CASE doer' = [doer EXCEPT ![w].at = "check", ![w].todo = Undelivered(k)]
        <4> DEFINE T == Undelivered(k)
        <4>1. T \in SUBSET Addressees /\ doer' = [doer EXCEPT ![w].at = "check", ![w].todo = T]
          BY <2>2, <3>1
        <4> HIDE DEF T
        <4>2. doer' \in [Doers -> {NoWork} \cup DoerStates] /\ doer'[w].at = "check" /\ doer'[w].key = k /\ doer'[w].todo = T
              /\ \A v \in Doers \ {w} : doer'[v] = doer[v]
          BY <1>1, <4>1, ChecksFacts
        <4> QED BY <4>2 DEF T
      <3>2. CASE DoerAt(w, "rest") /\ k \in unsaved'
        BY <1>1, <3>2, DoerFacts
      <3> QED BY <1>3, <3>1, <3>2
    <2>4. Alone(w, k)
      <3>1. ~Executing(w) /\ ~Delivers(w)
        BY <1>1 DEF Executing, Delivers
      <3> QED BY <1>1, <1>3, <3>1, HolderFacts DEF Alone
    <2>5. outbox \in [Keys -> [Addressees -> {"none", "pending", "failed", "delivered"}]] /\ executed \in [Keys -> {0, 1}]
      BY ElnisTypes
    <2> HIDE DEF k
    <2>6. Moves(w, k)
      BY <1>1, <2>1, <2>2, <2>3, <2>5 DEF Moves, Interruptible
    <2> QED BY <1>1, <2>4, <2>6, DoerMoves
  <1> QED BY <1>2, <1>3 DEF ClaimReport, Claimable, Written

LEMMA CheckReportKeeps ==
  ASSUME ElnisInv, NEW w \in Doers, CheckReport(w)
  PROVE  ElnisInv'
  <1> DEFINE k == doer[w].key
  <1>1. doer[w].at = "check" /\ UNCHANGED <<outbox, request, llmQueue, promoted, elnis, executed>>
    BY DEF CheckReport
  <1>2. k \in Keys /\ Delivers(w) /\ \A a \in Addressees \ doer[w].todo : outbox[k][a] = "delivered"
    BY <1>1, ElnisTypes DEF ElnisInv, DeliverersHold, DelivererHolds, Delivers
  <1>3. \/ DoerAt(w, "send") /\ doer[w].todo # {} /\ event' = event /\ unsaved' = unsaved
        \/ DoerAt(w, "rest") /\ \/ FinishEvent(k, "taken_over")
                                \/ doer[w].todo = {} /\ SetStatus(k, "completed") /\ unsaved' = unsaved
                                \/ SetStatus(k, "result_ready") /\ unsaved' = unsaved
                                \/ ReleaseReport(k)
    BY DEF CheckReport, Written
  <1>4. /\ doer' \in [Doers -> {NoWork} \cup DoerStates] /\ (\A v \in Doers \ {w} : doer'[v] = doer[v]) /\ OnlyOf(k)
        /\ \/ doer'[w].at = "send" /\ doer[w].todo # {} /\ event'[k] = event[k] /\ doer'[w].key = k /\ doer'[w].todo = doer[w].todo
           \/ doer'[w].at = "rest" /\ \/ event'[k] \in {"taken_over", "result_ready"}
                                      \/ event'[k] = "completed" /\ doer[w].todo = {}
                                      \/ event'[k] = event[k] /\ k \in unsaved'
    <2>1. {"taken_over", "completed", "result_ready"} \subseteq EventStates
      BY DEF EventStates, Final
    <2>2. CASE DoerAt(w, "send") /\ doer[w].todo # {} /\ event' = event /\ unsaved' = unsaved
      BY <1>1, <1>2, <2>2, StatusFacts, DoerFacts
    <2>3. CASE DoerAt(w, "rest") /\ \/ FinishEvent(k, "taken_over")
                                    \/ doer[w].todo = {} /\ SetStatus(k, "completed") /\ unsaved' = unsaved
                                    \/ SetStatus(k, "result_ready") /\ unsaved' = unsaved
                                    \/ ReleaseReport(k)
      <3>1. doer' \in [Doers -> {NoWork} \cup DoerStates] /\ (\A v \in Doers \ {w} : doer'[v] = doer[v]) /\ doer'[w].at = "rest"
        BY <1>1, <2>3, DoerFacts
      <3> QED BY <1>2, <2>1, <2>3, <3>1, StatusFacts
    <2> QED BY <1>3, <2>2, <2>3
  <1>5. /\ Alone(w, k) /\ event[k] = "delivering" /\ executed \in [Keys -> {0, 1}]
        /\ outbox \in [Keys -> [Addressees -> {"none", "pending", "failed", "delivered"}]]
    BY <1>2, ElnisTypes, AloneFacts
  <1> HIDE DEF k
  <1>6. Moves(w, k)
    BY <1>1, <1>2, <1>4, <1>5 DEF Moves, Final, Interruptible
  <1> QED BY <1>2, <1>5, <1>6, DoerMoves

LEMMA SendReportKeeps ==
  ASSUME ElnisInv, NEW w \in Doers, SendReport(w)
  PROVE  ElnisInv'
  <1> DEFINE k == doer[w].key
  <1>1. doer[w].at = "send" /\ UNCHANGED <<request, llmQueue, promoted, elnis, executed>>
    BY DEF SendReport
  <1>2. k \in Keys /\ Delivers(w) /\ doer[w].todo # {} /\ \A a \in Addressees \ doer[w].todo : outbox[k][a] = "delivered"
    BY <1>1, ElnisTypes DEF ElnisInv, DeliverersHold, DelivererHolds, Delivers
  <1>3. \/ DoerAt(w, "mark") /\ event' = event /\ outbox' = outbox /\ unsaved' = unsaved
        \/ DoerAt(w, "rest") /\ SetStatus(k, "result_ready") /\ unsaved' = unsaved /\ outbox' = [outbox EXCEPT ![k][NextTarget(w)] = "failed"]
        \/ DoerAt(w, "rest") /\ event' = event /\ unsaved' = unsaved \cup {k} /\ outbox' = outbox
    BY DEF SendReport, AfterFailedSend, NotWritten
  <1>4. /\ Alone(w, k) /\ event[k] = "delivering" /\ executed \in [Keys -> {0, 1}]
        /\ outbox \in [Keys -> [Addressees -> {"none", "pending", "failed", "delivered"}]] /\ NextTarget(w) \in Addressees
    <2>1. NextTarget(w) \in doer[w].todo
      BY <1>2 DEF NextTarget
    <2> QED BY <1>1, <1>2, <2>1, ElnisTypes, AloneFacts
  <1>5. /\ doer' \in [Doers -> {NoWork} \cup DoerStates] /\ (\A v \in Doers \ {w} : doer'[v] = doer[v]) /\ OnlyOf(k)
        /\ \/ doer'[w].at = "mark" /\ event'[k] = event[k] /\ outbox' = outbox /\ doer'[w].key = k /\ doer'[w].todo = doer[w].todo
           \/ doer'[w].at = "rest" /\ event'[k] = "result_ready"
           \/ doer'[w].at = "rest" /\ event'[k] = event[k] /\ k \in unsaved'
    BY <1>1, <1>2, <1>3, StatusFacts, DoerFacts DEF EventStates
  <1> HIDE DEF k
  <1>6. outbox' \in [Keys -> [Addressees -> {"none", "pending", "failed", "delivered"}]] /\ \A j \in Keys \ {k} : outbox'[j] = outbox[j]
    <2> DEFINE x == [outbox[k] EXCEPT ![NextTarget(w)] = "failed"]
    <2>1. x \in [Addressees -> {"none", "pending", "failed", "delivered"}] /\ (outbox' = outbox \/ outbox' = [outbox EXCEPT ![k] = x])
      BY <1>2, <1>3, <1>4
    <2> HIDE DEF x
    <2> QED BY <1>2, <1>4, <2>1
  <1>7. Moves(w, k)
    BY <1>1, <1>2, <1>4, <1>5, <1>6 DEF Moves, Interruptible
  <1> QED BY <1>2, <1>4, <1>7, DoerMoves

LEMMA MarkDeliveredKeeps ==
  ASSUME ElnisInv, NEW w \in Doers, MarkDelivered(w)
  PROVE  ElnisInv'
  <1> DEFINE k == doer[w].key
             a == NextTarget(w)
             T == doer[w].todo \ {a}
  <1>1. doer[w].at = "mark" /\ UNCHANGED <<request, llmQueue, promoted, elnis, executed>>
    BY DEF MarkDelivered
  <1>2. /\ k \in Keys /\ Delivers(w) /\ doer[w].todo # {} /\ doer[w].todo \subseteq Addressees
        /\ \A b \in Addressees \ doer[w].todo : outbox[k][b] = "delivered"
    BY <1>1, ElnisTypes DEF ElnisInv, DeliverersHold, DelivererHolds, Delivers
  <1>3. a \in doer[w].todo /\ a \in Addressees /\ T \in SUBSET Addressees
    BY <1>2 DEF NextTarget
  <1>4. \/ doer' = [doer EXCEPT ![w].at = "check", ![w].todo = T] /\ outbox' = [outbox EXCEPT ![k][a] = "delivered"] /\ event' = event /\ unsaved' = unsaved
        \/ ReleaseReport(k) /\ DoerAt(w, "rest") /\ outbox' = outbox
    BY DEF MarkDelivered
  <1>5. /\ doer' \in [Doers -> {NoWork} \cup DoerStates] /\ (\A v \in Doers \ {w} : doer'[v] = doer[v]) /\ OnlyOf(k)
        /\ \/ /\ doer'[w].at = "check" /\ doer'[w].key = k /\ doer'[w].todo = T /\ event'[k] = event[k]
              /\ outbox' = [outbox EXCEPT ![k][a] = "delivered"]
           \/ doer'[w].at = "rest" /\ outbox' = outbox /\ event'[k] = "result_ready"
           \/ doer'[w].at = "rest" /\ outbox' = outbox /\ event'[k] = event[k] /\ k \in unsaved'
    <2> HIDE DEF T
    <2>1. CASE doer' = [doer EXCEPT ![w].at = "check", ![w].todo = T] /\ event' = event /\ unsaved' = unsaved
               /\ outbox' = [outbox EXCEPT ![k][a] = "delivered"]
      <3>1. doer' \in [Doers -> {NoWork} \cup DoerStates] /\ (\A v \in Doers \ {w} : doer'[v] = doer[v])
            /\ doer'[w].at = "check" /\ doer'[w].key = k /\ doer'[w].todo = T
        BY <1>1, <1>3, <2>1, ChecksFacts
      <3> QED BY <1>2, <2>1, <3>1, StatusFacts
    <2>2. CASE ReleaseReport(k) /\ DoerAt(w, "rest") /\ outbox' = outbox
      <3>1. doer' \in [Doers -> {NoWork} \cup DoerStates] /\ (\A v \in Doers \ {w} : doer'[v] = doer[v]) /\ doer'[w].at = "rest"
        BY <1>1, <2>2, DoerFacts
      <3> QED BY <1>2, <2>2, <3>1, StatusFacts
    <2> QED BY <1>4, <2>1, <2>2
  <1> HIDE DEF a
  <1>6. /\ outbox' \in [Keys -> [Addressees -> {"none", "pending", "failed", "delivered"}]] /\ (\A j \in Keys \ {k} : outbox'[j] = outbox[j])
        /\ doer'[w].at = "check" => \A b \in Addressees \ T : outbox'[k][b] = "delivered"
    <2> DEFINE x == [outbox[k] EXCEPT ![a] = "delivered"]
    <2>1. outbox \in [Keys -> [Addressees -> {"none", "pending", "failed", "delivered"}]]
      BY ElnisTypes
    <2>2. /\ x \in [Addressees -> {"none", "pending", "failed", "delivered"}] /\ (outbox' = outbox \/ outbox' = [outbox EXCEPT ![k] = x])
          /\ doer'[w].at = "check" => outbox' = [outbox EXCEPT ![k] = x]
      BY <1>2, <1>3, <1>5, <2>1
    <2>3. \A b \in Addressees \ T : x[b] = "delivered"
      BY <1>2, <1>3, <2>1
    <2> HIDE DEF x, T
    <2> QED BY <1>2, <2>1, <2>2, <2>3
  <1>7. Alone(w, k) /\ event[k] = "delivering" /\ executed \in [Keys -> {0, 1}]
    BY <1>2, ElnisTypes, AloneFacts
  <1> HIDE DEF k, T
  <1>8. Moves(w, k)
    BY <1>1, <1>2, <1>5, <1>6, <1>7 DEF Moves, Interruptible
  <1> QED BY <1>2, <1>7, <1>8, DoerMoves

LEMMA ElnisStepKeeps ==
  ASSUME ElnisInv, [ElnisNext]_elnisVars
  PROVE  ElnisInv'
  <1>1. CASE UNCHANGED elnisVars
    BY <1>1, ElnisTypes, HoldersStay DEF elnisVars
  <1>2. CASE StartElnis \/ BeginCloseElnis \/ CloseElnis \/ RestartElnis
    BY <1>2, LifecycleKeeps
  <1>3. CASE \E r \in Requests : RequestStep(r)
    <2>1. PICK r \in Requests : RequestStep(r)
      BY <1>3
    <2>2. CreateEvent(r) => ElnisInv'
      BY CreateEventKeeps, CreateRefusedKeeps
    <2> QED BY <2>1, <2>2, QuietStepKeeps, RunDirectKeeps, EnqueueLLMKeeps DEF RequestStep
  <1>4. CASE \E r \in Requests, k \in Keys, mode \in {"record", "direct", "llm"} : Dispatch(r, k, mode)
    BY <1>4, QuietStepKeeps
  <1>5. CASE \E w \in LLMWorkers : TakeEvent(w)
    BY <1>5, TakeEventKeeps
  <1>6. CASE \E w \in Doers : DoerStep(w)
    BY <1>6, RunLLMEventKeeps, PrepareReportKeeps, ClaimReportKeeps, CheckReportKeeps, SendReportKeeps, MarkDeliveredKeeps DEF DoerStep
  <1>7. CASE \E k \in Keys : RecoverReport(k) \/ PromoteSession(k)
    BY <1>7, QuietStepKeeps
  <1> QED BY <1>1, <1>2, <1>3, <1>4, <1>5, <1>6, <1>7 DEF ElnisNext

LEMMA ElnisInvSafe == ElnisInv => ElnisTypeOK /\ ExecutedOnce /\ NothingStranded /\ OneDeliverer /\ CompletedIsDelivered
  <1> SUFFICES ASSUME ElnisInv PROVE ExecutedOnce /\ NothingStranded /\ OneDeliverer /\ CompletedIsDelivered
    BY DEF ElnisInv
  <1>1. ExecutedOnce
    BY DEF ElnisInv, ExecutedSound, ExecutedOnce
  <1>2. NothingStranded
    <2>1. DOMAIN llmQueue = 1 .. Len(llmQueue)
      BY ElnisTypes
    <2> QED BY <2>1 DEF ElnisInv, InHands, Held, NothingStranded, Interruptible, Dispatching, Executing, Delivers
  <1>3. OneDeliverer
    BY DEF ElnisInv, DeliverersHold, DelivererHolds, Delivers, OneDeliverer
  <1>4. CompletedIsDelivered
    BY DEF ElnisInv, OutboxSound, CompletedIsDelivered
  <1> QED BY <1>1, <1>2, <1>3, <1>4

\* Every state of the event intake satisfies the inductive invariant: whichever reads, writes and sends fail, an event
\* has at most one holder, and while the service runs exactly one unless a write of its status has failed.
THEOREM ElnisInductive == ElnisSpec => []ElnisInv
  <1>1. ElnisInit => ElnisInv
    BY ElnisInitKeeps
  <1>2. ElnisInv /\ [ElnisNext]_elnisVars => ElnisInv'
    BY ElnisStepKeeps
  <1> QED BY <1>1, <1>2, PTL DEF ElnisSpec

\* An event is executed at most once, however many requests with its key race each other and however often the process
\* restarts (elnis: GetByKey, Create, enqueueLLM).
THEOREM ElnisExecutedOnce == ElnisSpec => []ExecutedOnce
  <1>1. ElnisInv => ExecutedOnce
    BY ElnisInvSafe
  <1> QED BY <1>1, ElnisInductive, PTL

\* While the service runs, an accepted event is in somebody's hands and a report under way is its deliverer's, unless a
\* write of the event's status has failed since the start (outbox.go: failReportDelivery and releaseReport, llm.go).
THEOREM ElnisNothingStranded == ElnisSpec => []NothingStranded
  <1>1. ElnisInv => NothingStranded
    BY ElnisInvSafe
  <1> QED BY <1>1, ElnisInductive, PTL

\* A report is in the hands of one deliverer, its worker or the recovery loop, and an event is completed only when the
\* report has reached every target (ClaimReport, CompleteReport).
THEOREM ElnisReportsSafe == ElnisSpec => [](OneDeliverer /\ CompletedIsDelivered)
  <1>1. ElnisInv => OneDeliverer /\ CompletedIsDelivered
    BY ElnisInvSafe
  <1> QED BY <1>1, ElnisInductive, PTL

\* A step leaves an event in its final status.
LEMMA FinalStaysFinal ==
  ElnisInv /\ [ElnisNext]_elnisVars => [\A k \in Keys : event[k] \in Final => event'[k] = event[k]]_elnisVars
  <1> SUFFICES ASSUME ElnisInv, ElnisNext, NEW k \in Keys, event[k] \in Final
               PROVE  event'[k] = event[k]
    OBVIOUS
  <1>1. event[k] \notin {"none", "result_ready", "delivering"} \cup Interruptible
    BY DEF Final, Interruptible
  <1>2. event \in [Keys -> EventStates]
    BY ElnisTypes
  <1>3. CASE StartElnis \/ CloseElnis
    BY <1>1, <1>2, <1>3 DEF StartElnis, CloseElnis, Recovered, FailInterrupted
  <1>4. CASE \E r \in Requests : RequestStep(r)
    <2>1. PICK r \in Requests : RequestStep(r)
      BY <1>4
    <2>2. CASE LookUp(r)
      BY <2>2 DEF LookUp
    <2>3. CASE CreateEvent(r)
      BY <1>1, <1>2, <2>3 DEF CreateEvent, Creatable, SetStatus
    <2>4. CASE RunDirect(r) \/ EnqueueLLM(r)
      <3>1. event[request[r].key] \in {"queued", "accepted"} /\ request[r].key # k
        BY <1>1, <2>4 DEF ElnisInv, RequestsHold, RequestHolds, Dispatching, RunDirect, EnqueueLLM, Interruptible
      <3> QED BY <1>2, <2>4, <3>1 DEF RunDirect, EnqueueLLM, FinishEvent, Written, NotWritten, SetStatus
    <2> QED BY <2>1, <2>2, <2>3, <2>4 DEF RequestStep
  <1>5. CASE \E w \in LLMWorkers : TakeEvent(w)
    <2>1. Len(llmQueue) > 0 /\ llmQueue \in Seq(Keys) /\ (event' = event \/ event' = [event EXCEPT ![Head(llmQueue)] = "running"])
      BY <1>5, ElnisTypes DEF TakeEvent, Written, NotWritten, SetStatus
    <2>2. Head(llmQueue) = llmQueue[1] /\ 1 \in 1 .. Len(llmQueue)
      BY <2>1
    <2>3. event[llmQueue[1]] = "queued"
      BY <2>2 DEF ElnisInv, QueueHolds
    <2> QED BY <1>1, <1>2, <2>1, <2>2, <2>3 DEF Interruptible
  <1>6. CASE \E w \in Doers : DoerStep(w)
    <2>1. PICK w \in Doers : DoerStep(w)
      BY <1>6
    <2>2. CASE RunLLMEvent(w) \/ PrepareReport(w)
      <3>1. doer[w].key # k
        BY <1>1, <2>2 DEF ElnisInv, WorkersHold, WorkerHolds, Executing, RunLLMEvent, PrepareReport, Interruptible
      <3> QED BY <1>2, <2>2, <3>1 DEF RunLLMEvent, PrepareReport, FinishEvent, Written, NotWritten, SetStatus
    <2>3. CASE ClaimReport(w)
      BY <1>1, <1>2, <2>3 DEF ClaimReport, Claimable, Written, SetStatus
    <2>4. CASE CheckReport(w) \/ SendReport(w) \/ MarkDelivered(w)
      <3>1. doer[w].key # k
        BY <1>1, <2>4 DEF ElnisInv, DeliverersHold, DelivererHolds, Delivers, CheckReport, SendReport, MarkDelivered
      <3>2. event' = event \/ \E st : SetStatus(doer[w].key, st)
        BY <2>4 DEF CheckReport, SendReport, MarkDelivered, ReleaseReport, FinishEvent, Written, NotWritten
      <3> QED BY <1>2, <3>1, <3>2 DEF SetStatus
    <2> QED BY <2>1, <2>2, <2>3, <2>4 DEF DoerStep
  <1>7. CASE BeginCloseElnis \/ RestartElnis \/ (\E r \in Requests, j \in Keys, mode \in {"record", "direct", "llm"} : Dispatch(r, j, mode))
             \/ (\E j \in Keys : RecoverReport(j) \/ PromoteSession(j))
    BY <1>7 DEF BeginCloseElnis, RestartElnis, Dispatch, RecoverReport, PromoteSession
  <1> QED BY <1>3, <1>4, <1>5, <1>6, <1>7 DEF ElnisNext

\* A final status is never left: neither a late worker, a second deliverer, a restart nor the failing of what was
\* interrupted writes over it.
THEOREM ElnisFinalStays == ElnisSpec => FinalStays
  <1>1. ElnisInv /\ [ElnisNext]_elnisVars => [\A k \in Keys : event[k] \in Final => event'[k] = event[k]]_elnisVars
    BY FinalStaysFinal
  <1> QED BY <1>1, ElnisInductive, PTL DEF ElnisSpec, FinalStays

=============================================================================
