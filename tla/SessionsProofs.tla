--------------------------- MODULE SessionsProofs ---------------------------
(***************************************************************************)
(* Proofs about SessionNaming and SessionControl.                          *)
(***************************************************************************)
EXTENDS SessionNaming, SessionControl, FiniteSetTheorems, TLAPS

-----------------------------------------------------------------------------
(* SessionNaming: the two conjuncts of OneNamingTask are inductive with the *)
(* types.                                                                   *)

NamingInv == NamingTypeOK /\ OneNamingTask

NamingStates == [inFlight : BOOLEAN, retired : BOOLEAN, done : BOOLEAN, failures : 0 .. MaxFailures]

\* What forgetting and finishing make of a cached state.
LEMMA NamingRecords ==
  ASSUME NEW st \in NamingStates
  PROVE  /\ NoState \in NamingStates /\ ~NoState.inFlight
         /\ Forgotten(st) \in NamingStates /\ (Forgotten(st).inFlight <=> st.inFlight)
         /\ Finished(st) \in NamingStates /\ ~Finished(st).inFlight
  <1>1. NoState \in NamingStates /\ ~NoState.inFlight
    BY NamingAssumption DEF NoState, NamingStates
  <1>2. [st EXCEPT !.retired = TRUE] \in NamingStates /\ ([st EXCEPT !.retired = TRUE].inFlight <=> st.inFlight)
    BY DEF NamingStates
  <1>3. [st EXCEPT !.inFlight = FALSE] \in NamingStates /\ ~[st EXCEPT !.inFlight = FALSE].inFlight
    BY DEF NamingStates
  <1> QED BY <1>1, <1>2, <1>3 DEF Forgotten, Finished

LEMMA NamingInitKeeps == NamingInit => NamingInv
  BY NamingAssumption DEF NamingInit, NamingInv, NamingTypeOK, OneNamingTask, NamingAt, NoState, Resting

\* What the types say of a task: it rests, or it names a session.
LEMMA NamingTasks ==
  ASSUME NamingTypeOK, NEW t \in Tasks
  PROVE  \/ namingTask[t] = Resting /\ NamingAt(t, "rest")
         \/ /\ namingTask[t] \in [session : Named, at : NamingSteps] /\ ~NamingAt(t, "rest")
            /\ namingTask[t].session \in Named /\ namingTask[t].at \in NamingSteps
  BY DEF NamingTypeOK, NamingAt, Resting, NamingSteps

\* A step of task t that stays with its session keeps the exclusion, whatever it does to states that stay in flight.
LEMMA NamingGoesOn ==
  ASSUME NamingInv, NEW t \in Tasks, NEW step \in NamingSteps, ~NamingAt(t, "rest"), NamingGoto(t, step),
         \A s \in Named : naming'[s].inFlight <=> naming[s].inFlight
  PROVE  namingTask' \in [Tasks -> [session : Named, at : NamingSteps] \cup {Resting}] /\ OneNamingTask'
  <1> DEFINE r == [namingTask[t] EXCEPT !.at = step]
  <1>1. r \in [session : Named, at : NamingSteps] /\ r.session = namingTask[t].session /\ r.at = step
    BY NamingTasks DEF NamingInv, NamingSteps
  <1>2. namingTask' = [namingTask EXCEPT ![t] = r]
    BY DEF NamingGoto
  <1> HIDE DEF r
  <1>3. namingTask' \in [Tasks -> [session : Named, at : NamingSteps] \cup {Resting}]
    BY <1>1, <1>2 DEF NamingInv, NamingTypeOK
  <1>4. \A u \in Tasks : namingTask'[u].session = namingTask[u].session /\ (NamingAt(u, "rest")' <=> NamingAt(u, "rest"))
    BY <1>1, <1>2 DEF NamingInv, NamingTypeOK, NamingAt, NamingSteps
  <1> QED BY <1>3, <1>4 DEF NamingInv, OneNamingTask

LEMMA NamingStepKeeps == NamingInv /\ [NamingNext]_namingVars => NamingInv'
  <1> SUFFICES ASSUME NamingInv, [NamingNext]_namingVars PROVE NamingInv'
    OBVIOUS
  <1> USE NamingAssumption DEF NamingSteps
  <1>0. NamingTypeOK /\ OneNamingTask
    BY DEF NamingInv
  <1>1. ASSUME NEW t \in Tasks, NEW s \in Named, BeginNaming(t, s) PROVE NamingInv'
    <2> DEFINE r == [session |-> s, at |-> "load"]
    <2>1. r \in [session : Named, at : NamingSteps] /\ r.session = s /\ r.at = "load"
      OBVIOUS
    <2>2. namingTask' = [namingTask EXCEPT ![t] = r] /\ NamingAt(t, "rest") /\ naming' = [naming EXCEPT ![s].inFlight = TRUE] /\ ~naming[s].inFlight
      BY <1>1 DEF BeginNaming
    <2> HIDE DEF r
    <2>a. naming' \in [Named -> NamingStates]
      BY <1>0, <2>2 DEF NamingTypeOK, NamingStates
    <2>b. namingTask' \in [Tasks -> [session : Named, at : NamingSteps] \cup {Resting}]
      BY <1>0, <2>1, <2>2 DEF NamingTypeOK
    <2>3. NamingTypeOK'
      BY <1>0, <1>1, <2>a, <2>b DEF NamingTypeOK, BeginNaming, NamingStates
    <2>4. \A u \in Tasks : /\ u # t => namingTask'[u] = namingTask[u] /\ (NamingAt(u, "rest")' <=> NamingAt(u, "rest"))
                           /\ u = t => namingTask'[u].session = s /\ ~NamingAt(u, "rest")'
      BY <1>0, <2>1, <2>2 DEF NamingTypeOK, NamingAt
    <2>5. \A v \in Named : naming'[v].inFlight <=> naming[v].inFlight \/ v = s
      BY <1>0, <2>2 DEF NamingTypeOK
    <2> QED BY <1>0, <2>2, <2>3, <2>4, <2>5 DEF NamingInv, OneNamingTask
  <1>2. ASSUME NEW t \in Tasks, PrepareNaming(t) PROVE NamingInv'
    <2> DEFINE s == namingTask[t].session
    <2>1. s \in Named /\ ~NamingAt(t, "rest") /\ naming[s].inFlight
      BY <1>0, <1>2, NamingTasks DEF PrepareNaming, NamingAt, Resting, OneNamingTask
    <2>2. naming' \in [Named -> NamingStates]
          /\ \A v \in Named : naming'[v].inFlight <=> naming[v].inFlight
      <3>1. naming[s] \in NamingStates /\ [naming[s] EXCEPT !.done = TRUE] \in NamingStates
            /\ ([naming[s] EXCEPT !.done = TRUE].inFlight <=> naming[s].inFlight)
        BY <1>0, <2>1 DEF NamingTypeOK, NamingStates
      <3>2. naming' = naming \/ naming' = [naming EXCEPT ![s] = Forgotten(@)] \/ naming' = [naming EXCEPT ![s].done = TRUE]
        BY <1>2 DEF PrepareNaming
      <3> QED BY <1>0, <2>1, <3>1, <3>2, NamingRecords DEF NamingTypeOK, NamingStates
    <2>3. \E step \in {"finish", "generate"} : NamingGoto(t, step)
      BY <1>2 DEF PrepareNaming
    <2> QED BY <1>0, <1>2, <2>1, <2>2, <2>3, NamingGoesOn DEF NamingInv, NamingTypeOK, NamingStates, PrepareNaming
  <1>3. ASSUME NEW t \in Tasks, RunNaming(t) PROVE NamingInv'
    <2> DEFINE s == namingTask[t].session
    <2>1. s \in Named /\ ~NamingAt(t, "rest")
      BY <1>0, <1>3, NamingTasks DEF RunNaming, NamingAt, Resting
    <2>2. naming' \in [Named -> NamingStates]
          /\ \A v \in Named : naming'[v].inFlight <=> naming[v].inFlight
      BY <1>0, <1>3, <2>1 DEF RunNaming, NamingTypeOK, MayGenerate, NamingStates
    <2>3. \E step \in {"finish", "fallback", "auto"} : NamingGoto(t, step)
      BY <1>3 DEF RunNaming
    <2> QED BY <1>0, <1>3, <2>1, <2>2, <2>3, NamingGoesOn DEF NamingInv, NamingTypeOK, NamingStates, RunNaming
  <1>4. ASSUME NEW t \in Tasks, PersistTitle(t) PROVE NamingInv'
    <2> DEFINE s == namingTask[t].session
    <2>1. s \in Named /\ ~NamingAt(t, "rest") /\ naming[s].inFlight
      BY <1>0, <1>4, NamingTasks DEF PersistTitle, NamingAt, Resting, OneNamingTask
    <2>2. naming' \in [Named -> NamingStates]
          /\ \A v \in Named : naming'[v].inFlight <=> naming[v].inFlight
      <3>1. naming[s] \in NamingStates /\ [naming[s] EXCEPT !.done = TRUE] \in NamingStates
            /\ ([naming[s] EXCEPT !.done = TRUE].inFlight <=> naming[s].inFlight)
        BY <1>0, <2>1 DEF NamingTypeOK, NamingStates
      <3>2. naming' = naming \/ naming' = [naming EXCEPT ![s] = Forgotten(@)] \/ naming' = [naming EXCEPT ![s].done = TRUE]
        BY <1>4 DEF PersistTitle
      <3> QED BY <1>0, <2>1, <3>1, <3>2, NamingRecords DEF NamingTypeOK, NamingStates
    <2>3. title' \in [Named -> {"initial", "auto", "fallback", "manual", "deleted"}]
      BY <1>0, <1>4, <2>1 DEF PersistTitle, NamingTypeOK, Titled, NamingAt
    <2> QED BY <1>0, <1>4, <2>1, <2>2, <2>3, NamingGoesOn DEF NamingInv, NamingTypeOK, NamingStates, PersistTitle
  <1>5. ASSUME NEW t \in Tasks, FinishNaming(t) PROVE NamingInv'
    <2> DEFINE s == namingTask[t].session
    <2>1. s \in Named /\ ~NamingAt(t, "rest")
      BY <1>0, <1>5, NamingTasks DEF FinishNaming, Finishing, NamingAt, Resting
    <2>2. naming' = [naming EXCEPT ![s] = Finished(@)] /\ namingTask' = [namingTask EXCEPT ![t] = Resting] /\ UNCHANGED <<title, namer>>
      BY <1>5 DEF FinishNaming
    <2> HIDE DEF s
    <2>3. NamingTypeOK'
      <3>1. naming[s] \in NamingStates /\ Finished(naming[s]) \in NamingStates
        BY <1>0, <2>1, NamingRecords DEF NamingTypeOK, NamingStates
      <3>2. naming' \in [Named -> NamingStates]
        BY <1>0, <2>2, <3>1 DEF NamingTypeOK, NamingStates
      <3> QED BY <1>0, <2>2, <3>2 DEF NamingTypeOK, NamingStates
    <2>4. \A u \in Tasks : /\ u # t => namingTask'[u] = namingTask[u] /\ (NamingAt(u, "rest")' <=> NamingAt(u, "rest"))
                           /\ u = t => NamingAt(u, "rest")'
      BY <1>0, <2>2 DEF NamingTypeOK, NamingAt, Resting
    <2>5. \A v \in Named : naming'[v].inFlight <=> naming[v].inFlight /\ v # s
      BY <1>0, <2>1, <2>2, NamingRecords DEF NamingTypeOK, NamingStates
    <2>6. namingTask[t].session = s
      BY DEF s
    <2> QED BY <1>0, <2>1, <2>3, <2>4, <2>5, <2>6 DEF NamingInv, OneNamingTask
  <1>6. ASSUME NEW s \in Named, RenameSession(s) \/ DeleteRow(s) PROVE NamingInv'
    BY <1>0, <1>6 DEF NamingInv, NamingTypeOK, OneNamingTask, NamingAt, RenameSession, DeleteRow
  <1>7. ASSUME NEW s \in Named, ForgetSession(s) PROVE NamingInv'
    <2>1. NamingTypeOK' /\ \A v \in Named : naming'[v].inFlight <=> naming[v].inFlight
      <3>1. naming' = [naming EXCEPT ![s] = Forgotten(@)] /\ naming[s] \in NamingStates
        BY <1>0, <1>7 DEF NamingTypeOK, ForgetSession, NamingStates
      <3>2. naming' \in [Named -> NamingStates]
        BY <1>0, <3>1, NamingRecords DEF NamingTypeOK, NamingStates
      <3>3. \A v \in Named : naming'[v].inFlight <=> naming[v].inFlight
        BY <1>0, <3>1, NamingRecords DEF NamingTypeOK
      <3> QED BY <1>0, <1>7, <3>2, <3>3 DEF NamingTypeOK, ForgetSession, NamingStates
    <2> QED BY <1>0, <1>7, <2>1 DEF NamingInv, OneNamingTask, NamingAt, ForgetSession
  <1>8. CASE BeginCloseNaming
    BY <1>0, <1>8 DEF NamingInv, NamingTypeOK, OneNamingTask, NamingAt, BeginCloseNaming
  <1>9. CASE CloseNaming
    <2>1. NamingTypeOK' /\ (\A v \in Named : ~naming'[v].inFlight) /\ \A u \in Tasks : NamingAt(u, "rest")'
      BY <1>0, <1>9 DEF NamingTypeOK, CloseNaming, NoState, NamingAt
    <2> QED BY <2>1 DEF NamingInv, OneNamingTask
  <1>10. CASE UNCHANGED namingVars
    BY <1>0, <1>10 DEF NamingInv, NamingTypeOK, OneNamingTask, NamingAt, namingVars
  <1> QED BY <1>1, <1>2, <1>3, <1>4, <1>5, <1>6, <1>7, <1>8, <1>9, <1>10 DEF NamingNext, NamingStep

\* A session has one naming task at a time, also after its cached state was forgotten, for any sessions and tasks.
THEOREM NamingExcludes == NamingSpec => []OneNamingTask
  <1>1. NamingInv => OneNamingTask BY DEF NamingInv
  <1> QED BY <1>1, NamingInitKeeps, NamingStepKeeps, PTL DEF NamingSpec

LEMMA TitlesKept ==
  NamingInv /\ [NamingNext]_namingVars =>
    \A s \in Named : title'[s] \in {"auto", "fallback"} => title[s] \in {"initial", title'[s]}
  <1> SUFFICES ASSUME NamingInv, [NamingNext]_namingVars, NEW s \in Named, title'[s] \in {"auto", "fallback"}
               PROVE  title[s] \in {"initial", title'[s]}
    OBVIOUS
  <1>1. title \in [Named -> {"initial", "auto", "fallback", "manual", "deleted"}]
    BY DEF NamingInv, NamingTypeOK
  <1>2. ASSUME NEW t \in Tasks, PersistTitle(t) PROVE title[s] \in {"initial", title'[s]}
    BY <1>1, <1>2 DEF PersistTitle, Titled
  <1>3. ASSUME NEW v \in Named, RenameSession(v) \/ DeleteRow(v) PROVE title[s] \in {"initial", title'[s]}
    BY <1>1, <1>3 DEF RenameSession, DeleteRow
  <1>4. CASE UNCHANGED title
    BY <1>4
  <1> QED BY <1>2, <1>3, <1>4 DEF NamingNext, NamingStep, BeginNaming, PrepareNaming, RunNaming, FinishNaming, ForgetSession,
             BeginCloseNaming, CloseNaming, namingVars

\* No generated title replaces one the user set or one generated before.
THEOREM NamingKeepsTitles == NamingSpec => TitleKept
  <1>1. NamingInv /\ [NamingNext]_namingVars =>
          [\A s \in Named : title'[s] \in {"auto", "fallback"} => title[s] \in {"initial", title'[s]}]_namingVars
    BY TitlesKept
  <1> QED BY <1>1, NamingInitKeeps, NamingStepKeeps, PTL DEF NamingSpec, TitleKept

-----------------------------------------------------------------------------
(* SessionControl.  Admissions make the operations of a scope exclude each  *)
(* other; what runs beside them is the timers' callbacks, so the invariant  *)
(* says which callbacks there are and what each may still rely on.          *)

IdleStates == [deadline : {"none", "ahead", "past"}, version : Nat, timer : {"none", "armed", "fired"}]

\* The index of the timers is a function of finitely many bindings.
IdleFunction == idle \in [DOMAIN idle -> IdleStates] /\ IsFiniteSet(DOMAIN idle) /\ IsFiniteSet(calls)

\* The binding of a scope is its own and not newer than the newest activation.
BoundSound == \A sc \in Scopes : current[sc] # Nobody => current[sc].scope = sc /\ current[sc].version <= epoch

\* A callback belongs to a schedule that was made; one that waits for its admission and is current fired the timer,
\* and one inside its admission holds a tracked binding alone.
CallSound ==
    \A c \in calls :
        LET b == c.binding IN
        /\ b.version <= epoch
        /\ b \in DOMAIN idle => c.version <= idle[b].version
        /\ c.at = "entering" /\ b \in DOMAIN idle /\ c.version = idle[b].version => idle[b].timer = "fired"
        /\ c.at = "checked" => b \in DOMAIN idle /\ idle[b].timer = "none" /\ idle[b].deadline # "none"
        /\ \A d \in calls : c.at = "checked" /\ d.at = "checked" /\ b.scope = d.binding.scope => c = d

\* A timer has a deadline, and none is armed after the shutdown began.
TimerSound ==
    \A b \in DOMAIN idle :
        /\ idle[b].timer # "none" => idle[b].deadline # "none"
        /\ service # "started" => idle[b].timer # "armed"

\* Nothing stops a paused execution without telling the session service.
NoSilentStop == "stop" \notin world

ControlInv ==
    /\ ControlTypeOK /\ IdleFunction /\ BoundSound /\ CallSound /\ TimerSound
    /\ TimersCounted /\ TrackedAreCurrent /\ CachesReleased
    /\ NoSilentStop => IdleBindingsTimed

\* The WaitGroup's share of the timers is a number, and depends on the armed bindings only.
LEMMA ArmedNat ==
  ASSUME NEW f, IsFiniteSet(DOMAIN f)
  PROVE  Armed(f) \in Nat /\ IsFiniteSet({b \in DOMAIN f : f[b].timer = "armed"})
  <1>1. IsFiniteSet({b \in DOMAIN f : f[b].timer = "armed"})
    BY FS_Subset
  <1> QED BY <1>1, FS_CardinalityType DEF Armed

LEMMA ArmedFires ==
  ASSUME NEW f, NEW g, NEW b \in DOMAIN f, IsFiniteSet(DOMAIN f), f[b].timer = "armed", g[b].timer # "armed",
         DOMAIN g = DOMAIN f, \A d \in DOMAIN f \ {b} : g[d] = f[d]
  PROVE  Armed(g) = Armed(f) - 1
  <1> DEFINE F == {d \in DOMAIN f : f[d].timer = "armed"}
             G == {d \in DOMAIN g : g[d].timer = "armed"}
  <1>1. IsFiniteSet(F) /\ b \in F /\ G = F \ {b}
    BY ArmedNat
  <1>2. Cardinality(G) = Cardinality(F) - 1
    BY <1>1, FS_RemoveElement
  <1> QED BY <1>2 DEF Armed

LEMMA ArmedEqual ==
  ASSUME NEW f, NEW g, DOMAIN g = DOMAIN f, \A d \in DOMAIN f : g[d].timer = "armed" <=> f[d].timer = "armed"
  PROVE  Armed(g) = Armed(f)
  <1>1. {d \in DOMAIN g : g[d].timer = "armed"} = {d \in DOMAIN f : f[d].timer = "armed"}
    OBVIOUS
  <1> QED BY <1>1 DEF Armed

\* A tracked binding is the current one of its scope, and the other way round.
LEMMA TrackedBinding ==
  ASSUME ControlInv
  PROVE  /\ \A b \in DOMAIN idle : /\ b \in Bindings /\ b.scope \in Scopes /\ b.session \in Sessions /\ b.version \in 1 .. MaxBindings
                                   /\ b.version <= epoch
                                   /\ current[b.scope] = b /\ b # Nobody /\ idle[b] \in IdleStates
         /\ \A sc \in Scopes : current[sc] # Nobody => current[sc] \in DOMAIN idle
  <1>1. \A b \in DOMAIN idle : /\ b \in Bindings /\ b.scope \in Scopes /\ b.session \in Sessions
                               /\ b.version \in 1 .. MaxBindings /\ idle[b] \in IdleStates
    BY DEF ControlInv, ControlTypeOK, IdleFunction, Bindings
  <1>2. DOMAIN idle = {current[sc] : sc \in Scopes} \ {Nobody}
    BY DEF ControlInv, TrackedAreCurrent
  <1> QED BY <1>1, <1>2 DEF ControlInv, BoundSound

\* What scheduling makes of a state.
LEMMA ScheduleFacts ==
  ASSUME NEW b, NEW st \in IdleStates
  PROVE  /\ Schedule(b, st) \in IdleStates
         /\ Schedule(b, st).deadline = st.deadline /\ Schedule(b, st).version = st.version + 1
         /\ Schedule(b, st).timer = IF service = "started" /\ b.scope \in Timed /\ st.deadline # "none" THEN "armed" ELSE "none"
         /\ StopTimer(st) \in IdleStates
         /\ StopTimer(st).deadline = st.deadline /\ StopTimer(st).version = st.version + 1 /\ StopTimer(st).timer = "none"
  <1>1. StopTimer(st) \in IdleStates /\ StopTimer(st).deadline = st.deadline /\ StopTimer(st).version = st.version + 1
        /\ StopTimer(st).timer = "none"
    <2> DEFINE r == [st EXCEPT !.version = @ + 1]
    <2>1. r \in IdleStates /\ r.deadline = st.deadline /\ r.version = st.version + 1
      BY DEF IdleStates
    <2>2. StopTimer(st) = [r EXCEPT !.timer = "none"]
      BY DEF StopTimer, IdleStates
    <2> HIDE DEF r
    <2> QED BY <2>1, <2>2 DEF IdleStates
  <1>2. [StopTimer(st) EXCEPT !.timer = "armed"] \in IdleStates /\ [StopTimer(st) EXCEPT !.timer = "armed"].deadline = st.deadline
        /\ [StopTimer(st) EXCEPT !.timer = "armed"].version = st.version + 1 /\ [StopTimer(st) EXCEPT !.timer = "armed"].timer = "armed"
    BY <1>1 DEF IdleStates
  <1> QED BY <1>1, <1>2 DEF Schedule

\* A binding that starts to be tracked: untimed while its session is in use.
LEMMA TrackFacts ==
  ASSUME NEW b
  PROVE  /\ TrackBinding(b) \in IdleStates
         /\ TrackBinding(b).timer # "none" => TrackBinding(b).timer = "armed" /\ TrackBinding(b).deadline # "none" /\ service = "started"
         /\ service = "started" /\ b.scope \in Timed /\ ~InUse(b.session) => TrackBinding(b).timer = "armed"
  <1> DEFINE st == [deadline |-> IF InUse(b.session) THEN "none" ELSE "ahead", version |-> 0, timer |-> "none"]
  <1>1. st \in IdleStates /\ st.deadline = IF InUse(b.session) THEN "none" ELSE "ahead"
    BY DEF IdleStates
  <1>2. TrackBinding(b) = Schedule(b, st)
    BY DEF TrackBinding
  <1> HIDE DEF st
  <1> QED BY <1>1, <1>2, ScheduleFacts

LEMMA RefreshFacts ==
  ASSUME ControlInv, NEW b \in DOMAIN idle
  PROVE  /\ Refreshed(b) \in IdleStates /\ Refreshed(b).version = idle[b].version + 1
         /\ Refreshed(b).timer # "none" => Refreshed(b).timer = "armed" /\ Refreshed(b).deadline # "none" /\ service = "started"
         /\ service = "started" /\ b.scope \in Timed /\ ~InUse(b.session) => Refreshed(b).timer = "armed"
  <1> DEFINE st == [idle[b] EXCEPT !.deadline = IF InUse(b.session) THEN "none" ELSE "ahead"]
  <1>1. st \in IdleStates /\ st.deadline = (IF InUse(b.session) THEN "none" ELSE "ahead") /\ st.version = idle[b].version
    BY TrackedBinding DEF IdleStates
  <1>2. Refreshed(b) = Schedule(b, st)
    BY DEF Refreshed
  <1> HIDE DEF st
  <1> QED BY <1>1, <1>2, ScheduleFacts

\* Timers of the bindings R are stopped or restarted: what callbacks rely on stays true.
LEMMA TimersRestarted ==
  ASSUME ControlInv, NEW R, DOMAIN idle' = DOMAIN idle, idle' = [b \in DOMAIN idle |-> idle'[b]],
         \A b \in DOMAIN idle \ R : idle'[b] = idle[b],
         \A b \in DOMAIN idle \cap R :
            /\ idle'[b] \in IdleStates /\ idle'[b].version = idle[b].version + 1
            /\ idle'[b].timer # "none" => idle'[b].timer = "armed" /\ idle'[b].deadline # "none" /\ service' = "started"
            /\ Holding(b) => idle'[b].timer = "none" /\ idle'[b].deadline = idle[b].deadline,
         service' = service \/ DOMAIN idle \subseteq R,
         UNCHANGED <<current, epoch, calls>>, Retimed(idle')
  PROVE  IdleFunction' /\ BoundSound' /\ CallSound' /\ TimerSound' /\ timers' = Armed(idle') + Cardinality(calls')
  <1>1. IdleFunction'
    BY TrackedBinding DEF ControlInv, IdleFunction
  <1>2. BoundSound'
    BY DEF ControlInv, BoundSound
  <1>3. CallSound'
    <2> SUFFICES ASSUME NEW c \in calls
                 PROVE  LET b == c.binding IN
                        /\ b.version <= epoch
                        /\ b \in DOMAIN idle' => c.version <= idle'[b].version
                        /\ c.at = "entering" /\ b \in DOMAIN idle' /\ c.version = idle'[b].version => idle'[b].timer = "fired"
                        /\ c.at = "checked" => b \in DOMAIN idle' /\ idle'[b].timer = "none" /\ idle'[b].deadline # "none"
                        /\ \A d \in calls : c.at = "checked" /\ d.at = "checked" /\ b.scope = d.binding.scope => c = d
      BY DEF CallSound
    <2>1. c.version \in Nat
      BY DEF ControlInv, ControlTypeOK
    <2>2. CASE c.binding \in R \cap DOMAIN idle
      <3>1. idle[c.binding].version \in Nat
        BY <2>2, TrackedBinding DEF IdleStates
      <3> QED BY <2>1, <2>2, <3>1 DEF ControlInv, CallSound, Holding
    <2>3. CASE c.binding \notin R \cap DOMAIN idle
      BY <2>3 DEF ControlInv, CallSound
    <2> QED BY <2>2, <2>3
  <1>4. TimerSound'
    BY DEF ControlInv, TimerSound
  <1>5. timers' = Armed(idle') + Cardinality(calls')
    <2>1. Armed(idle) \in Nat /\ Armed(idle') \in Nat /\ Cardinality(calls) \in Nat
      BY <1>1, ArmedNat, FS_CardinalityType DEF ControlInv, IdleFunction
    <2> QED BY <2>1 DEF ControlInv, TimersCounted, Retimed
  <1> QED BY <1>1, <1>2, <1>3, <1>4, <1>5

\* SetCurrent: nothing happens, or the scope's binding is dropped and the next one, if any, tracked.
Unswitched(sc, target) ==
    /\ target = IF current[sc] = Nobody THEN Nobody ELSE current[sc].session
    /\ UNCHANGED <<current, epoch, idle, timers, caches>>
Unbound(sc) ==
    /\ current[sc] # Nobody /\ current' = [current EXCEPT ![sc] = Nobody] /\ epoch' = epoch
    /\ DOMAIN idle' = DOMAIN idle \ {current[sc]} /\ \A b \in DOMAIN idle' : idle'[b] = idle[b]
Rebound(sc, next) ==
    /\ current' = [current EXCEPT ![sc] = next] /\ epoch' = epoch + 1 /\ epoch < MaxBindings
    /\ DOMAIN idle' = (DOMAIN idle \ {current[sc]}) \cup {next}
    /\ idle'[next] = TrackBinding(next) /\ \A b \in DOMAIN idle \ {current[sc]} : idle'[b] = idle[b]

LEMMA SwitchCases ==
  ASSUME ControlInv, NEW sc \in Scopes, NEW target \in Sessions \cup {Nobody}, SetCurrent(sc, target)
  PROVE  \/ Unswitched(sc, target)
         \/ /\ \/ target = Nobody /\ Unbound(sc)
               \/ target # Nobody /\ Rebound(sc, [scope |-> sc, session |-> target, version |-> epoch + 1])
            /\ Retimed(idle') /\ idle' = [b \in DOMAIN idle' |-> idle'[b]]
            /\ caches' = IF current[sc] = Nobody THEN caches ELSE ReleaseIfIdle(current[sc].session, idle', caches)
  <1> DEFINE old == current[sc]
             made == [scope |-> sc, session |-> target, version |-> epoch + 1]
             next == IF target = Nobody THEN Nobody ELSE made
             left == Drop({old})
             tracked == IF next = Nobody THEN left
                        ELSE [b \in DOMAIN left \cup {next} |-> IF b = next THEN TrackBinding(next) ELSE left[b]]
  <1>1. CASE (IF old = Nobody THEN Nobody ELSE old.session) = target
    BY <1>1 DEF SetCurrent, Unswitched
  <1>2. CASE (IF old = Nobody THEN Nobody ELSE old.session) # target
    <2>1. /\ next # Nobody => epoch < MaxBindings
          /\ current' = [current EXCEPT ![sc] = next]
          /\ epoch' = IF next = Nobody THEN epoch ELSE epoch + 1
          /\ idle' = tracked /\ Retimed(tracked)
          /\ caches' = IF old = Nobody THEN caches ELSE ReleaseIfIdle(old.session, tracked, caches)
      BY <1>2 DEF SetCurrent
    <2>2. DOMAIN left = DOMAIN idle \ {old} /\ left = [b \in DOMAIN idle \ {old} |-> idle[b]]
      BY DEF Drop
    <2>3. CASE target = Nobody
      <3>1. next = Nobody /\ tracked = left /\ old # Nobody
        BY <1>2, <2>3
      <3> HIDE DEF left, next, tracked
      <3>2. idle' = left /\ Retimed(idle') /\ caches' = IF old = Nobody THEN caches ELSE ReleaseIfIdle(old.session, idle', caches)
        BY <2>1, <3>1
      <3>3. Unbound(sc)
        BY <2>1, <2>2, <3>1, <3>2 DEF Unbound
      <3>4. idle' = [b \in DOMAIN idle' |-> idle'[b]]
        BY <2>2, <3>2
      <3> QED BY <2>3, <3>2, <3>3, <3>4
    <2>4. CASE target # Nobody
      <3>1. made # Nobody
        <4>1. epoch + 1 \in Nat /\ target \in Sessions
          BY <2>4, ControlAssumption DEF ControlInv, ControlTypeOK
        <4>2. made \in [scope : Scopes, session : Sessions, version : Nat]
          BY <4>1
        <4> QED BY <4>2, NobodyAssumption
      <3>2. next = made /\ tracked = [b \in DOMAIN left \cup {made} |-> IF b = made THEN TrackBinding(made) ELSE left[b]]
        BY <2>4, <3>1
      <3> HIDE DEF left, next, tracked, made
      <3>3. idle' = tracked /\ DOMAIN idle' = (DOMAIN idle \ {old}) \cup {made} /\ idle'[made] = TrackBinding(made)
        BY <2>1, <2>2, <3>2
      <3>4. \A b \in DOMAIN idle \ {old} : b # made => idle'[b] = idle[b]
        BY <2>2, <3>2, <3>3
      <3>5. made \notin DOMAIN idle
        BY TrackedBinding DEF made, ControlInv, ControlTypeOK
      <3>6. Rebound(sc, made)
        BY <2>1, <3>1, <3>2, <3>3, <3>4, <3>5 DEF Rebound
      <3>7. idle' = [b \in DOMAIN idle' |-> idle'[b]] /\ Retimed(idle')
            /\ caches' = IF old = Nobody THEN caches ELSE ReleaseIfIdle(old.session, idle', caches)
        BY <2>1, <3>2, <3>3
      <3> QED BY <2>4, <3>6, <3>7 DEF made
    <2> QED BY <2>3, <2>4
  <1> QED BY <1>1, <1>2

\* What is left to say of caches and idle bindings when the executions stay as they are.
CachesNow == service = "started" => \A s \in caches' : InUse(s) \/ (\E b \in DOMAIN idle' : b.session = s) \/ s \in notices
TimedNow ==
    \A b \in DOMAIN idle' :
       service = "started" /\ b.scope \in Timed /\ ~InUse(b.session) /\ b.session \notin notices
       => idle'[b].timer = "armed" \/ \E c \in calls : c.binding = b /\ (c.at = "checked" \/ c.version = idle'[b].version)

\* A binding that goes takes its timer along.
LEMMA Dropped ==
  ASSUME ControlInv, NEW S, idle' = Drop(S), UNCHANGED <<calls, service>>,
         \A c \in calls : c.at = "checked" => c.binding \notin S,
         Retimed(idle'), epoch' = epoch
  PROVE  /\ DOMAIN idle' = DOMAIN idle \ S /\ \A b \in DOMAIN idle' : idle'[b] = idle[b]
         /\ IdleFunction' /\ CallSound' /\ TimerSound' /\ timers' = Armed(idle') + Cardinality(calls')
         /\ NoSilentStop => TimedNow
  <1>1. DOMAIN idle' = DOMAIN idle \ S /\ (\A b \in DOMAIN idle' : idle'[b] = idle[b]) /\ idle' = [b \in DOMAIN idle' |-> idle'[b]]
    BY DEF Drop
  <1>2. IdleFunction'
    <2>1. IsFiniteSet(DOMAIN idle')
      BY <1>1, FS_Subset DEF ControlInv, IdleFunction
    <2> QED BY <1>1, <2>1, TrackedBinding DEF ControlInv, IdleFunction
  <1>3. CallSound'
    BY <1>1 DEF ControlInv, CallSound
  <1>4. TimerSound'
    BY <1>1 DEF ControlInv, TimerSound
  <1>5. timers' = Armed(idle') + Cardinality(calls')
    <2>1. Armed(idle) \in Nat /\ Armed(idle') \in Nat /\ Cardinality(calls) \in Nat
      BY <1>2, ArmedNat, FS_CardinalityType DEF ControlInv, IdleFunction
    <2> QED BY <2>1 DEF ControlInv, TimersCounted, Retimed
  <1>6. NoSilentStop => TimedNow
    BY <1>1 DEF ControlInv, IdleBindingsTimed, TimedNow
  <1> QED BY <1>1, <1>2, <1>3, <1>4, <1>5, <1>6

\* A binding that comes has a state of its own; no callback knows it.
LEMMA Switched ==
  ASSUME ControlInv, NEW sc \in Scopes, NEW next, next = [scope |-> sc, session |-> next.session, version |-> epoch + 1],
         next.session \in Sessions, Rebound(sc, next), idle' = [b \in DOMAIN idle' |-> idle'[b]],
         UNCHANGED <<calls, service>>, FreeScope(sc), Retimed(idle')
  PROVE  /\ next \in Bindings /\ next # Nobody /\ next \notin DOMAIN idle /\ next.scope = sc
         /\ IdleFunction' /\ BoundSound' /\ CallSound' /\ TimerSound' /\ timers' = Armed(idle') + Cardinality(calls')
         /\ NoSilentStop => TimedNow
  <1>0. /\ epoch \in Nat /\ epoch + 1 \in 1 .. MaxBindings /\ MaxBindings \in Nat
        /\ next.scope = sc /\ next.version = epoch + 1
    BY ControlAssumption DEF ControlInv, ControlTypeOK, Rebound
  <1>1. next \in Bindings /\ next # Nobody /\ next \notin DOMAIN idle
    <2>1. next \in Bindings /\ next \in [scope : Scopes, session : Sessions, version : Nat]
      BY <1>0 DEF Bindings
    <2> QED BY <1>0, <2>1, NobodyAssumption, TrackedBinding
  <1>2. /\ DOMAIN idle' = (DOMAIN idle \ {current[sc]}) \cup {next}
        /\ idle'[next] = TrackBinding(next) /\ \A b \in DOMAIN idle \ {current[sc]} : idle'[b] = idle[b]
    BY DEF Rebound
  <1>3. IdleFunction'
    <2>1. IsFiniteSet(DOMAIN idle \ {current[sc]})
      BY FS_Subset DEF ControlInv, IdleFunction
    <2>2. IsFiniteSet(DOMAIN idle')
      BY <1>2, <2>1, FS_AddElement
    <2>3. \A b \in DOMAIN idle' : idle'[b] \in IdleStates
      BY <1>2, TrackFacts, TrackedBinding
    <2> QED BY <2>2, <2>3 DEF ControlInv, IdleFunction
  <1>4. BoundSound'
    <2> SUFFICES ASSUME NEW x \in Scopes, current'[x] # Nobody PROVE current'[x].scope = x /\ current'[x].version <= epoch'
      BY DEF BoundSound
    <2>1. epoch' = epoch + 1 /\ current' = [current EXCEPT ![sc] = next] /\ current \in [Scopes -> Bindings \cup {Nobody}]
      BY DEF Rebound, ControlInv, ControlTypeOK
    <2>2. CASE x = sc
      BY <1>0, <2>1, <2>2
    <2>3. CASE x # sc
      <3>1. current'[x] = current[x] /\ current[x].scope = x /\ current[x].version <= epoch /\ current[x].version \in 1 .. MaxBindings
        BY <2>1, <2>3 DEF ControlInv, BoundSound, Bindings
      <3> QED BY <1>0, <2>1, <3>1
    <2> QED BY <2>2, <2>3
  <1>5. CallSound'
    <2> SUFFICES ASSUME NEW c \in calls
                 PROVE  LET b == c.binding IN
                        /\ b.version <= epoch'
                        /\ b \in DOMAIN idle' => c.version <= idle'[b].version
                        /\ c.at = "entering" /\ b \in DOMAIN idle' /\ c.version = idle'[b].version => idle'[b].timer = "fired"
                        /\ c.at = "checked" => b \in DOMAIN idle' /\ idle'[b].timer = "none" /\ idle'[b].deadline # "none"
                        /\ \A d \in calls : c.at = "checked" /\ d.at = "checked" /\ b.scope = d.binding.scope => c = d
      BY DEF CallSound
    <2>1. c.binding.version \in 1 .. MaxBindings /\ c.binding.version <= epoch /\ epoch' = epoch + 1
      BY DEF ControlInv, ControlTypeOK, Bindings, CallSound, Rebound
    <2>2. c.binding # next /\ c.binding.version <= epoch'
      BY <1>0, <2>1
    <2>3. c.at = "checked" => c.binding.scope # sc /\ c.binding \in DOMAIN idle
      BY DEF FreeScope, ControlInv, CallSound
    <2>4. c.at = "checked" => c.binding # current[sc]
      BY <2>3, TrackedBinding DEF ControlInv, BoundSound
    <2> QED BY <1>2, <2>2, <2>3, <2>4 DEF ControlInv, CallSound
  <1>6. TimerSound'
    BY <1>2, TrackFacts DEF ControlInv, TimerSound
  <1>7. timers' = Armed(idle') + Cardinality(calls')
    <2>1. Armed(idle) \in Nat /\ Armed(idle') \in Nat /\ Cardinality(calls) \in Nat
      BY <1>3, ArmedNat, FS_CardinalityType DEF ControlInv, IdleFunction
    <2> QED BY <2>1 DEF ControlInv, TimersCounted, Retimed
  <1>8. NoSilentStop => TimedNow
    BY <1>2, TrackFacts DEF ControlInv, IdleBindingsTimed, TimedNow
  <1> QED BY <1>0, <1>1, <1>3, <1>4, <1>5, <1>6, <1>7, <1>8

\* SetCurrent in an admission of the scope.
LEMMA SwitchKeeps ==
  ASSUME ControlInv, NEW sc \in Scopes, NEW target \in Sessions \cup {Nobody}, SetCurrent(sc, target), FreeScope(sc),
         UNCHANGED <<calls, service>>
  PROVE  /\ current' \in [Scopes -> Bindings \cup {Nobody}] /\ epoch' \in 0 .. MaxBindings
         /\ DOMAIN idle' \subseteq Bindings /\ caches' \subseteq caches
         /\ IdleFunction' /\ BoundSound' /\ CallSound' /\ TimerSound' /\ timers' = Armed(idle') + Cardinality(calls')
         /\ DOMAIN idle' = {current'[x] : x \in Scopes} \ {Nobody}
         /\ \A b \in DOMAIN idle' : b \in DOMAIN idle \/ (target # Nobody /\ b.session = target)
         /\ CachesNow /\ (NoSilentStop => TimedNow)
         /\ \A x \in Scopes : x # sc => current'[x] = current[x]
         /\ \A b \in DOMAIN idle : b # current[sc] => b \in DOMAIN idle'
         /\ target # Nobody => current'[sc] # Nobody /\ current'[sc].session = target
  <1> USE DEF ControlInv
  <1>1. /\ current \in [Scopes -> Bindings \cup {Nobody}] /\ epoch \in 0 .. MaxBindings /\ DOMAIN idle \subseteq Bindings
        /\ DOMAIN idle = {current[x] : x \in Scopes} \ {Nobody}
        /\ service = "started" => \A s \in caches : InUse(s) \/ (\E b \in DOMAIN idle : b.session = s) \/ s \in notices
    BY DEF ControlTypeOK, TrackedAreCurrent, CachesReleased, BoundTo
  <1>2. CASE Unswitched(sc, target)
    <2> USE <1>2 DEF Unswitched
    <2>1. IdleFunction' /\ BoundSound' /\ CallSound' /\ TimerSound'
      BY DEF IdleFunction, BoundSound, CallSound, TimerSound
    <2>2. timers' = Armed(idle') + Cardinality(calls')
      BY DEF TimersCounted
    <2>3. CachesNow /\ (NoSilentStop => TimedNow)
      BY <1>1 DEF CachesNow, TimedNow, IdleBindingsTimed
    <2> QED BY <1>1, <2>1, <2>2, <2>3
  <1>3. ASSUME target = Nobody, Unbound(sc), Retimed(idle'), idle' = [b \in DOMAIN idle' |-> idle'[b]],
               caches' = ReleaseIfIdle(current[sc].session, idle', caches)
        PROVE  /\ current' \in [Scopes -> Bindings \cup {Nobody}] /\ epoch' \in 0 .. MaxBindings
               /\ DOMAIN idle' \subseteq Bindings /\ caches' \subseteq caches
               /\ IdleFunction' /\ BoundSound' /\ CallSound' /\ TimerSound' /\ timers' = Armed(idle') + Cardinality(calls')
               /\ DOMAIN idle' = {current'[x] : x \in Scopes} \ {Nobody}
               /\ CachesNow /\ (NoSilentStop => TimedNow)
    <2>1. /\ current[sc] # Nobody /\ current' = [current EXCEPT ![sc] = Nobody] /\ epoch' = epoch
          /\ DOMAIN idle' = DOMAIN idle \ {current[sc]} /\ \A b \in DOMAIN idle' : idle'[b] = idle[b]
      BY <1>3 DEF Unbound
    <2>2. idle' = Drop({current[sc]})
      BY <1>3, <2>1 DEF Drop
    <2>3. \A c \in calls : c.at = "checked" => c.binding \notin {current[sc]}
      BY <2>1 DEF FreeScope, BoundSound
    <2>4. IdleFunction' /\ CallSound' /\ TimerSound' /\ timers' = Armed(idle') + Cardinality(calls') /\ (NoSilentStop => TimedNow)
      BY <1>3, <2>1, <2>2, <2>3, Dropped
    <2>5. BoundSound'
      BY <1>1, <2>1 DEF BoundSound
    <2>6. DOMAIN idle' = {current'[x] : x \in Scopes} \ {Nobody}
      <3>1. \A x \in Scopes : x # sc /\ current[x] # Nobody => current[x] # current[sc]
        BY <2>1 DEF BoundSound
      <3>2. current[sc] \in DOMAIN idle
        BY <2>1, TrackedBinding
      <3> QED BY <1>1, <2>1, <3>1, <3>2
    <2>7. caches' \subseteq caches /\ CachesNow
      BY <1>1, <1>3, <2>1 DEF ReleaseIfIdle, CachesNow
    <2> QED BY <1>1, <2>1, <2>4, <2>5, <2>6, <2>7
  <1>4. ASSUME NEW next, next = [scope |-> sc, session |-> target, version |-> epoch + 1], target # Nobody, Rebound(sc, next),
               Retimed(idle'), idle' = [b \in DOMAIN idle' |-> idle'[b]],
               caches' = IF current[sc] = Nobody THEN caches ELSE ReleaseIfIdle(current[sc].session, idle', caches)
        PROVE  /\ current' \in [Scopes -> Bindings \cup {Nobody}] /\ epoch' \in 0 .. MaxBindings
               /\ DOMAIN idle' \subseteq Bindings /\ caches' \subseteq caches
               /\ IdleFunction' /\ BoundSound' /\ CallSound' /\ TimerSound' /\ timers' = Armed(idle') + Cardinality(calls')
               /\ DOMAIN idle' = {current'[x] : x \in Scopes} \ {Nobody}
               /\ (\A b \in DOMAIN idle' : b \in DOMAIN idle \/ (target # Nobody /\ b.session = target))
               /\ CachesNow /\ (NoSilentStop => TimedNow)
               /\ current'[sc] # Nobody /\ current'[sc].session = target
    <2>1. /\ current' = [current EXCEPT ![sc] = next] /\ epoch' = epoch + 1 /\ epoch < MaxBindings
          /\ DOMAIN idle' = (DOMAIN idle \ {current[sc]}) \cup {next}
      BY <1>4 DEF Rebound
    <2>2. next.session = target /\ target \in Sessions
      BY <1>4
    <2>3. /\ next \in Bindings /\ next # Nobody /\ next \notin DOMAIN idle /\ next.scope = sc
          /\ IdleFunction' /\ BoundSound' /\ CallSound' /\ TimerSound' /\ timers' = Armed(idle') + Cardinality(calls')
          /\ NoSilentStop => TimedNow
      BY <1>4, <2>2, Switched
    <2>4. current' \in [Scopes -> Bindings \cup {Nobody}] /\ epoch' \in 0 .. MaxBindings /\ DOMAIN idle' \subseteq Bindings
      BY <1>1, <2>1, <2>3, ControlAssumption
    <2>5. DOMAIN idle' = {current'[x] : x \in Scopes} \ {Nobody}
      <3>1. \A x \in Scopes : x # sc /\ current[x] # Nobody => current[x] # current[sc]
        BY DEF BoundSound
      <3> QED BY <1>1, <2>1, <2>3, <3>1
    <2>6. caches' \subseteq caches /\ CachesNow
      <3>1. caches' \subseteq caches
        BY <1>4 DEF ReleaseIfIdle
      <3>2. ASSUME service = "started", NEW s \in caches' PROVE InUse(s) \/ (\E b \in DOMAIN idle' : b.session = s) \/ s \in notices
        <4>1. InUse(s) \/ (\E b \in DOMAIN idle : b.session = s) \/ s \in notices
          BY <1>1, <3>1, <3>2
        <4>2. CASE current[sc] # Nobody /\ current[sc].session = s
          BY <1>4, <3>2, <4>2 DEF ReleaseIfIdle
        <4>3. CASE ~(current[sc] # Nobody /\ current[sc].session = s)
          BY <1>1, <2>1, <4>1, <4>3
        <4> QED BY <4>2, <4>3
      <3> QED BY <3>1, <3>2 DEF CachesNow
    <2>7. current'[sc] # Nobody /\ current'[sc].session = target
      BY <1>1, <2>1, <2>2, <2>3
    <2>8. \A b \in DOMAIN idle' : b \in DOMAIN idle \/ (target # Nobody /\ b.session = target)
      BY <1>4, <2>1, <2>2
    <2> QED BY <2>3, <2>4, <2>5, <2>6, <2>7, <2>8
  <1>5. \/ Unswitched(sc, target)
        \/ /\ \/ target = Nobody /\ Unbound(sc)
              \/ target # Nobody /\ Rebound(sc, [scope |-> sc, session |-> target, version |-> epoch + 1])
           /\ Retimed(idle') /\ idle' = [b \in DOMAIN idle' |-> idle'[b]]
           /\ caches' = IF current[sc] = Nobody THEN caches ELSE ReleaseIfIdle(current[sc].session, idle', caches)
    BY SwitchCases
  <1>6. \A x \in Scopes : x # sc => current'[x] = current[x]
    BY <1>1, <1>5 DEF Unswitched, Unbound, Rebound
  <1>7. \A b \in DOMAIN idle : b # current[sc] => b \in DOMAIN idle'
    BY <1>5 DEF Unswitched, Unbound, Rebound
  <1>8. CASE target = Nobody /\ Unbound(sc)
    <2>1. caches' = ReleaseIfIdle(current[sc].session, idle', caches) /\ Retimed(idle') /\ idle' = [b \in DOMAIN idle' |-> idle'[b]]
      BY <1>1, <1>5, <1>8 DEF Unswitched, Unbound
    <2> QED BY <1>3, <1>6, <1>7, <1>8, <2>1 DEF Unbound
  <1>9. CASE target # Nobody /\ Rebound(sc, [scope |-> sc, session |-> target, version |-> epoch + 1])
    <2>1. ~Unswitched(sc, target)
      BY <1>1, <1>9 DEF Unswitched, Rebound
    <2> QED BY <1>4, <1>5, <1>6, <1>7, <1>9, <2>1
  <1> QED BY <1>1, <1>2, <1>5, <1>6, <1>7, <1>8, <1>9 DEF Unswitched

\* clearSessionBindings of an idle session in its admission.
LEMMA ClearKeeps ==
  ASSUME ControlInv, NEW s \in Sessions, ClearSessionBindings(s), FreeSession(s), ~InUse(s), UNCHANGED <<calls, service, epoch>>
  PROVE  /\ current' \in [Scopes -> Bindings \cup {Nobody}] /\ DOMAIN idle' \subseteq Bindings /\ caches' \subseteq caches
         /\ IdleFunction' /\ BoundSound' /\ CallSound' /\ TimerSound' /\ timers' = Armed(idle') + Cardinality(calls')
         /\ DOMAIN idle' = {current'[x] : x \in Scopes} \ {Nobody}
         /\ \A b \in DOMAIN idle' : b \in DOMAIN idle /\ b.session # s
         /\ CachesNow /\ (NoSilentStop => TimedNow)
         /\ \A x \in Scopes : current'[x] = current[x] \/ (current[x] # Nobody /\ current[x].session = s)
         /\ \A b \in DOMAIN idle : b.session # s => b \in DOMAIN idle'
  <1> USE DEF ControlInv
  <1>1. /\ current \in [Scopes -> Bindings \cup {Nobody}] /\ DOMAIN idle \subseteq Bindings
        /\ DOMAIN idle = {current[x] : x \in Scopes} \ {Nobody}
        /\ service = "started" => \A v \in caches : InUse(v) \/ (\E b \in DOMAIN idle : b.session = v) \/ v \in notices
    BY DEF ControlTypeOK, TrackedAreCurrent, CachesReleased, BoundTo
  <1>2. /\ current' = [sc \in Scopes |-> IF current[sc] # Nobody /\ current[sc].session = s THEN Nobody ELSE current[sc]]
        /\ idle' = Drop(BoundTo(s)) /\ Retimed(idle') /\ caches' = ReleaseIfIdle(s, idle', caches)
    BY DEF ClearSessionBindings
  <1>3. \A c \in calls : c.at = "checked" => c.binding \notin BoundTo(s)
    BY DEF FreeSession, BoundTo
  <1>4. /\ DOMAIN idle' = DOMAIN idle \ BoundTo(s)
        /\ IdleFunction' /\ CallSound' /\ TimerSound' /\ timers' = Armed(idle') + Cardinality(calls') /\ (NoSilentStop => TimedNow)
    BY <1>2, <1>3, Dropped
  <1>5. BoundSound'
    BY <1>2 DEF BoundSound
  <1>6. DOMAIN idle' = {current'[x] : x \in Scopes} \ {Nobody}
    BY <1>1, <1>2, <1>4 DEF BoundTo
  <1>7. CachesNow /\ caches' \subseteq caches
    BY <1>1, <1>2, <1>4 DEF ReleaseIfIdle, CachesNow, BoundTo
  <1> QED BY <1>1, <1>2, <1>4, <1>5, <1>6, <1>7 DEF BoundTo

\* Steps that leave bindings, timers and callbacks alone.
LEMMA TimersRest ==
  ASSUME ControlInv, UNCHANGED <<current, epoch, idle, calls, timers, service>>
  PROVE  IdleFunction' /\ BoundSound' /\ CallSound' /\ TimerSound' /\ TimersCounted'
  BY DEF ControlInv, IdleFunction, BoundSound, CallSound, TimerSound, TimersCounted

LEMMA CachesLeft ==
  ASSUME CachesNow, \A s : work[s] # {} => work'[s] # {}, notices \subseteq notices', service' = service
  PROVE  CachesReleased'
  BY DEF CachesNow, CachesReleased, InUse, BoundTo

LEMMA TimedLeft ==
  ASSUME TimedNow, \A s : work[s] # {} => work'[s] # {}, notices \subseteq notices', service' = service, calls' = calls
  PROVE  IdleBindingsTimed'
  BY DEF TimedNow, IdleBindingsTimed, InUse

LEMMA CountedLeft ==
  ASSUME ControlInv, timers' = Armed(idle') + Cardinality(calls'), calls' = calls, service' = service
  PROVE  TimersCounted'
  BY DEF ControlInv, TimersCounted

LEMMA CreateSessionKeeps ==
  ASSUME ControlInv, NEW sc \in Scopes, NEW s \in Sessions, CreateSession(sc, s)
  PROVE  ControlInv'
  <1> USE ControlAssumption DEF CreateSession
  <1>0. /\ sc \in Scopes /\ s \in Sessions \cup {Nobody} /\ SetCurrent(sc, s) /\ FreeScope(sc)
        /\ UNCHANGED <<calls, service, notices, world>> /\ \A v : work[v] # {} => work'[v] # {}
    BY DEF Activatable, ControlInv, ControlTypeOK
  <1>1. /\ current' \in [Scopes -> Bindings \cup {Nobody}] /\ epoch' \in 0 .. MaxBindings
        /\ DOMAIN idle' \subseteq Bindings /\ caches' \subseteq caches
        /\ IdleFunction' /\ BoundSound' /\ CallSound' /\ TimerSound' /\ timers' = Armed(idle') + Cardinality(calls')
        /\ DOMAIN idle' = {current'[x] : x \in Scopes} \ {Nobody}
        /\ \A b \in DOMAIN idle' : b \in DOMAIN idle \/ (s # Nobody /\ b.session = s)
        /\ CachesNow /\ (NoSilentStop => TimedNow)
    BY <1>0, SwitchKeeps
  <1>2. ControlTypeOK'
    <2>1. Armed(idle') \in Nat /\ Cardinality(calls') \in Nat
      BY <1>1, ArmedNat, FS_CardinalityType DEF IdleFunction
    <2>2. \A b \in DOMAIN idle' : idle'[b] \in [deadline : {"none", "ahead", "past"}, version : Nat, timer : {"none", "armed", "fired"}]
      BY <1>1 DEF IdleFunction, IdleStates
    <2>3. rows' \in [Sessions -> Kinds] /\ work' \in [Sessions -> SUBSET Works] /\ fork' \in Forks \cup {NoFork}
      BY DEF ControlInv, ControlTypeOK, Kinds, Works
    <2>4. aged' \subseteq Sessions /\ sweep' \subseteq Sessions /\ caches' \subseteq Sessions /\ notices' \subseteq Sessions
          /\ service' \in {"started", "closed", "done"} /\ world' \in Worlds
      BY <1>0, <1>1 DEF ControlInv, ControlTypeOK
    <2>5. calls' \subseteq [binding : Bindings, version : Nat, at : {"entering", "checked"}]
      BY <1>0 DEF ControlInv, ControlTypeOK
    <2>6. timers' \in Nat
      BY <1>1, <2>1
    <2> QED BY <1>1, <2>2, <2>3, <2>4, <2>5, <2>6 DEF ControlTypeOK
  <1>3. TimersCounted'
    BY <1>0, <1>1, CountedLeft
  <1>4. TrackedAreCurrent'
    <2> SUFFICES ASSUME NEW b \in DOMAIN idle' PROVE rows'[b.session] \in {"foreground", "promoted"}
      BY <1>1 DEF TrackedAreCurrent
    <2>1. CASE b \in DOMAIN idle
      <3>1. rows[b.session] \in {"foreground", "promoted"} /\ b.session \in Sessions
        BY <2>1, TrackedBinding DEF ControlInv, TrackedAreCurrent
      <3> QED BY <3>1, <1>0 DEF ControlInv, ControlTypeOK
    <2>2. CASE s # Nobody /\ b.session = s
      BY <1>0, <2>2 DEF ControlInv, ControlTypeOK, Stored
    <2> QED BY <1>1, <2>1, <2>2
  <1>5. CachesReleased'
    BY <1>0, <1>1, CachesLeft
  <1>6. (NoSilentStop => IdleBindingsTimed)'
    BY <1>0, <1>1, TimedLeft DEF NoSilentStop
  <1> QED BY <1>1, <1>2, <1>3, <1>4, <1>5, <1>6 DEF ControlInv

LEMMA ResetCurrentKeeps ==
  ASSUME ControlInv, NEW sc \in Scopes, ResetCurrent(sc)
  PROVE  ControlInv'
  <1> USE ControlAssumption DEF ResetCurrent
  <1>0. /\ sc \in Scopes /\ Nobody \in Sessions \cup {Nobody} /\ SetCurrent(sc, Nobody) /\ FreeScope(sc)
        /\ UNCHANGED <<calls, service, notices, world>> /\ \A v : work[v] # {} => work'[v] # {}
    BY DEF Activatable, ControlInv, ControlTypeOK
  <1>1. /\ current' \in [Scopes -> Bindings \cup {Nobody}] /\ epoch' \in 0 .. MaxBindings
        /\ DOMAIN idle' \subseteq Bindings /\ caches' \subseteq caches
        /\ IdleFunction' /\ BoundSound' /\ CallSound' /\ TimerSound' /\ timers' = Armed(idle') + Cardinality(calls')
        /\ DOMAIN idle' = {current'[x] : x \in Scopes} \ {Nobody}
        /\ \A b \in DOMAIN idle' : b \in DOMAIN idle \/ (Nobody # Nobody /\ b.session = Nobody)
        /\ CachesNow /\ (NoSilentStop => TimedNow)
    BY <1>0, SwitchKeeps
  <1>2. ControlTypeOK'
    <2>1. Armed(idle') \in Nat /\ Cardinality(calls') \in Nat
      BY <1>1, ArmedNat, FS_CardinalityType DEF IdleFunction
    <2>2. \A b \in DOMAIN idle' : idle'[b] \in [deadline : {"none", "ahead", "past"}, version : Nat, timer : {"none", "armed", "fired"}]
      BY <1>1 DEF IdleFunction, IdleStates
    <2>3. rows' \in [Sessions -> Kinds] /\ work' \in [Sessions -> SUBSET Works] /\ fork' \in Forks \cup {NoFork}
      BY DEF ControlInv, ControlTypeOK, Kinds, Works
    <2>4. aged' \subseteq Sessions /\ sweep' \subseteq Sessions /\ caches' \subseteq Sessions /\ notices' \subseteq Sessions
          /\ service' \in {"started", "closed", "done"} /\ world' \in Worlds
      BY <1>0, <1>1 DEF ControlInv, ControlTypeOK
    <2>5. calls' \subseteq [binding : Bindings, version : Nat, at : {"entering", "checked"}]
      BY <1>0 DEF ControlInv, ControlTypeOK
    <2>6. timers' \in Nat
      BY <1>1, <2>1
    <2> QED BY <1>1, <2>2, <2>3, <2>4, <2>5, <2>6 DEF ControlTypeOK
  <1>3. TimersCounted'
    BY <1>0, <1>1, CountedLeft
  <1>4. TrackedAreCurrent'
    <2> SUFFICES ASSUME NEW b \in DOMAIN idle' PROVE rows'[b.session] \in {"foreground", "promoted"}
      BY <1>1 DEF TrackedAreCurrent
    <2>1. CASE b \in DOMAIN idle
      <3>1. rows[b.session] \in {"foreground", "promoted"} /\ b.session \in Sessions
        BY <2>1, TrackedBinding DEF ControlInv, TrackedAreCurrent
      <3> QED BY <3>1, <1>0 DEF ControlInv, ControlTypeOK
    <2>2. CASE Nobody # Nobody /\ b.session = Nobody
      BY <1>0, <2>2 DEF ControlInv, ControlTypeOK, Stored
    <2> QED BY <1>1, <2>1, <2>2
  <1>5. CachesReleased'
    BY <1>0, <1>1, CachesLeft
  <1>6. (NoSilentStop => IdleBindingsTimed)'
    BY <1>0, <1>1, TimedLeft DEF NoSilentStop
  <1> QED BY <1>1, <1>2, <1>3, <1>4, <1>5, <1>6 DEF ControlInv

LEMMA ActivateExistingKeeps ==
  ASSUME ControlInv, NEW sc \in Scopes, NEW s \in Sessions, ActivateExisting(sc, s)
  PROVE  ControlInv'
  <1> USE ControlAssumption DEF ActivateExisting
  <1>0. /\ sc \in Scopes /\ s \in Sessions \cup {Nobody} /\ SetCurrent(sc, s) /\ FreeScope(sc)
        /\ UNCHANGED <<calls, service, notices, world>> /\ \A v : work[v] # {} => work'[v] # {}
    BY DEF Activatable, ControlInv, ControlTypeOK
  <1>1. /\ current' \in [Scopes -> Bindings \cup {Nobody}] /\ epoch' \in 0 .. MaxBindings
        /\ DOMAIN idle' \subseteq Bindings /\ caches' \subseteq caches
        /\ IdleFunction' /\ BoundSound' /\ CallSound' /\ TimerSound' /\ timers' = Armed(idle') + Cardinality(calls')
        /\ DOMAIN idle' = {current'[x] : x \in Scopes} \ {Nobody}
        /\ \A b \in DOMAIN idle' : b \in DOMAIN idle \/ (s # Nobody /\ b.session = s)
        /\ CachesNow /\ (NoSilentStop => TimedNow)
    BY <1>0, SwitchKeeps
  <1>2. ControlTypeOK'
    <2>1. Armed(idle') \in Nat /\ Cardinality(calls') \in Nat
      BY <1>1, ArmedNat, FS_CardinalityType DEF IdleFunction
    <2>2. \A b \in DOMAIN idle' : idle'[b] \in [deadline : {"none", "ahead", "past"}, version : Nat, timer : {"none", "armed", "fired"}]
      BY <1>1 DEF IdleFunction, IdleStates
    <2>3. rows' \in [Sessions -> Kinds] /\ work' \in [Sessions -> SUBSET Works] /\ fork' \in Forks \cup {NoFork}
      BY DEF ControlInv, ControlTypeOK, Kinds, Works
    <2>4. aged' \subseteq Sessions /\ sweep' \subseteq Sessions /\ caches' \subseteq Sessions /\ notices' \subseteq Sessions
          /\ service' \in {"started", "closed", "done"} /\ world' \in Worlds
      BY <1>0, <1>1 DEF ControlInv, ControlTypeOK
    <2>5. calls' \subseteq [binding : Bindings, version : Nat, at : {"entering", "checked"}]
      BY <1>0 DEF ControlInv, ControlTypeOK
    <2>6. timers' \in Nat
      BY <1>1, <2>1
    <2> QED BY <1>1, <2>2, <2>3, <2>4, <2>5, <2>6 DEF ControlTypeOK
  <1>3. TimersCounted'
    BY <1>0, <1>1, CountedLeft
  <1>4. TrackedAreCurrent'
    <2> SUFFICES ASSUME NEW b \in DOMAIN idle' PROVE rows'[b.session] \in {"foreground", "promoted"}
      BY <1>1 DEF TrackedAreCurrent
    <2>1. CASE b \in DOMAIN idle
      <3>1. rows[b.session] \in {"foreground", "promoted"} /\ b.session \in Sessions
        BY <2>1, TrackedBinding DEF ControlInv, TrackedAreCurrent
      <3> QED BY <3>1, <1>0 DEF ControlInv, ControlTypeOK
    <2>2. CASE s # Nobody /\ b.session = s
      BY <1>0, <2>2 DEF ControlInv, ControlTypeOK, Stored
    <2> QED BY <1>1, <2>1, <2>2
  <1>5. CachesReleased'
    BY <1>0, <1>1, CachesLeft
  <1>6. (NoSilentStop => IdleBindingsTimed)'
    BY <1>0, <1>1, TimedLeft DEF NoSilentStop
  <1> QED BY <1>1, <1>2, <1>3, <1>4, <1>5, <1>6 DEF ControlInv

LEMMA ForkCommitKeeps ==
  ASSUME ControlInv, NEW s \in Sessions, ForkCommit(s)
  PROVE  ControlInv'
  <1> USE ControlAssumption DEF ForkCommit
  <1>0. /\ fork.scope \in Scopes /\ s \in Sessions \cup {Nobody} /\ SetCurrent(fork.scope, s) /\ FreeScope(fork.scope)
        /\ UNCHANGED <<calls, service, notices, world>> /\ \A v : work[v] # {} => work'[v] # {}
    <2>1. fork \in Forks /\ fork.scope \in Scopes
      BY DEF ControlInv, ControlTypeOK, Forks
    <2> QED BY <2>1 DEF Activatable
  <1>1. /\ current' \in [Scopes -> Bindings \cup {Nobody}] /\ epoch' \in 0 .. MaxBindings
        /\ DOMAIN idle' \subseteq Bindings /\ caches' \subseteq caches
        /\ IdleFunction' /\ BoundSound' /\ CallSound' /\ TimerSound' /\ timers' = Armed(idle') + Cardinality(calls')
        /\ DOMAIN idle' = {current'[x] : x \in Scopes} \ {Nobody}
        /\ \A b \in DOMAIN idle' : b \in DOMAIN idle \/ (s # Nobody /\ b.session = s)
        /\ CachesNow /\ (NoSilentStop => TimedNow)
    BY <1>0, SwitchKeeps
  <1>2. ControlTypeOK'
    <2>1. Armed(idle') \in Nat /\ Cardinality(calls') \in Nat
      BY <1>1, ArmedNat, FS_CardinalityType DEF IdleFunction
    <2>2. \A b \in DOMAIN idle' : idle'[b] \in [deadline : {"none", "ahead", "past"}, version : Nat, timer : {"none", "armed", "fired"}]
      BY <1>1 DEF IdleFunction, IdleStates
    <2>3. rows' \in [Sessions -> Kinds] /\ work' \in [Sessions -> SUBSET Works] /\ fork' \in Forks \cup {NoFork}
      BY DEF ControlInv, ControlTypeOK, Kinds, Works
    <2>4. aged' \subseteq Sessions /\ sweep' \subseteq Sessions /\ caches' \subseteq Sessions /\ notices' \subseteq Sessions
          /\ service' \in {"started", "closed", "done"} /\ world' \in Worlds
      BY <1>0, <1>1 DEF ControlInv, ControlTypeOK
    <2>5. calls' \subseteq [binding : Bindings, version : Nat, at : {"entering", "checked"}]
      BY <1>0 DEF ControlInv, ControlTypeOK
    <2>6. timers' \in Nat
      BY <1>1, <2>1
    <2> QED BY <1>1, <2>2, <2>3, <2>4, <2>5, <2>6 DEF ControlTypeOK
  <1>3. TimersCounted'
    BY <1>0, <1>1, CountedLeft
  <1>4. TrackedAreCurrent'
    <2> SUFFICES ASSUME NEW b \in DOMAIN idle' PROVE rows'[b.session] \in {"foreground", "promoted"}
      BY <1>1 DEF TrackedAreCurrent
    <2>1. CASE b \in DOMAIN idle
      <3>1. rows[b.session] \in {"foreground", "promoted"} /\ b.session \in Sessions
        BY <2>1, TrackedBinding DEF ControlInv, TrackedAreCurrent
      <3> QED BY <3>1, <1>0 DEF ControlInv, ControlTypeOK
    <2>2. CASE s # Nobody /\ b.session = s
      BY <1>0, <2>2 DEF ControlInv, ControlTypeOK, Stored
    <2> QED BY <1>1, <2>1, <2>2
  <1>5. CachesReleased'
    BY <1>0, <1>1, CachesLeft
  <1>6. (NoSilentStop => IdleBindingsTimed)'
    BY <1>0, <1>1, TimedLeft DEF NoSilentStop
  <1> QED BY <1>1, <1>2, <1>3, <1>4, <1>5, <1>6 DEF ControlInv

LEMMA CompactKeeps ==
  ASSUME ControlInv, NEW sc \in Scopes, NEW s \in Sessions, Compact(sc, s)
  PROVE  ControlInv'
  <1> USE ControlAssumption DEF Compact
  <1>0. /\ sc \in Scopes /\ s \in Sessions \cup {Nobody} /\ SetCurrent(sc, s) /\ FreeScope(sc)
        /\ UNCHANGED <<calls, service, notices, world>> /\ \A v : work[v] # {} => work'[v] # {}
    BY DEF Activatable, ControlInv, ControlTypeOK
  <1>1. /\ current' \in [Scopes -> Bindings \cup {Nobody}] /\ epoch' \in 0 .. MaxBindings
        /\ DOMAIN idle' \subseteq Bindings /\ caches' \subseteq caches
        /\ IdleFunction' /\ BoundSound' /\ CallSound' /\ TimerSound' /\ timers' = Armed(idle') + Cardinality(calls')
        /\ DOMAIN idle' = {current'[x] : x \in Scopes} \ {Nobody}
        /\ \A b \in DOMAIN idle' : b \in DOMAIN idle \/ (s # Nobody /\ b.session = s)
        /\ CachesNow /\ (NoSilentStop => TimedNow)
    BY <1>0, SwitchKeeps
  <1>2. ControlTypeOK'
    <2>1. Armed(idle') \in Nat /\ Cardinality(calls') \in Nat
      BY <1>1, ArmedNat, FS_CardinalityType DEF IdleFunction
    <2>2. \A b \in DOMAIN idle' : idle'[b] \in [deadline : {"none", "ahead", "past"}, version : Nat, timer : {"none", "armed", "fired"}]
      BY <1>1 DEF IdleFunction, IdleStates
    <2>3. rows' \in [Sessions -> Kinds] /\ work' \in [Sessions -> SUBSET Works] /\ fork' \in Forks \cup {NoFork}
      BY DEF ControlInv, ControlTypeOK, Kinds, Works
    <2>4. aged' \subseteq Sessions /\ sweep' \subseteq Sessions /\ caches' \subseteq Sessions /\ notices' \subseteq Sessions
          /\ service' \in {"started", "closed", "done"} /\ world' \in Worlds
      BY <1>0, <1>1 DEF ControlInv, ControlTypeOK
    <2>5. calls' \subseteq [binding : Bindings, version : Nat, at : {"entering", "checked"}]
      BY <1>0 DEF ControlInv, ControlTypeOK
    <2>6. timers' \in Nat
      BY <1>1, <2>1
    <2> QED BY <1>1, <2>2, <2>3, <2>4, <2>5, <2>6 DEF ControlTypeOK
  <1>3. TimersCounted'
    BY <1>0, <1>1, CountedLeft
  <1>4. TrackedAreCurrent'
    <2> SUFFICES ASSUME NEW b \in DOMAIN idle' PROVE rows'[b.session] \in {"foreground", "promoted"}
      BY <1>1 DEF TrackedAreCurrent
    <2>1. CASE b \in DOMAIN idle
      <3>1. rows[b.session] \in {"foreground", "promoted"} /\ b.session \in Sessions
        BY <2>1, TrackedBinding DEF ControlInv, TrackedAreCurrent
      <3> QED BY <3>1, <1>0 DEF ControlInv, ControlTypeOK
    <2>2. CASE s # Nobody /\ b.session = s
      BY <1>0, <2>2 DEF ControlInv, ControlTypeOK, Stored
    <2> QED BY <1>1, <2>1, <2>2
  <1>5. CachesReleased'
    BY <1>0, <1>1, CachesLeft
  <1>6. (NoSilentStop => IdleBindingsTimed)'
    BY <1>0, <1>1, TimedLeft DEF NoSilentStop
  <1> QED BY <1>1, <1>2, <1>3, <1>4, <1>5, <1>6 DEF ControlInv

LEMMA DeleteSessionKeeps ==
  ASSUME ControlInv, NEW sc \in Scopes, NEW s \in Sessions, DeleteSession(sc, s)
  PROVE  ControlInv'
  <1> USE ControlAssumption
  <1>0. ClearSessionBindings(s) /\ FreeSession(s) /\ ~InUse(s) /\ rows' = [rows EXCEPT ![s] = "deleted"]
        /\ UNCHANGED <<calls, service, notices, work, world, epoch, aged, fork>> /\ sweep' \subseteq Sessions
    BY DEF DeleteSession, Activatable, ControlInv, ControlTypeOK
  <1>1. /\ current' \in [Scopes -> Bindings \cup {Nobody}] /\ DOMAIN idle' \subseteq Bindings /\ caches' \subseteq caches
        /\ IdleFunction' /\ BoundSound' /\ CallSound' /\ TimerSound' /\ timers' = Armed(idle') + Cardinality(calls')
        /\ DOMAIN idle' = {current'[x] : x \in Scopes} \ {Nobody}
        /\ \A b \in DOMAIN idle' : b \in DOMAIN idle /\ b.session # s
        /\ CachesNow /\ (NoSilentStop => TimedNow)
    BY <1>0, ClearKeeps
  <1>2. ControlTypeOK'
    <2>1. Armed(idle') \in Nat /\ Cardinality(calls') \in Nat
      BY <1>1, ArmedNat, FS_CardinalityType DEF IdleFunction
    <2>2. \A b \in DOMAIN idle' : idle'[b] \in [deadline : {"none", "ahead", "past"}, version : Nat, timer : {"none", "armed", "fired"}]
      BY <1>1 DEF IdleFunction, IdleStates
    <2>3. rows' \in [Sessions -> Kinds] /\ timers' \in Nat
      BY <1>0, <1>1, <2>1 DEF ControlInv, ControlTypeOK, Kinds
    <2> QED BY <1>0, <1>1, <2>2, <2>3 DEF ControlInv, ControlTypeOK
  <1>3. TimersCounted'
    BY <1>0, <1>1, CountedLeft
  <1>4. TrackedAreCurrent'
    BY <1>0, <1>1, TrackedBinding DEF ControlInv, TrackedAreCurrent, ControlTypeOK
  <1>5. CachesReleased'
    BY <1>0, <1>1, CachesLeft
  <1>6. (NoSilentStop => IdleBindingsTimed)'
    BY <1>0, <1>1, TimedLeft DEF NoSilentStop
  <1> QED BY <1>1, <1>2, <1>3, <1>4, <1>5, <1>6 DEF ControlInv

\* The deletion of a session that the cleanup found expired, and still finds so.
LEMMA CleanupDeletes ==
  ASSUME ControlInv, NEW s \in Sessions, CleanupExpired(s), ~InUse(s) /\ Stored(s) /\ s \in aged
  PROVE  ControlInv'
  <1>0. ClearSessionBindings(s) /\ FreeSession(s) /\ ~InUse(s) /\ rows' = [rows EXCEPT ![s] = "deleted"]
        /\ UNCHANGED <<calls, service, notices, work, world, epoch, aged, fork>> /\ sweep' \subseteq Sessions
    BY DEF CleanupExpired, ControlInv, ControlTypeOK
  <1>1. /\ current' \in [Scopes -> Bindings \cup {Nobody}] /\ DOMAIN idle' \subseteq Bindings /\ caches' \subseteq caches
        /\ IdleFunction' /\ BoundSound' /\ CallSound' /\ TimerSound' /\ timers' = Armed(idle') + Cardinality(calls')
        /\ DOMAIN idle' = {current'[x] : x \in Scopes} \ {Nobody}
        /\ \A b \in DOMAIN idle' : b \in DOMAIN idle /\ b.session # s
        /\ CachesNow /\ (NoSilentStop => TimedNow)
    BY <1>0, ClearKeeps
  <1>2. ControlTypeOK'
    <2>1. Armed(idle') \in Nat /\ Cardinality(calls') \in Nat
      BY <1>1, ArmedNat, FS_CardinalityType DEF IdleFunction
    <2>2. \A b \in DOMAIN idle' : idle'[b] \in [deadline : {"none", "ahead", "past"}, version : Nat, timer : {"none", "armed", "fired"}]
      BY <1>1 DEF IdleFunction, IdleStates
    <2>3. rows' \in [Sessions -> Kinds] /\ timers' \in Nat
      BY <1>0, <1>1, <2>1 DEF ControlInv, ControlTypeOK, Kinds
    <2> QED BY <1>0, <1>1, <2>2, <2>3 DEF ControlInv, ControlTypeOK
  <1>3. TimersCounted'
    BY <1>0, <1>1, CountedLeft
  <1>4. TrackedAreCurrent'
    BY <1>0, <1>1, TrackedBinding DEF ControlInv, TrackedAreCurrent, ControlTypeOK
  <1>5. CachesReleased'
    BY <1>0, <1>1, CachesLeft
  <1>6. (NoSilentStop => IdleBindingsTimed)'
    BY <1>0, <1>1, TimedLeft DEF NoSilentStop
  <1> QED BY <1>1, <1>2, <1>3, <1>4, <1>5, <1>6 DEF ControlInv

LEMMA PrepareBackgroundKeeps ==
  ASSUME ControlInv, NEW s \in Sessions, PrepareBackground(s)
  PROVE  ControlInv'
  <1> USE DEF PrepareBackground
  <1>1. ControlTypeOK'
    BY DEF ControlInv, ControlTypeOK, Kinds, Works
  <1>2. IdleFunction' /\ BoundSound' /\ CallSound' /\ TimerSound' /\ TimersCounted'
    BY TimersRest
  <1>3. TrackedAreCurrent'
    BY TrackedBinding DEF ControlInv, TrackedAreCurrent, ControlTypeOK
  <1>4. CachesReleased'
    BY DEF ControlInv, CachesReleased, ControlTypeOK, InUse, BoundTo
  <1>5. (NoSilentStop => IdleBindingsTimed)'
    BY DEF ControlInv, NoSilentStop, IdleBindingsTimed, ControlTypeOK, InUse
  <1> QED BY <1>1, <1>2, <1>3, <1>4, <1>5 DEF ControlInv

LEMMA AgeKeeps ==
  ASSUME ControlInv, NEW s \in Sessions, Age(s)
  PROVE  ControlInv'
  <1> USE DEF Age
  <1>1. ControlTypeOK'
    BY DEF ControlInv, ControlTypeOK, Kinds, Works
  <1>2. IdleFunction' /\ BoundSound' /\ CallSound' /\ TimerSound' /\ TimersCounted'
    BY TimersRest
  <1>3. TrackedAreCurrent'
    BY TrackedBinding DEF ControlInv, TrackedAreCurrent, ControlTypeOK
  <1>4. CachesReleased'
    BY DEF ControlInv, CachesReleased, ControlTypeOK, InUse, BoundTo
  <1>5. (NoSilentStop => IdleBindingsTimed)'
    BY DEF ControlInv, NoSilentStop, IdleBindingsTimed, ControlTypeOK, InUse
  <1> QED BY <1>1, <1>2, <1>3, <1>4, <1>5 DEF ControlInv

LEMMA ListExpiredKeeps ==
  ASSUME ControlInv, ListExpired
  PROVE  ControlInv'
  <1> USE DEF ListExpired
  <1>1. ControlTypeOK'
    BY DEF ControlInv, ControlTypeOK, Kinds, Works
  <1>2. IdleFunction' /\ BoundSound' /\ CallSound' /\ TimerSound' /\ TimersCounted'
    BY TimersRest
  <1>3. TrackedAreCurrent'
    BY TrackedBinding DEF ControlInv, TrackedAreCurrent, ControlTypeOK
  <1>4. CachesReleased'
    BY DEF ControlInv, CachesReleased, ControlTypeOK, InUse, BoundTo
  <1>5. (NoSilentStop => IdleBindingsTimed)'
    BY DEF ControlInv, NoSilentStop, IdleBindingsTimed, ControlTypeOK, InUse
  <1> QED BY <1>1, <1>2, <1>3, <1>4, <1>5 DEF ControlInv

LEMMA ForkCaptureKeeps ==
  ASSUME ControlInv, NEW op \in {"fork", "copy"}, NEW sc \in Scopes, NEW s \in Sessions, ForkCapture(op, sc, s)
  PROVE  ControlInv'
  <1> USE DEF ForkCapture
  <1>1. ControlTypeOK'
    BY DEF ControlInv, ControlTypeOK, Kinds, Works, Forks
  <1>2. IdleFunction' /\ BoundSound' /\ CallSound' /\ TimerSound' /\ TimersCounted'
    BY TimersRest
  <1>3. TrackedAreCurrent'
    BY TrackedBinding DEF ControlInv, TrackedAreCurrent, ControlTypeOK
  <1>4. CachesReleased'
    BY DEF ControlInv, CachesReleased, ControlTypeOK, InUse, BoundTo
  <1>5. (NoSilentStop => IdleBindingsTimed)'
    BY DEF ControlInv, NoSilentStop, IdleBindingsTimed, ControlTypeOK, InUse
  <1> QED BY <1>1, <1>2, <1>3, <1>4, <1>5 DEF ControlInv

LEMMA ForkAbandonKeeps ==
  ASSUME ControlInv, ForkAbandon
  PROVE  ControlInv'
  <1> USE DEF ForkAbandon
  <1>1. ControlTypeOK'
    BY DEF ControlInv, ControlTypeOK, Kinds, Works
  <1>2. IdleFunction' /\ BoundSound' /\ CallSound' /\ TimerSound' /\ TimersCounted'
    BY TimersRest
  <1>3. TrackedAreCurrent'
    BY TrackedBinding DEF ControlInv, TrackedAreCurrent, ControlTypeOK
  <1>4. CachesReleased'
    BY DEF ControlInv, CachesReleased, ControlTypeOK, InUse, BoundTo
  <1>5. (NoSilentStop => IdleBindingsTimed)'
    BY DEF ControlInv, NoSilentStop, IdleBindingsTimed, ControlTypeOK, InUse
  <1> QED BY <1>1, <1>2, <1>3, <1>4, <1>5 DEF ControlInv

LEMMA CopyCommitKeeps ==
  ASSUME ControlInv, NEW s \in Sessions, CopyCommit(s)
  PROVE  ControlInv'
  <1> USE DEF CopyCommit
  <1>1. ControlTypeOK'
    BY DEF ControlInv, ControlTypeOK, Kinds, Works
  <1>2. IdleFunction' /\ BoundSound' /\ CallSound' /\ TimerSound' /\ TimersCounted'
    BY TimersRest
  <1>3. TrackedAreCurrent'
    BY TrackedBinding DEF ControlInv, TrackedAreCurrent, ControlTypeOK
  <1>4. CachesReleased'
    BY DEF ControlInv, CachesReleased, ControlTypeOK, InUse, BoundTo
  <1>5. (NoSilentStop => IdleBindingsTimed)'
    BY DEF ControlInv, NoSilentStop, IdleBindingsTimed, ControlTypeOK, InUse
  <1> QED BY <1>1, <1>2, <1>3, <1>4, <1>5 DEF ControlInv

LEMMA BeginWorkKeeps ==
  ASSUME ControlInv, NEW s \in Sessions, NEW kind \in {"turn", "hook"}, BeginWork(s, kind)
  PROVE  ControlInv'
  <1> USE DEF BeginWork
  <1>1. ControlTypeOK'
    BY DEF ControlInv, ControlTypeOK, Kinds, Works
  <1>2. IdleFunction' /\ BoundSound' /\ CallSound' /\ TimerSound' /\ TimersCounted'
    BY TimersRest
  <1>3. TrackedAreCurrent'
    BY TrackedBinding DEF ControlInv, TrackedAreCurrent, ControlTypeOK
  <1>4. CachesReleased'
    BY DEF ControlInv, CachesReleased, ControlTypeOK, InUse, BoundTo
  <1>5. (NoSilentStop => IdleBindingsTimed)'
    BY DEF ControlInv, NoSilentStop, IdleBindingsTimed, ControlTypeOK, InUse
  <1> QED BY <1>1, <1>2, <1>3, <1>4, <1>5 DEF ControlInv

LEMMA EndWorkKeeps ==
  ASSUME ControlInv, NEW s \in Sessions, NEW kind \in {"turn", "hook"}, EndWork(s, kind)
  PROVE  ControlInv'
  <1> USE DEF EndWork
  <1>1. ControlTypeOK'
    BY DEF ControlInv, ControlTypeOK, Kinds, Works
  <1>2. IdleFunction' /\ BoundSound' /\ CallSound' /\ TimerSound' /\ TimersCounted'
    BY TimersRest
  <1>3. TrackedAreCurrent'
    BY TrackedBinding DEF ControlInv, TrackedAreCurrent, ControlTypeOK
  <1>4. CachesReleased'
    BY DEF ControlInv, CachesReleased, ControlTypeOK, InUse, BoundTo
  <1>5. (NoSilentStop => IdleBindingsTimed)'
    BY DEF ControlInv, NoSilentStop, IdleBindingsTimed, ControlTypeOK, InUse
  <1> QED BY <1>1, <1>2, <1>3, <1>4, <1>5 DEF ControlInv

LEMMA PauseKeeps ==
  ASSUME ControlInv, NEW s \in Sessions, Pause(s)
  PROVE  ControlInv'
  <1> USE DEF Pause
  <1>1. ControlTypeOK'
    BY DEF ControlInv, ControlTypeOK, Kinds, Works
  <1>2. IdleFunction' /\ BoundSound' /\ CallSound' /\ TimerSound' /\ TimersCounted'
    BY TimersRest
  <1>3. TrackedAreCurrent'
    BY TrackedBinding DEF ControlInv, TrackedAreCurrent, ControlTypeOK
  <1>4. CachesReleased'
    BY DEF ControlInv, CachesReleased, ControlTypeOK, InUse, BoundTo
  <1>5. (NoSilentStop => IdleBindingsTimed)'
    BY DEF ControlInv, NoSilentStop, IdleBindingsTimed, ControlTypeOK, InUse
  <1> QED BY <1>1, <1>2, <1>3, <1>4, <1>5 DEF ControlInv

LEMMA StopPausedKeeps ==
  ASSUME ControlInv, NEW b \in DOMAIN idle, StopPaused(b)
  PROVE  ControlInv'
  <1> USE DEF StopPaused
  <1>1. ControlTypeOK'
    BY TrackedBinding DEF ControlInv, ControlTypeOK, Kinds, Works
  <1>2. IdleFunction' /\ BoundSound' /\ CallSound' /\ TimerSound' /\ TimersCounted'
    BY TimersRest
  <1>3. TrackedAreCurrent'
    BY TrackedBinding DEF ControlInv, TrackedAreCurrent, ControlTypeOK
  <1>4. CachesReleased'
    BY DEF ControlInv, CachesReleased, ControlTypeOK, InUse, BoundTo
  <1>5. (NoSilentStop => IdleBindingsTimed)'
    BY DEF ControlInv, NoSilentStop, IdleBindingsTimed, ControlTypeOK, InUse
  <1> QED BY <1>1, <1>2, <1>3, <1>4, <1>5 DEF ControlInv

LEMMA CleanupExpiredKeeps ==
  ASSUME ControlInv, NEW s \in Sessions, CleanupExpired(s)
  PROVE  ControlInv'
  <1>1. CASE ~InUse(s) /\ Stored(s) /\ s \in aged
    BY <1>1, CleanupDeletes
  <1>2. CASE ~(~InUse(s) /\ Stored(s) /\ s \in aged)
    <2>1. UNCHANGED <<rows, current, epoch, idle, calls, timers, service, work, notices, caches, world, fork, aged>> /\ sweep' \subseteq sweep
      BY <1>2 DEF CleanupExpired
    <2> HIDE <1>2
    <2>2. ControlTypeOK'
      BY <2>1 DEF ControlInv, ControlTypeOK
    <2>3. IdleFunction' /\ BoundSound' /\ CallSound' /\ TimerSound' /\ TimersCounted'
      BY <2>1, TimersRest
    <2>4. TrackedAreCurrent' /\ CachesReleased'
      BY <2>1 DEF ControlInv, TrackedAreCurrent, CachesReleased, InUse, BoundTo
    <2>5. (NoSilentStop => IdleBindingsTimed)'
      BY <2>1 DEF ControlInv, NoSilentStop, IdleBindingsTimed, InUse
    <2> QED BY <2>2, <2>3, <2>4, <2>5 DEF ControlInv
  <1> QED BY <1>1, <1>2

LEMMA CloseKeeps ==
  ASSUME ControlInv, Close
  PROVE  ControlInv'
  <1> USE DEF Close
  <1>1. ControlTypeOK'
    BY DEF ControlInv, ControlTypeOK
  <1>2. IdleFunction' /\ BoundSound' /\ CallSound' /\ TimerSound'
    BY DEF ControlInv, IdleFunction, BoundSound, CallSound, TimerSound
  <1>3. TimersCounted'
    <2>1. Armed(idle) \in Nat /\ Cardinality(calls) \in Nat /\ IsFiniteSet(calls)
      BY ArmedNat, FS_CardinalityType DEF ControlInv, IdleFunction
    <2>2. Cardinality(calls) = 0
      BY <2>1 DEF ControlInv, TimersCounted
    <2>3. calls = {}
      BY <2>1, <2>2, FS_EmptySet
    <2> QED BY <2>3 DEF ControlInv, TimersCounted
  <1>4. TrackedAreCurrent' /\ CachesReleased' /\ IdleBindingsTimed'
    BY DEF ControlInv, TrackedAreCurrent, CachesReleased, IdleBindingsTimed
  <1> QED BY <1>1, <1>2, <1>3, <1>4 DEF ControlInv

\* An activity: the timer of the binding starts again.
LEMMA ActivityKeeps ==
  ASSUME ControlInv, NEW b \in DOMAIN idle, FreeScope(b.scope), service = "started",
         idle' = [idle EXCEPT ![b] = Refreshed(b)], Retimed(idle'),
         work' \in [Sessions -> SUBSET Works], aged' \subseteq Sessions, caches' \subseteq caches \cup {b.session},
         \A v : work[v] # {} => work'[v] # {},
         UNCHANGED <<rows, current, epoch, calls, service, notices, fork, sweep, world>>
  PROVE  ControlInv'
  <1>1. DOMAIN idle' = DOMAIN idle /\ idle' = [d \in DOMAIN idle |-> idle'[d]] /\ idle'[b] = Refreshed(b)
        /\ \A d \in DOMAIN idle \ {b} : idle'[d] = idle[d]
    BY DEF ControlInv, IdleFunction
  <1>2. ~Holding(b)
    BY DEF Holding, FreeScope
  <1>3. IdleFunction' /\ BoundSound' /\ CallSound' /\ TimerSound' /\ timers' = Armed(idle') + Cardinality(calls')
    <2> DEFINE R == {b}
    <2>1. \A d \in DOMAIN idle \cap R :
            /\ idle'[d] \in IdleStates /\ idle'[d].version = idle[d].version + 1
            /\ idle'[d].timer # "none" => idle'[d].timer = "armed" /\ idle'[d].deadline # "none" /\ service' = "started"
            /\ Holding(d) => idle'[d].timer = "none" /\ idle'[d].deadline = idle[d].deadline
      BY <1>1, <1>2, RefreshFacts
    <2>2. (\A d \in DOMAIN idle \ R : idle'[d] = idle[d]) /\ (service' = service \/ DOMAIN idle \subseteq R)
          /\ UNCHANGED <<current, epoch, calls>>
      BY <1>1
    <2> HIDE DEF R
    <2> QED BY ONLY ControlInv, Retimed(idle'), <1>1, <2>1, <2>2, TimersRestarted
  <1>4. ControlTypeOK'
    <2>1. Armed(idle') \in Nat /\ Cardinality(calls') \in Nat
      BY <1>3, ArmedNat, FS_CardinalityType DEF IdleFunction
    <2>2. \A d \in DOMAIN idle' : idle'[d] \in [deadline : {"none", "ahead", "past"}, version : Nat, timer : {"none", "armed", "fired"}]
      BY <1>3 DEF IdleFunction, IdleStates
    <2>3. timers' \in Nat /\ caches' \subseteq Sessions
      BY <1>3, <2>1, TrackedBinding DEF ControlInv, ControlTypeOK
    <2> QED BY <1>1, <2>2, <2>3 DEF ControlInv, ControlTypeOK
  <1>5. TimersCounted'
    BY <1>3, CountedLeft
  <1>6. TrackedAreCurrent'
    BY <1>1 DEF ControlInv, TrackedAreCurrent
  <1>7. CachesReleased'
    BY <1>1 DEF ControlInv, CachesReleased, InUse, BoundTo
  <1>8. (NoSilentStop => IdleBindingsTimed)'
    BY <1>1, RefreshFacts DEF ControlInv, NoSilentStop, IdleBindingsTimed, InUse
  <1> QED BY <1>3, <1>4, <1>5, <1>6, <1>7, <1>8 DEF ControlInv

LEMMA RecordActivityKeeps ==
  ASSUME ControlInv, NEW b \in DOMAIN idle, RecordActivity(b)
  PROVE  ControlInv'
  <1>1. b.session \in Sessions
    BY TrackedBinding
  <1>2. idle' = [idle EXCEPT ![b] = Refreshed(b)] /\ Retimed(idle') /\ FreeScope(b.scope) /\ service = "started"
        /\ aged' \subseteq aged /\ UNCHANGED <<rows, current, epoch, calls, service, notices, fork, sweep, world>>
    BY DEF RecordActivity
  <1>3. caches' \subseteq caches \cup {b.session}
    BY DEF RecordActivity
  <1>4. work' \in [Sessions -> SUBSET Works] /\ \A v : work[v] # {} => work'[v] # {}
    <2>1. work' = work \/ (work' = [work EXCEPT ![b.session] = @ \cup {"turn"}])
      BY <1>1 DEF RecordActivity, ControlInv, ControlTypeOK
    <2>2. work \in [Sessions -> SUBSET Works]
      BY DEF ControlInv, ControlTypeOK
    <2>3. CASE work' = work
      BY <2>2, <2>3
    <2>4. CASE work' = [work EXCEPT ![b.session] = @ \cup {"turn"}]
      BY <1>1, <2>2, <2>4 DEF Works
    <2> QED BY <2>1, <2>3, <2>4
  <1>5. aged' \subseteq Sessions
    BY <1>2 DEF ControlInv, ControlTypeOK
  <1> QED BY <1>2, <1>3, <1>4, <1>5, ActivityKeeps

LEMMA ResumeAppendKeeps ==
  ASSUME ControlInv, NEW b \in DOMAIN idle, ResumeAppend(b)
  PROVE  ControlInv'
  <1>1. b.session \in Sessions
    BY TrackedBinding
  <1>2. idle' = [idle EXCEPT ![b] = Refreshed(b)] /\ Retimed(idle') /\ FreeScope(b.scope) /\ service = "started"
        /\ UNCHANGED <<rows, aged, current, epoch, calls, service, notices, caches, fork, sweep, world>>
    BY DEF ResumeAppend
  <1>3. work' = [work EXCEPT ![b.session] = (@ \ {"paused"}) \cup {"turn"}] /\ work \in [Sessions -> SUBSET Works]
    BY DEF ResumeAppend, ControlInv, ControlTypeOK
  <1>4. work' \in [Sessions -> SUBSET Works] /\ \A v : work[v] # {} => work'[v] # {}
    BY <1>1, <1>3 DEF Works
  <1>5. aged' \subseteq Sessions
    BY <1>2 DEF ControlInv, ControlTypeOK
  <1> QED BY <1>2, <1>4, <1>5, ActivityKeeps

LEMMA SessionIdleKeeps ==
  ASSUME ControlInv, NEW s \in Sessions, SessionIdle(s)
  PROVE  ControlInv'
  <1> DEFINE st(b) == [idle[b] EXCEPT !.deadline = "ahead"]
             f == [b \in DOMAIN idle |-> IF b.session = s THEN Schedule(b, st(b)) ELSE idle[b]]
  <1>0. s \in notices /\ FreeSession(s) /\ notices' = notices \ {s} /\ timers \in Nat
        /\ UNCHANGED <<rows, aged, current, epoch, calls, service, work, fork, sweep, world>>
    BY DEF SessionIdle, ControlInv, ControlTypeOK
  <1>1. CASE UNCHANGED <<idle, timers>> /\ caches' \subseteq caches /\ (InUse(s) \/ BoundTo(s) = {} \/ service # "started")
             /\ (InUse(s) \/ service # "started" \/ caches' = caches \ {s})
    <2>1. ControlTypeOK'
      BY <1>0, <1>1 DEF ControlInv, ControlTypeOK
    <2>2. IdleFunction' /\ BoundSound' /\ CallSound' /\ TimerSound' /\ TimersCounted'
      BY <1>0, <1>1, TimersRest
    <2>3. TrackedAreCurrent' /\ CachesReleased'
      BY <1>0, <1>1 DEF ControlInv, TrackedAreCurrent, CachesReleased, InUse, BoundTo
    <2>4. (NoSilentStop => IdleBindingsTimed)'
      BY <1>0, <1>1 DEF ControlInv, NoSilentStop, IdleBindingsTimed, InUse, BoundTo
    <2> QED BY <2>1, <2>2, <2>3, <2>4 DEF ControlInv
  <1>2. CASE ~InUse(s) /\ BoundTo(s) # {} /\ service = "started" /\ idle' = f /\ Retimed(f) /\ UNCHANGED caches
    <2>1. \A b \in DOMAIN idle : st(b) \in IdleStates /\ st(b).deadline = "ahead" /\ st(b).version = idle[b].version
      BY TrackedBinding DEF IdleStates
    <2>2. DOMAIN idle' = DOMAIN idle /\ idle' = [b \in DOMAIN idle |-> idle'[b]]
          /\ (\A b \in DOMAIN idle : b.session = s => idle'[b] = Schedule(b, st(b)))
          /\ \A b \in DOMAIN idle \ BoundTo(s) : idle'[b] = idle[b]
      BY <1>2 DEF BoundTo
    <2> HIDE DEF st, f
    <2>3. \A b \in DOMAIN idle : b.session = s =>
            /\ idle'[b] \in IdleStates /\ idle'[b].version = idle[b].version + 1
            /\ idle'[b].timer # "none" => idle'[b].timer = "armed" /\ idle'[b].deadline # "none" /\ service' = "started"
            /\ ~Holding(b)
            /\ b.scope \in Timed => idle'[b].timer = "armed"
      BY <1>0, <1>2, <2>1, <2>2, ScheduleFacts DEF Holding, FreeSession
    <2>4. \A b \in DOMAIN idle \cap BoundTo(s) :
            /\ idle'[b] \in IdleStates /\ idle'[b].version = idle[b].version + 1
            /\ idle'[b].timer # "none" => idle'[b].timer = "armed" /\ idle'[b].deadline # "none" /\ service' = "started"
            /\ Holding(b) => idle'[b].timer = "none" /\ idle'[b].deadline = idle[b].deadline
      BY <2>3 DEF BoundTo
    <2>5. Retimed(idle')
      BY <1>2
    <2>6. IdleFunction' /\ BoundSound' /\ CallSound' /\ TimerSound' /\ timers' = Armed(idle') + Cardinality(calls')
      BY <1>0, <2>2, <2>4, <2>5, TimersRestarted
    <2>7. ControlTypeOK'
      <3>1. Armed(idle') \in Nat /\ Cardinality(calls') \in Nat
        BY <2>6, ArmedNat, FS_CardinalityType DEF IdleFunction
      <3>2. \A d \in DOMAIN idle' : idle'[d] \in [deadline : {"none", "ahead", "past"}, version : Nat, timer : {"none", "armed", "fired"}]
        BY <2>6 DEF IdleFunction, IdleStates
      <3> QED BY <1>0, <1>2, <2>2, <2>6, <3>1, <3>2 DEF ControlInv, ControlTypeOK
    <2>8. TimersCounted'
      BY <1>0, <2>6, CountedLeft
    <2>9. TrackedAreCurrent'
      BY <1>0, <2>2 DEF ControlInv, TrackedAreCurrent
    <2>10. CachesReleased'
      BY <1>0, <1>2, <2>2 DEF ControlInv, CachesReleased, InUse, BoundTo
    <2>11. (NoSilentStop => IdleBindingsTimed)'
      BY <1>0, <2>2, <2>3 DEF ControlInv, NoSilentStop, IdleBindingsTimed, InUse, BoundTo
    <2> QED BY <2>6, <2>7, <2>8, <2>9, <2>10, <2>11 DEF ControlInv
  <1>3. \/ InUse(s) /\ UNCHANGED <<idle, timers, caches>>
        \/ ~InUse(s) /\ BoundTo(s) = {} /\ caches' = caches \ {s} /\ UNCHANGED <<idle, timers>>
        \/ ~InUse(s) /\ BoundTo(s) # {} /\ service # "started" /\ UNCHANGED <<idle, timers, caches>>
        \/ ~InUse(s) /\ BoundTo(s) # {} /\ service = "started" /\ idle' = f /\ Retimed(f) /\ UNCHANGED caches
    BY DEF SessionIdle
  <1> QED BY <1>1, <1>2, <1>3

LEMMA ElapseKeeps ==
  ASSUME ControlInv, NEW b \in DOMAIN idle, Elapse(b)
  PROVE  ControlInv'
  <1>0. /\ idle[b].deadline = "ahead" /\ idle' = [idle EXCEPT ![b].deadline = "past"]
        /\ UNCHANGED <<rows, aged, current, epoch, calls, timers, service, work, notices, caches, fork, sweep, world>>
    BY DEF Elapse
  <1>1. /\ DOMAIN idle' = DOMAIN idle /\ idle' = [d \in DOMAIN idle |-> idle'[d]]
        /\ \A d \in DOMAIN idle : idle'[d] \in IdleStates /\ idle'[d].version = idle[d].version /\ idle'[d].timer = idle[d].timer
        /\ \A d \in DOMAIN idle : idle'[d].deadline = "none" <=> idle[d].deadline = "none"
    <2> DEFINE r == [idle[b] EXCEPT !.deadline = "past"]
    <2>1. idle' = [idle EXCEPT ![b] = r] /\ idle \in [DOMAIN idle -> IdleStates] /\ idle[b] \in IdleStates
      BY <1>0, TrackedBinding DEF ControlInv, IdleFunction
    <2>2. r \in IdleStates /\ r.deadline = "past" /\ r.version = idle[b].version /\ r.timer = idle[b].timer
      BY <2>1 DEF IdleStates
    <2> HIDE DEF r
    <2>3. DOMAIN idle' = DOMAIN idle /\ idle' = [d \in DOMAIN idle |-> idle'[d]] /\ idle'[b] = r
          /\ \A d \in DOMAIN idle : d # b => idle'[d] = idle[d] /\ idle'[d] \in IdleStates
      BY <2>1
    <2> QED BY <1>0, <2>2, <2>3
  <1>2. ControlTypeOK' /\ IdleFunction' /\ BoundSound'
    BY <1>0, <1>1 DEF ControlInv, ControlTypeOK, IdleFunction, IdleStates, BoundSound
  <1>3. CallSound'
    BY <1>0, <1>1 DEF ControlInv, CallSound
  <1>4. TimerSound'
    BY <1>0, <1>1 DEF ControlInv, TimerSound
  <1>5. TimersCounted'
    <2>1. Armed(idle') = Armed(idle)
      BY <1>1, ArmedEqual
    <2> QED BY <1>0, <2>1 DEF ControlInv, TimersCounted
  <1>6. TrackedAreCurrent' /\ CachesReleased'
    BY <1>0, <1>1 DEF ControlInv, TrackedAreCurrent, CachesReleased, InUse, BoundTo
  <1>7. (NoSilentStop => IdleBindingsTimed)'
    BY <1>0, <1>1 DEF ControlInv, NoSilentStop, IdleBindingsTimed, InUse
  <1> QED BY <1>2, <1>3, <1>4, <1>5, <1>6, <1>7 DEF ControlInv

LEMMA FireTimerKeeps ==
  ASSUME ControlInv, NEW b \in DOMAIN idle, FireTimer(b)
  PROVE  ControlInv'
  <1> DEFINE c == [binding |-> b, version |-> idle[b].version, at |-> "entering"]
  <1>0. /\ idle[b].timer = "armed" /\ idle' = [idle EXCEPT ![b].timer = "fired"] /\ calls' = calls \cup {c}
        /\ UNCHANGED <<rows, aged, current, epoch, timers, service, work, notices, caches, fork, sweep, world>>
    BY DEF FireTimer
  <1>1. /\ DOMAIN idle' = DOMAIN idle /\ idle' = [d \in DOMAIN idle |-> idle'[d]]
        /\ \A d \in DOMAIN idle : idle'[d] \in IdleStates /\ idle'[d].version = idle[d].version /\ idle'[d].deadline = idle[d].deadline
        /\ idle'[b].timer = "fired" /\ \A d \in DOMAIN idle \ {b} : idle'[d] = idle[d]
    <2> DEFINE r == [idle[b] EXCEPT !.timer = "fired"]
    <2>1. idle' = [idle EXCEPT ![b] = r] /\ idle \in [DOMAIN idle -> IdleStates] /\ idle[b] \in IdleStates
      BY <1>0, TrackedBinding DEF ControlInv, IdleFunction
    <2>2. r \in IdleStates /\ r.deadline = idle[b].deadline /\ r.version = idle[b].version /\ r.timer = "fired"
      BY <2>1 DEF IdleStates
    <2> HIDE DEF r
    <2>3. DOMAIN idle' = DOMAIN idle /\ idle' = [d \in DOMAIN idle |-> idle'[d]] /\ idle'[b] = r
          /\ \A d \in DOMAIN idle : d # b => idle'[d] = idle[d] /\ idle'[d] \in IdleStates
      BY <2>1
    <2> QED BY <2>2, <2>3
  <1>2. c.binding = b /\ c.version = idle[b].version /\ c.at = "entering" /\ c.version \in Nat /\ b \in Bindings
        /\ c \in [binding : Bindings, version : Nat, at : {"entering", "checked"}]
    BY TrackedBinding DEF IdleStates
  <1> HIDE DEF c
  <1>3. c \notin calls
    BY <1>0, <1>2 DEF ControlInv, CallSound
  <1>4. IsFiniteSet(calls') /\ Cardinality(calls') = Cardinality(calls) + 1 /\ Cardinality(calls) \in Nat
    BY <1>0, <1>3, FS_AddElement, FS_CardinalityType DEF ControlInv, IdleFunction
  <1>5. ControlTypeOK' /\ IdleFunction' /\ BoundSound'
    <2>1. ControlTypeOK'
      BY <1>0, <1>1, <1>2 DEF ControlInv, ControlTypeOK, IdleStates
    <2>2. IdleFunction'
      BY <1>1, <1>4 DEF ControlInv, IdleFunction
    <2> QED BY <1>0, <2>1, <2>2 DEF ControlInv, BoundSound
  <1>6. CallSound'
    <2>1. b.version <= epoch
      BY TrackedBinding
    <2>2. \A d \in calls : d.at = "checked" => d.binding # b
      BY <1>0 DEF ControlInv, CallSound
    <2>3. ASSUME NEW d \in calls'
          PROVE  LET e == d.binding IN
                 /\ e.version <= epoch
                 /\ e \in DOMAIN idle' => d.version <= idle'[e].version
                 /\ d.at = "entering" /\ e \in DOMAIN idle' /\ d.version = idle'[e].version => idle'[e].timer = "fired"
                 /\ d.at = "checked" => e \in DOMAIN idle' /\ idle'[e].timer = "none" /\ idle'[e].deadline # "none"
                 /\ \A x \in calls' : d.at = "checked" /\ x.at = "checked" /\ e.scope = x.binding.scope => d = x
      <3>1. CASE d = c
        BY <1>0, <1>1, <1>2, <2>1, <3>1
      <3>2. CASE d # c
        <4>1. d \in calls
          BY <1>0, <2>3, <3>2
        <4>2. \A x \in calls' : x.at = "checked" => x \in calls
          BY <1>0, <1>2
        <4> QED BY <1>1, <2>2, <4>1, <4>2 DEF ControlInv, CallSound
      <3> QED BY <3>1, <3>2
    <2> QED BY <1>0, <2>3 DEF CallSound
  <1>7. TimerSound'
    BY <1>0, <1>1 DEF ControlInv, TimerSound
  <1>8. TimersCounted'
    <2>1. Armed(idle') = Armed(idle) - 1 /\ Armed(idle) \in Nat
      <3>1. idle'[b].timer # "armed"
        BY <1>1
      <3>2. IsFiniteSet(DOMAIN idle)
        BY DEF ControlInv, IdleFunction
      <3>3. Armed(idle') = Armed(idle) - 1
        BY <1>0, <1>1, <3>1, <3>2, ArmedFires
      <3> QED BY <3>2, <3>3, ArmedNat
    <2>2. service # "done"
      BY <1>0 DEF ControlInv, TimerSound
    <2> QED BY <1>0, <1>4, <2>1, <2>2 DEF ControlInv, TimersCounted
  <1>9. TrackedAreCurrent' /\ CachesReleased'
    BY <1>0, <1>1 DEF ControlInv, TrackedAreCurrent, CachesReleased, InUse, BoundTo
  <1>10. (NoSilentStop => IdleBindingsTimed)'
    <2> SUFFICES ASSUME NoSilentStop, NEW d \in DOMAIN idle, service = "started", d.scope \in Timed, ~InUse(d.session), d.session \notin notices
                 PROVE  idle'[d].timer = "armed" \/ \E x \in calls' : x.binding = d /\ (x.at = "checked" \/ x.version = idle'[d].version)
      BY <1>0, <1>1 DEF NoSilentStop, IdleBindingsTimed, InUse
    <2>1. CASE d = b
      BY <1>0, <1>1, <1>2, <2>1
    <2>2. CASE d # b
      BY <1>0, <1>1, <2>2 DEF ControlInv, IdleBindingsTimed
    <2> QED BY <2>1, <2>2
  <1> QED BY <1>5, <1>6, <1>7, <1>8, <1>9, <1>10 DEF ControlInv


\* A callback that is let in stops being the schedule's: it holds its admission until it decides.
LEMMA ExpireEnterKeeps ==
  ASSUME ControlInv, NEW c \in calls, ExpireEnter(c)
  PROVE  ControlInv'
  <1> DEFINE b == c.binding
             d == [c EXCEPT !.at = "checked"]
             Refused == service # "started" \/ current[b.scope] # b \/ b \notin DOMAIN idle \/ idle[b].version # c.version
  <1>0. /\ c.at = "entering" /\ c \in [binding : Bindings, version : Nat, at : {"entering", "checked"}] /\ b.scope \in Scopes
        /\ service = "started" /\ current[b.scope] = b => FreeScope(b.scope) /\ FreeSession(b.session)
        /\ UNCHANGED <<rows, aged, current, epoch, service, work, notices, caches, fork, sweep, world>>
    BY DEF ExpireEnter, ControlInv, ControlTypeOK, Bindings
  <1>1. Cardinality(calls) \in Nat /\ IsFiniteSet(calls) /\ IsFiniteSet(calls \ {c}) /\ Cardinality(calls \ {c}) = Cardinality(calls) - 1
    BY FS_RemoveElement, FS_CardinalityType DEF ControlInv, IdleFunction
  <1>2. Armed(idle) \in Nat /\ timers = Armed(idle) + Cardinality(calls) /\ Cardinality(calls \ {c}) \in Nat
    BY <1>1, ArmedNat, FS_CardinalityType DEF ControlInv, IdleFunction, TimersCounted
  <1>3. CASE Refused
    <2>1. calls' = calls \ {c} /\ timers' = timers - 1 /\ idle' = idle
      BY <1>3 DEF ExpireEnter, Leave
    <2>2. ControlTypeOK'
      BY <1>0, <1>1, <1>2, <2>1 DEF ControlInv, ControlTypeOK
    <2>3. IdleFunction' /\ BoundSound' /\ CallSound' /\ TimerSound'
      BY <1>0, <1>1, <2>1 DEF ControlInv, IdleFunction, BoundSound, CallSound, TimerSound
    <2>4. TimersCounted'
      BY <1>0, <1>1, <1>2, <2>1 DEF ControlInv, TimersCounted, Armed
    <2>5. TrackedAreCurrent' /\ CachesReleased'
      BY <1>0, <2>1 DEF ControlInv, TrackedAreCurrent, CachesReleased, InUse, BoundTo
    <2>6. (NoSilentStop => IdleBindingsTimed)'
      <3>1. b \in DOMAIN idle /\ service = "started" => idle[b].version # c.version
        BY <1>3, TrackedBinding
      <3> QED BY <1>0, <2>1, <3>1 DEF ControlInv, NoSilentStop, IdleBindingsTimed, InUse
    <2> QED BY <2>2, <2>3, <2>4, <2>5, <2>6 DEF ControlInv
  <1>4. CASE ~Refused
    <2> DEFINE r == [idle[b] EXCEPT !.timer = "none"]
    <2>1. /\ service = "started" /\ current[b.scope] = b /\ b \in DOMAIN idle /\ idle[b].version = c.version
          /\ FreeScope(b.scope) /\ calls' = (calls \ {c}) \cup {d} /\ timers' = timers
          /\ idle' = [idle EXCEPT ![b] = r] /\ idle \in [DOMAIN idle -> IdleStates] /\ idle[b] \in IdleStates
      BY <1>0, <1>4, TrackedBinding DEF ExpireEnter, ControlInv, IdleFunction
    <2>2. r \in IdleStates /\ r.deadline = idle[b].deadline /\ r.version = idle[b].version /\ r.timer = "none"
      BY <2>1 DEF IdleStates
    <2>3. d.binding = b /\ d.version = c.version /\ d.at = "checked" /\ d \in [binding : Bindings, version : Nat, at : {"entering", "checked"}]
      BY <1>0
    <2> HIDE DEF r, d
    <2>4. /\ DOMAIN idle' = DOMAIN idle /\ idle' = [e \in DOMAIN idle |-> idle'[e]] /\ idle'[b] = r
          /\ \A e \in DOMAIN idle : e # b => idle'[e] = idle[e]
      BY <2>1
    <2>5. idle[b].timer = "fired" /\ idle[b].deadline # "none"
      BY <1>0, <2>1 DEF ControlInv, CallSound, TimerSound
    <2>6. d \notin calls /\ \A x \in calls : x.at = "checked" => x.binding.scope # b.scope
      BY <2>1, <2>3 DEF FreeScope
    <2>7. IsFiniteSet(calls') /\ Cardinality(calls') = Cardinality(calls)
      BY <1>1, <2>1, <2>6, FS_AddElement
    <2>8. ControlTypeOK' /\ IdleFunction'
      BY <1>0, <2>1, <2>2, <2>3, <2>4, <2>7 DEF ControlInv, ControlTypeOK, IdleFunction, IdleStates
    <2>9. BoundSound' /\ TimerSound'
      BY <1>0, <2>1, <2>2, <2>4 DEF ControlInv, BoundSound, TimerSound
    <2>10. CallSound'
      <3> SUFFICES ASSUME NEW x \in calls'
                   PROVE  /\ x.binding.version <= epoch
                          /\ x.binding \in DOMAIN idle' => x.version <= idle'[x.binding].version
                          /\ x.at = "entering" /\ x.binding \in DOMAIN idle' /\ x.version = idle'[x.binding].version
                             => idle'[x.binding].timer = "fired"
                          /\ x.at = "checked" => /\ x.binding \in DOMAIN idle' /\ idle'[x.binding].timer = "none"
                                                 /\ idle'[x.binding].deadline # "none"
                          /\ \A y \in calls' : x.at = "checked" /\ y.at = "checked" /\ x.binding.scope = y.binding.scope => x = y
        BY <1>0 DEF CallSound
      <3>1. CASE x = d
        <4>1. c.version \in Nat /\ b.version <= epoch
          BY <1>0 DEF ControlInv, CallSound
        <4> QED BY <2>1, <2>2, <2>3, <2>4, <2>5, <2>6, <3>1, <4>1
      <3>2. CASE x # d
        <4>1. x \in calls /\ x # c
          BY <2>1, <3>2
        <4>2. x.at = "entering" /\ x.binding = b => x.version # c.version
          <5>1. x \in [binding : Bindings, version : Nat, at : {"entering", "checked"}]
            BY <4>1 DEF ControlInv, ControlTypeOK
          <5>2. x.at = "entering" /\ x.binding = b /\ x.version = c.version => x = c
            BY <1>0, <5>1
          <5> QED BY <4>1, <5>2
        <4>3. \A y \in calls' : y = d \/ y \in calls
          BY <2>1
        <4> QED BY <2>1, <2>2, <2>3, <2>4, <2>6, <4>1, <4>2, <4>3 DEF ControlInv, CallSound
      <3> QED BY <3>1, <3>2
    <2>11. TimersCounted'
      <3>1. Armed(idle') = Armed(idle)
        BY <2>2, <2>4, <2>5, ArmedEqual
      <3> QED BY <1>0, <1>2, <2>1, <2>7, <3>1 DEF ControlInv, TimersCounted
    <2>12. TrackedAreCurrent' /\ CachesReleased'
      BY <1>0, <2>4 DEF ControlInv, TrackedAreCurrent, CachesReleased, InUse, BoundTo
    <2>13. (NoSilentStop => IdleBindingsTimed)'
      <3> SUFFICES ASSUME NoSilentStop, NEW e \in DOMAIN idle, e.scope \in Timed, ~InUse(e.session), e.session \notin notices
                   PROVE  idle'[e].timer = "armed" \/ \E x \in calls' : x.binding = e /\ (x.at = "checked" \/ x.version = idle'[e].version)
        BY <1>0, <2>4 DEF NoSilentStop, IdleBindingsTimed, InUse
      <3>1. CASE e = b
        BY <2>1, <2>3, <3>1
      <3>2. CASE e # b
        <4>1. idle'[e] = idle[e]
          BY <2>4, <3>2
        <4>2. idle[e].timer = "armed" \/ \E x \in calls : x.binding = e /\ (x.at = "checked" \/ x.version = idle[e].version)
          BY <2>1 DEF ControlInv, IdleBindingsTimed
        <4> QED BY <2>1, <3>2, <4>1, <4>2
      <3> QED BY <3>1, <3>2
    <2> QED BY <2>8, <2>9, <2>10, <2>11, <2>12, <2>13 DEF ControlInv
  <1> QED BY <1>3, <1>4

\* What a callback leaves behind when it decides: the callbacks of other bindings and of older schedules of its own.
LEMMA CallerLeaves ==
  ASSUME ControlInv, NEW c \in calls, c.at = "checked", calls' = calls \ {c}, epoch' = epoch,
         DOMAIN idle' = DOMAIN idle \/ DOMAIN idle' = DOMAIN idle \ {c.binding},
         \A d \in DOMAIN idle \ {c.binding} : idle'[d] = idle[d],
         c.binding \in DOMAIN idle' =>
            /\ idle'[c.binding].version \in Nat /\ idle[c.binding].version \in Nat
            /\ \/ idle'[c.binding].version = idle[c.binding].version /\ idle'[c.binding].timer = idle[c.binding].timer
               \/ idle'[c.binding].version = idle[c.binding].version + 1
  PROVE  /\ IsFiniteSet(calls') /\ Cardinality(calls') = Cardinality(calls) - 1 /\ Cardinality(calls) \in Nat /\ Cardinality(calls') \in Nat
         /\ CallSound' /\ service # "done" /\ timers = Armed(idle) + Cardinality(calls) /\ Armed(idle) \in Nat
  <1>1. IsFiniteSet(calls') /\ Cardinality(calls') = Cardinality(calls) - 1 /\ Cardinality(calls) \in Nat /\ Cardinality(calls') \in Nat
    BY FS_RemoveElement, FS_CardinalityType DEF ControlInv, IdleFunction
  <1>2. service # "done" /\ timers = Armed(idle) + Cardinality(calls) /\ Armed(idle) \in Nat
    BY ArmedNat DEF ControlInv, TimersCounted, IdleFunction
  <1>3. CallSound'
    <2> SUFFICES ASSUME NEW x \in calls, x # c
                 PROVE  /\ x.binding.version <= epoch
                        /\ x.binding \in DOMAIN idle' => x.version <= idle'[x.binding].version
                        /\ x.at = "entering" /\ x.binding \in DOMAIN idle' /\ x.version = idle'[x.binding].version
                           => idle'[x.binding].timer = "fired"
                        /\ x.at = "checked" => /\ x.binding \in DOMAIN idle' /\ idle'[x.binding].timer = "none"
                                               /\ idle'[x.binding].deadline # "none"
                        /\ \A y \in calls : x.at = "checked" /\ y.at = "checked" /\ x.binding.scope = y.binding.scope => x = y
      BY DEF CallSound
    <2>1. x.version \in Nat
      BY DEF ControlInv, ControlTypeOK
    <2>2. CASE x.binding = c.binding
      <3>1. x.at # "checked"
        BY <2>2 DEF ControlInv, CallSound
      <3>2. x.binding.version <= epoch /\ x.version <= idle[x.binding].version
            /\ (x.at = "entering" /\ x.version = idle[x.binding].version => idle[x.binding].timer = "fired")
        BY <2>2 DEF ControlInv, CallSound
      <3> QED BY <2>1, <2>2, <3>1, <3>2
    <2>3. CASE x.binding # c.binding
      BY <2>3 DEF ControlInv, CallSound
    <2> QED BY <2>2, <2>3
  <1> QED BY <1>1, <1>2, <1>3

LEMMA ExpireDecideKeeps ==
  ASSUME ControlInv, NEW c \in calls, ExpireDecide(c)
  PROVE  ControlInv'
  <1> DEFINE b == c.binding
  <1>0. /\ c.at = "checked" /\ calls' = calls \ {c} /\ b \in DOMAIN idle /\ idle[b].timer = "none" /\ idle[b].deadline # "none"
        /\ UNCHANGED <<rows, aged, service, work, notices, fork, sweep, world>>
    BY DEF ExpireDecide, ControlInv, CallSound
  <1>1. /\ b \in Bindings /\ b.scope \in Scopes /\ b.session \in Sessions /\ b # Nobody /\ current[b.scope] = b
        /\ idle[b] \in IdleStates /\ idle \in [DOMAIN idle -> IdleStates] /\ IsFiniteSet(DOMAIN idle)
        /\ timers \in Nat
    BY <1>0, TrackedBinding DEF ControlInv, ControlTypeOK, IdleFunction
  <1>2. CASE InUse(b.session)
    <2> DEFINE r == [idle[b] EXCEPT !.deadline = "none"]
    <2>1. idle' = [idle EXCEPT ![b] = r] /\ timers' = timers - 1 /\ UNCHANGED <<current, epoch, caches>>
      BY <1>2 DEF ExpireDecide
    <2>2. r \in IdleStates /\ r.deadline = "none" /\ r.version = idle[b].version /\ r.timer = "none"
      BY <1>0, <1>1 DEF IdleStates
    <2> HIDE DEF r
    <2>3. /\ DOMAIN idle' = DOMAIN idle /\ idle' = [e \in DOMAIN idle |-> idle'[e]] /\ idle'[b] = r
          /\ \A e \in DOMAIN idle \ {b} : idle'[e] = idle[e]
      BY <1>0, <1>1, <2>1
    <2>4. idle[b].version \in Nat
      BY <1>1 DEF IdleStates
    <2>5. /\ IsFiniteSet(calls') /\ Cardinality(calls') = Cardinality(calls) - 1 /\ Cardinality(calls) \in Nat /\ Cardinality(calls') \in Nat
          /\ CallSound' /\ service # "done" /\ timers = Armed(idle) + Cardinality(calls) /\ Armed(idle) \in Nat
      BY <1>0, <2>1, <2>2, <2>3, <2>4, CallerLeaves
    <2>6. ControlTypeOK' /\ IdleFunction'
      BY <1>0, <1>1, <2>1, <2>2, <2>3, <2>5 DEF ControlInv, ControlTypeOK, IdleFunction, IdleStates
    <2>7. BoundSound' /\ TimerSound'
      BY <1>0, <1>1, <2>1, <2>2, <2>3 DEF ControlInv, BoundSound, TimerSound
    <2>8. TimersCounted'
      <3>1. Armed(idle') = Armed(idle)
        BY <1>0, <2>2, <2>3, ArmedEqual
      <3> QED BY <1>0, <2>1, <2>5, <3>1 DEF TimersCounted
    <2>9. TrackedAreCurrent' /\ CachesReleased'
      BY <1>0, <2>1, <2>3 DEF ControlInv, TrackedAreCurrent, CachesReleased, InUse, BoundTo
    <2>10. (NoSilentStop => IdleBindingsTimed)'
      BY <1>0, <1>2, <2>3 DEF ControlInv, NoSilentStop, IdleBindingsTimed, InUse
    <2> QED BY <2>5, <2>6, <2>7, <2>8, <2>9, <2>10 DEF ControlInv
  <1>3. CASE ~InUse(b.session) /\ TooEarly(idle[b])
    <2> DEFINE r == Schedule(b, idle[b])
    <2>1. idle' = [idle EXCEPT ![b] = r] /\ timers' = timers - 1 + Armed(idle') - Armed(idle) /\ UNCHANGED <<current, epoch, caches>>
      BY <1>3 DEF ExpireDecide
    <2>2. r \in IdleStates /\ r.deadline = idle[b].deadline /\ r.version = idle[b].version + 1
          /\ r.timer = IF service = "started" /\ b.scope \in Timed THEN "armed" ELSE "none"
      BY <1>0, <1>1, ScheduleFacts
    <2> HIDE DEF r
    <2>3. /\ DOMAIN idle' = DOMAIN idle /\ idle' = [e \in DOMAIN idle |-> idle'[e]] /\ idle'[b] = r
          /\ \A e \in DOMAIN idle \ {b} : idle'[e] = idle[e]
      BY <1>0, <1>1, <2>1
    <2>4. idle[b].version \in Nat /\ idle[b].version + 1 \in Nat
      BY <1>1 DEF IdleStates
    <2>5. /\ IsFiniteSet(calls') /\ Cardinality(calls') = Cardinality(calls) - 1 /\ Cardinality(calls) \in Nat /\ Cardinality(calls') \in Nat
          /\ CallSound' /\ service # "done" /\ timers = Armed(idle) + Cardinality(calls) /\ Armed(idle) \in Nat
      BY <1>0, <2>1, <2>2, <2>3, <2>4, CallerLeaves
    <2>6. IdleFunction' /\ Armed(idle') \in Nat
      BY <1>1, <2>2, <2>3, <2>5, ArmedNat DEF IdleFunction
    <2>7. ControlTypeOK'
      <3>1. timers' \in Nat
        BY <2>1, <2>5, <2>6
      <3>2. \A e \in DOMAIN idle' : idle'[e] \in [deadline : {"none", "ahead", "past"}, version : Nat, timer : {"none", "armed", "fired"}]
        BY <2>6 DEF IdleFunction, IdleStates
      <3> QED BY <1>0, <2>1, <2>3, <3>1, <3>2 DEF ControlInv, ControlTypeOK
    <2>8. BoundSound' /\ TimerSound'
      BY <1>0, <1>1, <2>1, <2>2, <2>3 DEF ControlInv, BoundSound, TimerSound
    <2>9. TimersCounted'
      BY <1>0, <2>1, <2>5, <2>6 DEF TimersCounted
    <2>10. TrackedAreCurrent' /\ CachesReleased'
      BY <1>0, <2>1, <2>3 DEF ControlInv, TrackedAreCurrent, CachesReleased, InUse, BoundTo
    <2>11. (NoSilentStop => IdleBindingsTimed)'
      BY <1>0, <2>2, <2>3 DEF ControlInv, NoSilentStop, IdleBindingsTimed, InUse
    <2> QED BY <2>5, <2>6, <2>7, <2>8, <2>9, <2>10, <2>11 DEF ControlInv
  <1>4. CASE ~InUse(b.session) /\ ~TooEarly(idle[b])
    <2>1. /\ current' = [current EXCEPT ![b.scope] = Nobody] /\ idle' = Drop({b}) /\ epoch' = epoch
          /\ timers' = timers - 1 + Armed(idle') - Armed(idle) /\ caches' = ReleaseIfIdle(b.session, idle', caches)
      BY <1>4 DEF ExpireDecide
    <2>2. /\ DOMAIN idle' = DOMAIN idle \ {b} /\ idle' = [e \in DOMAIN idle' |-> idle'[e]]
          /\ \A e \in DOMAIN idle \ {b} : idle'[e] = idle[e]
      BY <2>1 DEF Drop
    <2>3. /\ IsFiniteSet(calls') /\ Cardinality(calls') = Cardinality(calls) - 1 /\ Cardinality(calls) \in Nat /\ Cardinality(calls') \in Nat
          /\ CallSound' /\ service # "done" /\ timers = Armed(idle) + Cardinality(calls) /\ Armed(idle) \in Nat
      BY <1>0, <2>1, <2>2, CallerLeaves
    <2>4. IdleFunction' /\ Armed(idle') \in Nat
      <3>1. IsFiniteSet(DOMAIN idle')
        BY <1>1, <2>2, FS_Subset
      <3> QED BY <1>1, <2>2, <2>3, <3>1, ArmedNat DEF IdleFunction
    <2>5. ControlTypeOK'
      <3>1. timers' \in Nat /\ caches' \subseteq caches
        BY <2>1, <2>3, <2>4 DEF ReleaseIfIdle
      <3>2. \A e \in DOMAIN idle' : idle'[e] \in [deadline : {"none", "ahead", "past"}, version : Nat, timer : {"none", "armed", "fired"}]
        BY <2>4 DEF IdleFunction, IdleStates
      <3>3. current' \in [Scopes -> Bindings \cup {Nobody}]
        BY <2>1 DEF ControlInv, ControlTypeOK
      <3> QED BY <1>0, <2>1, <2>2, <3>1, <3>2, <3>3 DEF ControlInv, ControlTypeOK
    <2>6. BoundSound' /\ TimerSound'
      <3>1. BoundSound'
        BY <2>1 DEF ControlInv, ControlTypeOK, BoundSound
      <3> QED BY <1>0, <2>2, <3>1 DEF ControlInv, TimerSound
    <2>7. TimersCounted'
      BY <1>0, <2>1, <2>3, <2>4 DEF TimersCounted
    <2>8. TrackedAreCurrent'
      <3>1. DOMAIN idle = {current[x] : x \in Scopes} \ {Nobody} /\ current \in [Scopes -> Bindings \cup {Nobody}]
        BY DEF ControlInv, ControlTypeOK, TrackedAreCurrent
      <3>2. \A x \in Scopes : x # b.scope => current[x] # b
        BY <1>1 DEF ControlInv, BoundSound
      <3>3. DOMAIN idle' = {current'[x] : x \in Scopes} \ {Nobody}
        <4>1. \A x \in Scopes : current'[x] = IF x = b.scope THEN Nobody ELSE current[x]
          BY <2>1, <3>1
        <4>2. \A e : e \in DOMAIN idle' <=> (e # Nobody /\ e # b /\ \E x \in Scopes : current[x] = e)
          BY <2>2, <3>1
        <4>3. \A e : e \in {current'[x] : x \in Scopes} \ {Nobody} <=> (e # Nobody /\ \E x \in Scopes : x # b.scope /\ current[x] = e)
          BY <4>1
        <4> QED BY <1>1, <3>2, <4>2, <4>3
      <3> QED BY <1>0, <2>2, <3>3 DEF ControlInv, TrackedAreCurrent
    <2>9. CachesReleased'
      <3> SUFFICES ASSUME service = "started", NEW s \in caches', ~InUse(s), s \notin notices
                   PROVE  \E e \in DOMAIN idle' : e.session = s
        BY <1>0 DEF CachesReleased, InUse, BoundTo
      <3>1. s \in caches
        BY <2>1 DEF ReleaseIfIdle
      <3>2. PICK e \in DOMAIN idle : e.session = s
        BY <3>1 DEF ControlInv, CachesReleased, BoundTo
      <3>3. CASE s = b.session
        BY <2>1, <3>3 DEF ReleaseIfIdle
      <3>4. CASE s # b.session
        BY <2>2, <3>2, <3>4
      <3> QED BY <3>3, <3>4
    <2>10. (NoSilentStop => IdleBindingsTimed)'
      BY <1>0, <2>2 DEF ControlInv, NoSilentStop, IdleBindingsTimed, InUse
    <2> QED BY <2>3, <2>4, <2>5, <2>6, <2>7, <2>8, <2>9, <2>10 DEF ControlInv
  <1> QED BY <1>2, <1>3, <1>4

\* The shutdown stops every timer; callbacks that started find the service closed.
LEMMA BeginCloseKeeps ==
  ASSUME ControlInv, BeginClose
  PROVE  ControlInv'
  <1> DEFINE f == [b \in DOMAIN idle |-> StopTimer(idle[b])]
  <1>0. /\ service = "started" /\ service' = "closed" /\ idle' = f /\ Retimed(f)
        /\ UNCHANGED <<rows, aged, current, epoch, calls, work, notices, caches, fork, sweep, world>>
    BY DEF BeginClose
  <1>1. DOMAIN idle' = DOMAIN idle /\ idle' = [b \in DOMAIN idle |-> idle'[b]] /\ Retimed(idle')
        /\ \A b \in DOMAIN idle : idle'[b] = StopTimer(idle[b])
    BY <1>0
  <1> HIDE DEF f
  <1>2. \A b \in DOMAIN idle : idle'[b] \in IdleStates /\ idle'[b].version = idle[b].version + 1
                               /\ idle'[b].timer = "none" /\ idle'[b].deadline = idle[b].deadline
    <2> SUFFICES ASSUME NEW b \in DOMAIN idle
                 PROVE  idle'[b] \in IdleStates /\ idle'[b].version = idle[b].version + 1
                        /\ idle'[b].timer = "none" /\ idle'[b].deadline = idle[b].deadline
      OBVIOUS
    <2>1. idle[b] \in IdleStates /\ idle'[b] = StopTimer(idle[b])
      BY <1>1, TrackedBinding
    <2> QED BY <2>1, ScheduleFacts
  <1> DEFINE R == DOMAIN idle
  <1>3. \A b \in DOMAIN idle \cap R :
            /\ idle'[b] \in IdleStates /\ idle'[b].version = idle[b].version + 1
            /\ idle'[b].timer # "none" => idle'[b].timer = "armed" /\ idle'[b].deadline # "none" /\ service' = "started"
            /\ Holding(b) => idle'[b].timer = "none" /\ idle'[b].deadline = idle[b].deadline
    BY <1>2
  <1>4. (\A b \in DOMAIN idle \ R : idle'[b] = idle[b]) /\ (service' = service \/ DOMAIN idle \subseteq R)
        /\ UNCHANGED <<current, epoch, calls>>
    BY <1>0
  <1> HIDE DEF R
  <1>5. IdleFunction' /\ BoundSound' /\ CallSound' /\ TimerSound' /\ timers' = Armed(idle') + Cardinality(calls')
    BY ONLY ControlInv, <1>1, <1>3, <1>4, TimersRestarted
  <1>6. ControlTypeOK'
    <2>1. timers' \in Nat
      <3>1. Armed(idle') \in Nat /\ Cardinality(calls') \in Nat
        BY <1>5, ArmedNat, FS_CardinalityType DEF IdleFunction
      <3> QED BY <1>5, <3>1
    <2>2. \A e \in DOMAIN idle' : idle'[e] \in [deadline : {"none", "ahead", "past"}, version : Nat, timer : {"none", "armed", "fired"}]
      BY <1>1, <1>2 DEF IdleStates
    <2> QED BY <1>0, <1>1, <2>1, <2>2 DEF ControlInv, ControlTypeOK
  <1>7. TimersCounted' /\ CachesReleased' /\ (NoSilentStop => IdleBindingsTimed)'
    BY <1>0, <1>5 DEF TimersCounted, CachesReleased, IdleBindingsTimed
  <1>8. TrackedAreCurrent'
    BY <1>0, <1>1 DEF ControlInv, TrackedAreCurrent
  <1> QED BY <1>5, <1>6, <1>7, <1>8 DEF ControlInv

LEMMA ControlInitKeeps ==
  ASSUME ControlInit
  PROVE  ControlInv
  <1> USE DEF ControlInit
  <1>1. IsFiniteSet(DOMAIN idle) /\ IsFiniteSet(calls) /\ Cardinality(calls) = 0 /\ DOMAIN idle = {}
    BY FS_EmptySet
  <1>2. ControlTypeOK
    BY <1>1, ControlAssumption DEF ControlTypeOK, Kinds, NoFork
  <1>3. Armed(idle) = 0
    <2>1. {b \in DOMAIN idle : idle[b].timer = "armed"} = {}
      BY <1>1
    <2> QED BY <2>1, FS_EmptySet DEF Armed
  <1>4. IdleFunction /\ BoundSound /\ CallSound /\ TimerSound
    BY <1>1 DEF IdleFunction, BoundSound, CallSound, TimerSound
  <1>5. TimersCounted /\ TrackedAreCurrent /\ CachesReleased /\ IdleBindingsTimed
    BY <1>1, <1>3 DEF TimersCounted, TrackedAreCurrent, CachesReleased, IdleBindingsTimed
  <1> QED BY <1>2, <1>4, <1>5 DEF ControlInv

LEMMA ControlStepKeeps ==
  ASSUME ControlInv, [ControlNext]_controlVars
  PROVE  ControlInv'
  <1>1. CASE UNCHANGED controlVars
    <2> USE <1>1 DEF controlVars, ControlInv
    <2>1. ControlTypeOK'
      BY DEF ControlTypeOK
    <2>2. IdleFunction' /\ BoundSound' /\ CallSound' /\ TimerSound' /\ TimersCounted'
      BY TimersRest
    <2>3. TrackedAreCurrent' /\ CachesReleased'
      BY DEF TrackedAreCurrent, CachesReleased, InUse, BoundTo
    <2>4. (NoSilentStop => IdleBindingsTimed)'
      BY DEF NoSilentStop, IdleBindingsTimed, InUse
    <2> QED BY <2>1, <2>2, <2>3, <2>4
  <1>2. CASE \E sc \in Scopes : ResetCurrent(sc)
    BY <1>2, ResetCurrentKeeps
  <1>3. CASE \E sc \in Scopes, s \in Sessions : CreateSession(sc, s)
    BY <1>3, CreateSessionKeeps
  <1>4. CASE \E sc \in Scopes, s \in Sessions : ActivateExisting(sc, s)
    BY <1>4, ActivateExistingKeeps
  <1>5. CASE \E sc \in Scopes, s \in Sessions : DeleteSession(sc, s)
    BY <1>5, DeleteSessionKeeps
  <1>6. CASE \E sc \in Scopes, s \in Sessions : Compact(sc, s)
    BY <1>6, CompactKeeps
  <1>7. CASE \E sc \in Scopes, s \in Sessions, op \in {"fork", "copy"} : ForkCapture(op, sc, s)
    BY <1>7, ForkCaptureKeeps
  <1>8. CASE ForkAbandon \/ ListExpired \/ BeginClose \/ Close
    BY <1>8, ForkAbandonKeeps, ListExpiredKeeps, BeginCloseKeeps, CloseKeeps
  <1>9. CASE \E s \in Sessions : PrepareBackground(s) \/ Age(s) \/ CleanupExpired(s)
    BY <1>9, PrepareBackgroundKeeps, AgeKeeps, CleanupExpiredKeeps
  <1>10. CASE \E s \in Sessions : ForkCommit(s) \/ CopyCommit(s)
    BY <1>10, ForkCommitKeeps, CopyCommitKeeps
  <1>11. CASE \E s \in Sessions : Pause(s) \/ SessionIdle(s)
    BY <1>11, PauseKeeps, SessionIdleKeeps
  <1>12. CASE \E s \in Sessions, kind \in {"turn", "hook"} : BeginWork(s, kind) \/ EndWork(s, kind)
    BY <1>12, BeginWorkKeeps, EndWorkKeeps
  <1>13. CASE \E b \in DOMAIN idle : RecordActivity(b) \/ ResumeAppend(b) \/ StopPaused(b)
    BY <1>13, RecordActivityKeeps, ResumeAppendKeeps, StopPausedKeeps
  <1>14. CASE \E b \in DOMAIN idle : Elapse(b) \/ FireTimer(b)
    BY <1>14, ElapseKeeps, FireTimerKeeps
  <1>15. CASE \E c \in calls : ExpireEnter(c) \/ ExpireDecide(c)
    BY <1>15, ExpireEnterKeeps, ExpireDecideKeeps
  <1> QED BY <1>1, <1>2, <1>3, <1>4, <1>5, <1>6, <1>7, <1>8, <1>9, <1>10, <1>11, <1>12, <1>13, <1>14, <1>15 DEF ControlNext

\* Every state of the session service satisfies the inductive invariant.
THEOREM SessionControlInductive == ControlSpec => []ControlInv
  <1>1. ControlInit => ControlInv
    BY ControlInitKeeps
  <1>2. ControlInv /\ [ControlNext]_controlVars => ControlInv'
    BY ControlStepKeeps
  <1> QED BY <1>1, <1>2, PTL DEF ControlSpec

\* The WaitGroup counts the armed timers and the callbacks that have not returned, whatever is created, refreshed,
\* replaced, expired or shut down meanwhile: Close returns after the last of them (control/expiration.go).
THEOREM SessionTimersCounted == ControlSpec => []TimersCounted
  <1>1. ControlInv => TimersCounted
    BY DEF ControlInv
  <1> QED BY <1>1, SessionControlInductive, PTL

\* The index of the timers, the bindings and the rows agree: no timer is kept for a binding that was replaced, and
\* none is missing (control/expiration.go: trackBinding, forgetBinding).
THEOREM SessionTrackedAreCurrent == ControlSpec => []TrackedAreCurrent
  <1>1. ControlInv => TrackedAreCurrent
    BY DEF ControlInv
  <1> QED BY <1>1, SessionControlInductive, PTL

\* What is kept in memory for a session goes with the last of its executions and bindings (releaseSessionIfIdle).
THEOREM SessionCachesReleased == ControlSpec => []CachesReleased
  <1>1. ControlInv => CachesReleased
    BY DEF ControlInv
  <1> QED BY <1>1, SessionControlInductive, PTL

\* Where no /stop ends a paused execution behind the session service's back, every idle binding that expires at all has
\* its timer running, or a callback of it on the way (control/expiration.go: SessionIdle).
THEOREM SessionIdleTimed ==
  ASSUME "stop" \notin UNION Worlds
  PROVE  ControlSpec => []IdleBindingsTimed
  <1>1. ControlInv => IdleBindingsTimed
    BY DEF ControlInv, ControlTypeOK, NoSilentStop
  <1> QED BY <1>1, SessionControlInductive, PTL

\* A step retires a held binding only after its deadline.
LEMMA ExpiresLate ==
  ControlInv /\ [ControlNext]_controlVars =>
    [\A b \in DOMAIN idle : Holding(b) /\ b \notin DOMAIN idle' => idle[b].deadline = "past"]_controlVars
  <1> SUFFICES ASSUME ControlInv, ControlNext, NEW b \in DOMAIN idle, Holding(b), b \notin DOMAIN idle'
               PROVE  idle[b].deadline = "past"
    OBVIOUS
  <1>0. PICK h \in calls : h.at = "checked" /\ h.binding = b
    BY DEF Holding
  <1>1. /\ b.scope \in Scopes /\ b.session \in Sessions /\ current[b.scope] = b /\ b # Nobody /\ idle[b] \in IdleStates
        /\ idle[b].deadline # "none"
    BY <1>0, TrackedBinding DEF ControlInv, CallSound
  <1>2. ~FreeScope(b.scope) /\ ~FreeSession(b.session)
    BY <1>0 DEF FreeScope, FreeSession
  <1>3. \A sc \in Scopes, t \in Sessions \cup {Nobody} : FreeScope(sc) /\ SetCurrent(sc, t) => FALSE
    <2> SUFFICES ASSUME NEW sc \in Scopes, NEW t \in Sessions \cup {Nobody}, FreeScope(sc), SetCurrent(sc, t) PROVE FALSE
      OBVIOUS
    <2>1. current[sc] # b
      BY <1>1, <1>2 DEF ControlInv, BoundSound
    <2> QED BY <2>1, SwitchCases DEF Unswitched, Unbound, Rebound
  <1>4. \A s \in Sessions : FreeSession(s) /\ ClearSessionBindings(s) => FALSE
    BY <1>2 DEF ClearSessionBindings, Drop, BoundTo
  <1>5. PICK c \in calls : ExpireDecide(c)
    <2>1. DOMAIN idle' # DOMAIN idle
      OBVIOUS
    <2>1a. ASSUME NEW sc \in Scopes PROVE ~ResetCurrent(sc)
      BY <1>3 DEF ResetCurrent, Activatable
    <2>2. ASSUME NEW sc \in Scopes, NEW s \in Sessions
          PROVE  ~(CreateSession(sc, s) \/ ActivateExisting(sc, s) \/ Compact(sc, s))
      BY <1>3 DEF CreateSession, ActivateExisting, Compact, Activatable
    <2>3. ASSUME NEW s \in Sessions PROVE ~ForkCommit(s)
      BY <1>3 DEF ForkCommit, Activatable, ControlInv, ControlTypeOK, Forks
    <2>4. ASSUME NEW sc \in Scopes, NEW s \in Sessions PROVE ~DeleteSession(sc, s)
      BY <1>4 DEF DeleteSession, Activatable
    <2>5. ASSUME NEW s \in Sessions PROVE ~CleanupExpired(s)
      BY <1>4 DEF CleanupExpired
    <2>6. ASSUME NEW s \in Sessions PROVE ~(PrepareBackground(s) \/ Age(s) \/ CopyCommit(s) \/ Pause(s))
      BY DEF PrepareBackground, Age, CopyCommit, Pause
    <2>6a. ASSUME NEW s \in Sessions, NEW sc \in Scopes, NEW op \in {"fork", "copy"} PROVE ~ForkCapture(op, sc, s)
      BY DEF ForkCapture
    <2>7. ASSUME NEW s \in Sessions, NEW kind \in {"turn", "hook"} PROVE ~(BeginWork(s, kind) \/ EndWork(s, kind))
      BY DEF BeginWork, EndWork
    <2>8. ~(ForkAbandon \/ ListExpired \/ Close)
      BY DEF ForkAbandon, ListExpired, Close
    <2>9. ~BeginClose
      BY DEF BeginClose
    <2>10. ASSUME NEW d \in DOMAIN idle PROVE ~(RecordActivity(d) \/ ResumeAppend(d) \/ StopPaused(d) \/ Elapse(d) \/ FireTimer(d))
      BY DEF RecordActivity, ResumeAppend, StopPaused, Elapse, FireTimer
    <2>11. ASSUME NEW s \in Sessions PROVE ~SessionIdle(s)
      BY DEF SessionIdle
    <2>12. ASSUME NEW c \in calls PROVE ~ExpireEnter(c)
      BY DEF ExpireEnter
    <2> QED BY <2>1a, <2>2, <2>3, <2>4, <2>5, <2>6, <2>6a, <2>7, <2>8, <2>9, <2>10, <2>11, <2>12 DEF ControlNext
  <1>6. c.binding = b
    BY <1>5 DEF ExpireDecide, Drop
  <1>7. ~TooEarly(idle[b])
    BY <1>5, <1>6 DEF ExpireDecide
  <1> QED BY <1>1, <1>7 DEF TooEarly, IdleStates

\* A timer retires a binding only after the deadline that the last activity set: a callback of an earlier schedule, or
\* one that a change of the clock let start early, does not (expireBinding).
THEOREM SessionExpiresLate == ControlSpec => ExpiresAfterDeadline
  <1> DEFINE Late == \A b \in DOMAIN idle : Holding(b) /\ b \notin DOMAIN idle' => idle[b].deadline = "past"
  <1>1. ControlInv /\ [ControlNext]_controlVars => [Late]_controlVars
    BY ExpiresLate
  <1>2. ControlSpec => [][Late]_controlVars
    BY <1>1, SessionControlInductive, PTL DEF ControlSpec
  <1> QED BY <1>2 DEF ExpiresAfterDeadline

\* A step moves the binding of a session in use only with its turn.
LEMMA BusyKept ==
  ControlInv /\ [ControlNext]_controlVars =>
    [\A sc \in Scopes :
       current[sc] # Nobody /\ InUse(current[sc].session) /\ current'[sc] # current[sc]
       => current'[sc] # Nobody /\ "turn" \in work'[current'[sc].session]]_controlVars
  <1> DEFINE Moved(sc) == current[sc] # Nobody /\ InUse(current[sc].session) /\ current'[sc] # current[sc]
             Taken(sc) == current'[sc] # Nobody /\ "turn" \in work'[current'[sc].session]
  <1> SUFFICES ASSUME ControlInv, ControlNext, NEW x \in Scopes, Moved(x) PROVE Taken(x)
    OBVIOUS
  <1>1. /\ current[x] # Nobody /\ InUse(current[x].session) /\ current[x].session \in Sessions /\ current[x].session # Nobody
        /\ current[x] \in DOMAIN idle
    BY TrackedBinding, NobodyAssumption
  <1>2. ASSUME NEW sc \in Scopes, NEW t \in Sessions \cup {Nobody}, SetCurrent(sc, t)
        PROVE  x = sc /\ current[x].session # t
    <2>1. current \in [Scopes -> Bindings \cup {Nobody}]
      BY DEF ControlInv, ControlTypeOK
    <2>2. ~Unswitched(sc, t)
      BY DEF Unswitched
    <2>3. x = sc
      <3>1. PICK v : current' = [current EXCEPT ![sc] = v]
        BY <1>2, <2>2, SwitchCases DEF Unbound, Rebound
      <3> QED BY <2>1, <3>1
    <2> QED BY <1>1, <1>2, <2>3 DEF SetCurrent
  <1>3. ASSUME NEW sc \in Scopes, CanReplaceCurrent(sc, Nobody) PROVE x # sc
    BY <1>1, <1>3 DEF CanReplaceCurrent
  <1>4. ASSUME NEW s \in Sessions, ClearSessionBindings(s) PROVE current[x].session = s
    BY <1>4 DEF ClearSessionBindings
  <1>4a. ASSUME NEW sc \in Scopes PROVE ~ResetCurrent(sc)
    BY <1>2, <1>3 DEF ResetCurrent
  <1>5. ASSUME NEW sc \in Scopes, NEW s \in Sessions
        PROVE  ~(CreateSession(sc, s) \/ ActivateExisting(sc, s))
    BY <1>1, <1>2, <1>3 DEF CreateSession, ActivateExisting, CanReplaceCurrent
  <1>6. ASSUME NEW s \in Sessions PROVE ~ForkCommit(s)
    BY <1>2, <1>3 DEF ForkCommit, ControlInv, ControlTypeOK, Forks
  <1>7. ASSUME NEW sc \in Scopes, NEW s \in Sessions PROVE ~DeleteSession(sc, s)
    BY <1>1, <1>4 DEF DeleteSession
  <1>7a. ASSUME NEW s \in Sessions PROVE ~CleanupExpired(s)
    BY <1>1, <1>4 DEF CleanupExpired
  <1>8. ASSUME NEW sc \in Scopes, NEW s \in Sessions, Compact(sc, s) PROVE Taken(x)
    <2>1. SetCurrent(sc, s) /\ work' = [work EXCEPT ![s] = @ \cup {"turn"}] /\ work \in [Sessions -> SUBSET Works]
          /\ FreeScope(sc) /\ UNCHANGED <<calls, service>>
      BY <1>8 DEF Compact, Activatable, ControlInv, ControlTypeOK
    <2>2. x = sc /\ s # Nobody
      BY <1>2, <2>1, NobodyAssumption
    <2>3. current'[x] # Nobody /\ current'[x].session = s
      BY <2>1, <2>2, SwitchKeeps
    <2> QED BY <2>1, <2>3
  <1>9. ASSUME NEW c \in calls PROVE ~ExpireDecide(c)
    <2> SUFFICES ASSUME ExpireDecide(c) PROVE FALSE
      OBVIOUS
    <2>1. current' = [current EXCEPT ![c.binding.scope] = Nobody] /\ ~InUse(c.binding.session)
      BY DEF ExpireDecide
    <2>2. c.binding \in DOMAIN idle
      BY DEF ExpireDecide, ControlInv, CallSound
    <2>3. current[c.binding.scope] = c.binding
      BY <2>2, TrackedBinding
    <2> QED BY <1>1, <2>1, <2>3 DEF ControlInv, ControlTypeOK
  <1>10. ASSUME NEW s \in Sessions PROVE ~(PrepareBackground(s) \/ Age(s) \/ CopyCommit(s) \/ Pause(s) \/ SessionIdle(s))
    BY DEF PrepareBackground, Age, CopyCommit, Pause, SessionIdle
  <1>10a. ASSUME NEW s \in Sessions, NEW sc \in Scopes, NEW op \in {"fork", "copy"} PROVE ~ForkCapture(op, sc, s)
    BY DEF ForkCapture
  <1>11. ASSUME NEW s \in Sessions, NEW kind \in {"turn", "hook"} PROVE ~(BeginWork(s, kind) \/ EndWork(s, kind))
    BY DEF BeginWork, EndWork
  <1>12. ~(ForkAbandon \/ ListExpired \/ Close \/ BeginClose)
    BY DEF ForkAbandon, ListExpired, Close, BeginClose
  <1>13. ASSUME NEW d \in DOMAIN idle PROVE ~(RecordActivity(d) \/ ResumeAppend(d) \/ StopPaused(d) \/ Elapse(d) \/ FireTimer(d))
    BY DEF RecordActivity, ResumeAppend, StopPaused, Elapse, FireTimer
  <1>14. ASSUME NEW c \in calls PROVE ~ExpireEnter(c)
    BY DEF ExpireEnter
  <1> HIDE DEF Taken, Moved
  <1> QED BY <1>4a, <1>5, <1>6, <1>7, <1>7a, <1>8, <1>9, <1>10, <1>10a, <1>11, <1>12, <1>13, <1>14 DEF ControlNext

\* A session in use keeps its binding; only a compaction moves it, and the turn with it (canReplaceCurrent, CreateCompacted).
THEOREM SessionBusyKept == ControlSpec => BusyKeepsBinding
  <1> DEFINE Moved(sc) == current[sc] # Nobody /\ InUse(current[sc].session) /\ current'[sc] # current[sc]
             Taken(sc) == current'[sc] # Nobody /\ "turn" \in work'[current'[sc].session]
  <1>1. ControlInv /\ [ControlNext]_controlVars => [\A sc \in Scopes : Moved(sc) => Taken(sc)]_controlVars
    BY BusyKept
  <1>2. ControlSpec => [][\A sc \in Scopes : Moved(sc) => Taken(sc)]_controlVars
    BY <1>1, SessionControlInductive, PTL DEF ControlSpec
  <1> QED BY <1>2 DEF BusyKeepsBinding

=============================================================================
