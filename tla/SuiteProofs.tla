---------------------------- MODULE SuiteProofs ----------------------------
(***************************************************************************)
(* What the theorems about single components say of the suite that TLC     *)
(* runs: a step of the suite is a step of one part, and the others rest.   *)
(***************************************************************************)
EXTENDS MCComponents, SessionsProofs, BackgroundProofs, HostsProofs, PlatformsProofs

MediaPartInv == part = "media" => MediaObjectInv

\* A step of the suite, seen by the part "media".
LEMMA MediaPart == [SuiteNext]_suiteVars => part' = part /\ (part = "media" => [MediaObjectNext]_objectVars)
  BY DEF SuiteNext, Only, suiteVars, objectVars

\* Media objects: the invariants of the part hold for every number of callers and every bound.
THEOREM SuiteMediaSafe == SuiteSpec => []MediaSafe
  <1>1. SuiteInit => MediaPartInv
    BY MediaObjectInitKeeps DEF SuiteInit, MediaPartInv
  <1>2. MediaPartInv /\ [SuiteNext]_suiteVars => MediaPartInv'
    BY MediaPart, MediaObjectStepKeeps DEF MediaPartInv
  <1>3. MediaPartInv => MediaSafe
    BY DEF MediaSafe, MediaObjectInv, MediaObjectSafe, MediaPartInv
  <1> QED BY <1>1, <1>2, <1>3, PTL DEF SuiteSpec

ControlPartInv == part = "control" => ControlInv
NamingPartInv == part = "naming" => NamingInv

\* A step of the suite, seen by the parts "control" and "naming".
LEMMA SessionParts ==
    [SuiteNext]_suiteVars => /\ part' = part
                             /\ part = "control" => [ControlNext]_controlVars
                             /\ part = "naming" => [NamingNext]_namingVars
  BY DEF SuiteNext, Only, suiteVars, controlVars, namingVars

\* Sessions: the invariants of both parts hold for every number of scopes, sessions and waiters and every bound,
\* where no /stop ends a paused execution behind the session service's back.
THEOREM SuiteSessionsSafe ==
  ASSUME "stop" \notin UNION Worlds
  PROVE  SuiteSpec => []SessionsSafe
  <1>1. SuiteInit => ControlPartInv /\ NamingPartInv
    BY ControlInitKeeps, NamingInitKeeps DEF SuiteInit, ControlPartInv, NamingPartInv
  <1>2. ControlPartInv /\ NamingPartInv /\ [SuiteNext]_suiteVars => ControlPartInv' /\ NamingPartInv'
    BY SessionParts, ControlStepKeeps, NamingStepKeeps DEF ControlPartInv, NamingPartInv
  <1>3. ControlPartInv /\ NamingPartInv => SessionsSafe
    BY DEF SessionsSafe, ControlPartInv, NamingPartInv, ControlInv, NamingInv, NoSilentStop, ControlTypeOK
  <1> QED BY <1>1, <1>2, <1>3, PTL DEF SuiteSpec

DeliveryPartInv == part = "delivery" => CronInv
ManagerPartInv == part = "manager" => ManagerInv
ElnisPartInv == part = "elnis" => ElnisInv

\* A step of the suite, seen by the parts "delivery", "manager" and "elnis".
LEMMA BackgroundParts ==
    [SuiteNext]_suiteVars => /\ part' = part
                             /\ part = "delivery" => [CronNext]_cronVars
                             /\ part = "manager" => [ManagerNext]_managerVars
                             /\ part = "elnis" => [ElnisNext]_elnisVars
  BY DEF SuiteNext, Only, suiteVars, cronVars, managerVars, elnisVars

\* Background work: the invariants of the three parts hold for every number of platforms, outputs, jobs, requests and
\* workers and every bound.
THEOREM SuiteBackgroundSafe == SuiteSpec => []BackgroundSafe
  <1>1. SuiteInit => DeliveryPartInv /\ ManagerPartInv /\ ElnisPartInv
    BY CronInitKeeps, ManagerInitKeeps, ElnisInitKeeps DEF SuiteInit, DeliveryPartInv, ManagerPartInv, ElnisPartInv
  <1>2. DeliveryPartInv /\ ManagerPartInv /\ ElnisPartInv /\ [SuiteNext]_suiteVars
           => DeliveryPartInv' /\ ManagerPartInv' /\ ElnisPartInv'
    BY BackgroundParts, CronStepKeeps, ManagerStepKeeps, ElnisStepKeeps DEF DeliveryPartInv, ManagerPartInv, ElnisPartInv
  <1>3. DeliveryPartInv /\ ManagerPartInv /\ ElnisPartInv => BackgroundSafe
    BY CronInvSafe, ManagerInvSafe, ElnisInvSafe DEF BackgroundSafe, DeliveryPartInv, ManagerPartInv, ElnisPartInv
  <1> QED BY <1>1, <1>2, <1>3, PTL DEF SuiteSpec

ChatPartsInv ==
    /\ part = "transport" => TransportInv
    /\ part = "onebot" => OneBotInv
    /\ part = "gateway" => GatewayInv
    /\ part = "qqclient" => QQClientInv
    /\ part = "telegram" => TelegramInv
    /\ part = "cli" => CliInv

\* A step of the suite, seen by the parts of the platforms.
LEMMA ChatParts ==
    [SuiteNext]_suiteVars => /\ part' = part
                             /\ part = "transport" => [TransportNext]_transportVars
                             /\ part = "onebot" => [OneBotNext]_oneBotVars
                             /\ part = "gateway" => [QQNext]_qqVars
                             /\ part = "qqclient" => [QQClientNext]_clientVars
                             /\ part = "telegram" => [TelegramNext]_tgVars
                             /\ part = "cli" => [CliNext]_cliVars
  BY DEF SuiteNext, Only, suiteVars, transportVars, oneBotVars, qqVars, clientVars, tgVars, cliVars

\* Platforms: the invariants of the six parts hold for every number of calls, sockets, messages, updates, posts,
\* connections and tasks and every bound.
THEOREM SuitePlatformsSafe == SuiteSpec => []PlatformsSafe
  <1>1. SuiteInit => ChatPartsInv
    BY TransportInitKeeps, OneBotInitKeeps, GatewayInitKeeps, QQClientInitKeeps, TelegramInitKeeps, CliInitKeeps
    DEF SuiteInit, ChatPartsInv
  <1>2. ChatPartsInv /\ [SuiteNext]_suiteVars => ChatPartsInv'
    BY ChatParts, TransportStepKeeps, OneBotStepKeeps, GatewayStepKeeps, QQClientStepKeeps, TelegramStepKeeps, CliStepKeeps
    DEF ChatPartsInv
  <1>3. ChatPartsInv => PlatformsSafe
    BY TransportSafe, OneBotSafe, GatewaySafe, QQClientSafe, TelegramSafe, CliSafe DEF PlatformsSafe, ChatPartsInv
  <1> QED BY <1>1, <1>2, <1>3, PTL DEF SuiteSpec

LeasePartInv == part = "lease" => LeaseInv
BusPartInv == part = "bus" => BusInv
RoutePartInv == part = "routes" => RouteInv

\* A step of the suite, seen by the parts "lease", "bus" and "routes".
LEMMA HostParts ==
    [SuiteNext]_suiteVars => /\ part' = part
                             /\ part = "lease" => [MediaNext]_mediaVars
                             /\ part = "bus" => [BusNext]_busVars
                             /\ part = "routes" => [RoutesNext]_routesVars
  BY DEF SuiteNext, Only, suiteVars, mediaVars, busVars, routesVars

\* Where a part does not run, its variables rest.
LEMMA OthersRest ==
    [SuiteNext]_suiteVars => /\ part # "control" => UNCHANGED controlVars
                             /\ part # "naming" => UNCHANGED namingVars
                             /\ part # "delivery" => UNCHANGED cronVars
                             /\ part # "elnis" => UNCHANGED elnisVars
                             /\ part # "lease" => UNCHANGED mediaVars
                             /\ part # "bus" => UNCHANGED busVars
                             /\ part # "routes" => UNCHANGED routesVars
                             /\ part # "media" => UNCHANGED objectVars
  BY DEF SuiteNext, Only, suiteVars

\* The inductive invariants of the parts whose steps ServiceSteps speaks of.
ServiceInv ==
    /\ MediaPartInv /\ ControlPartInv /\ NamingPartInv /\ DeliveryPartInv /\ ElnisPartInv
    /\ LeasePartInv /\ BusPartInv /\ RoutePartInv

LEMMA ServiceInductive == SuiteSpec => []ServiceInv
  <1>1. SuiteInit => ServiceInv
    BY MediaObjectInitKeeps, ControlInitKeeps, NamingInitKeeps, CronInitKeeps, ElnisInitKeeps,
       LeaseInitKeeps, BusInitKeeps, RouteInitKeeps
    DEF SuiteInit, ServiceInv, MediaPartInv, ControlPartInv, NamingPartInv, DeliveryPartInv, ElnisPartInv,
        LeasePartInv, BusPartInv, RoutePartInv
  <1>2. ServiceInv /\ [SuiteNext]_suiteVars => ServiceInv'
    <2> SUFFICES ASSUME ServiceInv, [SuiteNext]_suiteVars PROVE ServiceInv'
      OBVIOUS
    <2>1. MediaPartInv'
      BY MediaPart, MediaObjectStepKeeps DEF ServiceInv, MediaPartInv
    <2>2. ControlPartInv' /\ NamingPartInv'
      BY SessionParts, ControlStepKeeps, NamingStepKeeps DEF ServiceInv, ControlPartInv, NamingPartInv
    <2>3. DeliveryPartInv' /\ ElnisPartInv'
      BY BackgroundParts, CronStepKeeps, ElnisStepKeeps DEF ServiceInv, DeliveryPartInv, ElnisPartInv
    <2>4. LeasePartInv' /\ BusPartInv' /\ RoutePartInv'
      BY HostParts, LeaseStepKeeps, BusStepKeeps, RouteStepKeeps DEF ServiceInv, LeasePartInv, BusPartInv, RoutePartInv
    <2> QED BY <2>1, <2>2, <2>3, <2>4 DEF ServiceInv
  <1> QED BY <1>1, <1>2, PTL DEF SuiteSpec

\* No step of the suite retires a binding in use or before its deadline, renames what a user named, sends a report
\* again, disables a job that is not delivered, leaves a final status, replaces a result, acts on a stale timer, or
\* prunes or reclaims early, for every value of the constants.
THEOREM SuiteServiceSteps == SuiteSpec => ServiceSteps
  <1>1. SuiteSpec => BusyKeepsBinding /\ ExpiresAfterDeadline
    <2>1. ServiceInv /\ [SuiteNext]_suiteVars =>
            /\ [\A sc \in Scopes :
                  current[sc] # Nobody /\ InUse(current[sc].session) /\ current'[sc] # current[sc]
                  => current'[sc] # Nobody /\ "turn" \in work'[current'[sc].session]]_controlVars
            /\ [\A b \in DOMAIN idle : Holding(b) /\ b \notin DOMAIN idle' => idle[b].deadline = "past"]_controlVars
      BY SessionParts, OthersRest, BusyKept, ExpiresLate DEF ServiceInv, ControlPartInv
    <2> QED BY <2>1, ServiceInductive, PTL DEF SuiteSpec, BusyKeepsBinding, ExpiresAfterDeadline
  <1>2. SuiteSpec => TitleKept
    <2>1. ServiceInv /\ [SuiteNext]_suiteVars =>
            [\A s \in Named : title'[s] \in {"auto", "fallback"} => title[s] \in {"initial", title'[s]}]_namingVars
      BY SessionParts, OthersRest, TitlesKept DEF ServiceInv, NamingPartInv
    <2> QED BY <2>1, ServiceInductive, PTL DEF SuiteSpec, TitleKept
  <1>3. SuiteSpec => NoResend /\ DisabledWhenDelivered
    <2>1. ServiceInv /\ [SuiteNext]_suiteVars =>
            [\A w \in Workers :
               deliverer[w].at = "send" /\ deliverer'[w].at = "persist" /\ row.state.run = deliverer[w].state.run =>
                  ~DeliveryStatusDone(row.state.done[deliverer[w].to][OutputIDs[deliverer[w].out]])]_cronVars
      BY BackgroundParts, OthersRest, SendIsNew DEF ServiceInv, DeliveryPartInv
    <2>2. ServiceInv /\ [SuiteNext]_suiteVars =>
            [\A w \in Workers :
               deliverer[w].at = "disable" /\ deliverer'[w].at = "rest" /\ row.enabled /\ ~row'.enabled =>
                  \/ row.state.version # row.version
                  \/ row.state.run \in foreground
                  \/ \A p \in Targets(row), o \in row.state.outputs : <<row.state.run, p, o>> \in sent]_cronVars
      BY BackgroundParts, OthersRest, DisablingStep, DisabledIsDelivered DEF ServiceInv, DeliveryPartInv
    <2> QED BY <2>1, <2>2, ServiceInductive, PTL DEF SuiteSpec, NoResend, DisabledWhenDelivered
  <1>4. SuiteSpec => FinalStays
    <2>1. ServiceInv /\ [SuiteNext]_suiteVars => [\A k \in Keys : event[k] \in Final => event'[k] = event[k]]_elnisVars
      BY BackgroundParts, OthersRest, FinalStaysFinal DEF ServiceInv, ElnisPartInv
    <2> QED BY <2>1, ServiceInductive, PTL DEF SuiteSpec, FinalStays
  <1>5. SuiteSpec => ResultsKept
    <2>1. ServiceInv /\ [SuiteNext]_suiteVars =>
            [\A i \in Items : item[i].result # "none" => item'[i].result = item[i].result]_busVars
      BY HostParts, OthersRest, BusStepKeeps DEF ServiceInv, BusPartInv, ItemsGrow, ItemGrows
    <2> QED BY <2>1, ServiceInductive, PTL DEF SuiteSpec, ResultsKept
  <1>6. SuiteSpec => StaleTimerHarmless
    <2>1. ServiceInv /\ [SuiteNext]_suiteVars =>
            [\A l \in Leases : timer[l].state = "fired" /\ timer'[l].state = "over" /\ lease # NoLease /\ lease.number # l
               => lease' = lease]_routesVars
      BY HostParts, OthersRest, RouteStepKeeps DEF ServiceInv, RoutePartInv, TimerHarmless
    <2> QED BY <2>1, ServiceInductive, PTL DEF SuiteSpec, StaleTimerHarmless
  <1>7. SuiteSpec => NotPrunedEarly
    <2>1. ServiceInv /\ [SuiteNext]_suiteVars =>
            [Open /\ ((refHeld /\ ~refHeld') \/ (grant.dir /\ ~grant'.dir)) => \A c \in Callers : caller[c].told <= mediaClock]_mediaVars
      BY HostParts, OthersRest, PromiseKept DEF ServiceInv, LeasePartInv
    <2> QED BY <2>1, ServiceInductive, PTL DEF SuiteSpec, NotPrunedEarly
  <1>8. SuiteSpec => NotReclaimedEarly /\ HistoryReleasedWhenGone
    <2>1. ServiceInv /\ [SuiteNext]_suiteVars =>
            /\ [~mediaRow.deleting /\ mediaRow'.deleting => lastUsed = OrphanGrace]_objectVars
            /\ [("history" \in mediaOwners /\ "history" \notin mediaOwners') => historyGone]_objectVars
      BY MediaPart, OthersRest, ClaimsLate, HistoryKept DEF ServiceInv, MediaPartInv
    <2> QED BY <2>1, ServiceInductive, PTL DEF SuiteSpec, NotReclaimedEarly, HistoryReleasedWhenGone
  <1> QED BY <1>1, <1>2, <1>3, <1>4, <1>5, <1>6, <1>7, <1>8 DEF ServiceSteps

=============================================================================
