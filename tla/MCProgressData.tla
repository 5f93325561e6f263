--------------------------- MODULE MCProgressData ---------------------------
(* Instances for TLC, smaller than those of MCComponents, of the components *)
(* that keep data and promise that something happens to it.                *)
(* The behaviours of the suite are those of its parts, one part at a time:  *)
(* which one runs is chosen in the initial state, and the others rest.      *)
EXTENDS MediaObjects, SqliteStore, SessionNaming, FileRollback, CronDelivery, CronManager, Elnis, TLC

VARIABLE part  \* the component whose behaviour this is

Row(p, k, i) == [platform |-> p, kind |-> k, id |-> i]

\* Scopes stored by earlier versions: all convertible, one without its kind, two that meet in one.
TheScopes == {{Row("cli", "bare", 0), Row("telegram", "supergroup", 1), Row("telegram", "private", 1)},
              {Row("telegram", "bare", 0)},
              {Row("telegram", "group", 1), Row("telegram", "supergroup", 1)}}

\* An edit and a rollback of one file, while sessions are left.
TheRoles == {[does |-> <<{"edit"}, {"rollback"}>>, linked |-> <<TRUE, TRUE>>, meddling |-> FALSE, switching |-> TRUE]}

\* One output, one failed send or crash, and a user who takes the session over.
TheOutputs == <<"text">>
TheLimits == {[runs |-> 1, edits |-> 0, faults |-> 2, takeover |-> TRUE]}

suiteVars == <<part, objectVars, storeVars, namingVars, fileVars, cronVars, managerVars, elnisVars>>

\* A part that does not run has one of its initial states.
SuiteInit ==
    /\ part \in {"media", "store", "naming", "rollback", "delivery", "manager", "elnis"}
    /\ MediaObjectInit
    /\ StoreInit /\ (part # "store" => dbScopes = {})
    /\ NamingInit /\ (part # "naming" => title = [n \in Named |-> "initial"])
    /\ FileInit /\ (part # "rollback" => role.switching)
    /\ CronInit /\ (part # "delivery" => row.once /\ ~row.all)
    /\ ManagerInit /\ (part # "manager" => job = [n \in Jobs |-> Missing])
    /\ ElnisInit

\* A step of part p: the others rest.
Only(p) ==
    /\ part = p /\ part' = p
    /\ p # "media" => UNCHANGED objectVars
    /\ p # "store" => UNCHANGED storeVars
    /\ p # "naming" => UNCHANGED namingVars
    /\ p # "rollback" => UNCHANGED fileVars
    /\ p # "delivery" => UNCHANGED cronVars
    /\ p # "manager" => UNCHANGED managerVars
    /\ p # "elnis" => UNCHANGED elnisVars

SuiteNext ==
    \/ Only("media") /\ MediaObjectNext
    \/ Only("store") /\ StoreNext
    \/ Only("naming") /\ NamingNext
    \/ Only("rollback") /\ FileNext
    \/ Only("delivery") /\ CronNext
    \/ Only("manager") /\ ManagerNext
    \/ Only("elnis") /\ ElnisNext

\* The fairness of each part, for the behaviours in which it runs.  One part runs, so one
\* conjunct can speak for a step of each.
SuiteFairness ==
    /\ WF_objectVars(part = "media" /\ CleanerPass)
    /\ \A c \in MediaCallers : WF_objectVars(part = "media" /\ LockedStep(c))
    /\ WF_storeVars(part = "store" /\ StoreStarts)
    /\ \A t \in Tasks : WF_namingVars(part = "naming" /\ NamingStep(t))
    /\ WF_namingVars(part = "naming" /\ CloseNaming)
    /\ \A o \in FileOps : WF_fileVars(part = "rollback" /\ FileStep(o))
    /\ \A w \in Workers : WF_cronVars(part = "delivery" /\ DeliveryStep(w))
    /\ \A p \in Platforms :
          /\ WF_cronVars(part = "delivery" /\ EnqueuePlatformConnected(p))
          /\ SF_cronVars(part = "delivery" /\ RunMissedOnce(p))
    /\ WF_cronVars(part = "delivery" /\ StartCron)
    /\ WF_cronVars(part = "delivery" /\ CloseCron)
    /\ WF_cronVars(part = "delivery" /\ WriteDefinition)
    /\ WF_managerVars(part = "manager" /\ RefreshStep)
    /\ WF_managerVars(part = "manager" /\ StopDone)
    /\ \A n \in Jobs : WF_managerVars(part = "manager" /\ AnnounceJob(n))
    /\ \A r \in Runs : WF_managerVars(part = "manager" /\ RunStep(r))
    /\ \A r \in Requests : WF_elnisVars(part = "elnis" /\ RequestStep(r))
    /\ \A w \in Doers : WF_elnisVars(part = "elnis" /\ DoerStep(w))
    /\ WF_elnisVars(part = "elnis" /\ \E w \in LLMWorkers : TakeEvent(w))
    /\ WF_elnisVars(part = "elnis" /\ \E k \in Keys : RecoverReport(k))
    /\ WF_elnisVars(part = "elnis" /\ StartElnis)
    /\ WF_elnisVars(part = "elnis" /\ CloseElnis)
    /\ SF_objectVars(part = "media" /\ CleanLock)

SuiteSpec == SuiteInit /\ [][SuiteNext]_suiteVars /\ SuiteFairness

-----------------------------------------------------------------------------
\* Stored data, with failing calls and crashes: a media object that is held can be read, one that
\* is deleted is referenced by nobody and the references counted are those that exist; an
\* upgraded database is a fresh one and a refused one is untouched.
DataSafe ==
    /\ part = "media" => MediaObjectTypeOK /\ HeldReadable /\ AvailableHasContent /\ DyingUnreferenced /\
       ReferencesAgree /\ TemporaryHasReleaser
    /\ part = "store" => SqliteTypeOK /\ UpgradedIsFresh /\ StatementsApply /\ OpenRowsStructured /\
       NumbersUnique

\* A row of an old database is converted whole or not at all, whatever fails.
ConvertedWhole ==
    /\ RowsConvertedWhole

\* A naming service that is closed ends, a deletion that was begun finishes and failed releases
\* are tried again, a database that can be converted opens, and an operation lets the lock of its
\* file go.
DataProgress ==
    /\ NamingCloses /\ DeletionFinishes /\ ReleasesRetried /\ ConvertibleOpens /\ FileOpsEnd

\* A one-time cron job is delivered in the end, a scheduler that is stopped ends, and so does
\* every report of an event.
BackgroundProgress ==
    /\ OnceDelivered /\ StopCompletes /\ ReportsEnd
=============================================================================
