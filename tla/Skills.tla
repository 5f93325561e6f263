------------------------------- MODULE Skills -------------------------------
(* The skill directory (internal/tool/skill): folders on disk, scanned into  *)
(* records, registered as one group of tools and published as the catalogue; *)
(* the tools that write skills, and the life of the tool supervisor around.  *)
EXTENDS Naturals, FiniteSets

CONSTANTS
    Folders,        \* directories of skills
    GoFolders,      \* those under go/; the others are under agent/
    NameOf,         \* the name a folder's document gives its skill
    BuiltinNames,   \* names of the built-in group
    SkillOps,       \* operations
    SkillScripts,   \* what they do, a sequence to choose from: records of the disk, a job and a folder for each operation, what
                    \* somebody edits by hand, and what interferes
    MaxRevision     \* bound: revisions of a file

VARIABLES
    script, folders,
    registered,     \* Registry.tools of SourceSkill, as records
    catalog,        \* catalog.records
    loading,        \* loaded, lastErr, and done of the first load: none, open or closed
    writeMu,        \* who holds writeMu: an operation, "start" or "nobody"
    skillJob,            \* per operation and for the first load: where it is, what it prepared, how it ended
    life            \* the supervisor: started, closed, cancelled, the cron signal ended, done

skillVars == <<script, folders, registered, catalog, loading, writeMu, skillJob, life>>

\* What this behaviour does.
Story == SkillScripts[script]

SkillActors == SkillOps \cup {"start"}
Does(o) == IF o = "start" THEN "reload" ELSE Story.does[o]
Target(o) == Story.on[o]
Faulty == Story.world = "faults"
NoFolder == [doc |-> 0, good |-> TRUE, manifest |-> "none", source |-> 0, binary |-> 0]
NewJob == [at |-> "new", base |-> NoFolder, previous |-> "unset", found |-> {}, out |-> "none"]

SkillsTypeOK ==
    /\ folders \in [Folders -> [doc : 0 .. MaxRevision, good : BOOLEAN, manifest : {"none", "policy", "command", "bad"},
                             source : 0 .. MaxRevision, binary : 0 .. MaxRevision]]
    /\ \A r \in registered \cup catalog : r.folder \in Folders
    /\ loading \in [loaded : BOOLEAN, lastErr : BOOLEAN, done : {"none", "open", "closed"}]
    /\ writeMu \in SkillActors \cup {"nobody"}
    /\ \A o \in SkillActors : skillJob[o].at \in {"new", "waiting", "prepared", "apply", "second", "build", "scan",
                                             "register", "publish", "restore", "leave", "over"}
                       /\ skillJob[o].out \in {"none", "ok", "failed"}
    /\ life \in [started : BOOLEAN, closed : BOOLEAN, canceled : BOOLEAN, signals : BOOLEAN, done : BOOLEAN]

SkillsInit ==
    /\ script \in DOMAIN SkillScripts /\ folders = Story.disk
    /\ registered = {} /\ catalog = {} /\ writeMu = "nobody"
    /\ loading = [loaded |-> FALSE, lastErr |-> FALSE, done |-> "none"]
    /\ skillJob = [o \in SkillActors |-> NewJob]
    /\ life = [started |-> FALSE, closed |-> FALSE, canceled |-> FALSE, signals |-> FALSE, done |-> FALSE]

-----------------------------------------------------------------------------
(* Scanning and registering *)

\* readGoRecord, readAgentRecord with LoadAgentSkillManifest.
RecordOf(f) ==
    [folder |-> f, name |-> NameOf[f], callable |-> folders[f].manifest = "command", binary |-> folders[f].binary > 0]

\* scanRecords: a folder without a document is passed over, one that cannot be parsed fails the scan.
ScanFails == \E f \in Folders : folders[f].doc > 0 /\ (~folders[f].good \/ (f \notin GoFolders /\ folders[f].manifest = "bad"))

Scanned == {RecordOf(f) : f \in {g \in Folders : folders[g].doc > 0}}

\* Mutant: a name that comes twice replaces the first.
RegistrableAlways(records) == TRUE

\* RegisterTools: names of a group are unique and no other group's.
Registrable(records) ==
    /\ \A r, s \in records : r # s => r.name # s.name
    /\ \A r \in records : r.name \notin BuiltinNames

InCatalog(f) == \E r \in catalog : r.folder = f

-----------------------------------------------------------------------------
(* The steps of an operation *)

Goes(o, at) == skillJob' = [skillJob EXCEPT ![o].at = at]
End(o, out) == skillJob' = [skillJob EXCEPT ![o].at = "leave", ![o].out = out]

\* EnsureLoaded, at its beginning and when the first load ended.
EnsureLoaded(o) ==
    /\ Story.world # "close" \/ ~life.canceled
    /\ skillJob[o].at = "new" /\ Does(o) # "reload"
    /\ \/ loading.loaded /\ Goes(o, "waiting")
       \/ /\ ~loading.loaded
          /\ IF loading.done = "open" THEN Goes(o, "waiting") ELSE skillJob' = [skillJob EXCEPT ![o].at = "over", ![o].out = "failed"]
    /\ UNCHANGED <<script, folders, registered, catalog, loading, writeMu, life>>

\* Mutant: the load that was waited for is taken to have succeeded.
AfterWaitOk == "ok"

AfterWait == IF loading.loaded THEN "ok" ELSE "failed"

\* The wait in EnsureLoaded is over.
Waited(o) ==
    /\ skillJob[o].at = "waiting" /\ (loading.loaded \/ loading.done # "open")
    /\ Does(o) = "query" \/ AfterWait = "failed"
    /\ skillJob' = [skillJob EXCEPT ![o].at = "over", ![o].out = AfterWait]
    /\ UNCHANGED <<script, folders, registered, catalog, loading, writeMu, life>>

\* GoRunner.PrepareCall: the catalogue has a program for the skill.
Runnable(f) == \E r \in catalog : r.folder = f /\ r.binary

\* The PrepareCall of a tool: what the user is shown, read without the lock.
Preparable(o) ==
    LET f == Target(o) IN
    CASE Does(o) = "create" -> folders[f] = NoFolder /\ NameOf[f] \notin BuiltinNames /\ \A r \in registered : r.name # NameOf[f]
      [] Does(o) = "write" -> InCatalog(f) /\ f \notin GoFolders
      [] Does(o) = "modify" -> folders[f].doc > 0
      [] Does(o) = "finalize" -> folders[f].doc > 0
      [] Does(o) = "run" -> Runnable(f)
      [] OTHER -> TRUE

Prepare(o) ==
    /\ skillJob[o].at = "waiting" /\ loading.loaded /\ Does(o) # "query"
    /\ skillJob' = [skillJob EXCEPT ![o].at = IF Preparable(o) THEN "prepared" ELSE "over", ![o].base = folders[Target(o)],
                          ![o].out = IF Preparable(o) THEN "none" ELSE "failed"]
    /\ UNCHANGED <<script, folders, registered, catalog, loading, writeMu, life>>

\* Mutant: writers do not wait for each other.
MuFreeAlways == TRUE

MuFree == writeMu = "nobody"

\* writeMu.Lock, once the user confirmed.
Lock(o) ==
    /\ (skillJob[o].at = "prepared" /\ Does(o) # "run") \/ (Does(o) = "reload" /\ skillJob[o].at = "new" /\ (o = "start" => loading.done = "open"))
    /\ MuFree /\ writeMu' = o
    /\ Goes(o, IF Does(o) = "reload" THEN "scan" ELSE "apply")
    /\ UNCHANGED <<script, folders, registered, catalog, loading, life>>

\* Mutant: a prepared file is written over what is there now.
BaseKeptAlways(o) == TRUE

\* PreparedFile.Commit and checkSource: the files are those that were shown.
BaseKept(o) ==
    LET now == folders[Target(o)]
        base == skillJob[o].base IN
    CASE Does(o) = "write" -> now.manifest = base.manifest
      [] Does(o) = "modify" -> now.source = base.source
      [] Does(o) = "finalize" -> now.doc = base.doc /\ now.source = base.source
      [] OTHER -> TRUE

SetErr(err) == loading' = [loading EXCEPT !.loaded = @ \/ ~err, !.lastErr = err]

\* Remove: the folder goes, then the directory is scanned.
ApplyRemove(o) ==
    /\ Does(o) = "remove"
    /\ \/ InCatalog(Target(o)) /\ folders' = [folders EXCEPT ![Target(o)] = NoFolder] /\ Goes(o, "scan") /\ UNCHANGED loading
       \/ (~InCatalog(Target(o)) \/ Faulty) /\ SetErr(TRUE) /\ End(o, "failed") /\ UNCHANGED folders

\* commitAgentSkillConfig, up to the reload: a manifest that parsed when it was prepared.
ApplyWrite(o) ==
    /\ Does(o) = "write" /\ UNCHANGED loading
    /\ IF InCatalog(Target(o)) /\ BaseKept(o)
       THEN /\ folders' = [folders EXCEPT ![Target(o)].manifest = "command"]
            /\ skillJob' = [skillJob EXCEPT ![o].at = "scan", ![o].previous = folders[Target(o)].manifest]
       ELSE End(o, "failed") /\ UNCHANGED folders

\* create_el_skill: the document first, then the source.
ApplyCreate(o) ==
    LET f == Target(o) IN
    /\ Does(o) = "create" /\ UNCHANGED loading
    /\ IF folders[f] = NoFolder /\ \A r \in registered : r.name # NameOf[f]
       THEN folders' = [folders EXCEPT ![f].doc = 1] /\ Goes(o, "second")
       ELSE End(o, "failed") /\ UNCHANGED folders

CreateSource(o) ==
    /\ skillJob[o].at = "second"
    /\ \/ folders' = [folders EXCEPT ![Target(o)].source = 1] /\ Goes(o, "build")
       \/ Faulty /\ End(o, "failed") /\ UNCHANGED folders
    /\ UNCHANGED <<script, registered, catalog, loading, writeMu, life>>

\* modify_el_skill writes the source (or a valid document) and leaves the reload to finalize_el_skill.
ApplyModify(o) ==
    LET f == Target(o) IN
    /\ Does(o) = "modify" /\ UNCHANGED loading
    /\ IF BaseKept(o) /\ folders[f].source < MaxRevision
       THEN folders' = [folders EXCEPT ![f].source = @ + 1] /\ End(o, "ok")
       ELSE End(o, "failed") /\ UNCHANGED folders

\* finalize_el_skill: checked as it was shown, a text-only skill is not built.
ApplyFinalize(o) ==
    LET f == Target(o) IN
    /\ Does(o) = "finalize" /\ UNCHANGED <<loading, folders>>
    /\ IF BaseKept(o) /\ skillJob[o].base.good THEN Goes(o, IF skillJob[o].base.source = 0 THEN "scan" ELSE "build") ELSE End(o, "failed")

Apply(o) ==
    /\ skillJob[o].at = "apply"
    /\ ApplyRemove(o) \/ ApplyWrite(o) \/ ApplyCreate(o) \/ ApplyModify(o) \/ ApplyFinalize(o)
    /\ UNCHANGED <<script, registered, catalog, writeMu, life>>

\* runGoBuild: the binary is of the source that is there, or the build fails and the old one stays.
Build(o) ==
    /\ skillJob[o].at = "build"
    /\ \/ folders' = [folders EXCEPT ![Target(o)].binary = folders[Target(o)].source] /\ Goes(o, "scan")
       \/ Faulty /\ End(o, "failed") /\ UNCHANGED folders
    /\ UNCHANGED <<script, registered, catalog, loading, writeMu, life>>

\* GoRunner.call and commandTool.call: the program of the record that was chosen when the call was
\* prepared; a long output, an exit code or a program that is gone is an error.
RunSkill(o) ==
    /\ skillJob[o].at = "prepared" /\ Does(o) = "run"
    /\ \E out \in {"ok", "failed"} :
          /\ out = "ok" => folders[Target(o)].binary > 0
          /\ out = "failed" => folders[Target(o)].binary = 0 \/ Faulty
          /\ skillJob' = [skillJob EXCEPT ![o].at = "over", ![o].out = out]
    /\ UNCHANGED <<script, folders, registered, catalog, loading, writeMu, life>>

\* Mutant: the configuration stays although the reload failed.
AfterFailedReloadLeave(o) == "leave"

\* commitAgentSkillConfig restores the file it replaced.
AfterFailedReload(o) == IF Does(o) = "write" THEN "restore" ELSE "leave"

ReloadFailed(o) ==
    /\ skillJob' = [skillJob EXCEPT ![o].at = AfterFailedReload(o), ![o].out = "failed"]
    /\ IF Does(o) = "write" THEN UNCHANGED loading ELSE SetErr(TRUE)

\* reloadLocked: scan, register the group, publish the records.
Scan(o) ==
    /\ skillJob[o].at = "scan"
    /\ IF ScanFails \/ (o = "start" /\ life.canceled) THEN ReloadFailed(o)
       ELSE skillJob' = [skillJob EXCEPT ![o].at = "register", ![o].found = Scanned] /\ UNCHANGED loading
    /\ UNCHANGED <<script, folders, registered, catalog, writeMu, life>>

Register(o) ==
    /\ skillJob[o].at = "register"
    /\ IF Registrable(skillJob[o].found)
       THEN registered' = skillJob[o].found /\ Goes(o, "publish") /\ UNCHANGED loading
       ELSE ReloadFailed(o) /\ UNCHANGED registered
    /\ UNCHANGED <<script, folders, catalog, writeMu, life>>

PublishRecords(o) ==
    /\ skillJob[o].at = "publish" /\ catalog' = skillJob[o].found /\ SetErr(FALSE)
    /\ skillJob' = [skillJob EXCEPT ![o].at = "leave", ![o].out = "ok", ![o].found = {}]
    /\ UNCHANGED <<script, folders, registered, writeMu, life>>

\* restore may fail too: that is only logged.
RestoreConfig(o) ==
    /\ skillJob[o].at = "restore" /\ Goes(o, "leave")
    /\ \/ folders' = [folders EXCEPT ![Target(o)].manifest = skillJob[o].previous]
       \/ Faulty /\ UNCHANGED folders
    /\ UNCHANGED <<script, registered, catalog, loading, writeMu, life>>

ReleaseMu(o) ==
    /\ skillJob[o].at = "leave" /\ writeMu' = "nobody" /\ Goes(o, "over")
    /\ loading' = IF o = "start" THEN [loading EXCEPT !.done = "closed"] ELSE loading
    /\ UNCHANGED <<script, folders, registered, catalog, life>>

\* Somebody works on a folder by hand: adds it, edits a source, or leaves a manifest that does not parse.
EditByHand(f) ==
    /\ f \in Story.byHand
    /\ \/ folders[f] = NoFolder /\ folders' = [folders EXCEPT ![f].doc = 1]
       \/ folders[f].source \in 1 .. MaxRevision - 1 /\ folders' = [folders EXCEPT ![f].source = @ + 1]
       \/ folders[f].doc > 0 /\ folders[f].manifest # "bad" /\ f \notin GoFolders /\ folders' = [folders EXCEPT ![f].manifest = "bad"]
    /\ UNCHANGED <<script, registered, catalog, loading, writeMu, skillJob, life>>

-----------------------------------------------------------------------------
(* The tool supervisor *)

\* Supervisor.Start and Manager.Start: one first load, unless an explicit reload was faster.
StartTools ==
    /\ ~life.started /\ ~life.closed /\ ~life.canceled
    /\ life' = [life EXCEPT !.started = TRUE]
    /\ loading' = [loading EXCEPT !.done = IF loading.loaded THEN "closed" ELSE "open"]
    /\ UNCHANGED <<script, folders, registered, catalog, writeMu, skillJob>>

\* Close: no start any more, the first load is cancelled and the cron signal closes.
CloseTools ==
    /\ Story.world = "close" /\ ~life.canceled
    /\ life' = [life EXCEPT !.closed = TRUE, !.canceled = TRUE]
    /\ UNCHANGED <<script, folders, registered, catalog, loading, writeMu, skillJob>>

SignalsEnd ==
    /\ life.canceled /\ ~life.signals /\ life' = [life EXCEPT !.signals = TRUE]
    /\ UNCHANGED <<script, folders, registered, catalog, loading, writeMu, skillJob>>

\* Mutant: the end of the first load is not waited for.
LoadOverAlways == TRUE

LoadOver == life.started => loading.done = "closed"

ToolsDone ==
    /\ life.canceled /\ life.signals /\ LoadOver /\ ~life.done /\ life' = [life EXCEPT !.done = TRUE]
    /\ UNCHANGED <<script, folders, registered, catalog, loading, writeMu, skillJob>>

SkillStep(o) ==
    \/ EnsureLoaded(o) \/ Waited(o) \/ Prepare(o) \/ Lock(o) \/ Apply(o) \/ CreateSource(o) \/ Build(o) \/ RunSkill(o) \/ Scan(o)
    \/ Register(o) \/ PublishRecords(o) \/ RestoreConfig(o) \/ ReleaseMu(o)

LifeStep == SignalsEnd \/ ToolsDone

SkillsNext ==
    \/ \E o \in SkillActors : SkillStep(o)
    \/ StartTools \/ CloseTools \/ LifeStep \/ \E f \in Folders : EditByHand(f)

\* Every operation that was begun goes on; mutexes are granted in turn, and the operations are few.
SkillsSpec ==
    /\ SkillsInit /\ [][SkillsNext]_skillVars
    /\ \A o \in SkillActors : WF_skillVars(SkillStep(o))
    /\ WF_skillVars(StartTools) /\ WF_skillVars(LifeStep)

-----------------------------------------------------------------------------
Inside(o) == skillJob[o].at \in {"apply", "second", "build", "scan", "register", "publish", "restore", "leave"}

\* One writer at a time, and what is registered is one whole scan: names are its own, and the
\* catalogue is the registered group except while a reload is between the two (reloadLocked).
RegistryWhole ==
    /\ \A o, p \in SkillActors : o # p => ~(Inside(o) /\ Inside(p))
    /\ \A r \in registered : r.name \notin BuiltinNames /\ \A s \in registered \ {r} : r.name # s.name
    /\ catalog # registered => \E o \in SkillActors : skillJob[o].at = "publish" /\ registered = skillJob[o].found

\* After a reload that did not fail, and with nobody at work, every registered skill has its folder,
\* with the document and the kind it was registered with; a failed removal, a failed reload of a
\* written configuration or a new folder does not change that.
RegisteredOnDisk ==
    writeMu = "nobody" /\ ~loading.lastErr /\ ~Faulty =>
        \A r \in {q \in registered : q.folder \notin Story.byHand} : folders[r.folder].doc > 0 /\ r.callable = (folders[r.folder].manifest = "command")

\* A configuration whose reload failed leaves the file as it was; the broken directory can still be
\* reloaded once its cause is gone.
FailedWriteUndone ==
    \A o \in SkillOps : skillJob[o].at = "leave" /\ skillJob[o].out = "failed" /\ skillJob[o].previous # "unset" /\ ~Faulty
        /\ Target(o) \notin Story.byHand =>
                folders[Target(o)].manifest = skillJob[o].previous

\* A build that is reported good is of the source the user was shown (create, finalize), as long as
\* nobody edits by hand.
BuiltAsShown ==
    \A o \in SkillOps : Does(o) \in {"create", "finalize"} /\ skillJob[o].out = "ok" /\ skillJob[o].at = "leave" /\ Target(o) \notin Story.byHand
        /\ skillJob[o].base.source > 0 => folders[Target(o)].binary = skillJob[o].base.source

\* Who was told that the skills are loaded can use them (EnsureLoaded).
LoadedWhenTold == \A o \in SkillOps : skillJob[o].at = "over" /\ skillJob[o].out = "ok" => loading.loaded

\* The supervisor is done when its first load and its signal are.
ToolsDoneLast == life.done => ~Inside("start") /\ life.signals

\* Nobody writes over what the user was not shown (Commit, checkSource).
ShownOnly ==
    [][\A o \in SkillOps : Apply(o) /\ folders' # folders /\ Does(o) \in {"write", "modify"} =>
            LET now == folders[Target(o)] IN
            IF Does(o) = "write" THEN now.manifest = skillJob[o].base.manifest ELSE now.source = skillJob[o].base.source]_skillVars

\* What is registered goes only with a scan that succeeded: a failed reload leaves the skills there are.
LoadedStays == [][registered' # registered => \E o \in SkillActors : skillJob[o].at = "register" /\ registered' = skillJob[o].found]_skillVars

\* Every operation ends, also those that wait for the first load.
SkillOpsEnd == \A o \in SkillOps : (skillJob[o].at \notin {"new", "over"}) ~> (skillJob[o].at = "over")

\* A supervisor that is closed is done.
ToolsClose == life.canceled ~> life.done
=============================================================================
