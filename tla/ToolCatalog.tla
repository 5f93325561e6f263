----------------------------- MODULE ToolCatalog -----------------------------
(* The tools a session may be offered (internal/tool: registry, discovery,   *)
(* preload, state): groups of definitions, the search through their          *)
(* dependencies, the preload of tools, skills, tags and remote groups, and   *)
(* the declarations that are committed to the session.                       *)
EXTENDS Naturals, Sequences, FiniteSets, SequencesExt

CONSTANTS
    BuiltinTools,      \* the definitions of the built-in group
    SkillGroups,       \* groups of skills that reloads may bring
    CatalogJobs,       \* jobs at work on one session
    CatalogScripts,    \* what they do, a sequence to choose from: per job what kind it is, which names, for whom, with which remote tools
    MaxReloads,        \* bound: reloads of the skills
    MaxTagEdits        \* bound: changes of the tag file

VARIABLES
    catalogScript,
    skillTools,     \* the group of skills in Registry.tools
    reloads,
    tagFile,        \* the modification of the file, what it says, and whether it does not parse
    tagCache,       \* toolTagConfigCache: loaded, at, config
    catalogJob,     \* per job: where it is and what it has found
    declared,       \* State.DiscoveredTools of the session
    toolTags,       \* State.ToolTags of the session
    groupsCommitted \* history: per event the tools of its last committed registration

catalogVars == <<catalogScript, skillTools, reloads, tagFile, tagCache, catalogJob, declared, toolTags, groupsCommitted>>

\* Registry.tools.
tools == BuiltinTools \cup skillTools

\* What this behaviour does.
Scripted == CatalogScripts[catalogScript]

NamesOf(defs) == {d.name : d \in defs}
DefsNamed(defs, name) == {d \in defs : d.name = name}
Wish(j) == Scripted.wish[j]
NoJob == [at |-> "new", left |-> <<>>, roots |-> {}, stack |-> <<>>, seen |-> {}, targets |-> {}, found |-> <<>>,
          errs |-> <<>>, asked |-> {}, stat |-> 0, tagged |-> {}, update |-> {}, tags |-> {}, end |-> "none"]

CatalogTypeOK ==
    /\ \A d, e \in tools : d # e => d.name # e.name
    /\ tagFile.at \in 0 .. MaxTagEdits /\ tagCache.at \in 0 .. MaxTagEdits /\ tagCache.loaded \in BOOLEAN
    /\ \A j \in CatalogJobs : catalogJob[j].end \in {"none", "ok", "failed"}
          /\ catalogJob[j].at \in {"new", "select", "name", "stat", "read", "roots", "search", "skills", "remote", "commit", "over"}
    /\ \A t \in declared : t.source \in {"native", "elwisp"}

CatalogInit ==
    /\ catalogScript \in DOMAIN CatalogScripts
    /\ skillTools = {} /\ reloads = 0
    /\ tagFile = [at |-> 0, config |-> Scripted.config, bad |-> FALSE]
    /\ tagCache = [loaded |-> FALSE, at |-> 0, config |-> {}]
    /\ catalogJob = [j \in CatalogJobs |-> NoJob]
    /\ declared = Scripted.declared /\ toolTags = {}
    /\ groupsCommitted = [e \in {"e", "f"} |-> {t \in Scripted.declared : t.event = e}]

-----------------------------------------------------------------------------
(* The registry *)

\* Mutant: a later definition of a name is taken.
AcceptsGroupAlways(kept, group) == TRUE

\* RegisterTools, validateDefinition: valid definitions whose names nobody else has.
AcceptsGroup(kept, group) ==
    /\ \A d \in group : d.valid
    /\ \A d \in group, e \in group \cup kept : d # e => d.name # e.name

\* RegisterTools of SourceSkill, from Manager.reloadLocked: the whole group is replaced or nothing.
ReloadSkills(group) ==
    /\ reloads < MaxReloads /\ reloads' = reloads + 1
    /\ skillTools' = IF AcceptsGroup(BuiltinTools, group) THEN group ELSE skillTools
    /\ UNCHANGED <<catalogScript, tagFile, tagCache, catalogJob, declared, toolTags, groupsCommitted>>

\* CanAccessTool: superadmin only, and the risk the actor may use; no risk is a document.
CanAccessTool(j, d) == (d.super => Wish(j).role = "superadmin") /\ (d.risk > 0 => d.risk <= Wish(j).maxRisk)

\* UnavailableReason: foreground tools in a background task, tools of another API.
Available(j, d) == ~(d.foreground /\ Wish(j).background) /\ (d.api # "any" => d.api = Wish(j).api)

\* Mutant: what may be used is not asked for dependencies.
PermittedUnlessHidden(j, d, hidden) == hidden \/ (Available(j, d) /\ CanAccessTool(j, d))

Permitted(j, d, hidden) == Available(j, d) /\ CanAccessTool(j, d)

\* Query of QueryAvailable over the names, or over all.
Query(j, names, hidden, discover, kind) ==
    {d \in tools : /\ d.name \in names
                   /\ (d.hidden => hidden) /\ (d.name = "discover_tool" => discover)
                   /\ kind = "any" \/ (kind = "skill") = d.detail
                   /\ Permitted(j, d, hidden)}

-----------------------------------------------------------------------------
(* Discovery: resolve, Resolve and addDiscoveryDetail *)

Job(j, changes) == catalogJob' = [catalogJob EXCEPT ![j] = changes]
JobFails(j) == Job(j, [catalogJob[j] EXCEPT !.at = "over", !.end = "failed"])

\* Mutant: a tool is marked when its dependencies are done.
SeenNowNot(q, d) == q.seen

SeenNow(q, d) == q.seen \cup {d.name}

\* addDiscoveryDetail up to its dependencies: a document that cannot be loaded is one failed item.
Entered(q, d, broken) ==
    IF d.name \in q.seen THEN q
    ELSE LET r == [q EXCEPT !.seen = SeenNow(q, d), !.targets = (@ \ DefsNamed(@, d.name)) \cup {d}] IN
         IF broken THEN [r EXCEPT !.errs = Append(@, d.name)]
         ELSE [r EXCEPT !.found = Append(@, d), !.stack = <<d.depends>> \o @]

\* The next root of the search.
NextRoot(j) ==
    LET q == catalogJob[j] IN
    /\ q.at = "search" /\ q.stack = <<>> /\ q.roots # {}
    /\ \E d \in q.roots, broken \in BOOLEAN :
          /\ broken => d.detail /\ Scripted.faults
          /\ Job(j, Entered([q EXCEPT !.roots = @ \ {d}], d, broken))
    /\ UNCHANGED <<catalogScript, skillTools, reloads, tagFile, tagCache, declared, toolTags, groupsCommitted>>

\* A dependency: the object this search already has, or what the registry has now.
Candidates(j, q, dep) ==
    IF dep \in NamesOf(q.targets) THEN DefsNamed(q.targets, dep) ELSE Query(j, {dep}, TRUE, TRUE, "any")

NextDependency(j) ==
    LET q == catalogJob[j] IN
    /\ q.at = "search" /\ q.stack # <<>>
    /\ IF Head(q.stack) = <<>> THEN Job(j, [q EXCEPT !.stack = Tail(@)])
       ELSE LET r == [q EXCEPT !.stack = <<Tail(Head(@))>> \o Tail(@)]
                dep == Head(Head(q.stack)) IN
            IF Candidates(j, q, dep) = {} THEN Job(j, r)
            ELSE \E d \in Candidates(j, q, dep), broken \in BOOLEAN :
                    /\ broken => d.detail /\ Scripted.faults
                    /\ Job(j, Entered(r, d, broken))
    /\ UNCHANGED <<catalogScript, skillTools, reloads, tagFile, tagCache, declared, toolTags, groupsCommitted>>

-----------------------------------------------------------------------------
(* The tag file *)

\* toolTagConfigSource.load, under its mutex: stat, and the cache if the file is as it was.
TagsUnlocked == \A j \in CatalogJobs : catalogJob[j].at # "read"

StatTags(j) ==
    LET q == catalogJob[j] IN
    /\ q.at = "stat" /\ TagsUnlocked
    /\ IF tagCache.loaded /\ tagCache.at = tagFile.at
       THEN Job(j, [q EXCEPT !.at = "roots", !.tagged = tagCache.config])
       ELSE Job(j, [q EXCEPT !.at = "read", !.stat = tagFile.at])
    /\ UNCHANGED <<catalogScript, skillTools, reloads, tagFile, tagCache, declared, toolTags, groupsCommitted>>

\* Mutant: the state of the file is taken after it was read.
StatKept(q) == tagFile.at + IF tagFile.at < MaxTagEdits THEN 1 ELSE 0

StatOf(q) == q.stat

\* The file is read after its state was: a change in between is seen at the next load.
ReadTags(j) ==
    LET q == catalogJob[j] IN
    /\ q.at = "read"
    /\ IF tagFile.bad THEN JobFails(j) /\ UNCHANGED tagCache
       ELSE /\ tagCache' = [loaded |-> TRUE, at |-> StatOf(q), config |-> tagFile.config]
            /\ Job(j, [q EXCEPT !.at = "roots", !.tagged = tagFile.config])
    /\ UNCHANGED <<catalogScript, skillTools, reloads, tagFile, declared, toolTags, groupsCommitted>>

EditTags(config, bad) ==
    /\ tagFile.at < MaxTagEdits /\ Scripted.edits
    /\ tagFile' = [at |-> tagFile.at + 1, config |-> config, bad |-> bad]
    /\ UNCHANGED <<catalogScript, skillTools, reloads, tagCache, catalogJob, declared, toolTags, groupsCommitted>>

\* NamesByTag: what the file and the definitions put under the tag.
NamesByTag(tag, config, defs) == {p[2] : p \in {c \in config : c[1] = tag}} \cup {d.name : d \in {e \in defs : tag \in e.tags}}

-----------------------------------------------------------------------------
(* The jobs *)

\* discover_tool looks its names up as it comes to them; a preload goes through its names one by one,
\* a background preload first chooses its roots.
BeginJob(j) ==
    LET q == catalogJob[j] IN
    /\ q.at = "new"
    /\ Job(j, [q EXCEPT !.at = IF Wish(j).kind = "background" THEN "select" ELSE "name", !.left = Wish(j).names])
    /\ UNCHANGED <<catalogScript, skillTools, reloads, tagFile, tagCache, declared, toolTags, groupsCommitted>>

\* Mutant: what comes under a tag is not asked for.
AuthorisedTags(j, name, roots) == IF Wish(j).unrestricted \/ roots # {name} THEN roots ELSE roots \cap Wish(j).allowed

\* PrepareBackground: roots outside the allowed names are skipped.
Authorised(j, name, roots) == IF Wish(j).unrestricted THEN roots ELSE roots \cap Wish(j).allowed

\* BackgroundSelections and the filter of PrepareBackground, with the file as the cache has it.
SelectRoots(j) ==
    LET q == catalogJob[j]
        roots(n) == IF n \in NamesOf(tools) THEN {n}
                    ELSE LET byTag == NamesByTag(n, tagFile.config, tools) IN IF byTag = {} THEN {n} ELSE byTag
        needsTags == \E n \in ToSet(Wish(j).names) \ {"discover_tool"} : n \notin NamesOf(tools)
        chosenRoots == UNION {Authorised(j, n, roots(n)) : n \in ToSet(Wish(j).names) \ {"discover_tool"}} IN
    /\ q.at = "select" /\ TagsUnlocked
    /\ IF needsTags /\ tagFile.bad THEN JobFails(j) /\ UNCHANGED tagCache
       ELSE /\ Job(j, [q EXCEPT !.at = "name", !.left = SetToSeq(chosenRoots), !.asked = chosenRoots])
            /\ tagCache' = IF needsTags THEN [loaded |-> TRUE, at |-> tagFile.at, config |-> tagFile.config] ELSE tagCache
    /\ UNCHANGED <<catalogScript, skillTools, reloads, tagFile, declared, toolTags, groupsCommitted>>

\* The next name of the job: a tool, or for a preload a tag.
NextName(j) ==
    LET q == catalogJob[j]
        name == Head(q.left) IN
    /\ q.at = "name"
    /\ IF q.left = <<>> THEN Job(j, [q EXCEPT !.at = IF Wish(j).kind = "background" THEN "skills" ELSE "commit"])
       ELSE CASE Wish(j).kind = "discover" ->
                     LET defs == IF name \in q.seen THEN {} ELSE Query(j, {name}, FALSE, TRUE, "any") IN
                     Job(j, [q EXCEPT !.at = "search", !.left = Tail(@), !.roots = defs,
                                      !.errs = IF defs = {} /\ name \notin q.seen THEN Append(@, name) ELSE @])
              [] name \in NamesOf(tools) ->
                     LET defs == Query(j, {name}, FALSE, FALSE, "tool") IN
                     Job(j, [q EXCEPT !.at = "search", !.left = Tail(@), !.roots = defs, !.targets = defs, !.seen = {}, !.found = <<>>, !.errs = <<>>])
              [] OTHER -> Job(j, [q EXCEPT !.at = "stat"])
    /\ UNCHANGED <<catalogScript, skillTools, reloads, tagFile, tagCache, declared, toolTags, groupsCommitted>>

\* discoverDirective with a tag.
TagRoots(j) ==
    LET q == catalogJob[j]
        all == Query(j, NamesOf(tools), FALSE, FALSE, "tool")
        defs == {d \in all : d.name \in NamesByTag(Head(q.left), q.tagged, all)} IN
    /\ q.at = "roots"
    /\ Job(j, [q EXCEPT !.at = "search", !.left = Tail(@), !.roots = defs, !.targets = defs, !.seen = {}, !.found = <<>>, !.errs = <<>>,
                        !.tags = IF defs = {} THEN @ ELSE @ \cup {Head(q.left)}])
    /\ UNCHANGED <<catalogScript, skillTools, reloads, tagFile, tagCache, declared, toolTags, groupsCommitted>>

Native(d) == [key |-> d.name, source |-> "native", event |-> "none", foreground |-> d.foreground]

\* NativeDiscoveredToolsFromDiscovery: documents have no schema to declare.
Declarations(found) == {Native(d) : d \in {e \in ToSet(found) : ~e.detail}}

\* A search is over; its tools that activate others have them declared too (activatedTools).
SearchOver(j) ==
    LET q == catalogJob[j]
        activated == {d \in Query(j, UNION {e.activates : e \in {f \in ToSet(q.found) : f.detail}}, TRUE, TRUE, "any") : d.callable} IN
    /\ q.at = "search" /\ q.stack = <<>> /\ q.roots = {}
    /\ Job(j, [q EXCEPT !.at = "name", !.update = @ \cup Declarations(q.found)
                                            \cup (IF Wish(j).kind = "discover" THEN {Native(d) : d \in activated} ELSE {})])
    /\ UNCHANGED <<catalogScript, skillTools, reloads, tagFile, tagCache, declared, toolTags, groupsCommitted>>

\* PrepareSkills with preloadWrapper: the documents, and the tools that run them.
PreloadSkills(j) ==
    LET q == catalogJob[j]
        skills == Query(j, q.asked, FALSE, FALSE, "skill")
        wrappers == Query(j, UNION {d.activates : d \in skills}, TRUE, FALSE, "any") IN
    /\ q.at = "skills"
    /\ \/ Job(j, [q EXCEPT !.at = "remote", !.update = @ \cup {Native(d) : d \in {e \in wrappers : e.callable}}])
       \/ skills # {} /\ Scripted.faults /\ JobFails(j)
    /\ UNCHANGED <<catalogScript, skillTools, reloads, tagFile, tagCache, declared, toolTags, groupsCommitted>>

Remote(r) == [key |-> r.key, source |-> "elwisp", event |-> r.event, foreground |-> r.foreground]

\* Mutant: a foreground tool passes when it is a remote one.
BackgroundToolsNative(items) == {t \in items : ~(t.foreground /\ t.source = "native") /\ t.key \notin {"discover_tool", "workspace"}}

\* BackgroundDiscoveredTools.
BackgroundTools(items) == {t \in items : ~t.foreground /\ t.key \notin {"discover_tool", "workspace"}}

\* RegisterTools of SourceELwisp: names that no group of the registry has, a patch for the session.
RegisterRemote(j) ==
    LET q == catalogJob[j] IN
    /\ q.at = "remote"
    /\ IF \E r \in Wish(j).remote : r.key \in NamesOf(tools) THEN JobFails(j)
       ELSE Job(j, [q EXCEPT !.at = "commit", !.update = BackgroundTools(@ \cup {Remote(r) : r \in Wish(j).remote})])
    /\ UNCHANGED <<catalogScript, skillTools, reloads, tagFile, tagCache, declared, toolTags, groupsCommitted>>

-----------------------------------------------------------------------------
(* The session *)

EventsOf(j) == {r.event : r \in Wish(j).remote}

\* Mutant: only what has a new name is checked against the other groups.
ConflictsNever(kept, update, events) == FALSE

\* prepareUpdate: a name of another group refuses the whole update.
Conflicts(kept, update, events) ==
    events # {} /\ \E t \in update, u \in kept : t.key = u.key /\ (t.source # u.source \/ t.event # u.event)

\* Mutant: the old tools of the group stay beside the new ones.
RetainedAll(events) == declared

Retained(events) == {t \in declared : ~(t.source = "elwisp" /\ t.event \in events)}

\* mergeDiscoveredTools: a declaration replaces the one of its name.
Merged(kept, update) == {t \in kept : \A u \in update : t.key # u.key} \cup update

\* StateService.Commit merges into the latest row.
CommitTools(j) ==
    LET q == catalogJob[j]
        kept == Retained(EventsOf(j)) IN
    /\ q.at = "commit"
    /\ IF Conflicts(kept, q.update, EventsOf(j)) THEN JobFails(j) /\ UNCHANGED <<declared, toolTags, groupsCommitted>>
       ELSE /\ declared' = Merged(kept, q.update)
            /\ toolTags' = toolTags \cup q.tags
            /\ groupsCommitted' = [e \in DOMAIN groupsCommitted |->
                   IF e \in EventsOf(j) THEN {t \in q.update : t.source = "elwisp" /\ t.event = e} ELSE groupsCommitted[e]]
            /\ Job(j, [q EXCEPT !.at = "over", !.end = "ok"])
    /\ UNCHANGED <<catalogScript, skillTools, reloads, tagFile, tagCache>>

CatalogStep(j) ==
    \/ BeginJob(j) \/ SelectRoots(j) \/ NextName(j) \/ StatTags(j) \/ ReadTags(j) \/ TagRoots(j) \/ NextRoot(j)
    \/ NextDependency(j) \/ SearchOver(j) \/ PreloadSkills(j) \/ RegisterRemote(j) \/ CommitTools(j)

CatalogNext ==
    \/ \E j \in CatalogJobs : CatalogStep(j)
    \/ \E g \in SkillGroups : ReloadSkills(g)
    \/ \E c \in Scripted.configs, bad \in BOOLEAN : EditTags(c, bad)

\* A job that was begun goes on.
CatalogSpec == CatalogInit /\ [][CatalogNext]_catalogVars /\ \A j \in CatalogJobs : WF_catalogVars(CatalogStep(j))

-----------------------------------------------------------------------------
\* A search comes to every tool once, however its dependencies go in circles, and follows all of them:
\* at its end a dependency is found, has failed, or was not there for this actor (addDiscoveryDetail).
FoundOnce ==
    \A j \in CatalogJobs :
       LET q == catalogJob[j]
           all == [i \in 1 .. Len(q.found) |-> q.found[i].name] \o q.errs IN
       /\ \A i, k \in DOMAIN all : i # k => all[i] # all[k]
       /\ q.at = "search" /\ q.stack = <<>> /\ q.roots = {} /\ reloads = 0 =>
             \A d \in ToSet(q.found), dep \in UNION {ToSet(e.depends) : e \in ToSet(q.found)} :
                dep \in ToSet(all) \/ Query(j, {dep}, TRUE, TRUE, "any") = {}

\* What is found may be used by who asked, where it asked, and a hidden tool only comes as the
\* dependency of another; in a background task nothing comes that is not allowed or such a
\* dependency (Query, PrepareBackground).
FoundAllowed ==
    \A j \in CatalogJobs :
       LET q == catalogJob[j]
           deps == UNION {ToSet(d.depends) : d \in ToSet(q.found)} IN
       \A d \in ToSet(q.found) :
          /\ Available(j, d) /\ CanAccessTool(j, d)
          /\ d.hidden => d.name \in deps
          /\ Wish(j).kind = "background" /\ ~Wish(j).unrestricted => d.name \in Wish(j).allowed \cup deps

\* A background task declares nothing that belongs to the foreground (BackgroundDiscoveredTools).
BackgroundDeclares ==
    \A j \in CatalogJobs : Wish(j).kind = "background" /\ catalogJob[j].at = "commit" =>
        \A t \in catalogJob[j].update : ~t.foreground /\ t.key \notin {"discover_tool", "workspace"}

\* The remote tools of an event in the session are those of its last registration, whole; a name is
\* declared once; and a name is not taken from another group (prepareUpdate, Commit).
GroupsWhole ==
    /\ \A t, u \in declared : t # u => t.key # u.key
    /\ \A e \in DOMAIN groupsCommitted : {t \in declared : t.source = "elwisp" /\ t.event = e} = groupsCommitted[e]

\* A cache that passes for the file's is the file's (toolTagConfigSource.load).
TagCacheFresh == tagCache.loaded /\ tagCache.at = tagFile.at => tagCache.config = tagFile.config

\* Every job ends.
CatalogJobsEnd == \A j \in CatalogJobs : (catalogJob[j].at # "new") ~> (catalogJob[j].at = "over")
=============================================================================
