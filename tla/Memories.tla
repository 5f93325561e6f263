------------------------------- MODULE Memories -------------------------------
(***************************************************************************)
(* What the assistant remembers.                                           *)
(*                                                                         *)
(* The long memories (internal/tool/builtin/long_memory): Markdown files   *)
(* that users may edit, and an SQLite index of them that is brought up to  *)
(* date statement by statement, without a transaction, before a search.    *)
(* A file is a number in the order of the directory; 1 .. MaxMemory are    *)
(* the names the tool gives to the memories of these IDs, the others names *)
(* that a user chose.  A file holds [id, text] or is missing (NoMemory);   *)
(* the ID 0 stands for metadata that cannot be parsed or are not valid.    *)
(* The modification time and the size of a file tell its contents apart,   *)
(* so the contents are its stamp.                                          *)
(* A call holds the store's lock; users do not.  The check of a revision   *)
(* and the rename or the removal it guards are one step.                   *)
(*                                                                         *)
(* The resident memories (internal/memory/resident): one file for all      *)
(* users, replaced as a whole, with a cache, and migrated once from the    *)
(* format of v0.6.0.  A part of a memory is its number of units.           *)
(***************************************************************************)
EXTENDS Naturals, Sequences, FiniteSets, SequencesExt

CONSTANTS
    MaxMemory,     \* bound: the IDs
    UserFiles,     \* bound: files with names of the user's
    MemoryTexts,   \* what a memory says
    UserChanges,   \* what users do to files: [path, contents]
    MemoryWorlds,  \* what happens in a behaviour: [files, ops, edits, faults]
    MemoryOwners,  \* whose resident memories there are
    CoreLimit, NormalLimit

ASSUME MemoryAssumption ==
    /\ MaxMemory \in Nat \ {0} /\ UserFiles \in Nat
    /\ CoreLimit \in Nat \ {0} /\ NormalLimit \in Nat \ {0}

VARIABLES
    files,      \* the directory of memories
    memRows,    \* table memory_files: [id, path, stamp]
    fts,        \* table memory_fts: [id, text]
    bad,        \* table memory_invalid_files: [path, why, stamp]
    errs,       \* formatErrors
    synced,     \* lastSync: "never", "fresh", "old" after the cooldown
    memCall,    \* the call that holds the lock
    approved,   \* updates and deletions that were prepared and wait to be run
    resident,   \* the file of the resident memories, its backup, the cache and the call under way
    memWorld    \* what may still happen in this behaviour, and whether a step has failed

longVars == <<files, memRows, fts, bad, errs, synced, memCall, approved>>
memoryVars == <<files, memRows, fts, bad, errs, synced, memCall, approved, resident, memWorld>>

Ids == 1 .. MaxMemory
Paths == 1 .. MaxMemory + UserFiles
MemoryContents == [id : 0 .. MaxMemory, text : MemoryTexts]
NoMemory == [id |-> 0, text |-> ""]
WellFormed(c) == c.id # 0

MayCall(op) == op \in memWorld.ops
MemoryFails == memWorld.faults > 0 /\ memWorld' = [memWorld EXCEPT !.faults = @ - 1, !.failed = TRUE]

-----------------------------------------------------------------------------
(* One statement each: what it does to the tables.                         *)
Statement(do, id, path, stamp) == [do |-> do, id |-> id, path |-> path, stamp |-> stamp]

\* indexRecordLocked
IndexRecord(id, path, stamp) ==
    <<Statement("row", id, path, stamp), Statement("unsearched", id, path, stamp),
      Statement("searched", id, path, stamp), Statement("valid", id, path, stamp)>>

\* deleteIndexLocked
DeleteIndex(id, path) ==
    <<Statement("unsearched", id, path, NoMemory), Statement("unrow", id, path, NoMemory),
      Statement("valid", id, path, NoMemory)>>

RowStatement(s) ==
    CASE s.do = "row" -> {r \in memRows : r.id # s.id} \cup {[id |-> s.id, path |-> s.path, stamp |-> s.stamp]}
      [] s.do = "unrow" -> {r \in memRows : r.id # s.id}
      [] OTHER -> memRows

FtsStatement(s) ==
    CASE s.do = "unsearched" -> {f \in fts : f.id # s.id}
      [] s.do = "searched" -> fts \cup {[id |-> s.id, text |-> s.stamp.text]}
      [] OTHER -> fts

InvalidAt(path, why, stamp) == [path |-> path, why |-> why, stamp |-> stamp]

BadStatement(s) ==
    CASE s.do = "valid" -> {b \in bad : b.path # s.path}
      [] s.do \in {"format", "duplicate"} -> {b \in bad : b.path # s.path} \cup {InvalidAt(s.path, s.do, s.stamp)}
      [] OTHER -> bad

\* The path of a row is unique.
PathTaken(s) == s.do = "row" /\ \E r \in memRows : r.path = s.path /\ r.id # s.id

-----------------------------------------------------------------------------
(* syncLocked: what the directory shows beside the tables.                 *)
KnownBad(p) == \E e \in errs \cap bad : e.path = p /\ e.why = "format" /\ e.stamp = files[p]
RowsAt(p) == {r \in memRows : r.path = p}
NoLongerBad(p) == \A b \in bad : b.path # p
Unchanged(p) == NoLongerBad(p) /\ \E r \in RowsAt(p) : r.stamp = files[p]

Misformed(p) == files[p] # NoMemory /\ (KnownBad(p) \/ (~Unchanged(p) /\ ~WellFormed(files[p])))
ClaimsId(p) == files[p] # NoMemory /\ ~Misformed(p)
IdAt(p) == IF Unchanged(p) THEN (CHOOSE r \in RowsAt(p) : TRUE).id ELSE files[p].id

\* The first file of an ID in the order of the directory owns it.
OwnsId(p) == ClaimsId(p) /\ \A q \in Paths : q < p /\ ClaimsId(q) => IdAt(q) # IdAt(p)

\* Rows whose file is gone, has another ID now, or has lost its ID to an earlier file.
Outdated == {r \in memRows : ~(OwnsId(r.path) /\ IdAt(r.path) = r.id)}
ChangedFiles == SetToSortSeq({p \in Paths : OwnsId(p) /\ ~Unchanged(p)}, <)
InvalidFiles ==
    {InvalidAt(p, "format", files[p]) : p \in {q \in Paths : Misformed(q)}} \cup
    {InvalidAt(p, "duplicate", files[p]) : p \in {q \in Paths : ClaimsId(q) /\ ~OwnsId(q)}}

\* What is known to be invalid when the outdated rows have been deleted and the changed files indexed.
StillBad ==
    {b \in bad : /\ \A r \in Outdated : r.path # b.path
                 /\ \A i \in DOMAIN ChangedFiles : ChangedFiles[i] # b.path}

\* The order within a map is arbitrary, that of the groups is not.
SyncPlan ==
    [forget |-> {DeleteIndex(r.id, r.path) : r \in Outdated},
     index  |-> [i \in DOMAIN ChangedFiles |->
                    IndexRecord(files[ChangedFiles[i]].id, ChangedFiles[i], files[ChangedFiles[i]])],
     settle |-> {<<Statement("valid", 0, b.path, NoMemory)>> :
                    b \in {x \in StillBad : \A y \in InvalidFiles : y.path # x.path}},
     report |-> {<<Statement(b.why, 0, b.path, b.stamp)>> : b \in InvalidFiles \ StillBad},
     errs   |-> {b \in InvalidFiles : b.why = "format"},
     seen   |-> files]

NoPlan == [forget |-> {}, index |-> <<>>, settle |-> {}, report |-> {}, errs |-> {},
           seen |-> [p \in Paths |-> NoMemory]]
NoCall == [at |-> "idle", op |-> "none", id |-> 0, plan |-> NoPlan, todo |-> <<>>]
Empty == [core |-> 0, normal |-> 0]
Nothing == [o \in MemoryOwners |-> Empty]
NoResident == [at |-> "idle", owner |-> "none", part |-> "none", units |-> 0, mine |-> Nothing]

MemoryInit ==
    /\ memRows = {} /\ fts = {} /\ bad = {} /\ errs = {} /\ synced = "never"
    /\ memCall = NoCall /\ approved = {}
    /\ \E w \in MemoryWorlds :
          /\ files = w.files
          /\ memWorld = [ops |-> w.ops, edits |-> w.edits, faults |-> w.faults, failed |-> FALSE]
    /\ resident = [form |-> IF MayCall("resident") THEN "old" ELSE "none", backup |-> "none",
                   file |-> IF MayCall("resident") THEN [o \in MemoryOwners |-> [core |-> 1, normal |-> 1]] ELSE Nothing,
                   cache |-> [form |-> "unread", file |-> Nothing], call |-> NoResident]

-----------------------------------------------------------------------------
(* Calls of the long memory tools.                                         *)
Scans(op, id) == memCall' = [NoCall EXCEPT !.at = "sync", !.op = op, !.id = id, !.plan = SyncPlan]

\* search and categories: at most one synchronization within the cooldown.
Search ==
    /\ MayCall("search") /\ memCall.at = "idle" /\ synced # "fresh"
    /\ Scans("search", 0) /\ synced' = "never"
    /\ UNCHANGED <<files, memRows, fts, bad, errs, approved, resident, memWorld>>

\* The next statements of the synchronization.
SyncGroup ==
    /\ memCall.at = "sync" /\ memCall.todo = <<>>
    /\ LET plan == memCall.plan IN
       CASE plan.forget # {} -> \E g \in plan.forget :
               memCall' = [memCall EXCEPT !.todo = g, !.plan.forget = @ \ {g}]
         [] plan.forget = {} /\ plan.index # <<>> ->
               memCall' = [memCall EXCEPT !.todo = Head(plan.index), !.plan.index = Tail(@)]
         [] plan.forget = {} /\ plan.index = <<>> /\ plan.settle # {} -> \E g \in plan.settle :
               memCall' = [memCall EXCEPT !.todo = g, !.plan.settle = @ \ {g}]
         [] plan.forget = {} /\ plan.index = <<>> /\ plan.settle = {} /\ plan.report # {} -> \E g \in plan.report :
               memCall' = [memCall EXCEPT !.todo = g, !.plan.report = @ \ {g}]
         [] OTHER -> memCall' = [memCall EXCEPT !.at = "synced"]
    /\ IF memCall'.at = "synced" THEN errs' = memCall.plan.errs /\ synced' = "fresh"
                                 ELSE UNCHANGED <<errs, synced>>
    /\ UNCHANGED <<files, memRows, fts, bad, approved, resident, memWorld>>

\* A statement succeeds; or it fails, or its context has ended, and so has the call.
Execute ==
    /\ memCall.todo # <<>>
    /\ LET s == Head(memCall.todo) IN
       \/ /\ ~PathTaken(s)
          /\ memRows' = RowStatement(s) /\ fts' = FtsStatement(s) /\ bad' = BadStatement(s)
          /\ errs' = IF s.do = "valid" THEN {e \in errs : e.path # s.path} ELSE errs
          /\ memCall' = IF memCall.at = "index" /\ Len(memCall.todo) = 1 THEN NoCall
                        ELSE [memCall EXCEPT !.todo = Tail(@)]
          /\ UNCHANGED memWorld
       \/ PathTaken(s) /\ memCall' = NoCall /\ UNCHANGED <<memRows, fts, bad, errs, memWorld>>
       \/ MemoryFails /\ memCall' = NoCall /\ UNCHANGED <<memRows, fts, bad, errs>>
    /\ UNCHANGED <<files, synced, approved, resident>>

Approval(op, id, path, before, after) == [op |-> op, id |-> id, path |-> path, before |-> before, after |-> after]

\* previewUpdate and the preparation of a deletion, for the row that was found.  An update is indexed
\* under the ID its file has now.
Approvals(op, id, text) ==
    LET there == {r \in memRows : r.id = id /\ files[r.path] # NoMemory}
    IN IF op = "delete" THEN {Approval(op, id, r.path, files[r.path], NoMemory) : r \in there}
       ELSE {Approval(op, files[r.path].id, r.path, files[r.path], [files[r.path] EXCEPT !.text = text]) :
                r \in {x \in there : WellFormed(files[x.path]) /\ files[x.path].text # text}}

\* One approval at a time waits for the confirmation of the user.
Offers(op, id) == \E text \in MemoryTexts : approved' = Approvals(op, id, text)

\* An ID that is not indexed is looked up once more after a synchronization, which no cooldown prevents.
PrepareMemory(op, id) ==
    /\ MayCall(op) /\ memCall.at = "idle" /\ approved = {}
    /\ IF \E r \in memRows : r.id = id
       THEN Offers(op, id) /\ UNCHANGED <<memCall, synced>>
       ELSE Scans(op, id) /\ synced' = "never" /\ UNCHANGED approved
    /\ UNCHANGED <<files, memRows, fts, bad, errs, resident, memWorld>>

AfterSync ==
    /\ memCall.at = "synced"
    /\ memCall' = NoCall
    /\ IF memCall.op = "search" THEN UNCHANGED approved ELSE Offers(memCall.op, memCall.id)
    /\ UNCHANGED <<files, memRows, fts, bad, errs, synced, resident, memWorld>>

\* What was approved is still so: the row leads to the same file, and nobody has changed it.
StillApproved(a) == (\E r \in memRows : r.id = a.id /\ r.path = a.path) /\ files[a.path] = a.before

Indexing(statements) == memCall' = [NoCall EXCEPT !.at = "index", !.todo = statements]

\* update and delete of the store: the file first, then the index.
RunApproved(a) ==
    /\ memCall.at = "idle" /\ a \in approved
    /\ approved' = approved \ {a}
    /\ \/ /\ StillApproved(a)
          /\ files' = [files EXCEPT ![a.path] = a.after]
          /\ Indexing(IF a.op = "delete" THEN DeleteIndex(a.id, a.path) ELSE IndexRecord(a.id, a.path, a.after))
          /\ UNCHANGED memWorld
       \/ ~StillApproved(a) /\ UNCHANGED <<files, memCall, memWorld>>
       \/ MemoryFails /\ UNCHANGED <<files, memCall>>
    /\ UNCHANGED <<memRows, fts, bad, errs, synced, resident>>

\* nextIDLocked: above every indexed ID, and no file has the name of a memory of this ID.
FreeIds == {i \in Ids : (\A r \in memRows : r.id < i) /\ files[i] = NoMemory}
NextId == CHOOSE i \in FreeIds : \A j \in FreeIds : i <= j

Save(text) ==
    /\ MayCall("save") /\ memCall.at = "idle" /\ FreeIds # {}
    /\ \/ LET c == [id |-> NextId, text |-> text] IN
          /\ files' = [files EXCEPT ![NextId] = c]
          /\ Indexing(IndexRecord(NextId, NextId, c)) /\ UNCHANGED memWorld
       \/ MemoryFails /\ UNCHANGED <<files, memCall>>
    /\ UNCHANGED <<memRows, fts, bad, errs, synced, approved, resident>>

CooldownOver ==
    /\ synced = "fresh" /\ synced' = "old"
    /\ UNCHANGED <<files, memRows, fts, bad, errs, memCall, approved, resident, memWorld>>

UserEdits(p, c) ==
    /\ memWorld.edits > 0 /\ files[p] # c
    /\ files' = [files EXCEPT ![p] = c]
    /\ memWorld' = [memWorld EXCEPT !.edits = @ - 1]
    /\ UNCHANGED <<memRows, fts, bad, errs, synced, memCall, approved, resident>>

-----------------------------------------------------------------------------
(* Resident memories.                                                      *)
Res(at) == [resident EXCEPT !.call.at = at]
ResidentDone == [resident EXCEPT !.call = NoResident]
LongUnchanged == UNCHANGED longVars

\* WriteCore, WriteNormal (DeleteNormal is the one of nothing) and AppendNormal.
ResidentCall(owner, part, units) ==
    /\ MayCall("resident") /\ resident.call.at = "idle"
    /\ resident' = [resident EXCEPT !.call = 
                     [at |-> "load", owner |-> owner, part |-> part, units |-> units, mine |-> Nothing]]
    /\ UNCHANGED memWorld /\ LongUnchanged

Cached == [form |-> resident.form, file |-> resident.file]

\* loadLocked: the cache when the file is the one it was made of, or the file, whose old format is
\* migrated behind a backup that must not exist yet.
ResidentLoad ==
    /\ resident.call.at = "load"
    /\ IF resident.cache = Cached \/ resident.form # "old"
       THEN resident' = [Res("update") EXCEPT !.cache = Cached, !.call.mine = resident.file]
       ELSE resident' = IF resident.backup = "none" THEN [Res("backup") EXCEPT !.backup = "partial"]
                                                    ELSE ResidentDone
    /\ UNCHANGED memWorld /\ LongUnchanged

\* A backup that cannot be written is removed.
ResidentBackup ==
    /\ resident.call.at = "backup"
    /\ \/ resident' = [Res("migrate") EXCEPT !.backup = "whole"] /\ UNCHANGED memWorld
       \/ MemoryFails /\ resident' = [ResidentDone EXCEPT !.backup = "none"]
    /\ LongUnchanged

\* saveLocked: a temporary file that is renamed.
ResidentMigrate ==
    /\ resident.call.at = "migrate"
    /\ \/ /\ resident' = [Res("update") EXCEPT !.form = "new", !.call.mine = resident.file,
                                               !.cache = [form |-> "new", file |-> resident.file]]
          /\ UNCHANGED memWorld
       \/ MemoryFails /\ resident' = ResidentDone
    /\ LongUnchanged

LimitOf(part) == IF part = "core" THEN CoreLimit ELSE NormalLimit

\* The memory with one part replaced, or lengthened; one that is empty is no memory.
Updated(m, call) ==
    IF call.part = "append" THEN [m EXCEPT !.normal = @ + call.units] ELSE [m EXCEPT ![call.part] = call.units]

WithinLimit(m, call) ==
    LET part == IF call.part = "append" THEN "normal" ELSE call.part
    IN m[part] <= LimitOf(part)

ResidentUpdate ==
    /\ resident.call.at = "update"
    /\ LET call == resident.call
           new == Updated(call.mine[call.owner], call)
       IN resident' = IF WithinLimit(new, call) /\ new # call.mine[call.owner]
                      THEN [Res("save") EXCEPT !.call.mine = [call.mine EXCEPT ![call.owner] = new]]
                      ELSE ResidentDone
    /\ UNCHANGED memWorld /\ LongUnchanged

\* The rename, after which the file may be impossible to look at.
ResidentSave ==
    /\ resident.call.at = "save"
    /\ LET new == [form |-> "new", file |-> resident.call.mine] IN
       \/ resident' = [ResidentDone EXCEPT !.form = "new", !.file = new.file, !.cache = new] /\ UNCHANGED memWorld
       \/ MemoryFails /\ resident' = ResidentDone
       \/ MemoryFails /\ resident' = [ResidentDone EXCEPT !.form = "new", !.file = new.file]
    /\ LongUnchanged

\* The process ends, wherever it is, and starts again.
MemoryRestart ==
    /\ MemoryFails
    /\ errs' = {} /\ synced' = "never" /\ memCall' = NoCall /\ approved' = {}
    /\ resident' = [ResidentDone EXCEPT !.cache.form = "unread"]
    /\ UNCHANGED <<files, memRows, fts, bad>>

LongSteps ==
    \/ Search \/ SyncGroup \/ Execute \/ AfterSync \/ CooldownOver
    \/ \E id \in Ids, op \in {"update", "delete"} : PrepareMemory(op, id)
    \/ \E a \in approved : RunApproved(a)
    \/ \E text \in MemoryTexts : Save(text)
    \/ \E e \in UserChanges : UserEdits(e.path, e.contents)

ResidentSteps ==
    \/ \E o \in MemoryOwners, part \in {"core", "normal", "append"}, n \in 0 .. 2 : ResidentCall(o, part, n)
    \/ ResidentLoad \/ ResidentBackup \/ ResidentMigrate \/ ResidentUpdate \/ ResidentSave

MemoryNext == LongSteps \/ ResidentSteps \/ MemoryRestart

MemorySpec == MemoryInit /\ [][MemoryNext]_memoryVars

-----------------------------------------------------------------------------
MemoryTypeOK ==
    /\ files \in [Paths -> MemoryContents \cup {NoMemory}]
    /\ memRows \subseteq [id : Ids, path : Paths, stamp : MemoryContents]
    /\ fts \subseteq [id : Ids, text : MemoryTexts]
    /\ bad \subseteq [path : Paths, why : {"format", "duplicate"}, stamp : MemoryContents]
    /\ synced \in {"never", "fresh", "old"}
    /\ memCall.at \in {"idle", "sync", "synced", "index"}
    /\ resident.form \in {"none", "old", "new"}

\* Which file has an ID, of the contents of a directory alone.
Owner(seen, p) == WellFormed(seen[p]) /\ \A q \in Paths : q < p /\ WellFormed(seen[q]) => seen[q].id # seen[p].id

\* When a synchronization has succeeded the index is that of the directory it has seen, whatever failed or
\* was changed before: every ID leads to the first file that claims it, and every other file is reported.
SyncedExact ==
    memCall.at = "synced" =>
        LET seen == memCall.plan.seen IN
        /\ memRows = {[id |-> seen[p].id, path |-> p, stamp |-> seen[p]] : p \in {q \in Paths : Owner(seen, q)}}
        /\ bad = {InvalidAt(p, IF WellFormed(seen[p]) THEN "duplicate" ELSE "format", seen[p]) :
                     p \in {q \in Paths : seen[q] # NoMemory /\ ~Owner(seen, q)}}

\* A synchronization never violates the uniqueness of the paths.
SyncAdmissible == memCall.at = "sync" /\ memCall.todo # <<>> => ~PathTaken(Head(memCall.todo))

\* What can be searched is what is indexed, once; a memory is indexed and cannot be found only after a
\* failure between two statements.
SearchedIndexed ==
    /\ \A f \in fts : \E r \in memRows : r.id = f.id
    /\ \A f, g \in fts : f.id = g.id => f = g
    /\ ~memWorld.failed /\ memCall.todo = <<>> =>
          \A r \in memRows : [id |-> r.id, text |-> r.stamp.text] \in fts

\* A migration never loses the memories of the old format: they are in the file or whole in the backup.
OldMemoriesKept ==
    MayCall("resident") => resident.form = "old" \/ resident.backup = "whole"

\* The tool writes a new file, or what was approved of a file that is still as it was shown; the rest is
\* left alone.  The resident memory of a user is not changed on behalf of another one, and no part is made
\* longer than its limit.
FilesApproved ==
    \A p \in Paths :
        files'[p] # files[p] /\ memWorld'.edits = memWorld.edits =>
            \/ files[p] = NoMemory /\ (\A r \in memRows : r.id # p)
            \/ \E a \in approved : a.path = p /\ a.before = files[p] /\ a.after = files'[p]

OthersKept ==
    /\ \A o \in MemoryOwners : resident'.file[o] # resident.file[o] => resident.call.owner = o
    /\ \A o \in MemoryOwners, part \in {"core", "normal"} :
          resident'.file[o][part] > resident.file[o][part] =>
              resident'.file[o][part] <= LimitOf(part)

MemoriesWritten == [][FilesApproved /\ OthersKept]_memoryVars
=============================================================================
