---------------------------- MODULE FileRollback ----------------------------
(* File edits and their rollback (internal/fileops).  An edit runs under    *)
(* the lock of its target, checks the file again before the write, and      *)
(* leaves a backup in the scope of its session's binding.  A rollback       *)
(* restores the newest backup if the file is still what the edit made of    *)
(* it.  Other programs write the file and move the link that leads to it    *)
(* whenever they like.                                                      *)
EXTENDS Naturals, FiniteSets, Sequences

CONSTANTS FileOps,        \* operations in flight
          FileBindings,   \* activations of a session
          MaxContents,    \* bound on the contents ever written
          MaxBackups,     \* rollbackMaxRecords
          MaxBackupBytes, \* rollbackMaxBytes, in contents: every backup has size 1
          MaxMeddling,    \* bound on the steps of other programs
          FileRoles       \* what happens in a behaviour: what each operation does, and what interferes

FileTargets == {"f", "g"}
NoFile == 0
LockIDs == 1 .. Cardinality(FileOps)
NoRecord == [id |-> 0, lease |-> 0, target |-> "f", before |-> NoFile, after |-> NoFile]

VARIABLES
  disk,      \* disk[t]: [content, stamp]; content Missing is no file
  pathLink,      \* the target the path leads to
  wroteLast, \* contents, stamps and backup numbers used so far
  liveBindings,      \* the bindings that are valid
  scopes,    \* the bindings that have a scope; a binding has one at most once in its life
  backups,   \* records
  backupBytes,
  fileLocks, \* locks[t]: the lock's number, 0 for none
  lockUsers, \* users of each lock
  lockHeld,  \* the locks whose token is taken
  mu,        \* the operation that keeps the manager's mutex over a write, 0 for none
  entered,   \* the operation inside a session's commit admission, by binding, 0 for none
  fileOp,    \* the operations
  meddled,   \* steps of other programs
  role       \* this behaviour's choice of FileRoles

fileVars == <<disk, pathLink, wroteLast, liveBindings, scopes, backups, backupBytes, fileLocks, lockUsers, lockHeld, mu, entered, fileOp, meddled, role>>

\* base is what a prepared edit was approved on, seen what the operation read,
\* late whether another program came between its last check and its write.
NewFileOp == [at |-> "new", kind |-> "edit", b |-> 0, target |-> "f", lock |-> 0, prepared |-> FALSE,
              base |-> NoFile, new |-> NoFile, seen |-> NoFile, stamp |-> 0, rec |-> NoRecord, want |-> 0, late |-> FALSE]

Contents == 0 .. MaxContents

\* ResolveFileTarget: an operation's path goes through the link or names g itself.
Leads(o) == IF role.linked[o] THEN pathLink ELSE "g"

\* Every variable has its type.
FileTypeOK ==
    /\ \A t \in FileTargets : disk[t].content \in Contents /\ disk[t].stamp \in Nat
    /\ pathLink \in FileTargets /\ liveBindings \subseteq FileBindings
    /\ scopes \subseteq FileBindings /\ fileLocks \in [FileTargets -> Nat]
    /\ Cardinality(backups) <= MaxBackups /\ backupBytes \in 0 .. MaxBackupBytes
    /\ mu \in FileOps \cup {0} /\ entered \in [FileBindings -> FileOps \cup {0}]

FileInit ==
    /\ disk = [t \in FileTargets |-> IF t = "f" THEN [content |-> 1, stamp |-> 1] ELSE [content |-> NoFile, stamp |-> 0]]
    /\ pathLink = "f" /\ wroteLast = [content |-> 1, stamp |-> 1, id |-> 0]
    /\ liveBindings = FileBindings /\ scopes = {}
    /\ backups = {} /\ backupBytes = 0
    /\ fileLocks = [t \in FileTargets |-> 0] /\ lockUsers = [l \in LockIDs |-> 0] /\ lockHeld = {}
    /\ mu = 0 /\ entered = [b \in FileBindings |-> 0]
    /\ fileOp = [o \in FileOps |-> NewFileOp] /\ meddled = 0 /\ role \in FileRoles

-----------------------------------------------------------------------------
(* Scopes and leases.                                                       *)

\* removeLocked: the records that stay, and the bytes they take.
Kept(rs) == backups' = rs /\ backupBytes' = Cardinality({r \in rs : r.before # NoFile})

\* Session: invalid bindings are forgotten, then the scope is taken or made.
Lease(o, b) ==
    /\ b \in liveBindings /\ scopes' = (scopes \cap liveBindings) \cup {b}
    /\ Kept({r \in backups : r.lease \in liveBindings})
    /\ fileOp' = [fileOp EXCEPT ![o].b = b]

\* validLocked
LeaseValid(x) == x.b # 0 => x.b \in liveBindings \cap scopes

\* WithBinding captures the lease.  An operation that never binds is a background edit: it
\* has no lease, no admission and leaves no backup.
Bind(o) ==
    /\ mu = 0 /\ fileOp[o].at = "new" /\ fileOp[o].b = 0
    /\ \E b \in FileBindings : Lease(o, b)
    /\ UNCHANGED <<disk, pathLink, wroteLast, liveBindings, fileLocks, lockUsers, lockHeld, mu, entered, meddled, role>>

\* The session is switched away from: for good, and not while a commit is admitted.
SwitchBinding(b) ==
    /\ role.switching /\ b \in liveBindings /\ entered[b] = 0 /\ liveBindings' = liveBindings \ {b}
    /\ UNCHANGED <<disk, pathLink, wroteLast, scopes, backups, backupBytes, fileLocks, lockUsers, lockHeld, mu, entered, fileOp, meddled, role>>

\* Forget, when the event of the switch arrives.
ForgetBinding(b) ==
    /\ mu = 0 /\ b \in scopes \ liveBindings
    /\ Kept({r \in backups : r.lease # b}) /\ scopes' = scopes \ {b}
    /\ UNCHANGED <<disk, pathLink, wroteLast, liveBindings, fileLocks, lockUsers, lockHeld, mu, entered, fileOp, meddled, role>>

-----------------------------------------------------------------------------
(* lockTarget: a lock for each target, kept as long as somebody uses it.    *)

Forward(o, at) == fileOp' = [fileOp EXCEPT ![o].at = at]

\* The operation counts itself in, making the lock if there is none.
Queue(o, t, at) ==
    LET l == IF fileLocks[t] # 0 THEN fileLocks[t] ELSE CHOOSE n \in LockIDs : lockUsers[n] = 0 IN
    /\ fileLocks' = [fileLocks EXCEPT ![t] = l] /\ lockUsers' = [lockUsers EXCEPT ![l] = @ + 1]
    /\ fileOp' = [fileOp EXCEPT ![o].at = at, ![o].target = t, ![o].lock = l]

\* Mutant: whoever leaves takes the lock with it.
LastUserAlways(l) == TRUE

\* release deletes the lock with its last user.
LastUser(l) == lockUsers[l] = 1

\* The operation counts itself out.
LeaveLock(o) ==
    LET l == fileOp[o].lock
        t == fileOp[o].target
    IN /\ lockUsers' = [lockUsers EXCEPT ![l] = @ - 1]
       /\ fileLocks' = [fileLocks EXCEPT ![t] = IF LastUser(l) /\ @ = l THEN 0 ELSE @]

\* Of an operation that is over nothing counts.
Over(o, at) == fileOp' = [fileOp EXCEPT ![o] = [NewFileOp EXCEPT !.at = at]]

\* The unlock that ends an operation, after its admission was released.
FinishFileOp(o) ==
    /\ mu \in {0, o} /\ LeaveLock(o) /\ lockHeld' = lockHeld \ {fileOp[o].lock}
    /\ entered' = [b \in FileBindings |-> IF entered[b] = o THEN 0 ELSE entered[b]]

TakeLock(o) ==
    /\ fileOp[o].at \in {"waiting", "previewWait", "rollbackWait"} /\ fileOp[o].lock \notin lockHeld
    /\ lockHeld' = lockHeld \cup {fileOp[o].lock}
    /\ Forward(o, CASE fileOp[o].at = "waiting" -> "locked" [] fileOp[o].at = "previewWait" -> "preview" [] OTHER -> "rollback")
    /\ UNCHANGED <<disk, pathLink, wroteLast, liveBindings, scopes, backups, backupBytes, fileLocks, lockUsers, mu, entered, meddled, role>>

\* The caller's context ends while it waits.
GiveUpLock(o) ==
    /\ fileOp[o].at \in {"waiting", "previewWait", "rollbackWait"} /\ mu = 0 /\ LeaveLock(o) /\ Over(o, "failed")
    /\ UNCHANGED <<disk, pathLink, wroteLast, liveBindings, scopes, backups, backupBytes, lockHeld, mu, entered, meddled, role>>

\* Any check that fails ends the operation; nothing was written.
Refuse(o) ==
    /\ fileOp[o].at \in {"preview", "locked", "rollback", "read", "inspected", "entered", "checked"}
    /\ FinishFileOp(o) /\ Over(o, "failed")
    /\ mu' = IF mu = o THEN 0 ELSE mu
    /\ UNCHANGED <<disk, pathLink, wroteLast, liveBindings, scopes, backups, backupBytes, meddled, role>>

-----------------------------------------------------------------------------
(* Edits.                                                                   *)

\* PrepareEdit: the edit is computed for confirmation under the lock, which is then left.
PrepareEdit(o) ==
    /\ {"approve", "edit"} \subseteq role.does[o] /\ fileOp[o].at = "new" /\ LeaseValid(fileOp[o]) /\ mu = 0
    /\ Queue(o, Leads(o), "previewWait")
    /\ UNCHANGED <<disk, pathLink, wroteLast, liveBindings, scopes, backups, backupBytes, lockHeld, mu, entered, meddled, role>>

PreviewEdit(o) ==
    /\ fileOp[o].at = "preview" /\ wroteLast.content < MaxContents /\ mu = 0
    /\ wroteLast' = [wroteLast EXCEPT !.content = @ + 1]
    /\ LeaveLock(o) /\ lockHeld' = lockHeld \ {fileOp[o].lock}
    /\ fileOp' = [fileOp EXCEPT ![o].at = "approved", ![o].prepared = TRUE, ![o].base = disk[Leads(o)].content,
                                ![o].new = wroteLast.content + 1]
    /\ Leads(o) = fileOp[o].target
    /\ UNCHANGED <<disk, pathLink, liveBindings, scopes, backups, backupBytes, mu, entered, meddled, role>>

\* edit: the path still leads to the approved target, and the lease still holds.
EditBegin(o) ==
    /\ "edit" \in role.does[o]
    /\ fileOp[o].at \in {"new", "approved"} /\ fileOp[o].kind = "edit" /\ LeaseValid(fileOp[o]) /\ mu = 0
    /\ fileOp[o].prepared => Leads(o) = fileOp[o].target
    /\ Queue(o, Leads(o), "waiting")
    /\ UNCHANGED <<disk, pathLink, wroteLast, liveBindings, scopes, backups, backupBytes, lockHeld, mu, entered, meddled, role>>

\* Mutant: the approved edit is computed again for whatever the file holds now.
ApprovedBaseAny(x, c) == TRUE

\* A prepared edit is for the revision it was approved on.
ApprovedBase(x, c) == x.prepared => c = x.base

\* editFileWithResult reads through the path.
ReadForEdit(o) ==
    /\ fileOp[o].at = "locked" /\ fileOp[o].kind = "edit"
    /\ LET c == disk[Leads(o)].content IN
       /\ ApprovedBase(fileOp[o], c)
       /\ IF fileOp[o].prepared THEN UNCHANGED wroteLast
          ELSE wroteLast.content < MaxContents /\ wroteLast' = [wroteLast EXCEPT !.content = @ + 1]
       /\ fileOp' = [fileOp EXCEPT ![o].at = "read", ![o].seen = c,
                                   ![o].new = IF fileOp[o].prepared THEN @ ELSE wroteLast.content + 1]
    /\ UNCHANGED <<disk, pathLink, liveBindings, scopes, backups, backupBytes, fileLocks, lockUsers, lockHeld, mu, entered, meddled, role>>

\* inspectFileState: the bytes are compared outside the admission, the stat is kept.
Inspect(o) ==
    /\ fileOp[o].at = "read" /\ disk[Leads(o)].content = fileOp[o].seen
    /\ fileOp' = [fileOp EXCEPT ![o].at = "inspected", ![o].stamp = disk[Leads(o)].stamp]
    /\ UNCHANGED <<disk, pathLink, wroteLast, liveBindings, scopes, backups, backupBytes, fileLocks, lockUsers, lockHeld, mu, entered, meddled, role>>

\* guard.enter: the session's commit admission.
EnterCommit(o) ==
    /\ fileOp[o].at = "inspected" /\ Forward(o, "entered")
    /\ LET b == fileOp[o].b IN
       IF b = 0 THEN UNCHANGED entered ELSE b \in liveBindings /\ entered[b] = 0 /\ entered' = [entered EXCEPT ![b] = o]
    /\ UNCHANGED <<disk, pathLink, wroteLast, liveBindings, scopes, backups, backupBytes, fileLocks, lockUsers, lockHeld, mu, meddled, role>>

\* Mutant: the path is not resolved again.
TargetKeptAlways(o) == TRUE

\* checkFileTarget, checkRollbackFileTarget
TargetKept(o) == Leads(o) = fileOp[o].target

\* Mutant: the file is not looked at again inside the admission.
StateKeptAlways(o) == TRUE

\* checkFileState: same file, same stat; a file that was absent is still absent.
StateKept(o) ==
    IF fileOp[o].seen = NoFile THEN disk[Leads(o)].content = NoFile ELSE disk[Leads(o)].stamp = fileOp[o].stamp

CheckEdit(o) ==
    /\ fileOp[o].at = "entered" /\ fileOp[o].kind = "edit"
    /\ LeaseValid(fileOp[o]) /\ TargetKept(o) /\ StateKept(o)
    /\ Forward(o, "checked")
    /\ UNCHANGED <<disk, pathLink, wroteLast, liveBindings, scopes, backups, backupBytes, fileLocks, lockUsers, lockHeld, mu, entered, meddled, role>>

\* The content of a target is replaced.
Store(t, c) ==
    /\ disk' = [disk EXCEPT ![t] = [content |-> c, stamp |-> wroteLast.stamp + 1]]
    /\ wroteLast' = [wroteLast EXCEPT !.stamp = @ + 1]

\* The write goes through the path.  One that comes late may hit a file that others checked.
WriteEdit(o) ==
    /\ fileOp[o].at = "checked" /\ fileOp[o].kind = "edit"
    /\ Store(Leads(o), fileOp[o].new)
    /\ fileOp' = [q \in FileOps |-> IF q = o THEN [fileOp[o] EXCEPT !.at = "written"]
                                    ELSE IF fileOp[o].late /\ fileOp[q].at = "checked" THEN [fileOp[q] EXCEPT !.late = TRUE]
                                    ELSE fileOp[q]]
    /\ UNCHANGED <<pathLink, liveBindings, scopes, backups, backupBytes, fileLocks, lockUsers, lockHeld, mu, entered, meddled, role>>

Oldest(rs) == CHOOSE r \in rs : \A x \in rs : r.id <= x.id
Sized(rs) == Cardinality({r \in rs : r.before # NoFile})

\* Mutant: a new record does not count itself.
EvictedBefore(rs) == IF Cardinality(rs) > MaxBackups + 1 THEN rs \ {Oldest(rs)} ELSE rs

\* The oldest records go until both limits hold.
EvictedUntilFits(rs) ==
    CHOOSE kept \in SUBSET rs :
       /\ Cardinality(kept) <= MaxBackups /\ Sized(kept) <= MaxBackupBytes
       /\ \A r \in kept, x \in rs \ kept : x.id < r.id
       /\ \A more \in SUBSET rs : /\ kept \subseteq more /\ kept # more
                                  /\ \A r \in more, x \in rs \ more : x.id < r.id
                                  => Cardinality(more) > MaxBackups \/ Sized(more) > MaxBackupBytes

\* The backup replaces the one of the same target in the same scope.
PublishBackup(o) ==
    LET x == fileOp[o]
        r == [id |-> wroteLast.id + 1, lease |-> x.b, target |-> x.target, before |-> x.seen, after |-> x.new]
    IN /\ x.at = "written" /\ x.kind = "edit" /\ mu = 0
       /\ IF x.b # 0 /\ LeaseValid(x)
          THEN /\ Kept(EvictedUntilFits({y \in backups : ~(y.lease = x.b /\ y.target = x.target)} \cup {r}))
               /\ wroteLast' = [wroteLast EXCEPT !.id = @ + 1]
          ELSE UNCHANGED <<backups, backupBytes, wroteLast>>
       /\ FinishFileOp(o) /\ Over(o, "done")
       /\ UNCHANGED <<disk, pathLink, liveBindings, scopes, mu, meddled, role>>

-----------------------------------------------------------------------------
(* Rollbacks.                                                               *)

\* loadRecord: the backup of the target in the operation's scope, if the file still is what
\* the edit made of it.
Loadable(o, t) ==
    {r \in backups : /\ r.lease = fileOp[o].b /\ r.target = t /\ t = Leads(o)
                     /\ disk[t].content = r.after /\ fileOp[o].want \in {0, r.id}}

\* PrepareRollback: the backup is pinned by its number under the lock, which is then left.
PrepareRollback(o) ==
    /\ {"approve", "rollback"} \subseteq role.does[o] /\ fileOp[o].at = "new" /\ fileOp[o].b # 0 /\ LeaseValid(fileOp[o])
    /\ mu = 0 /\ fileLocks[Leads(o)] = 0
    /\ \E r \in Loadable(o, Leads(o)) :
          fileOp' = [fileOp EXCEPT ![o].at = "approved", ![o].kind = "rollback", ![o].want = r.id]
    /\ UNCHANGED <<disk, pathLink, wroteLast, liveBindings, scopes, backups, backupBytes, fileLocks, lockUsers, lockHeld, mu, entered, meddled, role>>

RollbackBegin(o) ==
    /\ "rollback" \in role.does[o]
    /\ \/ fileOp[o].at = "new"
       \/ fileOp[o].at = "approved" /\ fileOp[o].kind = "rollback"
    /\ fileOp[o].b # 0 /\ LeaseValid(fileOp[o]) /\ mu = 0 /\ disk[Leads(o)].content # NoFile
    /\ Queue(o, Leads(o), "rollbackWait")
    /\ UNCHANGED <<disk, pathLink, wroteLast, liveBindings, scopes, backups, backupBytes, lockHeld, mu, entered, meddled, role>>

LoadRecord(o) ==
    /\ fileOp[o].at = "rollback" /\ LeaseValid(fileOp[o]) /\ mu = 0
    /\ \E r \in Loadable(o, fileOp[o].target) :
          fileOp' = [fileOp EXCEPT ![o].at = "read", ![o].kind = "rollback", ![o].rec = r, ![o].seen = r.after]
    /\ UNCHANGED <<disk, pathLink, wroteLast, liveBindings, scopes, backups, backupBytes, fileLocks, lockUsers, lockHeld, mu, entered, meddled, role>>

\* Mutant: the mutex is let go between the last check and the write.
HeldOverWriteNot(o) == UNCHANGED mu

\* held: the manager's mutex stays locked until the file is restored.
HeldOverWrite(o) == mu' = o

CheckRollback(o) ==
    /\ fileOp[o].at = "entered" /\ fileOp[o].kind = "rollback" /\ mu = 0
    /\ TargetKept(o) /\ StateKept(o) /\ LeaseValid(fileOp[o]) /\ fileOp[o].rec \in backups
    /\ HeldOverWrite(o) /\ Forward(o, "checked")
    /\ UNCHANGED <<disk, pathLink, wroteLast, liveBindings, scopes, backups, backupBytes, fileLocks, lockUsers, lockHeld, entered, meddled, role>>

\* The content before the edit comes back, or the file the edit made is removed; the backup
\* is used up.
WriteRollback(o) ==
    /\ fileOp[o].at = "checked" /\ fileOp[o].kind = "rollback" /\ mu \in {0, o}
    /\ Store(fileOp[o].target, fileOp[o].rec.before)
    /\ Kept(backups \ {fileOp[o].rec}) /\ mu' = 0
    /\ FinishFileOp(o) /\ Over(o, "done")
    /\ UNCHANGED <<pathLink, liveBindings, scopes, meddled, role>>

-----------------------------------------------------------------------------
(* Other programs.                                                          *)

\* Operations past their last check cannot see it any more.
Unseen == fileOp' = [o \in FileOps |-> IF fileOp[o].at = "checked" THEN [fileOp[o] EXCEPT !.late = TRUE] ELSE fileOp[o]]

\* A file is written, with new or with earlier bytes, or removed.
Meddle(t) ==
    /\ role.meddling /\ meddled < MaxMeddling /\ meddled' = meddled + 1
    /\ \E c \in 0 .. wroteLast.content : c # disk[t].content /\ Store(t, c)
    /\ Unseen
    /\ UNCHANGED <<pathLink, liveBindings, scopes, backups, backupBytes, fileLocks, lockUsers, lockHeld, mu, entered, role>>

Relink ==
    /\ role.meddling /\ meddled < MaxMeddling /\ meddled' = meddled + 1
    /\ pathLink' \in FileTargets \ {pathLink} /\ Unseen
    /\ UNCHANGED <<disk, wroteLast, liveBindings, scopes, backups, backupBytes, fileLocks, lockUsers, lockHeld, mu, entered, role>>

-----------------------------------------------------------------------------
FileStep(o) ==
    \/ TakeLock(o) \/ PreviewEdit(o) \/ ReadForEdit(o) \/ Inspect(o) \/ EnterCommit(o) \/ CheckEdit(o)
    \/ WriteEdit(o) \/ PublishBackup(o) \/ LoadRecord(o) \/ CheckRollback(o) \/ WriteRollback(o) \/ Refuse(o)

FileNext ==
    \/ \E o \in FileOps : \/ Bind(o) \/ GiveUpLock(o) \/ PrepareEdit(o) \/ EditBegin(o)
                          \/ PrepareRollback(o) \/ RollbackBegin(o) \/ FileStep(o)
    \/ \E b \in FileBindings : SwitchBinding(b) \/ ForgetBinding(b)
    \/ \E t \in FileTargets : Meddle(t)
    \/ Relink

\* Code that holds a lock or has been given one runs on.
FileFairness == \A o \in FileOps : WF_fileVars(FileStep(o))

FileSpec == FileInit /\ [][FileNext]_fileVars /\ FileFairness


-----------------------------------------------------------------------------
Locked(o) == fileOp[o].at \in {"preview", "locked", "rollback", "read", "inspected", "entered", "checked", "written"}

\* Never two operations between lock and unlock of one file, whichever lock object lockTarget
\* gave them.
OneAtATime == \A o, q \in FileOps : o # q /\ Locked(o) /\ Locked(q) => fileOp[o].target # fileOp[q].target

\* Every backup belongs to a scope that exists, one per file, and the counted bytes are theirs:
\* a write that ends after its session was left never brings a backup back.
BackupsAgree ==
    /\ \A r \in backups : r.lease \in scopes
    /\ \A r, x \in backups : r.lease = x.lease /\ r.target = x.target => r = x
    /\ backupBytes = Sized(backups)
    /\ Cardinality(backups) <= MaxBackups /\ backupBytes <= MaxBackupBytes

\* An operation replaces what it has seen: nothing that another program or another operation
\* wrote since is lost, unless it came between the last check and the rename.
NoBlindWrite ==
    [][\A o \in FileOps : fileOp[o].at = "checked" /\ fileOp'[o].at \in {"written", "done"} /\ ~fileOp[o].late
          => Leads(o) = fileOp[o].target /\ disk[Leads(o)].content = fileOp[o].seen]_fileVars

\* What is written is what was approved: the prepared edit of the revision that was shown, the
\* pinned backup.
ApprovedOnly ==
    \A o \in FileOps : fileOp[o].at \in {"checked", "written"} =>
       /\ fileOp[o].kind = "edit" /\ fileOp[o].prepared => fileOp[o].seen = fileOp[o].base
       /\ fileOp[o].want # 0 => fileOp[o].rec.id = fileOp[o].want

\* A rollback uses a backup up that is still there: no Forget and no eviction removed it before.
BackupUsedOnce ==
    [][\A o \in FileOps : fileOp[o].at = "checked" /\ fileOp'[o].at = "done" => fileOp[o].rec \in backups]_fileVars

\* An operation that has the lock of its file lets it go.
FileOpsEnd == \A o \in FileOps : Locked(o) ~> ~Locked(o)
=============================================================================
