---------------------------- MODULE MediaObjects ----------------------------
(***************************************************************************)
(* One media object of src/internal/media/object and its rows in           *)
(* src/internal/storage/sqlite: the media row with its deletion mark and   *)
(* orphan time, the references the triggers keep, the local file and the   *)
(* remote copy, and the per-object lock.  Callers import, hold, read, sign *)
(* and release it; business owners refer to it without the lock; one       *)
(* cleanup round at a time reclaims it.  The process can crash between any *)
(* two steps.                                                              *)
(*                                                                         *)
(* Times are ages capped at the constant they are compared with, so time   *)
(* is unbounded.                                                           *)
(***************************************************************************)
EXTENDS Integers, FiniteSets

CONSTANTS
    MediaCallers,   \* callers; each owns one temporary reference identity
    OrphanGrace,    \* ticks an orphan is kept after its last use
    OutputTTL,      \* ticks a sent output stays cached
    SignedTTL,      \* ticks a signed address is valid
    RefreshMargin,  \* a cached address with less time left is renewed
    MaxObjectFaults \* failed storage calls and crashes (a bound of the model)

ASSUME MediaObjectConstants ==
    /\ {OrphanGrace, OutputTTL, SignedTTL} \subseteq Nat \ {0}
    /\ RefreshMargin \in 0..(SignedTTL - 1)
    /\ MaxObjectFaults \in Nat

VARIABLES
    mediaRow,     \* the row of table media, or NoMedia
    mediaRefs,    \* owner identities in media_references
    mediaOwners,  \* business rows that name the object: message, output, history
    historyGone,  \* the chat message of the history row was deleted
    mediaFile,    \* the local file exists
    mediaCloud,   \* the remote copy exists
    objectLock,   \* who holds objectLocks[id]
    callerAt,     \* step of every caller
    cleanerAt,    \* step of the cleanup round
    pendingReleases,
    outputAge, signedLeft, importAge,
    lastUsed,     \* history: age of the last use of the object
    objectFaults  \* failures left

objectVars == <<mediaRow, mediaRefs, mediaOwners, historyGone, mediaFile, mediaCloud, objectLock, callerAt,
                cleanerAt, pendingReleases, outputAge, signedLeft, importAge, lastUsed, objectFaults>>

Owners == {"message", "output", "history"}
NoMedia == [stored |-> FALSE, deleting |-> FALSE, orphaned |-> -1, key |-> FALSE]
NobodyHolds == "free"
Cleaner == "cleaner"

\* A caller is neither a business owner nor the cleanup.
ASSUME MediaCallersAssumption == MediaCallers \cap (Owners \cup {Cleaner, NobodyHolds}) = {}

CallerSteps == {"idle", "touch", "put", "upsert", "undo", "adding", "held", "reading", "signing", "uploaded", "unupload", "presign"}
CleanerSteps == {"idle", "history", "outputs", "check", "claim", "delete", "remote", "local", "finish"}

MediaObjectTypeOK ==
    /\ mediaRow \in [stored : BOOLEAN, deleting : BOOLEAN, orphaned : -1..OrphanGrace, key : BOOLEAN]
    /\ mediaRefs \subseteq MediaCallers \cup Owners
    /\ mediaOwners \subseteq Owners
    /\ historyGone \in BOOLEAN /\ mediaFile \in BOOLEAN /\ mediaCloud \in BOOLEAN
    /\ objectLock \in MediaCallers \cup {Cleaner, NobodyHolds}
    /\ callerAt \in [MediaCallers -> CallerSteps]
    /\ cleanerAt \in CleanerSteps
    /\ pendingReleases \subseteq mediaRefs \cap MediaCallers
    /\ outputAge \in 0..OutputTTL /\ signedLeft \in 0..SignedTTL
    /\ importAge \in 0..OrphanGrace /\ lastUsed \in 0..OrphanGrace
    /\ objectFaults \in 0..MaxObjectFaults

MediaObjectInit ==
    /\ mediaRow = NoMedia /\ mediaRefs = {} /\ mediaOwners = {} /\ historyGone = FALSE
    /\ mediaFile = FALSE /\ mediaCloud = FALSE
    /\ objectLock = NobodyHolds
    /\ callerAt = [c \in MediaCallers |-> "idle"]
    /\ cleanerAt = "idle" /\ pendingReleases = {}
    /\ outputAge = 0 /\ signedLeft = 0 /\ importAge = 0 /\ lastUsed = 0
    /\ objectFaults = MaxObjectFaults

(***************************************************************************)
(* The statements of the media tables                                      *)
(***************************************************************************)
\* Touch finds only a row that is not being deleted, and restarts the grace of an orphan.
Touchable == mediaRow.stored /\ ~mediaRow.deleting
\* Mutant: an access leaves the orphan time alone.
TouchedOnlyRead == mediaRow
Touched == IF mediaRow.orphaned = -1 THEN mediaRow ELSE [mediaRow EXCEPT !.orphaned = 0]

\* The foreign key and the trigger media_reference_guard refuse a reference to an absent or dying row.
\* Mutant: the guard trigger is missing.
ReferableDying == mediaRow.stored
Referable == mediaRow.stored /\ ~mediaRow.deleting
Referred == [mediaRow EXCEPT !.orphaned = -1]

\* Trigger media_reference_removed: the last reference starts the grace.
Unreferred(refs) ==
    IF refs = {} /\ mediaRefs # {} /\ mediaRow.stored THEN [mediaRow EXCEPT !.orphaned = 0] ELSE mediaRow

\* Deletes the references refs, with what the trigger does to the row.
RemoveReferences(refs) ==
    /\ mediaRefs' = mediaRefs \ refs
    /\ mediaRow' = Unreferred(mediaRefs \ refs)
    /\ lastUsed' = IF mediaRow' # mediaRow THEN 0 ELSE lastUsed

\* What CheckReferences reports: owners without their reference, references without their owner.
Issues == (mediaOwners \ mediaRefs) \cup ((mediaRefs \cap Owners) \ mediaOwners)

\* ClaimOrphans takes the row when it is already marked or has been an orphan for the grace.
\* Mutant: a marked row is not claimed again.
ClaimableObjectOnce == ~mediaRow.deleting /\ mediaRow.orphaned = OrphanGrace /\ mediaRefs = {}
ClaimableObject == mediaRow.deleting \/ (mediaRow.orphaned = OrphanGrace /\ mediaRefs = {})

(***************************************************************************)
(* Callers                                                                 *)
(***************************************************************************)
Goto(c, step) == callerAt' = [callerAt EXCEPT ![c] = step]
LockedBy(c) == objectLock = c
Acquire(c) == objectLock = NobodyHolds /\ objectLock' = c
Unlock == objectLock' = NobodyHolds
ObjectFault == objectFaults > 0 /\ objectFaults' = objectFaults - 1

\* ImportReader, ImportURL, ImportFile and ImportBytes: under the object lock look the identity up.
ImportBegin(c) ==
    /\ callerAt[c] = "idle" /\ c \notin mediaRefs
    /\ Acquire(c)
    /\ Goto(c, IF mediaRow.stored THEN "touch" ELSE "put")
    /\ importAge' = 0
    /\ UNCHANGED <<mediaRow, mediaRefs, mediaOwners, historyGone, mediaFile, mediaCloud, cleanerAt, pendingReleases,
                   outputAge, signedLeft, lastUsed, objectFaults>>

\* The content exists: the import is an access, refused when the object was claimed meanwhile.
ImportTouch(c) ==
    /\ callerAt[c] = "touch"
    /\ \/ /\ Touchable /\ mediaRow' = Touched /\ lastUsed' = 0 /\ UNCHANGED objectFaults
       \/ /\ ~Touchable /\ UNCHANGED <<mediaRow, lastUsed, objectFaults>>
       \/ /\ ObjectFault /\ UNCHANGED <<mediaRow, lastUsed>>
    /\ Goto(c, "idle") /\ Unlock
    /\ UNCHANGED <<mediaRefs, mediaOwners, historyGone, mediaFile, mediaCloud, cleanerAt, pendingReleases, outputAge, signedLeft, importAge>>

\* backend.Put writes the content before the row exists.
ImportPut(c) ==
    /\ callerAt[c] = "put"
    /\ \/ mediaFile' = TRUE /\ Goto(c, "upsert") /\ UNCHANGED <<objectLock, objectFaults>>
       \/ ObjectFault /\ Unlock /\ Goto(c, "idle") /\ UNCHANGED mediaFile
    /\ UNCHANGED <<mediaRow, mediaRefs, mediaOwners, historyGone, mediaCloud, cleanerAt, pendingReleases, outputAge, signedLeft, importAge, lastUsed>>

\* The new row; trigger media_initial_orphan makes it an orphan of its creation time.
ImportUpsert(c) ==
    /\ callerAt[c] = "upsert"
    /\ \/ /\ mediaRow' = [NoMedia EXCEPT !.stored = TRUE, !.orphaned = importAge]
          /\ lastUsed' = importAge
          /\ Goto(c, "idle") /\ Unlock /\ UNCHANGED objectFaults
       \/ ObjectFault /\ Goto(c, "undo") /\ UNCHANGED <<mediaRow, lastUsed, objectLock>>
    /\ UNCHANGED <<mediaRefs, mediaOwners, historyGone, mediaFile, mediaCloud, cleanerAt, pendingReleases, outputAge, signedLeft, importAge>>

\* The failed import removes the content it wrote; a second failure leaves it behind.
ImportUndo(c) ==
    /\ callerAt[c] = "undo"
    /\ \/ mediaFile' = FALSE /\ UNCHANGED objectFaults
       \/ ObjectFault /\ UNCHANGED mediaFile
    /\ Goto(c, "idle") /\ Unlock
    /\ UNCHANGED <<mediaRow, mediaRefs, mediaOwners, historyGone, mediaCloud, cleanerAt, pendingReleases, outputAge, signedLeft, importAge, lastUsed>>

\* Hold: the lookup under the object lock.
HoldBegin(c) ==
    /\ callerAt[c] = "idle" /\ c \notin mediaRefs
    /\ mediaRow.stored
    /\ Acquire(c) /\ Goto(c, "adding")
    /\ UNCHANGED <<mediaRow, mediaRefs, mediaOwners, historyGone, mediaFile, mediaCloud, cleanerAt, pendingReleases,
                   outputAge, signedLeft, importAge, lastUsed, objectFaults>>

\* Hold: the temporary reference, refused by the storage when the object is being deleted.
HoldAdd(c) ==
    /\ callerAt[c] = "adding"
    /\ \/ /\ Referable
          /\ mediaRefs' = mediaRefs \cup {c} /\ mediaRow' = Referred
          /\ Goto(c, "held") /\ UNCHANGED objectFaults
       \/ /\ ~Referable /\ Goto(c, "idle") /\ UNCHANGED <<mediaRefs, mediaRow, objectFaults>>
       \/ /\ ObjectFault /\ Goto(c, "idle") /\ UNCHANGED <<mediaRefs, mediaRow>>
    /\ Unlock
    /\ UNCHANGED <<mediaOwners, historyGone, mediaFile, mediaCloud, cleanerAt, pendingReleases, outputAge, signedLeft, importAge, lastUsed>>

\* heldMedia.Open, Read, Export, ValidateImage: an access, then the content.
OpenHeld(c) ==
    /\ callerAt[c] = "held" /\ Touchable
    /\ mediaRow' = Touched /\ lastUsed' = 0
    /\ Goto(c, IF mediaFile THEN "reading" ELSE "held")
    /\ UNCHANGED <<mediaRefs, mediaOwners, historyGone, mediaFile, mediaCloud, objectLock, cleanerAt, pendingReleases,
                   outputAge, signedLeft, importAge, objectFaults>>

\* releaseOwned: the reference goes, or the hold waits for the cleanup to retry.
\* Mutant: a failed release is only logged.
PendingReleaseForgotten(c) == pendingReleases
PendingRelease(c) == pendingReleases \cup {c}
ReleaseOwned(c) ==
    /\ callerAt[c] \in {"held", "reading"}
    /\ \/ RemoveReferences({c}) /\ UNCHANGED <<pendingReleases, objectFaults>>
       \/ ObjectFault /\ pendingReleases' = PendingRelease(c) /\ UNCHANGED <<mediaRefs, mediaRow, lastUsed>>
    /\ Goto(c, "idle")
    /\ UNCHANGED <<mediaOwners, historyGone, mediaFile, mediaCloud, objectLock, cleanerAt, outputAge, signedLeft, importAge>>

\* presignMedia: lookup and access under the lock.
SignBegin(c) ==
    /\ callerAt[c] = "held" /\ Touchable
    /\ Acquire(c)
    /\ mediaRow' = Touched /\ lastUsed' = 0
    /\ Goto(c, IF mediaRow.key THEN "presign" ELSE "signing")
    /\ UNCHANGED <<mediaRefs, mediaOwners, historyGone, mediaFile, mediaCloud, cleanerAt, pendingReleases, outputAge, signedLeft, importAge, objectFaults>>

\* presignMedia: the upload of the remote copy.
SignUpload(c) ==
    /\ callerAt[c] = "signing"
    /\ \/ mediaCloud' = TRUE /\ Goto(c, "uploaded") /\ UNCHANGED <<objectLock, objectFaults>>
       \/ ObjectFault /\ Goto(c, "held") /\ Unlock /\ UNCHANGED mediaCloud
    /\ UNCHANGED <<mediaRow, mediaRefs, mediaOwners, historyGone, mediaFile, cleanerAt, pendingReleases, outputAge, signedLeft, importAge, lastUsed>>

\* presignMedia: Upsert records the key where the row is not being deleted, or the copy is removed again.
SignRecord(c) ==
    /\ callerAt[c] = "uploaded"
    /\ \/ /\ mediaRow' = IF Touchable THEN [mediaRow EXCEPT !.key = TRUE] ELSE mediaRow
          /\ Goto(c, "presign") /\ UNCHANGED objectFaults
       \/ ObjectFault /\ Goto(c, "unupload") /\ UNCHANGED mediaRow
    /\ UNCHANGED <<mediaRefs, mediaOwners, historyGone, mediaFile, mediaCloud, objectLock, cleanerAt, pendingReleases, outputAge, signedLeft, importAge, lastUsed>>

SignUndo(c) ==
    /\ callerAt[c] = "unupload"
    /\ \/ mediaCloud' = FALSE /\ UNCHANGED objectFaults
       \/ ObjectFault /\ UNCHANGED mediaCloud
    /\ Goto(c, "held") /\ Unlock
    /\ UNCHANGED <<mediaRow, mediaRefs, mediaOwners, historyGone, mediaFile, cleanerAt, pendingReleases, outputAge, signedLeft, importAge, lastUsed>>

\* presignMedia: the cached address while it lives beyond the margin, a new one otherwise.
SignPresign(c) ==
    /\ callerAt[c] = "presign"
    /\ \/ signedLeft' = IF signedLeft > RefreshMargin THEN signedLeft ELSE SignedTTL
       \/ signedLeft <= RefreshMargin /\ UNCHANGED signedLeft   \* presigning or saving failed
    /\ Goto(c, "held") /\ Unlock
    /\ UNCHANGED <<mediaRow, mediaRefs, mediaOwners, historyGone, mediaFile, mediaCloud, cleanerAt, pendingReleases, outputAge, importAge, lastUsed, objectFaults>>

(***************************************************************************)
(* Business owners: messages, sent outputs and chat history name the       *)
(* object in their own rows; the triggers keep the references.             *)
(***************************************************************************)
\* AddReference, a message insert, SaveOutput, SaveHistory: row and reference in one transaction.
OwnerAdd(o) ==
    /\ o \notin mediaOwners /\ Referable
    /\ mediaOwners' = mediaOwners \cup {o}
    /\ mediaRefs' = mediaRefs \cup {o} /\ mediaRow' = Referred
    /\ outputAge' = IF o = "output" THEN 0 ELSE outputAge
    /\ historyGone' = IF o = "history" THEN FALSE ELSE historyGone
    /\ UNCHANGED <<mediaFile, mediaCloud, objectLock, callerAt, cleanerAt, pendingReleases, signedLeft, importAge, lastUsed, objectFaults>>

\* The references the delete triggers of an owner's table take with its row.
\* Mutant: the delete trigger of the sent outputs is missing.
TriggeredNot(o) == {o} \ {"output"}
Triggered(o) == {o}
OwnerDelete(o) ==
    /\ o \in mediaOwners
    /\ mediaOwners' = mediaOwners \ {o}
    /\ RemoveReferences(Triggered(o))

\* A message or a session is deleted.
MessageDeleted ==
    /\ OwnerDelete("message")
    /\ UNCHANGED <<historyGone, mediaFile, mediaCloud, objectLock, callerAt, cleanerAt, pendingReleases, outputAge, signedLeft, importAge, objectFaults>>

\* The chat history loses the message of a history row; media learns of it at the next round.
HistoryDeleted ==
    /\ "history" \in mediaOwners /\ ~historyGone
    /\ historyGone' = TRUE
    /\ UNCHANGED <<mediaRow, mediaRefs, mediaOwners, mediaFile, mediaCloud, objectLock, callerAt, cleanerAt, pendingReleases, outputAge, signedLeft, importAge, lastUsed, objectFaults>>

(***************************************************************************)
(* The cleanup round                                                       *)
(***************************************************************************)
\* What stays pending after a retry.
\* Mutant: the retried holds are not taken out.
RemainingAll(kept) == pendingReleases
Remaining(kept) == kept
\* retryReleases: every pending hold is closed again; what fails stays pending.
CleanReleases ==
    /\ cleanerAt = "idle" /\ cleanerAt' = "history"
    /\ \E kept \in SUBSET pendingReleases :
        /\ kept # {} => objectFaults > 0
        /\ objectFaults' = IF kept = {} THEN objectFaults ELSE objectFaults - 1
        /\ pendingReleases' = Remaining(kept)
        /\ RemoveReferences(pendingReleases \ kept)
    /\ UNCHANGED <<mediaOwners, historyGone, mediaFile, mediaCloud, objectLock, callerAt, outputAge, signedLeft, importAge>>

\* ReconcileHistory: a row whose message is gone is deleted; a failed query ends the round and proves nothing.
\* Mutant: a failed query counts as a missing message.
HistoryLostOnError(ok) == historyGone \/ ~ok
HistoryLost(ok) == ok /\ historyGone
CleanHistory ==
    /\ cleanerAt = "history"
    /\ \E ok \in BOOLEAN :
        /\ IF ok THEN UNCHANGED objectFaults ELSE ObjectFault
        /\ cleanerAt' = IF ok THEN "outputs" ELSE "idle"
        /\ IF "history" \in mediaOwners /\ HistoryLost(ok)
             THEN OwnerDelete("history")
             ELSE UNCHANGED <<mediaOwners, mediaRefs, mediaRow, lastUsed>>
    /\ UNCHANGED <<historyGone, mediaFile, mediaCloud, objectLock, callerAt, pendingReleases, outputAge, signedLeft, importAge>>

\* ExpireOutputs drops the sent outputs whose time is over.
CleanOutputs ==
    /\ cleanerAt = "outputs" /\ cleanerAt' = "check"
    /\ IF "output" \in mediaOwners /\ outputAge = OutputTTL
         THEN OwnerDelete("output")
         ELSE UNCHANGED <<mediaOwners, mediaRefs, mediaRow, lastUsed>>
    /\ UNCHANGED <<historyGone, mediaFile, mediaCloud, objectLock, callerAt, pendingReleases, outputAge, signedLeft, importAge, objectFaults>>

\* CheckReferences: any inconsistency ends the round before anything is claimed.
CleanCheck ==
    /\ cleanerAt = "check"
    /\ cleanerAt' = IF Issues = {} THEN "claim" ELSE "idle"
    /\ UNCHANGED <<mediaRow, mediaRefs, mediaOwners, historyGone, mediaFile, mediaCloud, objectLock, callerAt, pendingReleases,
                   outputAge, signedLeft, importAge, lastUsed, objectFaults>>

\* The mark ClaimOrphans leaves in the row.
\* Mutant: the claim is kept in memory only.
ClaimedUnmarked == FALSE
Claimed == mediaRow.stored /\ ClaimableObject

\* ClaimOrphans, one statement without the object lock.
CleanClaim ==
    /\ cleanerAt = "claim"
    /\ cleanerAt' = IF mediaRow.stored /\ ClaimableObject THEN "delete" ELSE "idle"
    /\ mediaRow' = [mediaRow EXCEPT !.deleting = @ \/ Claimed]
    /\ UNCHANGED <<mediaRefs, mediaOwners, historyGone, mediaFile, mediaCloud, objectLock, callerAt, pendingReleases,
                   outputAge, signedLeft, importAge, lastUsed, objectFaults>>

\* deleteObject: the row is read again under the object lock and must still be marked.
CleanLock ==
    /\ cleanerAt = "delete"
    /\ Acquire(Cleaner)
    /\ cleanerAt' = IF mediaRow.key THEN "remote" ELSE "local"
    /\ UNCHANGED <<mediaRow, mediaRefs, mediaOwners, historyGone, mediaFile, mediaCloud, callerAt, pendingReleases,
                   outputAge, signedLeft, importAge, lastUsed, objectFaults>>

\* deleteObject ends this object's deletion; the mark stays and the next round claims it again.
GiveUpDelete == ObjectFault /\ cleanerAt' = "idle" /\ Unlock

\* deleteObject: the remote copy first.
CleanRemote ==
    /\ cleanerAt = "remote"
    /\ \/ mediaCloud' = FALSE /\ cleanerAt' = "local" /\ UNCHANGED <<objectLock, objectFaults>>
       \/ GiveUpDelete /\ UNCHANGED mediaCloud
    /\ UNCHANGED <<mediaRow, mediaRefs, mediaOwners, historyGone, mediaFile, callerAt, pendingReleases, outputAge, signedLeft, importAge, lastUsed>>

\* deleteObject: then the local file.
CleanLocal ==
    /\ cleanerAt = "local"
    /\ \/ mediaFile' = FALSE /\ cleanerAt' = "finish" /\ UNCHANGED <<objectLock, objectFaults>>
       \/ GiveUpDelete /\ UNCHANGED mediaFile
    /\ UNCHANGED <<mediaRow, mediaRefs, mediaOwners, historyGone, mediaCloud, callerAt, pendingReleases, outputAge, signedLeft, importAge, lastUsed>>

\* FinishDelete removes a marked row without references; the signed address goes with it.
CleanFinish ==
    /\ cleanerAt = "finish"
    /\ \/ /\ IF mediaRow.deleting /\ mediaRefs = {}
               THEN mediaRow' = NoMedia /\ signedLeft' = 0
               ELSE UNCHANGED <<mediaRow, signedLeft>>
          /\ cleanerAt' = "idle" /\ Unlock /\ UNCHANGED objectFaults
       \/ GiveUpDelete /\ UNCHANGED <<mediaRow, signedLeft>>
    /\ UNCHANGED <<mediaRefs, mediaOwners, historyGone, mediaFile, mediaCloud, callerAt, pendingReleases, outputAge, importAge, lastUsed>>

(***************************************************************************)
(* Time and crashes                                                        *)
(***************************************************************************)
Older(age, cap) == IF age < cap THEN age + 1 ELSE cap
ObjectTick ==
    /\ mediaRow' = IF mediaRow.orphaned = -1 THEN mediaRow ELSE [mediaRow EXCEPT !.orphaned = Older(@, OrphanGrace)]
    /\ lastUsed' = Older(lastUsed, OrphanGrace)
    /\ importAge' = IF \E c \in MediaCallers : callerAt[c] \in {"put", "upsert"} THEN Older(importAge, OrphanGrace) ELSE importAge
    /\ outputAge' = IF "output" \in mediaOwners THEN Older(outputAge, OutputTTL) ELSE outputAge
    /\ signedLeft' = IF signedLeft > 0 THEN signedLeft - 1 ELSE 0
    /\ UNCHANGED <<mediaRefs, mediaOwners, historyGone, mediaFile, mediaCloud, objectLock, callerAt, cleanerAt, pendingReleases, objectFaults>>

\* The process dies; RecoverInterrupted deletes the temporary references of the last run.
\* Mutant: a restart keeps them.
InterruptedKept == {}
Interrupted == mediaRefs \cap MediaCallers
ObjectCrash ==
    /\ ObjectFault
    /\ RemoveReferences(Interrupted)
    /\ callerAt' = [c \in MediaCallers |-> "idle"]
    /\ cleanerAt' = "idle" /\ objectLock' = NobodyHolds /\ pendingReleases' = {}
    /\ UNCHANGED <<mediaOwners, historyGone, mediaFile, mediaCloud, outputAge, signedLeft, importAge>>

CallerNext(c) ==
    \/ ImportBegin(c) \/ ImportTouch(c) \/ ImportPut(c) \/ ImportUpsert(c) \/ ImportUndo(c)
    \/ HoldBegin(c) \/ HoldAdd(c) \/ OpenHeld(c) \/ ReleaseOwned(c)
    \/ SignBegin(c) \/ SignUpload(c) \/ SignRecord(c) \/ SignUndo(c) \/ SignPresign(c)

\* The steps of a round that wait for nobody.
CleanerPass ==
    \/ CleanReleases \/ CleanHistory \/ CleanOutputs \/ CleanCheck \/ CleanClaim
    \/ CleanRemote \/ CleanLocal \/ CleanFinish
CleanerNext == CleanerPass \/ CleanLock

MediaObjectNext ==
    \/ \E c \in MediaCallers : CallerNext(c)
    \/ \E o \in Owners : OwnerAdd(o)
    \/ MessageDeleted \/ HistoryDeleted
    \/ CleanerNext
    \/ ObjectTick \/ ObjectCrash

\* The steps of a caller that holds the object lock; none waits for another caller.
LockedStep(c) == LockedBy(c) /\ CallerNext(c)

\* Maintenance starts rounds periodically and every goroutine that runs is scheduled; a round meets a free lock again and again.
MediaObjectFairness ==
    /\ WF_objectVars(CleanerPass)
    /\ SF_objectVars(CleanLock)
    /\ \A c \in MediaCallers : WF_objectVars(LockedStep(c))

MediaObjectSpec == MediaObjectInit /\ [][MediaObjectNext]_objectVars /\ MediaObjectFairness

(***************************************************************************)
(* Properties                                                              *)
(***************************************************************************)
\* Whoever holds the object reads it: the row is stored and not marked, the file is there, and the reference
\* that keeps it so is the caller's own (Hold against ClaimOrphans and deleteObject).
HeldReadable ==
    \A c \in MediaCallers : callerAt[c] \in {"held", "reading", "signing", "uploaded", "unupload", "presign"} =>
        c \in mediaRefs /\ Touchable /\ mediaFile

\* Every stored, unmarked row has the content it names: the local file, and the remote copy once its key is
\* recorded (order of Put, Upsert and deleteObject).
AvailableHasContent == Touchable => mediaFile /\ (mediaRow.key => mediaCloud)

\* An object marked for deletion has no reference left, so FinishDelete always finds it removable.
DyingUnreferenced == mediaRow.deleting => mediaRefs = {}

\* Owners and references agree, so CheckReferences never stops the cleanup for good.
ReferencesAgree == Issues = {}

\* Temporary references belong to a hold that is still going to be released, by its caller or by a later cleanup.
TemporaryHasReleaser ==
    \A c \in mediaRefs \cap MediaCallers : callerAt[c] # "idle" \/ c \in pendingReleases

\* An object is marked only when a full grace has passed since its last use (import, access, release of the last reference).
NotReclaimedEarly == [][~mediaRow.deleting /\ mediaRow'.deleting => lastUsed = OrphanGrace]_objectVars

\* A history association disappears only when its message was really found deleted.
HistoryReleasedWhenGone == [][("history" \in mediaOwners /\ "history" \notin mediaOwners') => historyGone]_objectVars

\* A deletion that was started ends, whatever step failed.
DeletionFinishes == mediaRow.deleting ~> ~mediaRow.deleting

\* A release that failed is retried until the reference is gone.
ReleasesRetried == \A c \in MediaCallers : (c \in mediaRefs /\ callerAt[c] = "idle") ~> (c \notin mediaRefs)

=============================================================================
