---------------------------- MODULE HostsProofs ----------------------------
(***************************************************************************)
(* Theorems about what the agent offers to hooks and senders: media        *)
(* objects and their references, the media that hooks lease, the signal    *)
(* bus, the routes of hook events and the worker of a hook.                *)
(***************************************************************************)
EXTENDS MediaObjects, HookResources, SignalBus, HookRoutes, HookWorker, FiniteSetTheorems, TLAPS

-----------------------------------------------------------------------------
(* Media objects.  One caller or the cleanup round at a time has the object *)
(* lock, and a reference that was given out keeps its object.               *)

\* The steps in which a caller has the object lock, and those of the cleanup round.
LockingSteps == {"touch", "put", "upsert", "undo", "adding", "signing", "uploaded", "unupload", "presign"}
DeletingSteps == {"remote", "local", "finish"}

\* The object lock is with who is inside: objectLocks[id] is taken and given back where the step says so.
LockSound ==
    /\ \A c \in MediaCallers : callerAt[c] \in LockingSteps <=> objectLock = c
    /\ cleanerAt \in DeletingSteps <=> objectLock = Cleaner

\* What a caller relies on between its calls of the storage and the backends.
StepsSound ==
    /\ \A c \in MediaCallers : callerAt[c] \in {"put", "upsert", "undo"} => ~mediaRow.stored
    /\ \A c \in MediaCallers : callerAt[c] = "upsert" => mediaFile
    /\ \A c \in MediaCallers : callerAt[c] \in {"touch", "put", "upsert", "undo", "adding"} => c \notin mediaRefs
    /\ \A c \in MediaCallers : callerAt[c] \in {"signing", "uploaded", "unupload"} => ~mediaRow.key
    /\ \A c \in MediaCallers : callerAt[c] = "uploaded" => mediaCloud
    /\ \A c \in pendingReleases : callerAt[c] = "idle"

\* An absent object has nothing, one that is being deleted is marked, and an orphan is not older than its last use.
RowSound ==
    /\ ~mediaRow.stored => mediaRow = NoMedia /\ mediaRefs = {}
    /\ cleanerAt \in {"delete"} \cup DeletingSteps => mediaRow.deleting
    /\ mediaRow.orphaned <= lastUsed

\* What the run checks.
MediaObjectSafe == HeldReadable /\ AvailableHasContent /\ DyingUnreferenced /\ ReferencesAgree /\ TemporaryHasReleaser

MediaObjectInv == MediaObjectTypeOK /\ LockSound /\ StepsSound /\ RowSound /\ MediaObjectSafe

Rows == [stored : BOOLEAN, deleting : BOOLEAN, orphaned : -1..OrphanGrace, key : BOOLEAN]

LEMMA CallersApart == \A c \in MediaCallers : c \notin Owners /\ c # Cleaner /\ c # NobodyHolds
  BY MediaCallersAssumption

LEMMA RowType == MediaObjectTypeOK => mediaRow \in Rows
  BY DEF MediaObjectTypeOK, Rows

LEMMA NewRows ==
  /\ NoMedia \in Rows /\ ~NoMedia.stored /\ ~NoMedia.deleting /\ ~NoMedia.key /\ NoMedia.orphaned = -1
  /\ \A age \in 0..OrphanGrace : LET row == [NoMedia EXCEPT !.stored = TRUE, !.orphaned = age] IN
        row \in Rows /\ row.stored /\ ~row.deleting /\ ~row.key /\ row.orphaned = age
  <1> -1 \in -1..OrphanGrace /\ \A age \in 0..OrphanGrace : age \in -1..OrphanGrace
    BY MediaObjectConstants
  <1> QED BY DEF NoMedia, Rows

LEMMA TouchedRow ==
  ASSUME MediaObjectTypeOK
  PROVE  /\ Touched \in Rows /\ (Touched.stored <=> mediaRow.stored) /\ (Touched.deleting <=> mediaRow.deleting)
         /\ (Touched.key <=> mediaRow.key) /\ Touched.orphaned <= 0
  <1> mediaRow \in Rows BY RowType
  <1> 0 \in -1..OrphanGrace BY MediaObjectConstants
  <1> QED BY MediaObjectConstants DEF Rows, Touched

LEMMA ReferredRow ==
  ASSUME MediaObjectTypeOK
  PROVE  /\ Referred \in Rows /\ (Referred.stored <=> mediaRow.stored) /\ (Referred.deleting <=> mediaRow.deleting)
         /\ (Referred.key <=> mediaRow.key) /\ Referred.orphaned = -1
  <1> mediaRow \in Rows BY RowType
  <1> -1 \in -1..OrphanGrace BY MediaObjectConstants
  <1> QED BY MediaObjectConstants DEF Rows, Referred

LEMMA RemovedReferences ==
  ASSUME MediaObjectTypeOK, RowSound, NEW refs, RemoveReferences(refs)
  PROVE  /\ mediaRefs' = mediaRefs \ refs
         /\ mediaRow' \in Rows /\ (mediaRow'.stored <=> mediaRow.stored) /\ (mediaRow'.deleting <=> mediaRow.deleting)
         /\ (mediaRow'.key <=> mediaRow.key) /\ mediaRow'.orphaned <= lastUsed'
         /\ ~mediaRow.stored => mediaRow' = mediaRow
         /\ lastUsed' \in 0..OrphanGrace
  <1> mediaRow \in Rows BY RowType
  <1> 0 \in -1..OrphanGrace /\ 0 \in 0..OrphanGrace BY MediaObjectConstants
  <1> lastUsed \in 0..OrphanGrace BY DEF MediaObjectTypeOK
  <1> mediaRow.orphaned <= lastUsed BY DEF RowSound
  <1>1. CASE mediaRow' = mediaRow
    BY <1>1 DEF RemoveReferences
  <1>2. CASE mediaRow' # mediaRow
    <2>1. mediaRow' = [mediaRow EXCEPT !.orphaned = 0] /\ mediaRow.stored /\ lastUsed' = 0
      BY <1>2 DEF RemoveReferences, Unreferred
    <2>2. mediaRefs' = mediaRefs \ refs
      BY DEF RemoveReferences
    <2>3. mediaRow' \in Rows /\ (mediaRow'.stored <=> mediaRow.stored) /\ (mediaRow'.deleting <=> mediaRow.deleting)
            /\ (mediaRow'.key <=> mediaRow.key) /\ mediaRow'.orphaned = 0
      BY <2>1 DEF Rows
    <2> QED BY <2>1, <2>2, <2>3
  <1> QED BY <1>1, <1>2

LEMMA ImportBeginKeeps ==
  ASSUME NEW c \in MediaCallers, MediaObjectInv, ImportBegin(c)
  PROVE  MediaObjectInv'
  <1> USE MediaObjectConstants, CallersApart
  <1> USE DEF MediaObjectInv, ImportBegin, Acquire, Goto, Cleaner, NobodyHolds
  <1> USE DEF StepsSound, LockSound, LockingSteps, DeletingSteps, RowSound, MediaObjectSafe, HeldReadable, DyingUnreferenced, AvailableHasContent, Touchable, MediaObjectTypeOK, CallerSteps, CleanerSteps
  <1>1. MediaObjectTypeOK'
    <2>1. mediaRow' \in Rows
      BY RowType
    <2>2. callerAt' \in [MediaCallers -> CallerSteps]
      OBVIOUS
    <2>3. objectLock' \in MediaCallers \cup {Cleaner, NobodyHolds} /\ cleanerAt' \in CleanerSteps
      OBVIOUS
    <2>4. mediaRefs' \subseteq MediaCallers \cup Owners /\ mediaOwners' \subseteq Owners
          /\ pendingReleases' \subseteq mediaRefs' \cap MediaCallers
      OBVIOUS
    <2>5. historyGone' \in BOOLEAN /\ mediaFile' \in BOOLEAN /\ mediaCloud' \in BOOLEAN
      OBVIOUS
    <2>6. /\ outputAge' \in 0..OutputTTL /\ signedLeft' \in 0..SignedTTL
          /\ importAge' \in 0..OrphanGrace /\ lastUsed' \in 0..OrphanGrace /\ objectFaults' \in 0..MaxObjectFaults
      OBVIOUS
    <2> QED BY <2>1, <2>2, <2>3, <2>4, <2>5, <2>6 DEF Rows
  <1>2. LockSound'
    OBVIOUS
  <1>3. DyingUnreferenced'
    OBVIOUS
  <1>4. ReferencesAgree'
    BY DEF ReferencesAgree, Issues
  <1>5. TemporaryHasReleaser'
    BY DEF TemporaryHasReleaser
  <1>6. StepsSound'
    OBVIOUS
  <1>7. RowSound'
    OBVIOUS
  <1>8. HeldReadable'
    OBVIOUS
  <1>9. AvailableHasContent'
    OBVIOUS
  <1> QED BY <1>1, <1>2, <1>3, <1>4, <1>5, <1>6, <1>7, <1>8, <1>9

LEMMA ImportTouchKeeps ==
  ASSUME NEW c \in MediaCallers, MediaObjectInv, ImportTouch(c)
  PROVE  MediaObjectInv'
  <1> USE MediaObjectConstants, CallersApart
  <1> USE DEF MediaObjectInv, ImportTouch, Unlock, Goto, ObjectFault, Touchable, Cleaner, NobodyHolds
  <1>r. /\ mediaRow' \in Rows /\ (mediaRow'.stored <=> mediaRow.stored) /\ (mediaRow'.deleting <=> mediaRow.deleting)
        /\ (mediaRow'.key <=> mediaRow.key)
        /\ mediaRow'.orphaned <= lastUsed' /\ lastUsed' \in 0..OrphanGrace /\ (~mediaRow.stored => mediaRow' = mediaRow)
    <2> mediaRow \in Rows /\ lastUsed \in 0..OrphanGrace /\ mediaRow.orphaned <= lastUsed /\ 0 \in 0..OrphanGrace
      BY RowType DEF MediaObjectTypeOK, RowSound
    <2> QED BY TouchedRow
  <1> USE DEF StepsSound, LockSound, LockingSteps, DeletingSteps, RowSound, MediaObjectSafe, HeldReadable, DyingUnreferenced, AvailableHasContent, Touchable, MediaObjectTypeOK, CallerSteps, CleanerSteps
  <1>1. MediaObjectTypeOK'
    <2>1. mediaRow' \in Rows
      BY <1>r
    <2>2. callerAt' \in [MediaCallers -> CallerSteps]
      BY <1>r
    <2>3. objectLock' \in MediaCallers \cup {Cleaner, NobodyHolds} /\ cleanerAt' \in CleanerSteps
      BY <1>r
    <2>4. mediaRefs' \subseteq MediaCallers \cup Owners /\ mediaOwners' \subseteq Owners
          /\ pendingReleases' \subseteq mediaRefs' \cap MediaCallers
      BY <1>r
    <2>5. historyGone' \in BOOLEAN /\ mediaFile' \in BOOLEAN /\ mediaCloud' \in BOOLEAN
      BY <1>r
    <2>6. /\ outputAge' \in 0..OutputTTL /\ signedLeft' \in 0..SignedTTL
          /\ importAge' \in 0..OrphanGrace /\ lastUsed' \in 0..OrphanGrace /\ objectFaults' \in 0..MaxObjectFaults
      BY <1>r
    <2> QED BY <2>1, <2>2, <2>3, <2>4, <2>5, <2>6 DEF Rows
  <1>2. LockSound'
    BY <1>r
  <1>3. DyingUnreferenced'
    BY <1>r
  <1>4. ReferencesAgree'
    BY <1>r DEF ReferencesAgree, Issues
  <1>5. TemporaryHasReleaser'
    BY <1>r DEF TemporaryHasReleaser
  <1>6. StepsSound'
    BY <1>r
  <1>7. RowSound'
    BY <1>r
  <1>8. HeldReadable'
    BY <1>r
  <1>9. AvailableHasContent'
    BY <1>r
  <1> QED BY <1>1, <1>2, <1>3, <1>4, <1>5, <1>6, <1>7, <1>8, <1>9

LEMMA ImportPutKeeps ==
  ASSUME NEW c \in MediaCallers, MediaObjectInv, ImportPut(c)
  PROVE  MediaObjectInv'
  <1> USE MediaObjectConstants, CallersApart
  <1> USE DEF MediaObjectInv, ImportPut, Unlock, Goto, ObjectFault, Cleaner, NobodyHolds
  <1> USE DEF StepsSound, LockSound, LockingSteps, DeletingSteps, RowSound, MediaObjectSafe, HeldReadable, DyingUnreferenced, AvailableHasContent, Touchable, MediaObjectTypeOK, CallerSteps, CleanerSteps
  <1>1. MediaObjectTypeOK'
    <2>1. mediaRow' \in Rows
      BY RowType
    <2>2. callerAt' \in [MediaCallers -> CallerSteps]
      OBVIOUS
    <2>3. objectLock' \in MediaCallers \cup {Cleaner, NobodyHolds} /\ cleanerAt' \in CleanerSteps
      OBVIOUS
    <2>4. mediaRefs' \subseteq MediaCallers \cup Owners /\ mediaOwners' \subseteq Owners
          /\ pendingReleases' \subseteq mediaRefs' \cap MediaCallers
      OBVIOUS
    <2>5. historyGone' \in BOOLEAN /\ mediaFile' \in BOOLEAN /\ mediaCloud' \in BOOLEAN
      OBVIOUS
    <2>6. /\ outputAge' \in 0..OutputTTL /\ signedLeft' \in 0..SignedTTL
          /\ importAge' \in 0..OrphanGrace /\ lastUsed' \in 0..OrphanGrace /\ objectFaults' \in 0..MaxObjectFaults
      OBVIOUS
    <2> QED BY <2>1, <2>2, <2>3, <2>4, <2>5, <2>6 DEF Rows
  <1>2. LockSound'
    OBVIOUS
  <1>3. DyingUnreferenced'
    OBVIOUS
  <1>4. ReferencesAgree'
    BY DEF ReferencesAgree, Issues
  <1>5. TemporaryHasReleaser'
    BY DEF TemporaryHasReleaser
  <1>6. StepsSound'
    OBVIOUS
  <1>7. RowSound'
    OBVIOUS
  <1>8. HeldReadable'
    OBVIOUS
  <1>9. AvailableHasContent'
    OBVIOUS
  <1> QED BY <1>1, <1>2, <1>3, <1>4, <1>5, <1>6, <1>7, <1>8, <1>9

LEMMA ImportUpsertKeeps ==
  ASSUME NEW c \in MediaCallers, MediaObjectInv, ImportUpsert(c)
  PROVE  MediaObjectInv'
  <1> USE MediaObjectConstants, CallersApart
  <1> USE DEF MediaObjectInv, ImportUpsert, Unlock, Goto, ObjectFault, Cleaner, NobodyHolds
  <1>r. \/ UNCHANGED <<mediaRow, lastUsed>>
        \/ /\ mediaRow' \in Rows /\ mediaRow'.stored /\ ~mediaRow'.deleting /\ ~mediaRow'.key
           /\ mediaRow'.orphaned <= lastUsed' /\ lastUsed' \in 0..OrphanGrace
    <2> importAge \in 0..OrphanGrace /\ importAge <= importAge
      BY DEF MediaObjectTypeOK
    <2> QED BY NewRows
  <1> USE DEF StepsSound, LockSound, LockingSteps, DeletingSteps, RowSound, MediaObjectSafe, HeldReadable, DyingUnreferenced, AvailableHasContent, Touchable, MediaObjectTypeOK, CallerSteps, CleanerSteps
  <1>1. MediaObjectTypeOK'
    <2>1. mediaRow' \in Rows
      BY <1>r, RowType
    <2>2. callerAt' \in [MediaCallers -> CallerSteps]
      BY <1>r
    <2>3. objectLock' \in MediaCallers \cup {Cleaner, NobodyHolds} /\ cleanerAt' \in CleanerSteps
      BY <1>r
    <2>4. mediaRefs' \subseteq MediaCallers \cup Owners /\ mediaOwners' \subseteq Owners
          /\ pendingReleases' \subseteq mediaRefs' \cap MediaCallers
      BY <1>r
    <2>5. historyGone' \in BOOLEAN /\ mediaFile' \in BOOLEAN /\ mediaCloud' \in BOOLEAN
      BY <1>r
    <2>6. /\ outputAge' \in 0..OutputTTL /\ signedLeft' \in 0..SignedTTL
          /\ importAge' \in 0..OrphanGrace /\ lastUsed' \in 0..OrphanGrace /\ objectFaults' \in 0..MaxObjectFaults
      BY <1>r
    <2> QED BY <2>1, <2>2, <2>3, <2>4, <2>5, <2>6 DEF Rows
  <1>2. LockSound'
    BY <1>r
  <1>3. DyingUnreferenced'
    BY <1>r
  <1>4. ReferencesAgree'
    BY <1>r DEF ReferencesAgree, Issues
  <1>5. TemporaryHasReleaser'
    BY <1>r DEF TemporaryHasReleaser
  <1>6. StepsSound'
    BY <1>r
  <1>7. RowSound'
    BY NewRows, <1>r
  <1>8. HeldReadable'
    BY <1>r
  <1>9. AvailableHasContent'
    BY <1>r
  <1> QED BY <1>1, <1>2, <1>3, <1>4, <1>5, <1>6, <1>7, <1>8, <1>9

LEMMA ImportUndoKeeps ==
  ASSUME NEW c \in MediaCallers, MediaObjectInv, ImportUndo(c)
  PROVE  MediaObjectInv'
  <1> USE MediaObjectConstants, CallersApart
  <1> USE DEF MediaObjectInv, ImportUndo, Unlock, Goto, ObjectFault, Cleaner, NobodyHolds
  <1> USE DEF StepsSound, LockSound, LockingSteps, DeletingSteps, RowSound, MediaObjectSafe, HeldReadable, DyingUnreferenced, AvailableHasContent, Touchable, MediaObjectTypeOK, CallerSteps, CleanerSteps
  <1>1. MediaObjectTypeOK'
    <2>1. mediaRow' \in Rows
      BY RowType
    <2>2. callerAt' \in [MediaCallers -> CallerSteps]
      OBVIOUS
    <2>3. objectLock' \in MediaCallers \cup {Cleaner, NobodyHolds} /\ cleanerAt' \in CleanerSteps
      OBVIOUS
    <2>4. mediaRefs' \subseteq MediaCallers \cup Owners /\ mediaOwners' \subseteq Owners
          /\ pendingReleases' \subseteq mediaRefs' \cap MediaCallers
      OBVIOUS
    <2>5. historyGone' \in BOOLEAN /\ mediaFile' \in BOOLEAN /\ mediaCloud' \in BOOLEAN
      OBVIOUS
    <2>6. /\ outputAge' \in 0..OutputTTL /\ signedLeft' \in 0..SignedTTL
          /\ importAge' \in 0..OrphanGrace /\ lastUsed' \in 0..OrphanGrace /\ objectFaults' \in 0..MaxObjectFaults
      OBVIOUS
    <2> QED BY <2>1, <2>2, <2>3, <2>4, <2>5, <2>6 DEF Rows
  <1>2. LockSound'
    OBVIOUS
  <1>3. DyingUnreferenced'
    OBVIOUS
  <1>4. ReferencesAgree'
    BY DEF ReferencesAgree, Issues
  <1>5. TemporaryHasReleaser'
    BY DEF TemporaryHasReleaser
  <1>6. StepsSound'
    OBVIOUS
  <1>7. RowSound'
    OBVIOUS
  <1>8. HeldReadable'
    OBVIOUS
  <1>9. AvailableHasContent'
    OBVIOUS
  <1> QED BY <1>1, <1>2, <1>3, <1>4, <1>5, <1>6, <1>7, <1>8, <1>9

LEMMA HoldBeginKeeps ==
  ASSUME NEW c \in MediaCallers, MediaObjectInv, HoldBegin(c)
  PROVE  MediaObjectInv'
  <1> USE MediaObjectConstants, CallersApart
  <1> USE DEF MediaObjectInv, HoldBegin, Acquire, Goto, Cleaner, NobodyHolds
  <1> USE DEF StepsSound, LockSound, LockingSteps, DeletingSteps, RowSound, MediaObjectSafe, HeldReadable, DyingUnreferenced, AvailableHasContent, Touchable, MediaObjectTypeOK, CallerSteps, CleanerSteps
  <1>1. MediaObjectTypeOK'
    <2>1. mediaRow' \in Rows
      BY RowType
    <2>2. callerAt' \in [MediaCallers -> CallerSteps]
      OBVIOUS
    <2>3. objectLock' \in MediaCallers \cup {Cleaner, NobodyHolds} /\ cleanerAt' \in CleanerSteps
      OBVIOUS
    <2>4. mediaRefs' \subseteq MediaCallers \cup Owners /\ mediaOwners' \subseteq Owners
          /\ pendingReleases' \subseteq mediaRefs' \cap MediaCallers
      OBVIOUS
    <2>5. historyGone' \in BOOLEAN /\ mediaFile' \in BOOLEAN /\ mediaCloud' \in BOOLEAN
      OBVIOUS
    <2>6. /\ outputAge' \in 0..OutputTTL /\ signedLeft' \in 0..SignedTTL
          /\ importAge' \in 0..OrphanGrace /\ lastUsed' \in 0..OrphanGrace /\ objectFaults' \in 0..MaxObjectFaults
      OBVIOUS
    <2> QED BY <2>1, <2>2, <2>3, <2>4, <2>5, <2>6 DEF Rows
  <1>2. LockSound'
    OBVIOUS
  <1>3. DyingUnreferenced'
    OBVIOUS
  <1>4. ReferencesAgree'
    BY DEF ReferencesAgree, Issues
  <1>5. TemporaryHasReleaser'
    BY DEF TemporaryHasReleaser
  <1>6. StepsSound'
    OBVIOUS
  <1>7. RowSound'
    OBVIOUS
  <1>8. HeldReadable'
    OBVIOUS
  <1>9. AvailableHasContent'
    OBVIOUS
  <1> QED BY <1>1, <1>2, <1>3, <1>4, <1>5, <1>6, <1>7, <1>8, <1>9

LEMMA HoldAddKeeps ==
  ASSUME NEW c \in MediaCallers, MediaObjectInv, HoldAdd(c)
  PROVE  MediaObjectInv'
  <1> USE MediaObjectConstants, CallersApart
  <1> USE DEF MediaObjectInv, HoldAdd, Unlock, Goto, ObjectFault, Referable, Cleaner, NobodyHolds
  <1>r. /\ mediaRow' \in Rows /\ (mediaRow'.stored <=> mediaRow.stored) /\ (mediaRow'.deleting <=> mediaRow.deleting)
        /\ (mediaRow'.key <=> mediaRow.key)
        /\ mediaRow'.orphaned <= lastUsed' /\ lastUsed' \in 0..OrphanGrace /\ (~mediaRow.stored => mediaRow' = mediaRow)
    <2> mediaRow \in Rows /\ lastUsed \in 0..OrphanGrace /\ mediaRow.orphaned <= lastUsed /\ 0 \in 0..OrphanGrace
      BY RowType DEF MediaObjectTypeOK, RowSound
    <2> QED BY ReferredRow
  <1> USE DEF StepsSound, LockSound, LockingSteps, DeletingSteps, RowSound, MediaObjectSafe, HeldReadable, DyingUnreferenced, AvailableHasContent, Touchable, MediaObjectTypeOK, CallerSteps, CleanerSteps
  <1>1. MediaObjectTypeOK'
    <2>1. mediaRow' \in Rows
      BY <1>r
    <2>2. callerAt' \in [MediaCallers -> CallerSteps]
      BY <1>r
    <2>3. objectLock' \in MediaCallers \cup {Cleaner, NobodyHolds} /\ cleanerAt' \in CleanerSteps
      BY <1>r
    <2>4. mediaRefs' \subseteq MediaCallers \cup Owners /\ mediaOwners' \subseteq Owners
          /\ pendingReleases' \subseteq mediaRefs' \cap MediaCallers
      BY <1>r DEF Owners
    <2>5. historyGone' \in BOOLEAN /\ mediaFile' \in BOOLEAN /\ mediaCloud' \in BOOLEAN
      BY <1>r
    <2>6. /\ outputAge' \in 0..OutputTTL /\ signedLeft' \in 0..SignedTTL
          /\ importAge' \in 0..OrphanGrace /\ lastUsed' \in 0..OrphanGrace /\ objectFaults' \in 0..MaxObjectFaults
      BY <1>r
    <2> QED BY <2>1, <2>2, <2>3, <2>4, <2>5, <2>6 DEF Rows
  <1>2. LockSound'
    BY <1>r
  <1>3. DyingUnreferenced'
    BY <1>r
  <1>4. ReferencesAgree'
    <2>1. \A x : x \in mediaOwners <=> x \in mediaRefs /\ x \in Owners
      BY DEF ReferencesAgree, Issues
    <2>2. \A x : x \in mediaOwners' <=> x \in mediaRefs' /\ x \in Owners
      BY <2>1, <1>r DEF Owners
    <2> QED BY <2>2 DEF ReferencesAgree, Issues
  <1>5. TemporaryHasReleaser'
    BY <1>r DEF TemporaryHasReleaser, Owners
  <1>6. StepsSound'
    BY <1>r
  <1>7. RowSound'
    BY <1>r
  <1>8. HeldReadable'
    BY <1>r
  <1>9. AvailableHasContent'
    BY <1>r
  <1> QED BY <1>1, <1>2, <1>3, <1>4, <1>5, <1>6, <1>7, <1>8, <1>9

LEMMA OpenHeldKeeps ==
  ASSUME NEW c \in MediaCallers, MediaObjectInv, OpenHeld(c)
  PROVE  MediaObjectInv'
  <1> USE MediaObjectConstants, CallersApart
  <1> USE DEF MediaObjectInv, OpenHeld, Goto, Touchable, Cleaner, NobodyHolds
  <1>r. /\ mediaRow' \in Rows /\ (mediaRow'.stored <=> mediaRow.stored) /\ (mediaRow'.deleting <=> mediaRow.deleting)
        /\ (mediaRow'.key <=> mediaRow.key)
        /\ mediaRow'.orphaned <= lastUsed' /\ lastUsed' = 0
    <2> 0 \in 0..OrphanGrace /\ mediaRow \in Rows
      BY RowType
    <2> QED BY TouchedRow
  <1> USE DEF StepsSound, LockSound, LockingSteps, DeletingSteps, RowSound, MediaObjectSafe, HeldReadable, DyingUnreferenced, AvailableHasContent, Touchable, MediaObjectTypeOK, CallerSteps, CleanerSteps
  <1>1. MediaObjectTypeOK'
    <2>1. mediaRow' \in Rows
      BY <1>r
    <2>2. callerAt' \in [MediaCallers -> CallerSteps]
      BY <1>r
    <2>3. objectLock' \in MediaCallers \cup {Cleaner, NobodyHolds} /\ cleanerAt' \in CleanerSteps
      BY <1>r
    <2>4. mediaRefs' \subseteq MediaCallers \cup Owners /\ mediaOwners' \subseteq Owners
          /\ pendingReleases' \subseteq mediaRefs' \cap MediaCallers
      BY <1>r
    <2>5. historyGone' \in BOOLEAN /\ mediaFile' \in BOOLEAN /\ mediaCloud' \in BOOLEAN
      BY <1>r
    <2>6. /\ outputAge' \in 0..OutputTTL /\ signedLeft' \in 0..SignedTTL
          /\ importAge' \in 0..OrphanGrace /\ lastUsed' \in 0..OrphanGrace /\ objectFaults' \in 0..MaxObjectFaults
      BY <1>r
    <2> QED BY <2>1, <2>2, <2>3, <2>4, <2>5, <2>6 DEF Rows
  <1>2. LockSound'
    BY <1>r
  <1>3. DyingUnreferenced'
    BY <1>r
  <1>4. ReferencesAgree'
    BY <1>r DEF ReferencesAgree, Issues
  <1>5. TemporaryHasReleaser'
    BY <1>r DEF TemporaryHasReleaser
  <1>6. StepsSound'
    BY <1>r
  <1>7. RowSound'
    BY <1>r
  <1>8. HeldReadable'
    BY <1>r
  <1>9. AvailableHasContent'
    BY <1>r
  <1> QED BY <1>1, <1>2, <1>3, <1>4, <1>5, <1>6, <1>7, <1>8, <1>9

LEMMA ReleaseOwnedKeeps ==
  ASSUME NEW c \in MediaCallers, MediaObjectInv, ReleaseOwned(c)
  PROVE  MediaObjectInv'
  <1> USE MediaObjectConstants, CallersApart
  <1> USE DEF MediaObjectInv, ReleaseOwned, Goto, ObjectFault, PendingRelease, Cleaner, NobodyHolds
  <1>r. /\ mediaRow' \in Rows /\ (mediaRow'.stored <=> mediaRow.stored) /\ (mediaRow'.deleting <=> mediaRow.deleting)
        /\ (mediaRow'.key <=> mediaRow.key)
        /\ mediaRow'.orphaned <= lastUsed' /\ lastUsed' \in 0..OrphanGrace /\ (~mediaRow.stored => mediaRow' = mediaRow)
    <2>1. CASE RemoveReferences({c})
      BY <2>1, RemovedReferences DEF OwnerDelete, Triggered
    <2>2. CASE UNCHANGED <<mediaRefs, mediaRow, lastUsed>>
      BY <2>2, RowType DEF MediaObjectTypeOK, RowSound
    <2> QED BY <2>1, <2>2
  <1>m. \/ mediaRefs' = mediaRefs \ {c} /\ pendingReleases' = pendingReleases
        \/ mediaRefs' = mediaRefs /\ pendingReleases' = pendingReleases \cup {c}
    <2>1. CASE RemoveReferences({c}) /\ pendingReleases' = pendingReleases
      <3>1. mediaRefs' = mediaRefs \ {c}
        BY ONLY <2>1 DEF RemoveReferences
      <3> QED BY ONLY <2>1, <3>1
    <2>2. CASE pendingReleases' = PendingRelease(c) /\ UNCHANGED <<mediaRefs, mediaRow, lastUsed>>
      BY <2>2 DEF PendingRelease
    <2> QED BY <2>1, <2>2
  <1> USE DEF StepsSound, LockSound, LockingSteps, DeletingSteps, RowSound, MediaObjectSafe, HeldReadable, DyingUnreferenced, AvailableHasContent, Touchable, MediaObjectTypeOK, CallerSteps, CleanerSteps
  <1>1. MediaObjectTypeOK'
    <2>1. mediaRow' \in Rows
      BY <1>r
    <2>2. callerAt' \in [MediaCallers -> CallerSteps]
      BY <1>r, <1>m
    <2>3. objectLock' \in MediaCallers \cup {Cleaner, NobodyHolds} /\ cleanerAt' \in CleanerSteps
      BY <1>r, <1>m
    <2>4. mediaRefs' \subseteq MediaCallers \cup Owners /\ mediaOwners' \subseteq Owners
          /\ pendingReleases' \subseteq mediaRefs' \cap MediaCallers
      BY <1>r, <1>m DEF Owners
    <2>5. historyGone' \in BOOLEAN /\ mediaFile' \in BOOLEAN /\ mediaCloud' \in BOOLEAN
      BY <1>r, <1>m
    <2>6. /\ outputAge' \in 0..OutputTTL /\ signedLeft' \in 0..SignedTTL
          /\ importAge' \in 0..OrphanGrace /\ lastUsed' \in 0..OrphanGrace /\ objectFaults' \in 0..MaxObjectFaults
      BY <1>r, <1>m
    <2> QED BY <2>1, <2>2, <2>3, <2>4, <2>5, <2>6 DEF Rows
  <1>2. LockSound'
    BY <1>r, <1>m
  <1>3. DyingUnreferenced'
    BY <1>r, <1>m
  <1>4. ReferencesAgree'
    <2>1. \A x : x \in mediaOwners <=> x \in mediaRefs /\ x \in Owners
      BY DEF ReferencesAgree, Issues
    <2>2. \A x : x \in mediaOwners' <=> x \in mediaRefs' /\ x \in Owners
      BY <2>1, <1>r, <1>m DEF Owners
    <2> QED BY <2>2 DEF ReferencesAgree, Issues
  <1>5. TemporaryHasReleaser'
    BY <1>r, <1>m DEF TemporaryHasReleaser, Owners
  <1>6. StepsSound'
    BY <1>r, <1>m
  <1>7. RowSound'
    BY <1>r, <1>m
  <1>8. HeldReadable'
    BY <1>r, <1>m
  <1>9. AvailableHasContent'
    BY <1>r, <1>m
  <1> QED BY <1>1, <1>2, <1>3, <1>4, <1>5, <1>6, <1>7, <1>8, <1>9

LEMMA SignBeginKeeps ==
  ASSUME NEW c \in MediaCallers, MediaObjectInv, SignBegin(c)
  PROVE  MediaObjectInv'
  <1> USE MediaObjectConstants, CallersApart
  <1> USE DEF MediaObjectInv, SignBegin, Acquire, Goto, Touchable, Cleaner, NobodyHolds
  <1>r. /\ mediaRow' \in Rows /\ (mediaRow'.stored <=> mediaRow.stored) /\ (mediaRow'.deleting <=> mediaRow.deleting)
        /\ (mediaRow'.key <=> mediaRow.key)
        /\ mediaRow'.orphaned <= lastUsed' /\ lastUsed' = 0
    <2> 0 \in 0..OrphanGrace /\ mediaRow \in Rows
      BY RowType
    <2> QED BY TouchedRow
  <1> USE DEF StepsSound, LockSound, LockingSteps, DeletingSteps, RowSound, MediaObjectSafe, HeldReadable, DyingUnreferenced, AvailableHasContent, Touchable, MediaObjectTypeOK, CallerSteps, CleanerSteps
  <1>1. MediaObjectTypeOK'
    <2>1. mediaRow' \in Rows
      BY <1>r
    <2>2. callerAt' \in [MediaCallers -> CallerSteps]
      BY <1>r
    <2>3. objectLock' \in MediaCallers \cup {Cleaner, NobodyHolds} /\ cleanerAt' \in CleanerSteps
      BY <1>r
    <2>4. mediaRefs' \subseteq MediaCallers \cup Owners /\ mediaOwners' \subseteq Owners
          /\ pendingReleases' \subseteq mediaRefs' \cap MediaCallers
      BY <1>r
    <2>5. historyGone' \in BOOLEAN /\ mediaFile' \in BOOLEAN /\ mediaCloud' \in BOOLEAN
      BY <1>r
    <2>6. /\ outputAge' \in 0..OutputTTL /\ signedLeft' \in 0..SignedTTL
          /\ importAge' \in 0..OrphanGrace /\ lastUsed' \in 0..OrphanGrace /\ objectFaults' \in 0..MaxObjectFaults
      BY <1>r
    <2> QED BY <2>1, <2>2, <2>3, <2>4, <2>5, <2>6 DEF Rows
  <1>2. LockSound'
    BY <1>r
  <1>3. DyingUnreferenced'
    BY <1>r
  <1>4. ReferencesAgree'
    BY <1>r DEF ReferencesAgree, Issues
  <1>5. TemporaryHasReleaser'
    BY <1>r DEF TemporaryHasReleaser
  <1>6. StepsSound'
    BY <1>r
  <1>7. RowSound'
    BY <1>r
  <1>8. HeldReadable'
    BY <1>r
  <1>9. AvailableHasContent'
    BY <1>r
  <1> QED BY <1>1, <1>2, <1>3, <1>4, <1>5, <1>6, <1>7, <1>8, <1>9

LEMMA SignUploadKeeps ==
  ASSUME NEW c \in MediaCallers, MediaObjectInv, SignUpload(c)
  PROVE  MediaObjectInv'
  <1> USE MediaObjectConstants, CallersApart
  <1> USE DEF MediaObjectInv, SignUpload, Unlock, Goto, ObjectFault, Cleaner, NobodyHolds
  <1> USE DEF StepsSound, LockSound, LockingSteps, DeletingSteps, RowSound, MediaObjectSafe, HeldReadable, DyingUnreferenced, AvailableHasContent, Touchable, MediaObjectTypeOK, CallerSteps, CleanerSteps
  <1>1. MediaObjectTypeOK'
    <2>1. mediaRow' \in Rows
      BY RowType
    <2>2. callerAt' \in [MediaCallers -> CallerSteps]
      OBVIOUS
    <2>3. objectLock' \in MediaCallers \cup {Cleaner, NobodyHolds} /\ cleanerAt' \in CleanerSteps
      OBVIOUS
    <2>4. mediaRefs' \subseteq MediaCallers \cup Owners /\ mediaOwners' \subseteq Owners
          /\ pendingReleases' \subseteq mediaRefs' \cap MediaCallers
      OBVIOUS
    <2>5. historyGone' \in BOOLEAN /\ mediaFile' \in BOOLEAN /\ mediaCloud' \in BOOLEAN
      OBVIOUS
    <2>6. /\ outputAge' \in 0..OutputTTL /\ signedLeft' \in 0..SignedTTL
          /\ importAge' \in 0..OrphanGrace /\ lastUsed' \in 0..OrphanGrace /\ objectFaults' \in 0..MaxObjectFaults
      OBVIOUS
    <2> QED BY <2>1, <2>2, <2>3, <2>4, <2>5, <2>6 DEF Rows
  <1>2. LockSound'
    OBVIOUS
  <1>3. DyingUnreferenced'
    OBVIOUS
  <1>4. ReferencesAgree'
    BY DEF ReferencesAgree, Issues
  <1>5. TemporaryHasReleaser'
    BY DEF TemporaryHasReleaser
  <1>6. StepsSound'
    OBVIOUS
  <1>7. RowSound'
    OBVIOUS
  <1>8. HeldReadable'
    OBVIOUS
  <1>9. AvailableHasContent'
    OBVIOUS
  <1> QED BY <1>1, <1>2, <1>3, <1>4, <1>5, <1>6, <1>7, <1>8, <1>9

LEMMA SignRecordKeeps ==
  ASSUME NEW c \in MediaCallers, MediaObjectInv, SignRecord(c)
  PROVE  MediaObjectInv'
  <1> USE MediaObjectConstants, CallersApart
  <1> USE DEF MediaObjectInv, SignRecord, Unlock, Goto, ObjectFault, Touchable, Cleaner, NobodyHolds
  <1> USE DEF StepsSound, LockSound, LockingSteps, DeletingSteps, RowSound, MediaObjectSafe, HeldReadable, DyingUnreferenced, AvailableHasContent, Touchable, MediaObjectTypeOK, CallerSteps, CleanerSteps
  <1>1. MediaObjectTypeOK'
    <2>1. mediaRow' \in Rows
      BY RowType DEF Rows
    <2>2. callerAt' \in [MediaCallers -> CallerSteps]
      OBVIOUS
    <2>3. objectLock' \in MediaCallers \cup {Cleaner, NobodyHolds} /\ cleanerAt' \in CleanerSteps
      OBVIOUS
    <2>4. mediaRefs' \subseteq MediaCallers \cup Owners /\ mediaOwners' \subseteq Owners
          /\ pendingReleases' \subseteq mediaRefs' \cap MediaCallers
      OBVIOUS
    <2>5. historyGone' \in BOOLEAN /\ mediaFile' \in BOOLEAN /\ mediaCloud' \in BOOLEAN
      OBVIOUS
    <2>6. /\ outputAge' \in 0..OutputTTL /\ signedLeft' \in 0..SignedTTL
          /\ importAge' \in 0..OrphanGrace /\ lastUsed' \in 0..OrphanGrace /\ objectFaults' \in 0..MaxObjectFaults
      OBVIOUS
    <2> QED BY <2>1, <2>2, <2>3, <2>4, <2>5, <2>6 DEF Rows
  <1>2. LockSound'
    OBVIOUS
  <1>3. DyingUnreferenced'
    OBVIOUS
  <1>4. ReferencesAgree'
    BY DEF ReferencesAgree, Issues
  <1>5. TemporaryHasReleaser'
    BY DEF TemporaryHasReleaser
  <1>6. StepsSound'
    OBVIOUS
  <1>7. RowSound'
    OBVIOUS
  <1>8. HeldReadable'
    OBVIOUS
  <1>9. AvailableHasContent'
    OBVIOUS
  <1> QED BY <1>1, <1>2, <1>3, <1>4, <1>5, <1>6, <1>7, <1>8, <1>9

LEMMA SignUndoKeeps ==
  ASSUME NEW c \in MediaCallers, MediaObjectInv, SignUndo(c)
  PROVE  MediaObjectInv'
  <1> USE MediaObjectConstants, CallersApart
  <1> USE DEF MediaObjectInv, SignUndo, Unlock, Goto, ObjectFault, Cleaner, NobodyHolds
  <1> USE DEF StepsSound, LockSound, LockingSteps, DeletingSteps, RowSound, MediaObjectSafe, HeldReadable, DyingUnreferenced, AvailableHasContent, Touchable, MediaObjectTypeOK, CallerSteps, CleanerSteps
  <1>1. MediaObjectTypeOK'
    <2>1. mediaRow' \in Rows
      BY RowType
    <2>2. callerAt' \in [MediaCallers -> CallerSteps]
      OBVIOUS
    <2>3. objectLock' \in MediaCallers \cup {Cleaner, NobodyHolds} /\ cleanerAt' \in CleanerSteps
      OBVIOUS
    <2>4. mediaRefs' \subseteq MediaCallers \cup Owners /\ mediaOwners' \subseteq Owners
          /\ pendingReleases' \subseteq mediaRefs' \cap MediaCallers
      OBVIOUS
    <2>5. historyGone' \in BOOLEAN /\ mediaFile' \in BOOLEAN /\ mediaCloud' \in BOOLEAN
      OBVIOUS
    <2>6. /\ outputAge' \in 0..OutputTTL /\ signedLeft' \in 0..SignedTTL
          /\ importAge' \in 0..OrphanGrace /\ lastUsed' \in 0..OrphanGrace /\ objectFaults' \in 0..MaxObjectFaults
      OBVIOUS
    <2> QED BY <2>1, <2>2, <2>3, <2>4, <2>5, <2>6 DEF Rows
  <1>2. LockSound'
    OBVIOUS
  <1>3. DyingUnreferenced'
    OBVIOUS
  <1>4. ReferencesAgree'
    BY DEF ReferencesAgree, Issues
  <1>5. TemporaryHasReleaser'
    BY DEF TemporaryHasReleaser
  <1>6. StepsSound'
    OBVIOUS
  <1>7. RowSound'
    OBVIOUS
  <1>8. HeldReadable'
    OBVIOUS
  <1>9. AvailableHasContent'
    OBVIOUS
  <1> QED BY <1>1, <1>2, <1>3, <1>4, <1>5, <1>6, <1>7, <1>8, <1>9

LEMMA SignPresignKeeps ==
  ASSUME NEW c \in MediaCallers, MediaObjectInv, SignPresign(c)
  PROVE  MediaObjectInv'
  <1> USE MediaObjectConstants, CallersApart
  <1> USE DEF MediaObjectInv, SignPresign, Unlock, Goto, Cleaner, NobodyHolds
  <1> USE DEF StepsSound, LockSound, LockingSteps, DeletingSteps, RowSound, MediaObjectSafe, HeldReadable, DyingUnreferenced, AvailableHasContent, Touchable, MediaObjectTypeOK, CallerSteps, CleanerSteps
  <1>1. MediaObjectTypeOK'
    <2>1. mediaRow' \in Rows
      BY RowType
    <2>2. callerAt' \in [MediaCallers -> CallerSteps]
      OBVIOUS
    <2>3. objectLock' \in MediaCallers \cup {Cleaner, NobodyHolds} /\ cleanerAt' \in CleanerSteps
      OBVIOUS
    <2>4. mediaRefs' \subseteq MediaCallers \cup Owners /\ mediaOwners' \subseteq Owners
          /\ pendingReleases' \subseteq mediaRefs' \cap MediaCallers
      OBVIOUS
    <2>5. historyGone' \in BOOLEAN /\ mediaFile' \in BOOLEAN /\ mediaCloud' \in BOOLEAN
      OBVIOUS
    <2>6. /\ outputAge' \in 0..OutputTTL /\ signedLeft' \in 0..SignedTTL
          /\ importAge' \in 0..OrphanGrace /\ lastUsed' \in 0..OrphanGrace /\ objectFaults' \in 0..MaxObjectFaults
      OBVIOUS
    <2> QED BY <2>1, <2>2, <2>3, <2>4, <2>5, <2>6 DEF Rows
  <1>2. LockSound'
    OBVIOUS
  <1>3. DyingUnreferenced'
    OBVIOUS
  <1>4. ReferencesAgree'
    BY DEF ReferencesAgree, Issues
  <1>5. TemporaryHasReleaser'
    BY DEF TemporaryHasReleaser
  <1>6. StepsSound'
    OBVIOUS
  <1>7. RowSound'
    OBVIOUS
  <1>8. HeldReadable'
    OBVIOUS
  <1>9. AvailableHasContent'
    OBVIOUS
  <1> QED BY <1>1, <1>2, <1>3, <1>4, <1>5, <1>6, <1>7, <1>8, <1>9

LEMMA OwnerAddKeeps ==
  ASSUME NEW o \in Owners, MediaObjectInv, OwnerAdd(o)
  PROVE  MediaObjectInv'
  <1> USE MediaObjectConstants, CallersApart
  <1> USE DEF MediaObjectInv, OwnerAdd, Referable, Owners, Cleaner, NobodyHolds
  <1>r. /\ mediaRow' \in Rows /\ (mediaRow'.stored <=> mediaRow.stored) /\ (mediaRow'.deleting <=> mediaRow.deleting)
        /\ (mediaRow'.key <=> mediaRow.key)
        /\ mediaRow'.orphaned <= lastUsed' /\ lastUsed' \in 0..OrphanGrace /\ (~mediaRow.stored => mediaRow' = mediaRow)
    <2> mediaRow \in Rows /\ lastUsed \in 0..OrphanGrace /\ mediaRow.orphaned <= lastUsed /\ 0 \in 0..OrphanGrace
      BY RowType DEF MediaObjectTypeOK, RowSound
    <2> QED BY ReferredRow
  <1> USE DEF StepsSound, LockSound, LockingSteps, DeletingSteps, RowSound, MediaObjectSafe, HeldReadable, DyingUnreferenced, AvailableHasContent, Touchable, MediaObjectTypeOK, CallerSteps, CleanerSteps
  <1>1. MediaObjectTypeOK'
    <2>1. mediaRow' \in Rows
      BY <1>r
    <2>2. callerAt' \in [MediaCallers -> CallerSteps]
      BY <1>r
    <2>3. objectLock' \in MediaCallers \cup {Cleaner, NobodyHolds} /\ cleanerAt' \in CleanerSteps
      BY <1>r
    <2>4. mediaRefs' \subseteq MediaCallers \cup Owners /\ mediaOwners' \subseteq Owners
          /\ pendingReleases' \subseteq mediaRefs' \cap MediaCallers
      BY <1>r DEF Owners
    <2>5. historyGone' \in BOOLEAN /\ mediaFile' \in BOOLEAN /\ mediaCloud' \in BOOLEAN
      BY <1>r
    <2>6. /\ outputAge' \in 0..OutputTTL /\ signedLeft' \in 0..SignedTTL
          /\ importAge' \in 0..OrphanGrace /\ lastUsed' \in 0..OrphanGrace /\ objectFaults' \in 0..MaxObjectFaults
      BY <1>r
    <2> QED BY <2>1, <2>2, <2>3, <2>4, <2>5, <2>6 DEF Rows
  <1>2. LockSound'
    BY <1>r
  <1>3. DyingUnreferenced'
    BY <1>r
  <1>4. ReferencesAgree'
    <2>1. \A x : x \in mediaOwners <=> x \in mediaRefs /\ x \in Owners
      BY DEF ReferencesAgree, Issues
    <2>2. \A x : x \in mediaOwners' <=> x \in mediaRefs' /\ x \in Owners
      BY <2>1, <1>r DEF Owners
    <2> QED BY <2>2 DEF ReferencesAgree, Issues
  <1>5. TemporaryHasReleaser'
    BY <1>r DEF TemporaryHasReleaser, Owners
  <1>6. StepsSound'
    BY <1>r
  <1>7. RowSound'
    BY <1>r
  <1>8. HeldReadable'
    BY <1>r
  <1>9. AvailableHasContent'
    BY <1>r
  <1> QED BY <1>1, <1>2, <1>3, <1>4, <1>5, <1>6, <1>7, <1>8, <1>9

LEMMA MessageDeletedKeeps ==
  ASSUME MediaObjectInv, MessageDeleted
  PROVE  MediaObjectInv'
  <1> USE MediaObjectConstants, CallersApart
  <1> USE DEF MediaObjectInv, MessageDeleted, OwnerDelete, Triggered, Cleaner, NobodyHolds
  <1>r. /\ mediaRow' \in Rows /\ (mediaRow'.stored <=> mediaRow.stored) /\ (mediaRow'.deleting <=> mediaRow.deleting)
        /\ (mediaRow'.key <=> mediaRow.key)
        /\ mediaRow'.orphaned <= lastUsed' /\ lastUsed' \in 0..OrphanGrace /\ (~mediaRow.stored => mediaRow' = mediaRow)
    <2>1. CASE RemoveReferences({"message"})
      BY <2>1, RemovedReferences DEF OwnerDelete, Triggered
    <2> QED BY <2>1 DEF OwnerDelete, Triggered
  <1>m. mediaRefs' = mediaRefs \ {"message"}
    BY DEF RemoveReferences, OwnerDelete, Triggered
  <1> USE DEF StepsSound, LockSound, LockingSteps, DeletingSteps, RowSound, MediaObjectSafe, HeldReadable, DyingUnreferenced, AvailableHasContent, Touchable, MediaObjectTypeOK, CallerSteps, CleanerSteps
  <1>1. MediaObjectTypeOK'
    <2>1. mediaRow' \in Rows
      BY <1>r
    <2>2. callerAt' \in [MediaCallers -> CallerSteps]
      BY <1>r, <1>m
    <2>3. objectLock' \in MediaCallers \cup {Cleaner, NobodyHolds} /\ cleanerAt' \in CleanerSteps
      BY <1>r, <1>m
    <2>4. mediaRefs' \subseteq MediaCallers \cup Owners /\ mediaOwners' \subseteq Owners
          /\ pendingReleases' \subseteq mediaRefs' \cap MediaCallers
      BY <1>r, <1>m DEF Owners
    <2>5. historyGone' \in BOOLEAN /\ mediaFile' \in BOOLEAN /\ mediaCloud' \in BOOLEAN
      BY <1>r, <1>m
    <2>6. /\ outputAge' \in 0..OutputTTL /\ signedLeft' \in 0..SignedTTL
          /\ importAge' \in 0..OrphanGrace /\ lastUsed' \in 0..OrphanGrace /\ objectFaults' \in 0..MaxObjectFaults
      BY <1>r, <1>m
    <2> QED BY <2>1, <2>2, <2>3, <2>4, <2>5, <2>6 DEF Rows
  <1>2. LockSound'
    BY <1>r, <1>m
  <1>3. DyingUnreferenced'
    BY <1>r, <1>m
  <1>4. ReferencesAgree'
    <2>1. \A x : x \in mediaOwners <=> x \in mediaRefs /\ x \in Owners
      BY DEF ReferencesAgree, Issues
    <2>2. \A x : x \in mediaOwners' <=> x \in mediaRefs' /\ x \in Owners
      BY <2>1, <1>r, <1>m DEF Owners
    <2> QED BY <2>2 DEF ReferencesAgree, Issues
  <1>5. TemporaryHasReleaser'
    BY <1>r, <1>m DEF TemporaryHasReleaser, Owners
  <1>6. StepsSound'
    BY <1>r, <1>m
  <1>7. RowSound'
    BY <1>r, <1>m
  <1>8. HeldReadable'
    BY <1>r, <1>m
  <1>9. AvailableHasContent'
    BY <1>r, <1>m
  <1> QED BY <1>1, <1>2, <1>3, <1>4, <1>5, <1>6, <1>7, <1>8, <1>9

LEMMA HistoryDeletedKeeps ==
  ASSUME MediaObjectInv, HistoryDeleted
  PROVE  MediaObjectInv'
  <1> USE MediaObjectConstants, CallersApart
  <1> USE DEF MediaObjectInv, HistoryDeleted, Cleaner, NobodyHolds
  <1> USE DEF StepsSound, LockSound, LockingSteps, DeletingSteps, RowSound, MediaObjectSafe, HeldReadable, DyingUnreferenced, AvailableHasContent, Touchable, MediaObjectTypeOK, CallerSteps, CleanerSteps
  <1>1. MediaObjectTypeOK'
    <2>1. mediaRow' \in Rows
      BY RowType
    <2>2. callerAt' \in [MediaCallers -> CallerSteps]
      OBVIOUS
    <2>3. objectLock' \in MediaCallers \cup {Cleaner, NobodyHolds} /\ cleanerAt' \in CleanerSteps
      OBVIOUS
    <2>4. mediaRefs' \subseteq MediaCallers \cup Owners /\ mediaOwners' \subseteq Owners
          /\ pendingReleases' \subseteq mediaRefs' \cap MediaCallers
      OBVIOUS
    <2>5. historyGone' \in BOOLEAN /\ mediaFile' \in BOOLEAN /\ mediaCloud' \in BOOLEAN
      OBVIOUS
    <2>6. /\ outputAge' \in 0..OutputTTL /\ signedLeft' \in 0..SignedTTL
          /\ importAge' \in 0..OrphanGrace /\ lastUsed' \in 0..OrphanGrace /\ objectFaults' \in 0..MaxObjectFaults
      OBVIOUS
    <2> QED BY <2>1, <2>2, <2>3, <2>4, <2>5, <2>6 DEF Rows
  <1>2. LockSound'
    OBVIOUS
  <1>3. DyingUnreferenced'
    OBVIOUS
  <1>4. ReferencesAgree'
    BY DEF ReferencesAgree, Issues
  <1>5. TemporaryHasReleaser'
    BY DEF TemporaryHasReleaser
  <1>6. StepsSound'
    OBVIOUS
  <1>7. RowSound'
    OBVIOUS
  <1>8. HeldReadable'
    OBVIOUS
  <1>9. AvailableHasContent'
    OBVIOUS
  <1> QED BY <1>1, <1>2, <1>3, <1>4, <1>5, <1>6, <1>7, <1>8, <1>9

LEMMA CleanReleasesKeeps ==
  ASSUME MediaObjectInv, CleanReleases
  PROVE  MediaObjectInv'
  <1> USE MediaObjectConstants, CallersApart
  <1> USE DEF MediaObjectInv, CleanReleases, Remaining, Cleaner, NobodyHolds
  <1>1. PICK kept \in SUBSET pendingReleases :
        /\ (kept # {} => objectFaults > 0) /\ objectFaults' = (IF kept = {} THEN objectFaults ELSE objectFaults - 1)
        /\ pendingReleases' = kept /\ RemoveReferences(pendingReleases \ kept)
    BY DEF Remaining
  <1>r. /\ mediaRow' \in Rows /\ (mediaRow'.stored <=> mediaRow.stored) /\ (mediaRow'.deleting <=> mediaRow.deleting)
        /\ (mediaRow'.key <=> mediaRow.key)
        /\ mediaRow'.orphaned <= lastUsed' /\ lastUsed' \in 0..OrphanGrace /\ (~mediaRow.stored => mediaRow' = mediaRow)
    BY <1>1, RemovedReferences
  <1>m. mediaRefs' = mediaRefs \ (pendingReleases \ kept) /\ pendingReleases' = kept /\ objectFaults' \in 0..MaxObjectFaults
    BY <1>1 DEF RemoveReferences, MediaObjectTypeOK
  <1> USE DEF StepsSound, LockSound, LockingSteps, DeletingSteps, RowSound, MediaObjectSafe, HeldReadable, DyingUnreferenced, AvailableHasContent, Touchable, MediaObjectTypeOK, CallerSteps, CleanerSteps
  <1>2. MediaObjectTypeOK'
    <2>1. mediaRow' \in Rows
      BY <1>r
    <2>2. callerAt' \in [MediaCallers -> CallerSteps]
      BY <1>1, <1>r, <1>m
    <2>3. objectLock' \in MediaCallers \cup {Cleaner, NobodyHolds} /\ cleanerAt' \in CleanerSteps
      BY <1>1, <1>r, <1>m
    <2>4. mediaRefs' \subseteq MediaCallers \cup Owners /\ mediaOwners' \subseteq Owners
          /\ pendingReleases' \subseteq mediaRefs' \cap MediaCallers
      BY <1>1, <1>r, <1>m DEF Owners
    <2>5. historyGone' \in BOOLEAN /\ mediaFile' \in BOOLEAN /\ mediaCloud' \in BOOLEAN
      BY <1>1, <1>r, <1>m
    <2>6. /\ outputAge' \in 0..OutputTTL /\ signedLeft' \in 0..SignedTTL
          /\ importAge' \in 0..OrphanGrace /\ lastUsed' \in 0..OrphanGrace /\ objectFaults' \in 0..MaxObjectFaults
      BY <1>1, <1>r, <1>m
    <2> QED BY <2>1, <2>2, <2>3, <2>4, <2>5, <2>6 DEF Rows
  <1>10. TemporaryHasReleaser'
    BY <1>1, <1>r, <1>m DEF TemporaryHasReleaser, Owners
  <1>3. AvailableHasContent'
    BY <1>1, <1>r, <1>m
  <1>4. DyingUnreferenced'
    BY <1>1, <1>r, <1>m
  <1>5. ReferencesAgree'
    <2>1. \A x : x \in mediaOwners <=> x \in mediaRefs /\ x \in Owners
      BY DEF ReferencesAgree, Issues
    <2>2. \A x : x \in mediaOwners' <=> x \in mediaRefs' /\ x \in Owners
      BY <2>1, <1>1, <1>r, <1>m DEF Owners
    <2> QED BY <2>2 DEF ReferencesAgree, Issues
  <1>6. LockSound'
    BY <1>1, <1>r, <1>m
  <1>7. StepsSound'
    BY <1>1, <1>r, <1>m
  <1>8. RowSound'
    BY <1>1, <1>r, <1>m
  <1>9. HeldReadable'
    BY <1>1, <1>r, <1>m
  <1> QED BY <1>2, <1>3, <1>4, <1>5, <1>6, <1>7, <1>8, <1>9, <1>10

LEMMA CleanHistoryKeeps ==
  ASSUME MediaObjectInv, CleanHistory
  PROVE  MediaObjectInv'
  <1> USE MediaObjectConstants, CallersApart
  <1> USE DEF MediaObjectInv, CleanHistory, ObjectFault, Cleaner, NobodyHolds
  <1>r. /\ mediaRow' \in Rows /\ (mediaRow'.stored <=> mediaRow.stored) /\ (mediaRow'.deleting <=> mediaRow.deleting)
        /\ (mediaRow'.key <=> mediaRow.key)
        /\ mediaRow'.orphaned <= lastUsed' /\ lastUsed' \in 0..OrphanGrace /\ (~mediaRow.stored => mediaRow' = mediaRow)
    <2>1. CASE RemoveReferences({"history"})
      BY <2>1, RemovedReferences DEF OwnerDelete, Triggered
    <2>2. CASE UNCHANGED <<mediaRow, lastUsed>>
      BY <2>2, RowType DEF MediaObjectTypeOK, RowSound
    <2> QED BY <2>1, <2>2 DEF OwnerDelete, Triggered
  <1>m. \/ mediaOwners' = mediaOwners /\ mediaRefs' = mediaRefs
        \/ mediaRefs' = mediaRefs \ {"history"} /\ mediaOwners' = mediaOwners \ {"history"}
    <2>1. CASE OwnerDelete("history")
      BY <2>1 DEF RemoveReferences, OwnerDelete, Triggered
    <2>2. CASE UNCHANGED <<mediaOwners, mediaRefs, mediaRow, lastUsed>>
      BY ONLY <2>2
    <2> QED BY <2>1, <2>2
  <1> USE DEF StepsSound, LockSound, LockingSteps, DeletingSteps, RowSound, MediaObjectSafe, HeldReadable, DyingUnreferenced, AvailableHasContent, Touchable, MediaObjectTypeOK, CallerSteps, CleanerSteps
  <1>1. MediaObjectTypeOK'
    <2>1. mediaRow' \in Rows
      BY <1>r
    <2>2. callerAt' \in [MediaCallers -> CallerSteps]
      BY <1>r, <1>m
    <2>3. objectLock' \in MediaCallers \cup {Cleaner, NobodyHolds} /\ cleanerAt' \in CleanerSteps
      BY <1>r, <1>m
    <2>4. mediaRefs' \subseteq MediaCallers \cup Owners /\ mediaOwners' \subseteq Owners
          /\ pendingReleases' \subseteq mediaRefs' \cap MediaCallers
      BY <1>r, <1>m DEF Owners
    <2>5. historyGone' \in BOOLEAN /\ mediaFile' \in BOOLEAN /\ mediaCloud' \in BOOLEAN
      BY <1>r, <1>m
    <2>6. /\ outputAge' \in 0..OutputTTL /\ signedLeft' \in 0..SignedTTL
          /\ importAge' \in 0..OrphanGrace /\ lastUsed' \in 0..OrphanGrace /\ objectFaults' \in 0..MaxObjectFaults
      BY <1>r, <1>m
    <2> QED BY <2>1, <2>2, <2>3, <2>4, <2>5, <2>6 DEF Rows
  <1>2. LockSound'
    BY <1>r, <1>m
  <1>3. DyingUnreferenced'
    BY <1>r, <1>m
  <1>4. ReferencesAgree'
    <2>1. \A x : x \in mediaOwners <=> x \in mediaRefs /\ x \in Owners
      BY DEF ReferencesAgree, Issues
    <2>2. \A x : x \in mediaOwners' <=> x \in mediaRefs' /\ x \in Owners
      BY <2>1, <1>r, <1>m DEF Owners
    <2> QED BY <2>2 DEF ReferencesAgree, Issues
  <1>5. TemporaryHasReleaser'
    BY <1>r, <1>m DEF TemporaryHasReleaser, Owners
  <1>6. StepsSound'
    BY <1>r, <1>m
  <1>7. RowSound'
    BY <1>r, <1>m
  <1>8. HeldReadable'
    BY <1>r, <1>m
  <1>9. AvailableHasContent'
    BY <1>r, <1>m
  <1> QED BY <1>1, <1>2, <1>3, <1>4, <1>5, <1>6, <1>7, <1>8, <1>9

LEMMA CleanOutputsKeeps ==
  ASSUME MediaObjectInv, CleanOutputs
  PROVE  MediaObjectInv'
  <1> USE MediaObjectConstants, CallersApart
  <1> USE DEF MediaObjectInv, CleanOutputs, Cleaner, NobodyHolds
  <1>r. /\ mediaRow' \in Rows /\ (mediaRow'.stored <=> mediaRow.stored) /\ (mediaRow'.deleting <=> mediaRow.deleting)
        /\ (mediaRow'.key <=> mediaRow.key)
        /\ mediaRow'.orphaned <= lastUsed' /\ lastUsed' \in 0..OrphanGrace /\ (~mediaRow.stored => mediaRow' = mediaRow)
    <2>1. CASE RemoveReferences({"output"})
      BY <2>1, RemovedReferences DEF OwnerDelete, Triggered
    <2>2. CASE UNCHANGED <<mediaRow, lastUsed>>
      BY <2>2, RowType DEF MediaObjectTypeOK, RowSound
    <2> QED BY <2>1, <2>2 DEF OwnerDelete, Triggered
  <1>m. \/ mediaOwners' = mediaOwners /\ mediaRefs' = mediaRefs
        \/ mediaRefs' = mediaRefs \ {"output"} /\ mediaOwners' = mediaOwners \ {"output"}
    <2>1. CASE OwnerDelete("output")
      BY <2>1 DEF RemoveReferences, OwnerDelete, Triggered
    <2>2. CASE UNCHANGED <<mediaOwners, mediaRefs, mediaRow, lastUsed>>
      BY ONLY <2>2
    <2> QED BY <2>1, <2>2
  <1> USE DEF StepsSound, LockSound, LockingSteps, DeletingSteps, RowSound, MediaObjectSafe, HeldReadable, DyingUnreferenced, AvailableHasContent, Touchable, MediaObjectTypeOK, CallerSteps, CleanerSteps
  <1>1. MediaObjectTypeOK'
    <2>1. mediaRow' \in Rows
      BY <1>r
    <2>2. callerAt' \in [MediaCallers -> CallerSteps]
      BY <1>r, <1>m
    <2>3. objectLock' \in MediaCallers \cup {Cleaner, NobodyHolds} /\ cleanerAt' \in CleanerSteps
      BY <1>r, <1>m
    <2>4. mediaRefs' \subseteq MediaCallers \cup Owners /\ mediaOwners' \subseteq Owners
          /\ pendingReleases' \subseteq mediaRefs' \cap MediaCallers
      BY <1>r, <1>m DEF Owners
    <2>5. historyGone' \in BOOLEAN /\ mediaFile' \in BOOLEAN /\ mediaCloud' \in BOOLEAN
      BY <1>r, <1>m
    <2>6. /\ outputAge' \in 0..OutputTTL /\ signedLeft' \in 0..SignedTTL
          /\ importAge' \in 0..OrphanGrace /\ lastUsed' \in 0..OrphanGrace /\ objectFaults' \in 0..MaxObjectFaults
      BY <1>r, <1>m
    <2> QED BY <2>1, <2>2, <2>3, <2>4, <2>5, <2>6 DEF Rows
  <1>2. LockSound'
    BY <1>r, <1>m
  <1>3. DyingUnreferenced'
    BY <1>r, <1>m
  <1>4. ReferencesAgree'
    <2>1. \A x : x \in mediaOwners <=> x \in mediaRefs /\ x \in Owners
      BY DEF ReferencesAgree, Issues
    <2>2. \A x : x \in mediaOwners' <=> x \in mediaRefs' /\ x \in Owners
      BY <2>1, <1>r, <1>m DEF Owners
    <2> QED BY <2>2 DEF ReferencesAgree, Issues
  <1>5. TemporaryHasReleaser'
    BY <1>r, <1>m DEF TemporaryHasReleaser, Owners
  <1>6. StepsSound'
    BY <1>r, <1>m
  <1>7. RowSound'
    BY <1>r, <1>m
  <1>8. HeldReadable'
    BY <1>r, <1>m
  <1>9. AvailableHasContent'
    BY <1>r, <1>m
  <1> QED BY <1>1, <1>2, <1>3, <1>4, <1>5, <1>6, <1>7, <1>8, <1>9

LEMMA CleanCheckKeeps ==
  ASSUME MediaObjectInv, CleanCheck
  PROVE  MediaObjectInv'
  <1> USE MediaObjectConstants, CallersApart
  <1> USE DEF MediaObjectInv, CleanCheck, Cleaner, NobodyHolds
  <1> USE DEF StepsSound, LockSound, LockingSteps, DeletingSteps, RowSound, MediaObjectSafe, HeldReadable, DyingUnreferenced, AvailableHasContent, Touchable, MediaObjectTypeOK, CallerSteps, CleanerSteps
  <1>1. MediaObjectTypeOK'
    <2>1. mediaRow' \in Rows
      BY RowType
    <2>2. callerAt' \in [MediaCallers -> CallerSteps]
      OBVIOUS
    <2>3. objectLock' \in MediaCallers \cup {Cleaner, NobodyHolds} /\ cleanerAt' \in CleanerSteps
      OBVIOUS
    <2>4. mediaRefs' \subseteq MediaCallers \cup Owners /\ mediaOwners' \subseteq Owners
          /\ pendingReleases' \subseteq mediaRefs' \cap MediaCallers
      OBVIOUS
    <2>5. historyGone' \in BOOLEAN /\ mediaFile' \in BOOLEAN /\ mediaCloud' \in BOOLEAN
      OBVIOUS
    <2>6. /\ outputAge' \in 0..OutputTTL /\ signedLeft' \in 0..SignedTTL
          /\ importAge' \in 0..OrphanGrace /\ lastUsed' \in 0..OrphanGrace /\ objectFaults' \in 0..MaxObjectFaults
      OBVIOUS
    <2> QED BY <2>1, <2>2, <2>3, <2>4, <2>5, <2>6 DEF Rows
  <1>2. LockSound'
    OBVIOUS
  <1>3. DyingUnreferenced'
    OBVIOUS
  <1>4. ReferencesAgree'
    BY DEF ReferencesAgree, Issues
  <1>5. TemporaryHasReleaser'
    BY DEF TemporaryHasReleaser
  <1>6. StepsSound'
    OBVIOUS
  <1>7. RowSound'
    OBVIOUS
  <1>8. HeldReadable'
    OBVIOUS
  <1>9. AvailableHasContent'
    OBVIOUS
  <1> QED BY <1>1, <1>2, <1>3, <1>4, <1>5, <1>6, <1>7, <1>8, <1>9

LEMMA CleanClaimKeeps ==
  ASSUME MediaObjectInv, CleanClaim
  PROVE  MediaObjectInv'
  <1> USE MediaObjectConstants, CallersApart
  <1> USE DEF MediaObjectInv, CleanClaim, Cleaner, NobodyHolds
  <1>r. /\ mediaRow' \in Rows /\ (mediaRow'.stored <=> mediaRow.stored) /\ (mediaRow'.key <=> mediaRow.key)
        /\ mediaRow'.orphaned = mediaRow.orphaned /\ (mediaRow'.deleting <=> mediaRow.deleting \/ (mediaRow.stored /\ ClaimableObject))
        /\ (~mediaRow.stored => mediaRow' = mediaRow)
    BY RowType DEF Rows, Claimed, NoMedia, RowSound, ClaimableObject
  <1> USE DEF StepsSound, LockSound, LockingSteps, DeletingSteps, RowSound, MediaObjectSafe, HeldReadable, DyingUnreferenced, AvailableHasContent, Touchable, MediaObjectTypeOK, CallerSteps, CleanerSteps
  <1>1. MediaObjectTypeOK'
    <2>1. mediaRow' \in Rows
      BY <1>r
    <2>2. callerAt' \in [MediaCallers -> CallerSteps]
      BY <1>r
    <2>3. objectLock' \in MediaCallers \cup {Cleaner, NobodyHolds} /\ cleanerAt' \in CleanerSteps
      BY <1>r
    <2>4. mediaRefs' \subseteq MediaCallers \cup Owners /\ mediaOwners' \subseteq Owners
          /\ pendingReleases' \subseteq mediaRefs' \cap MediaCallers
      BY <1>r
    <2>5. historyGone' \in BOOLEAN /\ mediaFile' \in BOOLEAN /\ mediaCloud' \in BOOLEAN
      BY <1>r
    <2>6. /\ outputAge' \in 0..OutputTTL /\ signedLeft' \in 0..SignedTTL
          /\ importAge' \in 0..OrphanGrace /\ lastUsed' \in 0..OrphanGrace /\ objectFaults' \in 0..MaxObjectFaults
      BY <1>r
    <2> QED BY <2>1, <2>2, <2>3, <2>4, <2>5, <2>6 DEF Rows
  <1>2. LockSound'
    BY <1>r
  <1>3. DyingUnreferenced'
    BY <1>r DEF ClaimableObject
  <1>4. ReferencesAgree'
    BY <1>r DEF ReferencesAgree, Issues
  <1>5. TemporaryHasReleaser'
    BY <1>r DEF TemporaryHasReleaser
  <1>6. StepsSound'
    BY <1>r
  <1>7. RowSound'
    BY <1>r DEF ClaimableObject
  <1>8. HeldReadable'
    BY <1>r DEF ClaimableObject
  <1>9. AvailableHasContent'
    BY <1>r
  <1> QED BY <1>1, <1>2, <1>3, <1>4, <1>5, <1>6, <1>7, <1>8, <1>9

LEMMA CleanLockKeeps ==
  ASSUME MediaObjectInv, CleanLock
  PROVE  MediaObjectInv'
  <1> USE MediaObjectConstants, CallersApart
  <1> USE DEF MediaObjectInv, CleanLock, Acquire, Cleaner, NobodyHolds
  <1> USE DEF StepsSound, LockSound, LockingSteps, DeletingSteps, RowSound, MediaObjectSafe, HeldReadable, DyingUnreferenced, AvailableHasContent, Touchable, MediaObjectTypeOK, CallerSteps, CleanerSteps
  <1>1. MediaObjectTypeOK'
    <2>1. mediaRow' \in Rows
      BY RowType
    <2>2. callerAt' \in [MediaCallers -> CallerSteps]
      OBVIOUS
    <2>3. objectLock' \in MediaCallers \cup {Cleaner, NobodyHolds} /\ cleanerAt' \in CleanerSteps
      OBVIOUS
    <2>4. mediaRefs' \subseteq MediaCallers \cup Owners /\ mediaOwners' \subseteq Owners
          /\ pendingReleases' \subseteq mediaRefs' \cap MediaCallers
      OBVIOUS
    <2>5. historyGone' \in BOOLEAN /\ mediaFile' \in BOOLEAN /\ mediaCloud' \in BOOLEAN
      OBVIOUS
    <2>6. /\ outputAge' \in 0..OutputTTL /\ signedLeft' \in 0..SignedTTL
          /\ importAge' \in 0..OrphanGrace /\ lastUsed' \in 0..OrphanGrace /\ objectFaults' \in 0..MaxObjectFaults
      OBVIOUS
    <2> QED BY <2>1, <2>2, <2>3, <2>4, <2>5, <2>6 DEF Rows
  <1>2. LockSound'
    OBVIOUS
  <1>3. DyingUnreferenced'
    OBVIOUS
  <1>4. ReferencesAgree'
    BY DEF ReferencesAgree, Issues
  <1>5. TemporaryHasReleaser'
    BY DEF TemporaryHasReleaser
  <1>6. StepsSound'
    OBVIOUS
  <1>7. RowSound'
    OBVIOUS
  <1>8. HeldReadable'
    OBVIOUS
  <1>9. AvailableHasContent'
    OBVIOUS
  <1> QED BY <1>1, <1>2, <1>3, <1>4, <1>5, <1>6, <1>7, <1>8, <1>9

LEMMA CleanRemoteKeeps ==
  ASSUME MediaObjectInv, CleanRemote
  PROVE  MediaObjectInv'
  <1> USE MediaObjectConstants, CallersApart
  <1> USE DEF MediaObjectInv, CleanRemote, Unlock, GiveUpDelete, ObjectFault, Cleaner, NobodyHolds
  <1> USE DEF StepsSound, LockSound, LockingSteps, DeletingSteps, RowSound, MediaObjectSafe, HeldReadable, DyingUnreferenced, AvailableHasContent, Touchable, MediaObjectTypeOK, CallerSteps, CleanerSteps
  <1>1. MediaObjectTypeOK'
    <2>1. mediaRow' \in Rows
      BY RowType
    <2>2. callerAt' \in [MediaCallers -> CallerSteps]
      OBVIOUS
    <2>3. objectLock' \in MediaCallers \cup {Cleaner, NobodyHolds} /\ cleanerAt' \in CleanerSteps
      OBVIOUS
    <2>4. mediaRefs' \subseteq MediaCallers \cup Owners /\ mediaOwners' \subseteq Owners
          /\ pendingReleases' \subseteq mediaRefs' \cap MediaCallers
      OBVIOUS
    <2>5. historyGone' \in BOOLEAN /\ mediaFile' \in BOOLEAN /\ mediaCloud' \in BOOLEAN
      OBVIOUS
    <2>6. /\ outputAge' \in 0..OutputTTL /\ signedLeft' \in 0..SignedTTL
          /\ importAge' \in 0..OrphanGrace /\ lastUsed' \in 0..OrphanGrace /\ objectFaults' \in 0..MaxObjectFaults
      OBVIOUS
    <2> QED BY <2>1, <2>2, <2>3, <2>4, <2>5, <2>6 DEF Rows
  <1>2. LockSound'
    OBVIOUS
  <1>3. DyingUnreferenced'
    OBVIOUS
  <1>4. ReferencesAgree'
    BY DEF ReferencesAgree, Issues
  <1>5. TemporaryHasReleaser'
    BY DEF TemporaryHasReleaser
  <1>6. StepsSound'
    OBVIOUS
  <1>7. RowSound'
    OBVIOUS
  <1>8. HeldReadable'
    OBVIOUS
  <1>9. AvailableHasContent'
    OBVIOUS
  <1> QED BY <1>1, <1>2, <1>3, <1>4, <1>5, <1>6, <1>7, <1>8, <1>9

LEMMA CleanLocalKeeps ==
  ASSUME MediaObjectInv, CleanLocal
  PROVE  MediaObjectInv'
  <1> USE MediaObjectConstants, CallersApart
  <1> USE DEF MediaObjectInv, CleanLocal, Unlock, GiveUpDelete, ObjectFault, Cleaner, NobodyHolds
  <1> USE DEF StepsSound, LockSound, LockingSteps, DeletingSteps, RowSound, MediaObjectSafe, HeldReadable, DyingUnreferenced, AvailableHasContent, Touchable, MediaObjectTypeOK, CallerSteps, CleanerSteps
  <1>1. MediaObjectTypeOK'
    <2>1. mediaRow' \in Rows
      BY RowType
    <2>2. callerAt' \in [MediaCallers -> CallerSteps]
      OBVIOUS
    <2>3. objectLock' \in MediaCallers \cup {Cleaner, NobodyHolds} /\ cleanerAt' \in CleanerSteps
      OBVIOUS
    <2>4. mediaRefs' \subseteq MediaCallers \cup Owners /\ mediaOwners' \subseteq Owners
          /\ pendingReleases' \subseteq mediaRefs' \cap MediaCallers
      OBVIOUS
    <2>5. historyGone' \in BOOLEAN /\ mediaFile' \in BOOLEAN /\ mediaCloud' \in BOOLEAN
      OBVIOUS
    <2>6. /\ outputAge' \in 0..OutputTTL /\ signedLeft' \in 0..SignedTTL
          /\ importAge' \in 0..OrphanGrace /\ lastUsed' \in 0..OrphanGrace /\ objectFaults' \in 0..MaxObjectFaults
      OBVIOUS
    <2> QED BY <2>1, <2>2, <2>3, <2>4, <2>5, <2>6 DEF Rows
  <1>2. LockSound'
    OBVIOUS
  <1>3. DyingUnreferenced'
    OBVIOUS
  <1>4. ReferencesAgree'
    BY DEF ReferencesAgree, Issues
  <1>5. TemporaryHasReleaser'
    BY DEF TemporaryHasReleaser
  <1>6. StepsSound'
    OBVIOUS
  <1>7. RowSound'
    OBVIOUS
  <1>8. HeldReadable'
    OBVIOUS
  <1>9. AvailableHasContent'
    OBVIOUS
  <1> QED BY <1>1, <1>2, <1>3, <1>4, <1>5, <1>6, <1>7, <1>8, <1>9

LEMMA CleanFinishKeeps ==
  ASSUME MediaObjectInv, CleanFinish
  PROVE  MediaObjectInv'
  <1> USE MediaObjectConstants, CallersApart
  <1> USE DEF MediaObjectInv, CleanFinish, Unlock, GiveUpDelete, ObjectFault, Cleaner, NobodyHolds
  <1>r. /\ mediaRow' \in Rows /\ (mediaRow' = mediaRow \/ mediaRow' = NoMedia)
        /\ ~NoMedia.stored /\ ~NoMedia.deleting /\ ~NoMedia.key /\ NoMedia.orphaned = -1 /\ lastUsed \in 0..OrphanGrace
    BY RowType, NewRows DEF MediaObjectTypeOK
  <1> USE DEF StepsSound, LockSound, LockingSteps, DeletingSteps, RowSound, MediaObjectSafe, HeldReadable, DyingUnreferenced, AvailableHasContent, Touchable, MediaObjectTypeOK, CallerSteps, CleanerSteps
  <1>1. MediaObjectTypeOK'
    <2>1. mediaRow' \in Rows
      BY <1>r
    <2>2. callerAt' \in [MediaCallers -> CallerSteps]
      BY <1>r
    <2>3. objectLock' \in MediaCallers \cup {Cleaner, NobodyHolds} /\ cleanerAt' \in CleanerSteps
      BY <1>r
    <2>4. mediaRefs' \subseteq MediaCallers \cup Owners /\ mediaOwners' \subseteq Owners
          /\ pendingReleases' \subseteq mediaRefs' \cap MediaCallers
      BY <1>r
    <2>5. historyGone' \in BOOLEAN /\ mediaFile' \in BOOLEAN /\ mediaCloud' \in BOOLEAN
      BY <1>r
    <2>6. /\ outputAge' \in 0..OutputTTL /\ signedLeft' \in 0..SignedTTL
          /\ importAge' \in 0..OrphanGrace /\ lastUsed' \in 0..OrphanGrace /\ objectFaults' \in 0..MaxObjectFaults
      BY <1>r
    <2> QED BY <2>1, <2>2, <2>3, <2>4, <2>5, <2>6 DEF Rows
  <1>2. LockSound'
    BY <1>r
  <1>3. DyingUnreferenced'
    BY <1>r
  <1>4. ReferencesAgree'
    BY <1>r DEF ReferencesAgree, Issues
  <1>5. TemporaryHasReleaser'
    BY <1>r DEF TemporaryHasReleaser
  <1>6. StepsSound'
    BY <1>r
  <1>7. RowSound'
    BY <1>r
  <1>8. HeldReadable'
    BY <1>r
  <1>9. AvailableHasContent'
    BY <1>r
  <1> QED BY <1>1, <1>2, <1>3, <1>4, <1>5, <1>6, <1>7, <1>8, <1>9

LEMMA ObjectTickKeeps ==
  ASSUME MediaObjectInv, ObjectTick
  PROVE  MediaObjectInv'
  <1> USE MediaObjectConstants, CallersApart
  <1> USE DEF MediaObjectInv, ObjectTick, Cleaner, NobodyHolds
  <1>r. /\ mediaRow' \in Rows /\ (mediaRow'.stored <=> mediaRow.stored) /\ (mediaRow'.deleting <=> mediaRow.deleting)
        /\ (mediaRow'.key <=> mediaRow.key)
        /\ mediaRow'.orphaned <= lastUsed' /\ lastUsed' \in 0..OrphanGrace /\ (~mediaRow.stored => mediaRow' = mediaRow)
    <2> DEFINE older == Older(mediaRow.orphaned, OrphanGrace)
    <2>1. mediaRow \in Rows /\ lastUsed \in 0..OrphanGrace /\ mediaRow.orphaned <= lastUsed /\ mediaRow.orphaned \in -1..OrphanGrace
      BY RowType DEF MediaObjectTypeOK, RowSound, Rows
    <2>2. older \in -1..OrphanGrace /\ older <= Older(lastUsed, OrphanGrace) /\ mediaRow.orphaned <= Older(lastUsed, OrphanGrace)
          /\ Older(lastUsed, OrphanGrace) \in 0..OrphanGrace
      BY <2>1 DEF Older
    <2>3. ~mediaRow.stored => mediaRow.orphaned = -1
      BY DEF RowSound, NoMedia
    <2>4. lastUsed' = Older(lastUsed, OrphanGrace)
      OBVIOUS
    <2>5. mediaRow' = IF mediaRow.orphaned = -1 THEN mediaRow ELSE [mediaRow EXCEPT !.orphaned = older]
      OBVIOUS
    <2> HIDE DEF older
    <2>6. CASE mediaRow.orphaned = -1
      BY <2>1, <2>2, <2>4, <2>5, <2>6
    <2>7. CASE mediaRow.orphaned # -1
      <3>1. mediaRow' = [mediaRow EXCEPT !.orphaned = older]
        BY <2>5, <2>7
      <3>2. mediaRow' \in Rows /\ mediaRow'.orphaned = older /\ (mediaRow'.stored <=> mediaRow.stored)
            /\ (mediaRow'.deleting <=> mediaRow.deleting) /\ (mediaRow'.key <=> mediaRow.key)
        BY <2>1, <2>2, <3>1 DEF Rows
      <3> QED BY <2>2, <2>3, <2>4, <2>7, <3>2
    <2> QED BY <2>6, <2>7
  <1>n. outputAge' \in 0..OutputTTL /\ signedLeft' \in 0..SignedTTL /\ importAge' \in 0..OrphanGrace
    BY DEF Older, MediaObjectTypeOK
  <1> USE DEF StepsSound, LockSound, LockingSteps, DeletingSteps, RowSound, MediaObjectSafe, HeldReadable, DyingUnreferenced, AvailableHasContent, Touchable, MediaObjectTypeOK, CallerSteps, CleanerSteps
  <1>1. MediaObjectTypeOK'
    <2>1. mediaRow' \in Rows
      BY <1>r
    <2>2. callerAt' \in [MediaCallers -> CallerSteps]
      BY <1>r, <1>n
    <2>3. objectLock' \in MediaCallers \cup {Cleaner, NobodyHolds} /\ cleanerAt' \in CleanerSteps
      BY <1>r, <1>n
    <2>4. mediaRefs' \subseteq MediaCallers \cup Owners /\ mediaOwners' \subseteq Owners
          /\ pendingReleases' \subseteq mediaRefs' \cap MediaCallers
      BY <1>r, <1>n
    <2>5. historyGone' \in BOOLEAN /\ mediaFile' \in BOOLEAN /\ mediaCloud' \in BOOLEAN
      BY <1>r, <1>n
    <2>6. /\ outputAge' \in 0..OutputTTL /\ signedLeft' \in 0..SignedTTL
          /\ importAge' \in 0..OrphanGrace /\ lastUsed' \in 0..OrphanGrace /\ objectFaults' \in 0..MaxObjectFaults
      BY <1>r, <1>n
    <2> QED BY <2>1, <2>2, <2>3, <2>4, <2>5, <2>6 DEF Rows
  <1>2. LockSound'
    BY <1>r, <1>n
  <1>3. DyingUnreferenced'
    BY <1>r, <1>n
  <1>4. ReferencesAgree'
    BY <1>r, <1>n DEF ReferencesAgree, Issues
  <1>5. TemporaryHasReleaser'
    BY <1>r, <1>n DEF TemporaryHasReleaser
  <1>6. StepsSound'
    BY <1>r, <1>n
  <1>7. RowSound'
    BY <1>r, <1>n
  <1>8. HeldReadable'
    BY <1>r, <1>n
  <1>9. AvailableHasContent'
    BY <1>r, <1>n
  <1> QED BY <1>1, <1>2, <1>3, <1>4, <1>5, <1>6, <1>7, <1>8, <1>9

LEMMA ObjectCrashKeeps ==
  ASSUME MediaObjectInv, ObjectCrash
  PROVE  MediaObjectInv'
  <1> USE MediaObjectConstants, CallersApart
  <1> USE DEF MediaObjectInv, ObjectCrash, ObjectFault, Interrupted, Cleaner, NobodyHolds
  <1>r. /\ mediaRow' \in Rows /\ (mediaRow'.stored <=> mediaRow.stored) /\ (mediaRow'.deleting <=> mediaRow.deleting)
        /\ (mediaRow'.key <=> mediaRow.key)
        /\ mediaRow'.orphaned <= lastUsed' /\ lastUsed' \in 0..OrphanGrace /\ (~mediaRow.stored => mediaRow' = mediaRow)
    <2>1. CASE RemoveReferences(mediaRefs \cap MediaCallers)
      BY <2>1, RemovedReferences DEF OwnerDelete, Triggered
    <2> QED BY <2>1 DEF Interrupted
  <1>m. mediaRefs' = mediaRefs \ MediaCallers
    BY DEF RemoveReferences, Interrupted
  <1> USE DEF StepsSound, LockSound, LockingSteps, DeletingSteps, RowSound, MediaObjectSafe, HeldReadable, DyingUnreferenced, AvailableHasContent, Touchable, MediaObjectTypeOK, CallerSteps, CleanerSteps
  <1>1. MediaObjectTypeOK'
    <2>1. mediaRow' \in Rows
      BY <1>r
    <2>2. callerAt' \in [MediaCallers -> CallerSteps]
      BY <1>r, <1>m
    <2>3. objectLock' \in MediaCallers \cup {Cleaner, NobodyHolds} /\ cleanerAt' \in CleanerSteps
      BY <1>r, <1>m
    <2>4. mediaRefs' \subseteq MediaCallers \cup Owners /\ mediaOwners' \subseteq Owners
          /\ pendingReleases' \subseteq mediaRefs' \cap MediaCallers
      BY <1>r, <1>m DEF Owners
    <2>5. historyGone' \in BOOLEAN /\ mediaFile' \in BOOLEAN /\ mediaCloud' \in BOOLEAN
      BY <1>r, <1>m
    <2>6. /\ outputAge' \in 0..OutputTTL /\ signedLeft' \in 0..SignedTTL
          /\ importAge' \in 0..OrphanGrace /\ lastUsed' \in 0..OrphanGrace /\ objectFaults' \in 0..MaxObjectFaults
      BY <1>r, <1>m
    <2> QED BY <2>1, <2>2, <2>3, <2>4, <2>5, <2>6 DEF Rows
  <1>2. LockSound'
    BY <1>r, <1>m
  <1>3. DyingUnreferenced'
    BY <1>r, <1>m
  <1>4. ReferencesAgree'
    <2>1. \A x : x \in mediaOwners <=> x \in mediaRefs /\ x \in Owners
      BY DEF ReferencesAgree, Issues
    <2>2. \A x : x \in mediaOwners' <=> x \in mediaRefs' /\ x \in Owners
      BY <2>1, <1>r, <1>m DEF Owners
    <2> QED BY <2>2 DEF ReferencesAgree, Issues
  <1>5. TemporaryHasReleaser'
    BY <1>r, <1>m DEF TemporaryHasReleaser, Owners
  <1>6. StepsSound'
    BY <1>r, <1>m
  <1>7. RowSound'
    BY <1>r, <1>m
  <1>8. HeldReadable'
    BY <1>r, <1>m
  <1>9. AvailableHasContent'
    BY <1>r, <1>m
  <1> QED BY <1>1, <1>2, <1>3, <1>4, <1>5, <1>6, <1>7, <1>8, <1>9

LEMMA MediaObjectInitKeeps == MediaObjectInit => MediaObjectInv
  <1> SUFFICES ASSUME MediaObjectInit PROVE MediaObjectInv
    OBVIOUS
  <1> USE MediaObjectConstants, CallersApart DEF MediaObjectInit
  <1>1. MediaObjectTypeOK
    <2>1. mediaRow \in Rows
      BY NewRows
    <2>2. 0 \in 0..OutputTTL /\ 0 \in 0..SignedTTL /\ 0 \in 0..OrphanGrace /\ MaxObjectFaults \in 0..MaxObjectFaults
      OBVIOUS
    <2> QED BY <2>1, <2>2 DEF MediaObjectTypeOK, Rows, CallerSteps, CleanerSteps
  <1>2. LockSound /\ StepsSound
    BY DEF LockSound, StepsSound, LockingSteps, DeletingSteps, Cleaner, NobodyHolds
  <1>3. RowSound
    <2>1. ~NoMedia.stored /\ NoMedia.orphaned = -1
      BY NewRows
    <2> QED BY <2>1 DEF RowSound, DeletingSteps
  <1>4. MediaObjectSafe
    BY NewRows DEF MediaObjectSafe, HeldReadable, AvailableHasContent, DyingUnreferenced, ReferencesAgree, Issues, TemporaryHasReleaser, Touchable
  <1> QED BY <1>1, <1>2, <1>3, <1>4 DEF MediaObjectInv

LEMMA MediaObjectStepKeeps == MediaObjectInv /\ [MediaObjectNext]_objectVars => MediaObjectInv'
  <1> SUFFICES ASSUME MediaObjectInv, [MediaObjectNext]_objectVars PROVE MediaObjectInv'
    OBVIOUS
  <1>1. ASSUME NEW c \in MediaCallers, CallerNext(c) PROVE MediaObjectInv'
    BY <1>1, ImportBeginKeeps, ImportTouchKeeps, ImportPutKeeps, ImportUpsertKeeps, ImportUndoKeeps, HoldBeginKeeps, HoldAddKeeps,
       OpenHeldKeeps, ReleaseOwnedKeeps, SignBeginKeeps, SignUploadKeeps, SignRecordKeeps, SignUndoKeeps, SignPresignKeeps DEF CallerNext
  <1>2. ASSUME NEW o \in Owners, OwnerAdd(o) PROVE MediaObjectInv'
    BY <1>2, OwnerAddKeeps
  <1>3. CASE MessageDeleted \/ HistoryDeleted
    BY <1>3, MessageDeletedKeeps, HistoryDeletedKeeps
  <1>4. CASE CleanerNext
    BY <1>4, CleanReleasesKeeps, CleanHistoryKeeps, CleanOutputsKeeps, CleanCheckKeeps, CleanClaimKeeps, CleanLockKeeps,
       CleanRemoteKeeps, CleanLocalKeeps, CleanFinishKeeps DEF CleanerNext, CleanerPass
  <1>5. CASE ObjectTick \/ ObjectCrash
    BY <1>5, ObjectTickKeeps, ObjectCrashKeeps
  <1>6. CASE UNCHANGED objectVars
    <2> USE <1>6 DEF objectVars
    <2>1. MediaObjectTypeOK' BY DEF MediaObjectInv, MediaObjectTypeOK
    <2>2. LockSound' /\ StepsSound' /\ RowSound' BY DEF MediaObjectInv, LockSound, StepsSound, RowSound
    <2>3. MediaObjectSafe'
      BY DEF MediaObjectInv, MediaObjectSafe, HeldReadable, AvailableHasContent, DyingUnreferenced, ReferencesAgree, Issues, TemporaryHasReleaser, Touchable
    <2> QED BY <2>1, <2>2, <2>3 DEF MediaObjectInv
  <1> QED BY <1>1, <1>2, <1>3, <1>4, <1>5, <1>6 DEF MediaObjectNext

\* Every reachable state satisfies the inductive invariant, whatever callers, ages and faults there are.
THEOREM MediaObjectInductive == MediaObjectSpec => []MediaObjectInv
  <1>1. MediaObjectInit => MediaObjectInv BY MediaObjectInitKeeps
  <1>2. MediaObjectInv /\ [MediaObjectNext]_objectVars => MediaObjectInv' BY MediaObjectStepKeeps
  <1> QED BY <1>1, <1>2, PTL DEF MediaObjectSpec

\* Hold against ClaimOrphans and deleteObject: what a caller holds stays stored, unmarked and readable.
THEOREM MediaHoldsReadable == MediaObjectSpec => []HeldReadable
  BY MediaObjectInductive, PTL DEF MediaObjectInv, MediaObjectSafe

\* The order of Put, Upsert and deleteObject: every row that can be read has the content it names.
THEOREM MediaRowsBacked == MediaObjectSpec => []AvailableHasContent
  BY MediaObjectInductive, PTL DEF MediaObjectInv, MediaObjectSafe

\* FinishDelete always finds the object it deletes without references.
THEOREM MediaDyingUnreferenced == MediaObjectSpec => []DyingUnreferenced
  BY MediaObjectInductive, PTL DEF MediaObjectInv, MediaObjectSafe

\* CheckReferences never reports an inconsistency: triggers keep owners and references together.
THEOREM MediaReferencesAgree == MediaObjectSpec => []ReferencesAgree
  BY MediaObjectInductive, PTL DEF MediaObjectInv, MediaObjectSafe

\* releaseOwned and retryReleases: no temporary reference is left without somebody who removes it.
THEOREM MediaReleaserKnown == MediaObjectSpec => []TemporaryHasReleaser
  BY MediaObjectInductive, PTL DEF MediaObjectInv, MediaObjectSafe

LEMMA ClaimsLate ==
  MediaObjectInv /\ [MediaObjectNext]_objectVars => (~mediaRow.deleting /\ mediaRow'.deleting => lastUsed = OrphanGrace)
  <1> SUFFICES ASSUME MediaObjectInv, [MediaObjectNext]_objectVars, ~mediaRow.deleting, mediaRow'.deleting PROVE lastUsed = OrphanGrace
    OBVIOUS
  <1>i. MediaObjectTypeOK /\ RowSound /\ mediaRow \in Rows
    BY RowType DEF MediaObjectInv
  <1>1. ASSUME NEW refs, RemoveReferences(refs) PROVE FALSE
    BY <1>i, <1>1, RemovedReferences
  <1>2. ASSUME NEW c \in MediaCallers, CallerNext(c) PROVE FALSE
    <2>1. CASE ReleaseOwned(c)
      BY <1>1, <2>1 DEF ReleaseOwned
    <2>2. CASE HoldAdd(c)
      BY <1>i, <2>2, ReferredRow DEF HoldAdd
    <2>3. CASE ImportTouch(c) \/ OpenHeld(c) \/ SignBegin(c)
      BY <1>i, <2>3, TouchedRow DEF ImportTouch, OpenHeld, SignBegin
    <2>4. CASE ImportUpsert(c)
      <3>1. CASE mediaRow' = [NoMedia EXCEPT !.stored = TRUE, !.orphaned = importAge]
        BY <3>1 DEF NoMedia
      <3> QED BY <2>4, <3>1 DEF ImportUpsert
    <2>5. CASE SignRecord(c)
      BY <1>i, <2>5 DEF SignRecord, Rows
    <2>6. CASE ImportBegin(c) \/ ImportPut(c) \/ ImportUndo(c) \/ HoldBegin(c) \/ SignUpload(c) \/ SignUndo(c) \/ SignPresign(c)
      BY <2>6 DEF ImportBegin, ImportPut, ImportUndo, HoldBegin, SignUpload, SignUndo, SignPresign
    <2> QED BY <1>2, <2>1, <2>2, <2>3, <2>4, <2>5, <2>6 DEF CallerNext
  <1>3. ASSUME NEW o \in Owners, OwnerAdd(o) PROVE FALSE
    BY <1>i, <1>3, ReferredRow DEF OwnerAdd
  <1>4. CASE MessageDeleted \/ HistoryDeleted
    BY <1>1, <1>4 DEF MessageDeleted, HistoryDeleted, OwnerDelete
  <1>5. CASE CleanerNext
    <2>1. CASE CleanClaim
      <3>1. ClaimableObject
        BY <1>i, <2>1 DEF CleanClaim, Claimed, Rows
      <3>2. mediaRow.orphaned = OrphanGrace /\ lastUsed \in 0..OrphanGrace /\ mediaRow.orphaned <= lastUsed
        BY <1>i, <3>1 DEF ClaimableObject, RowSound, MediaObjectTypeOK
      <3> QED BY <3>2, MediaObjectConstants
    <2>2. CASE CleanReleases
      BY <1>1, <2>2 DEF CleanReleases
    <2>3. CASE CleanHistory \/ CleanOutputs
      BY <1>1, <2>3 DEF CleanHistory, CleanOutputs, OwnerDelete
    <2>4. CASE CleanFinish
      BY <2>4, NewRows DEF CleanFinish
    <2>5. CASE CleanCheck \/ CleanLock \/ CleanRemote \/ CleanLocal
      BY <2>5 DEF CleanCheck, CleanLock, CleanRemote, CleanLocal
    <2> QED BY <1>5, <2>1, <2>2, <2>3, <2>4, <2>5 DEF CleanerNext, CleanerPass
  <1>6. CASE ObjectTick
    BY <1>i, <1>6 DEF ObjectTick, Rows
  <1>7. CASE ObjectCrash
    BY <1>1, <1>7 DEF ObjectCrash
  <1>8. CASE UNCHANGED objectVars
    BY <1>8 DEF objectVars
  <1> QED BY <1>2, <1>3, <1>4, <1>5, <1>6, <1>7, <1>8 DEF MediaObjectNext

\* ClaimOrphans marks an object only a full grace after its last import, access or release.
THEOREM MediaClaimedLate == MediaObjectSpec => NotReclaimedEarly
  <1>1. MediaObjectInv /\ [MediaObjectNext]_objectVars => [~mediaRow.deleting /\ mediaRow'.deleting => lastUsed = OrphanGrace]_objectVars
    BY ClaimsLate
  <1> QED BY <1>1, MediaObjectInductive, PTL DEF MediaObjectSpec, NotReclaimedEarly

\* A step gives the history association up only when its message is gone.
LEMMA HistoryKept ==
  MediaObjectNext => ("history" \in mediaOwners /\ "history" \notin mediaOwners' => historyGone)
  <1> SUFFICES ASSUME MediaObjectNext, "history" \in mediaOwners, "history" \notin mediaOwners' PROVE historyGone
    OBVIOUS
  <1>1. ASSUME NEW c \in MediaCallers, CallerNext(c) PROVE FALSE
    BY <1>1 DEF CallerNext, ImportBegin, ImportTouch, ImportPut, ImportUpsert, ImportUndo, HoldBegin, HoldAdd, OpenHeld, ReleaseOwned,
       SignBegin, SignUpload, SignRecord, SignUndo, SignPresign
  <1>2. ASSUME NEW o \in Owners, OwnerAdd(o) PROVE FALSE
    BY <1>2 DEF OwnerAdd
  <1>3. CASE MessageDeleted \/ HistoryDeleted
    BY <1>3 DEF MessageDeleted, HistoryDeleted, OwnerDelete
  <1>4. CASE CleanHistory
    BY <1>4 DEF CleanHistory, HistoryLost, OwnerDelete
  <1>5. CASE CleanOutputs
    BY <1>5 DEF CleanOutputs, OwnerDelete
  <1>6. CASE CleanReleases \/ CleanCheck \/ CleanClaim \/ CleanRemote \/ CleanLocal \/ CleanFinish \/ CleanLock
    BY <1>6 DEF CleanReleases, CleanCheck, CleanClaim, CleanRemote, CleanLocal, CleanFinish, CleanLock
  <1>7. CASE ObjectTick \/ ObjectCrash
    BY <1>7 DEF ObjectTick, ObjectCrash
  <1> QED BY <1>1, <1>2, <1>3, <1>4, <1>5, <1>6, <1>7 DEF MediaObjectNext, CleanerNext, CleanerPass

\* ReconcileHistory deletes an association only after it found the message deleted.
THEOREM MediaHistoryKept == MediaObjectSpec => HistoryReleasedWhenGone
  <1>1. MediaObjectNext => ("history" \in mediaOwners /\ "history" \notin mediaOwners' => historyGone)
    BY HistoryKept
  <1> QED BY <1>1, PTL DEF MediaObjectSpec, HistoryReleasedWhenGone

-----------------------------------------------------------------------------
(* Media leases.  One goroutine at a time works on the lease.  What a caller *)
(* was told is not after the deadline in the index or has passed; and while *)
(* a caller claims the lease, not after what it will be told.               *)

GrantStates == [present : BOOLEAN, busy : BOOLEAN, retained : BOOLEAN, dir : BOOLEAN,
                expires : 0 .. MediaHorizon + LeaseTTL, failures : 0 .. CleanupRetries + 1]
CallerStates == [at : {"idle", "claimed", "using"}, before : Nat, told : 0 .. MediaHorizon + LeaseTTL]

LeaseTypes ==
    /\ grant \in GrantStates /\ refHeld \in BOOLEAN /\ deadline \in Nat \cup {NoDeadline}
    /\ caller \in [Callers -> CallerStates]
    /\ pruner \in {"idle", "claimed", "shutdown", "closing", "closed"}
    /\ mediaClock \in 0 .. MediaHorizon /\ mediaFaults \in 0 .. MediaFaults

\* The caller or the sweeper that works on the lease is the one that made it busy.
OneWorks ==
    /\ \A c \in Callers : caller[c].at # "idle" => grant.busy /\ pruner \notin {"claimed", "shutdown"}
    /\ \A c, d \in Callers : caller[c].at # "idle" /\ caller[d].at # "idle" => c = d
    /\ pruner \in {"claimed", "shutdown"} => grant.busy /\ deadline = NoDeadline

\* What is indexed, or has something to give back, is there; an indexed lease may still be tried.
GrantSound ==
    /\ grant.busy \/ grant.dir \/ grant.retained \/ deadline # NoDeadline => grant.present
    /\ refHeld <=> grant.retained
    /\ deadline # NoDeadline \/ pruner = "claimed" => grant.failures <= CleanupRetries
    /\ \A c \in Callers : caller[c].at = "using" => deadline = grant.expires \/ grant.expires <= mediaClock

Passed(c) == caller[c].told <= mediaClock

\* Nobody was told a time after the one at which the sweeper may come.
ToldOf(c) ==
    /\ caller[c].told <= mediaClock + LeaseTTL
    /\ caller[c].at = "using" => caller[c].told <= grant.expires
    /\ caller[c].at = "claimed" => \A d \in Callers : /\ caller[d].told <= caller[c].told
                                                      /\ d # c => Passed(d) \/ caller[d].told <= caller[c].before
    /\ caller[c].at # "claimed" => /\ Passed(c) \/ caller[c].told <= grant.expires
                                   /\ deadline = NoDeadline \/ Passed(c) \/ caller[c].told <= deadline
                                   /\ grant.retained \/ Passed(c)
    /\ pruner = "claimed" => Passed(c)

ToldKept == Open => \A c \in Callers : ToldOf(c)

LeaseInv == LeaseTypes /\ OneWorks /\ GrantSound /\ UsedIsHeld /\ LeaseIndexed /\ ToldKept

LEMMA ZeroFacts == 0 \in 0 .. MediaHorizon + LeaseTTL /\ 0 \in 0 .. CleanupRetries + 1 /\ 0 \in 0 .. MediaHorizon /\ 0 \in 0 .. MediaFaults
  BY MediaAssumption

LEMMA LeaseInitKeeps == MediaInit => LeaseInv
  <1> SUFFICES ASSUME MediaInit PROVE LeaseInv
    OBVIOUS
  <1> USE MediaAssumption
  <1>1. LeaseTypes
    <2>1. NoGrant \in GrantStates /\ [at |-> "idle", before |-> 0, told |-> 0] \in CallerStates
      BY DEF GrantStates, CallerStates, NoGrant
    <2>2. 0 \in 0 .. MediaHorizon /\ 0 \in 0 .. MediaFaults
      OBVIOUS
    <2> QED BY <2>1, <2>2 DEF MediaInit, LeaseTypes
  <1>2. OneWorks /\ GrantSound /\ UsedIsHeld /\ LeaseIndexed
    BY DEF MediaInit, OneWorks, GrantSound, UsedIsHeld, LeaseIndexed, NoGrant
  <1>3. ToldKept
    BY DEF MediaInit, ToldKept, ToldOf, Passed, NoGrant
  <1> QED BY <1>1, <1>2, <1>3 DEF LeaseInv

\* What a record of the lease holds, and one caller.
LEMMA LeaseFacts ==
  ASSUME LeaseInv
  PROVE  /\ grant \in GrantStates /\ grant.expires \in Nat /\ grant.expires \in 0 .. MediaHorizon + LeaseTTL
         /\ grant.failures \in Nat /\ grant.failures \in 0 .. CleanupRetries + 1 /\ (refHeld <=> grant.retained)
         /\ grant.present \in BOOLEAN /\ grant.busy \in BOOLEAN /\ grant.retained \in BOOLEAN /\ grant.dir \in BOOLEAN
         /\ refHeld \in BOOLEAN /\ deadline \in Nat \cup {NoDeadline} /\ mediaClock \in Nat /\ mediaClock \in 0 .. MediaHorizon
         /\ LeaseTTL \in Nat /\ MediaHorizon \in Nat /\ CleanupRetries \in Nat /\ MediaFaults \in Nat /\ mediaFaults \in 0 .. MediaFaults
         /\ \A n \in Nat : n # NoDeadline
         /\ \A c \in Callers : caller[c] \in CallerStates /\ caller[c].told \in Nat /\ caller[c].told \in 0 .. MediaHorizon + LeaseTTL
                               /\ caller[c].before \in Nat /\ caller[c].at \in {"idle", "claimed", "using"}
  BY MediaAssumption DEF LeaseInv, LeaseTypes, GrantSound, GrantStates, CallerStates, NoDeadline

\* A caller changes, the others do not.
LEMMA CallerMoves ==
  ASSUME LeaseInv, NEW c \in Callers, NEW x \in CallerStates, caller' = [caller EXCEPT ![c] = x]
  PROVE  /\ caller' \in [Callers -> CallerStates] /\ caller'[c] = x
         /\ \A d \in Callers : d # c => caller'[d] = caller[d]
  BY DEF LeaseInv, LeaseTypes

LEMMA ClaimKeeps ==
  ASSUME LeaseInv, NEW c \in Callers, Claim(c)
  PROVE  LeaseInv'
  <1> DEFINE b == IF deadline # NoDeadline THEN deadline ELSE grant.expires
             x == [caller[c] EXCEPT !.at = "claimed", !.before = b, !.told = mediaClock + LeaseTTL]
             g == [grant EXCEPT !.present = TRUE, !.busy = TRUE]
  <1>1. /\ Open /\ caller[c].at = "idle" /\ ~grant.busy /\ grant' = g /\ UNCHANGED <<refHeld, deadline, pruner, mediaClock, mediaFaults>>
        /\ caller' = [caller EXCEPT ![c] = x]
    BY DEF Claim, LeaseInv, LeaseTypes
  <1>2. x \in CallerStates /\ x.at = "claimed" /\ x.before = b /\ x.told = mediaClock + LeaseTTL
    <2>1. b \in Nat /\ mediaClock + LeaseTTL \in 0 .. MediaHorizon + LeaseTTL /\ caller[c] \in CallerStates
      BY LeaseFacts
    <2> HIDE DEF b
    <2> QED BY <2>1 DEF CallerStates
  <1>3. g \in GrantStates /\ g.present /\ g.busy /\ (g.retained <=> grant.retained) /\ (g.dir <=> grant.dir) /\ g.expires = grant.expires /\ g.failures = grant.failures
    BY LeaseFacts DEF GrantStates
  <1> HIDE DEF x, g
  <1>4. caller' \in [Callers -> CallerStates] /\ caller'[c] = x /\ \A d \in Callers : d # c => caller'[d] = caller[d]
    BY <1>1, <1>2, CallerMoves
  <1>5. LeaseTypes'
    BY <1>1, <1>3, <1>4, LeaseFacts DEF LeaseInv, LeaseTypes
  <1>6. \A d \in Callers : caller[d].at = "idle"
    BY <1>1 DEF LeaseInv, OneWorks
  <1>7. pruner = "idle"
    BY <1>1 DEF LeaseInv, OneWorks, Open
  <1>8. OneWorks' /\ GrantSound' /\ UsedIsHeld' /\ LeaseIndexed'
    <2>1. OneWorks'
      BY <1>1, <1>2, <1>3, <1>4, <1>6, <1>7 DEF LeaseInv, OneWorks
    <2>2. GrantSound'
      BY <1>1, <1>2, <1>3, <1>4, <1>6, <1>7, LeaseFacts DEF LeaseInv, OneWorks, GrantSound
    <2>3. UsedIsHeld'
      BY <1>1, <1>2, <1>3, <1>4, <1>6, <1>7 DEF LeaseInv, OneWorks, UsedIsHeld
    <2>4. LeaseIndexed'
      BY <1>1, <1>2, <1>3, <1>4, <1>6, <1>7, LeaseFacts DEF LeaseInv, GrantSound, LeaseIndexed
    <2> QED BY <2>1, <2>2, <2>3, <2>4
  <1>9. ToldKept'
    <2> SUFFICES ASSUME NEW d \in Callers PROVE ToldOf(d)'
      BY DEF ToldKept
    <2>1. \A e \in Callers : ToldOf(e) /\ caller[e].told \in Nat
      BY <1>1, LeaseFacts DEF LeaseInv, ToldKept
    <2>2. \A e \in Callers : caller[e].told <= mediaClock + LeaseTTL /\ (caller[e].told <= mediaClock \/ caller[e].told <= b)
      BY <2>1, <1>6 DEF ToldOf, Passed
    <2>3. CASE d = c
      <3>1. caller'[d].told = mediaClock + LeaseTTL /\ caller'[d].at = "claimed" /\ caller'[d].before = b
        BY <1>2, <1>4, <2>3
      <3>2. \A e \in Callers : caller'[e].told <= caller'[d].told
        BY <3>1, <1>4, <2>2, <2>3, LeaseFacts
      <3>3. \A e \in Callers : e # d => caller'[e].told <= mediaClock \/ caller'[e].told <= b
        BY <1>4, <2>2, <2>3
      <3> QED BY <1>1, <1>7, <3>1, <3>2, <3>3, LeaseFacts DEF ToldOf, Passed
    <2>4. CASE d # c
      <3>1. caller'[d] = caller[d] /\ caller[d].at = "idle"
        BY <1>4, <1>6, <2>4
      <3> QED BY <1>1, <1>3, <1>7, <2>1, <3>1 DEF ToldOf, Passed
    <2> QED BY <2>3, <2>4
  <1> QED BY <1>5, <1>8, <1>9 DEF LeaseInv

LEMMA RetainKeeps ==
  ASSUME LeaseInv, NEW c \in Callers, Retain(c)
  PROVE  LeaseInv'
  <1> DEFINE x == [caller[c] EXCEPT !.at = "using"]
             t == caller[c].told
             g == [grant EXCEPT !.retained = TRUE, !.expires = t, !.failures = 0]
  <1>1. /\ caller[c].at = "claimed" /\ grant' = g /\ refHeld' /\ refHeld' \in BOOLEAN /\ deadline' = t /\ UNCHANGED <<pruner, mediaClock, mediaFaults>>
        /\ caller' = [caller EXCEPT ![c] = x]
    BY DEF Retain, Renewed
  <1>2. x \in CallerStates /\ x.at = "using" /\ x.told = t /\ t \in Nat /\ t \in 0 .. MediaHorizon + LeaseTTL
    BY LeaseFacts DEF CallerStates
  <1>3. g \in GrantStates /\ (g.present <=> grant.present) /\ (g.busy <=> grant.busy) /\ g.retained /\ (g.dir <=> grant.dir) /\ g.expires = t /\ g.failures = 0
    <2>1. t \in 0 .. MediaHorizon + LeaseTTL /\ 0 \in 0 .. CleanupRetries + 1 /\ grant \in GrantStates
      BY <1>2, LeaseFacts, ZeroFacts
    <2> HIDE DEF t
    <2> QED BY <2>1 DEF GrantStates
  <1> HIDE DEF x, g, t
  <1>4. caller' \in [Callers -> CallerStates] /\ caller'[c] = x /\ \A d \in Callers : d # c => caller'[d] = caller[d]
    BY <1>1, <1>2, CallerMoves
  <1>5. LeaseTypes'
    BY <1>1, <1>2, <1>3, <1>4, LeaseFacts DEF LeaseInv, LeaseTypes
  <1>6. \A d \in Callers : d # c => caller[d].at = "idle"
    BY <1>1 DEF LeaseInv, OneWorks
  <1>7. pruner \notin {"claimed", "shutdown"} /\ grant.busy /\ grant.present
    BY <1>1 DEF LeaseInv, OneWorks, GrantSound
  <1>8. OneWorks' /\ GrantSound' /\ UsedIsHeld' /\ LeaseIndexed'
    <2>1. OneWorks'
      BY <1>1, <1>2, <1>3, <1>4, <1>6, <1>7 DEF LeaseInv, OneWorks
    <2>2. GrantSound'
      BY <1>1, <1>2, <1>3, <1>4, <1>6, <1>7, LeaseFacts DEF LeaseInv, OneWorks, GrantSound
    <2>3. UsedIsHeld'
      BY <1>1, <1>2, <1>3, <1>4, <1>6, <1>7 DEF LeaseInv, OneWorks, UsedIsHeld
    <2>4. LeaseIndexed'
      BY <1>1, <1>2, <1>3, <1>4, <1>6, <1>7, LeaseFacts DEF LeaseInv, GrantSound, LeaseIndexed
    <2> QED BY <2>1, <2>2, <2>3, <2>4
  <1>9. ToldKept'
    <2> SUFFICES ASSUME Open, NEW d \in Callers PROVE ToldOf(d)'
      BY <1>1 DEF ToldKept, Open
    <2>1. \A e \in Callers : ToldOf(e)
      BY DEF LeaseInv, ToldKept
    <2>2. \A e \in Callers : caller[e].told <= t
      BY <1>1, <2>1 DEF ToldOf, t
    <2>3. caller'[d].told = caller[d].told /\ caller'[d].at \in {"idle", "using"}
      BY <1>2, <1>4, <1>6 DEF t
    <2> QED BY <1>1, <1>3, <1>7, <2>1, <2>2, <2>3 DEF ToldOf, Passed
  <1> QED BY <1>5, <1>8, <1>9 DEF LeaseInv

LEMMA RetainFailsKeeps ==
  ASSUME LeaseInv, NEW c \in Callers, RetainFails(c)
  PROVE  LeaseInv'
  <1> DEFINE x == [caller[c] EXCEPT !.at = "idle", !.told = 0]
             g == [grant EXCEPT !.busy = FALSE]
  <1>1. /\ caller[c].at = "claimed" /\ ~grant.retained /\ UNCHANGED <<refHeld, pruner, mediaClock>>
        /\ caller' = [caller EXCEPT ![c] = x] /\ mediaFaults' \in 0 .. MediaFaults
    <2>1. caller[c].at = "claimed" /\ ~grant.retained /\ UNCHANGED <<refHeld, pruner, mediaClock>> /\ Fails
      BY DEF RetainFails
    <2>2. caller' = [caller EXCEPT ![c] = x]
      BY DEF RetainFails, LeaseInv, LeaseTypes
    <2>3. mediaFaults' \in 0 .. MediaFaults
      BY <2>1, LeaseFacts DEF Fails
    <2> QED BY <2>1, <2>2, <2>3
  <1>2. \/ ~grant.dir /\ grant' = NoGrant /\ deadline' = NoDeadline
        \/ grant.dir /\ grant' = g /\ IF grant.failures <= CleanupRetries THEN deadline' = caller[c].before ELSE deadline' = deadline
    BY LeaseFacts DEF RetainFails
  <1>3. x \in CallerStates /\ x.at = "idle" /\ x.told = 0
    BY LeaseFacts, ZeroFacts DEF CallerStates
  <1>4. g \in GrantStates /\ (g.present <=> grant.present) /\ ~g.busy /\ (g.retained <=> grant.retained) /\ (g.dir <=> grant.dir) /\ g.expires = grant.expires
        /\ g.failures = grant.failures
    BY LeaseFacts DEF GrantStates
  <1>5. NoGrant \in GrantStates /\ ~NoGrant.present /\ ~NoGrant.busy /\ ~NoGrant.retained /\ ~NoGrant.dir
    BY ZeroFacts DEF GrantStates, NoGrant
  <1> HIDE DEF x, g
  <1>6. caller' \in [Callers -> CallerStates] /\ caller'[c] = x /\ \A d \in Callers : d # c => caller'[d] = caller[d]
    BY <1>1, <1>3, CallerMoves
  <1>7. LeaseTypes'
    BY <1>1, <1>2, <1>4, <1>5, <1>6, LeaseFacts DEF LeaseInv, LeaseTypes
  <1>8. \A d \in Callers : d # c => caller[d].at = "idle"
    BY <1>1 DEF LeaseInv, OneWorks
  <1>9. pruner \notin {"claimed", "shutdown"} /\ grant.busy /\ grant.present /\ ~refHeld
    BY <1>1 DEF LeaseInv, OneWorks, GrantSound
  <1>10. \A d \in Callers : caller'[d].at = "idle"
    BY <1>3, <1>6, <1>8
  <1>11. OneWorks' /\ GrantSound' /\ UsedIsHeld' /\ LeaseIndexed'
    <2>1. OneWorks'
      BY <1>1, <1>2, <1>4, <1>5, <1>9, <1>10 DEF LeaseInv, OneWorks
    <2>2. GrantSound'
      BY <1>1, <1>2, <1>4, <1>5, <1>9, <1>10, LeaseFacts DEF LeaseInv, OneWorks, GrantSound
    <2>3. UsedIsHeld'
      BY <1>1, <1>2, <1>4, <1>5, <1>9, <1>10 DEF LeaseInv, OneWorks, UsedIsHeld
    <2>4. LeaseIndexed'
      BY <1>1, <1>2, <1>4, <1>5, <1>9, <1>10, LeaseFacts DEF LeaseInv, GrantSound, LeaseIndexed
    <2> QED BY <2>1, <2>2, <2>3, <2>4
  <1>12. ToldKept'
    <2> SUFFICES ASSUME Open, NEW d \in Callers PROVE ToldOf(d)'
      BY <1>1 DEF ToldKept, Open
    <2>1. \A e \in Callers : ToldOf(e)
      BY DEF LeaseInv, ToldKept
    <2>2. CASE d = c
      <3>1. caller'[d].told = 0
        BY <1>3, <1>6, <2>2
      <3> QED BY <1>1, <1>9, <1>10, <3>1, LeaseFacts DEF ToldOf, Passed
    <2>3. CASE d # c
      <3>1. caller'[d] = caller[d] /\ caller[d].told <= mediaClock /\ caller[d].told <= mediaClock + LeaseTTL
        BY <1>1, <1>6, <1>8, <2>1, <2>3 DEF ToldOf, Passed
      <3> QED BY <1>1, <1>9, <1>10, <3>1 DEF ToldOf, Passed
    <2> QED BY <2>2, <2>3
  <1> QED BY <1>7, <1>11, <1>12 DEF LeaseInv

LEMMA ExportKeeps ==
  ASSUME LeaseInv, NEW c \in Callers, Export(c)
  PROVE  LeaseInv'
  <1> DEFINE g == [grant EXCEPT !.dir = TRUE]
  <1>1. caller[c].at = "using" /\ grant' = g /\ UNCHANGED <<refHeld, deadline, caller, pruner, mediaClock, mediaFaults>>
    BY DEF Export
  <1>2. g \in GrantStates /\ (g.present <=> grant.present) /\ (g.busy <=> grant.busy) /\ (g.retained <=> grant.retained) /\ g.expires = grant.expires /\ g.failures = grant.failures
    BY LeaseFacts DEF GrantStates
  <1> HIDE DEF g
  <1>3. LeaseTypes'
    BY <1>1, <1>2, LeaseFacts DEF LeaseInv, LeaseTypes
  <1>4. OneWorks' /\ GrantSound' /\ UsedIsHeld' /\ LeaseIndexed'
    <2>1. OneWorks'
      BY <1>1, <1>2 DEF LeaseInv, OneWorks
    <2>2. GrantSound'
      BY <1>1, <1>2, LeaseFacts DEF LeaseInv, OneWorks, GrantSound
    <2>3. UsedIsHeld'
      BY <1>1, <1>2 DEF LeaseInv, OneWorks, UsedIsHeld
    <2>4. LeaseIndexed'
      BY <1>1, <1>2, LeaseFacts DEF LeaseInv, OneWorks, LeaseIndexed
    <2> QED BY <2>1, <2>2, <2>3, <2>4
  <1>5. ToldKept'
    BY <1>1, <1>2 DEF LeaseInv, ToldKept, ToldOf, Passed, Open
  <1> QED BY <1>3, <1>4, <1>5 DEF LeaseInv

LEMMA ReleaseKeeps ==
  ASSUME LeaseInv, NEW c \in Callers, Release(c)
  PROVE  LeaseInv'
  <1> DEFINE x == [caller[c] EXCEPT !.at = "idle"]
             g == [grant EXCEPT !.busy = FALSE]
  <1>1. /\ caller[c].at = "using" /\ grant' = g /\ UNCHANGED <<refHeld, pruner, mediaClock, mediaFaults>>
        /\ caller' = [caller EXCEPT ![c] = x]
    BY DEF Release
  <1>2. deadline' = deadline \/ (mediaClock >= grant.expires /\ grant.failures <= CleanupRetries /\ deadline' = grant.expires)
    BY DEF Release, MediaReleased
  <1>3. x \in CallerStates /\ x.at = "idle" /\ x.told = caller[c].told
    BY LeaseFacts DEF CallerStates
  <1>4. g \in GrantStates /\ (g.present <=> grant.present) /\ ~g.busy /\ (g.retained <=> grant.retained) /\ (g.dir <=> grant.dir) /\ g.expires = grant.expires
        /\ g.failures = grant.failures
    BY LeaseFacts DEF GrantStates
  <1> HIDE DEF x, g
  <1>5. caller' \in [Callers -> CallerStates] /\ caller'[c] = x /\ \A d \in Callers : d # c => caller'[d] = caller[d]
    BY <1>1, <1>3, CallerMoves
  <1>6. LeaseTypes'
    BY <1>1, <1>2, <1>4, <1>5, LeaseFacts DEF LeaseInv, LeaseTypes
  <1>7. \A d \in Callers : caller'[d].at = "idle" /\ caller'[d].told = caller[d].told /\ caller[d].at # "claimed"
    BY <1>1, <1>3, <1>5 DEF LeaseInv, OneWorks
  <1>8. pruner \notin {"claimed", "shutdown"} /\ grant.present /\ (refHeld <=> grant.retained)
    BY <1>1 DEF LeaseInv, OneWorks, GrantSound
  <1>9. OneWorks' /\ GrantSound' /\ UsedIsHeld' /\ LeaseIndexed'
    <2>1. OneWorks'
      BY <1>1, <1>4, <1>7, <1>8 DEF LeaseInv, OneWorks
    <2>2. GrantSound'
      BY <1>1, <1>2, <1>4, <1>7, <1>8, LeaseFacts DEF LeaseInv, GrantSound
    <2>3. UsedIsHeld'
      BY <1>1, <1>4, <1>7, <1>8 DEF LeaseInv, OneWorks, UsedIsHeld
    <2>4. LeaseIndexed'
      <3>1. deadline # NoDeadline \/ (mediaClock >= grant.expires /\ grant.failures <= CleanupRetries => deadline' = grant.expires)
        BY DEF Release, MediaReleased
      <3>2. deadline # NoDeadline \/ grant.expires <= mediaClock
        BY <1>1, LeaseFacts DEF LeaseInv, GrantSound
      <3> QED BY <1>1, <1>2, <1>4, <3>1, <3>2, LeaseFacts DEF LeaseIndexed
    <2> QED BY <2>1, <2>2, <2>3, <2>4
  <1>10. ToldKept'
    <2> SUFFICES ASSUME Open, NEW d \in Callers PROVE ToldOf(d)'
      BY <1>1 DEF ToldKept, Open
    <2>1. ToldOf(d) /\ caller[d].at # "claimed" /\ caller[d].told \in Nat
      BY <1>7, LeaseFacts DEF LeaseInv, ToldKept
    <2>2. /\ caller[d].told <= mediaClock + LeaseTTL /\ (Passed(d) \/ caller[d].told <= grant.expires)
          /\ (deadline = NoDeadline \/ Passed(d) \/ caller[d].told <= deadline) /\ (grant.retained \/ Passed(d))
      BY <2>1 DEF ToldOf
    <2>3. deadline' = NoDeadline \/ Passed(d) \/ caller[d].told <= deadline'
      BY <1>2, <2>1, <2>2, LeaseFacts DEF Passed
    <2>4. Passed(d)' <=> Passed(d)
      BY <1>1, <1>7 DEF Passed
    <2> QED BY <1>1, <1>4, <1>7, <1>8, <2>2, <2>3, <2>4 DEF ToldOf
  <1> QED BY <1>6, <1>9, <1>10 DEF LeaseInv

LEMMA PruneDueKeeps ==
  ASSUME LeaseInv, PruneDue
  PROVE  LeaseInv'
  <1> DEFINE g == [grant EXCEPT !.busy = TRUE]
  <1>1. pruner = "idle" /\ deadline # NoDeadline /\ deadline <= mediaClock /\ deadline' = NoDeadline /\ UNCHANGED <<refHeld, caller, mediaClock, mediaFaults>>
    BY DEF PruneDue
  <1>2. \/ ~grant.busy /\ grant' = g /\ pruner' = "claimed"
        \/ grant.busy /\ grant' = grant /\ pruner' = "idle"
    BY <1>1 DEF PruneDue, ClaimableGrant
  <1>3. g \in GrantStates /\ (g.present <=> grant.present) /\ g.busy /\ (g.retained <=> grant.retained) /\ (g.dir <=> grant.dir) /\ g.expires = grant.expires
        /\ g.failures = grant.failures
    BY LeaseFacts DEF GrantStates
  <1> HIDE DEF g
  <1>4. LeaseTypes'
    BY <1>1, <1>2, <1>3, LeaseFacts DEF LeaseInv, LeaseTypes
  <1>5. deadline # NoDeadline /\ grant.present
    BY <1>1 DEF LeaseInv, GrantSound
  <1>6. OneWorks' /\ GrantSound' /\ UsedIsHeld' /\ LeaseIndexed'
    <2>1. OneWorks'
      BY <1>1, <1>2, <1>3, <1>5 DEF LeaseInv, OneWorks
    <2>2. GrantSound'
      <3>1. grant.failures <= CleanupRetries /\ (refHeld <=> grant.retained) /\ \A c \in Callers : caller[c].at = "using" => grant.expires <= mediaClock
        BY <1>1, <1>5 DEF LeaseInv, GrantSound
      <3>2. CASE grant' = g
        BY <1>1, <1>2, <1>3, <1>5, <3>1, <3>2 DEF GrantSound
      <3>3. CASE grant' = grant
        BY <1>1, <1>2, <1>5, <3>1, <3>3 DEF GrantSound
      <3> QED BY <1>2, <3>2, <3>3
    <2>3. UsedIsHeld'
      BY <1>1, <1>2, <1>3, <1>5 DEF LeaseInv, OneWorks, UsedIsHeld
    <2>4. LeaseIndexed'
      BY <1>1, <1>2, <1>3, <1>5, LeaseFacts DEF LeaseInv, GrantSound, LeaseIndexed
    <2> QED BY <2>1, <2>2, <2>3, <2>4
  <1>7. ToldKept'
    <2> SUFFICES ASSUME NEW d \in Callers PROVE ToldOf(d)'
      BY DEF ToldKept
    <2>1. ToldOf(d)
      BY <1>1 DEF LeaseInv, ToldKept, Open
    <2>2. CASE pruner' = "claimed"
      <3>1. caller[d].at = "idle"
        BY <1>1, <1>2, <2>2 DEF LeaseInv, OneWorks
      <3>2. caller[d].told <= mediaClock
        BY <1>1, <1>5, <2>1, <3>1, LeaseFacts DEF ToldOf, Passed
      <3> QED BY <1>1, <2>1, <3>1, <3>2 DEF ToldOf, Passed
    <2>3. CASE grant' = grant /\ pruner' = "idle"
      BY <1>1, <2>1, <2>3 DEF ToldOf, Passed
    <2> QED BY <1>2, <2>2, <2>3
  <1> QED BY <1>4, <1>6, <1>7 DEF LeaseInv


LEMMA PruneLeaseKeeps ==
  ASSUME LeaseInv, PruneLease
  PROVE  LeaseInv'
  <1>1. /\ pruner \in {"claimed", "shutdown"} /\ pruner' = (IF pruner = "claimed" THEN "idle" ELSE "closed")
        /\ UNCHANGED <<caller, mediaClock>>
    BY DEF PruneLease
  <1>2. PICK ref \in BOOLEAN, dir \in BOOLEAN : PruneAttempt(ref, dir)
    BY DEF PruneLease
  <1> DEFINE g == Remains(ref, dir)
             x == [g EXCEPT !.busy = FALSE]
             y == [x EXCEPT !.failures = grant.failures + 1]
  <1>21. /\ ref => grant.retained
         /\ dir => grant.dir
         /\ IF ref \/ dir THEN Fails ELSE UNCHANGED mediaFaults
         /\ refHeld' = (refHeld /\ ref)
    BY <1>2 DEF PruneAttempt
  <1>3. /\ g \in GrantStates /\ (g.present <=> grant.present) /\ (g.retained <=> ref) /\ (g.dir <=> dir) /\ g.expires = grant.expires
        /\ g.failures = grant.failures
    BY LeaseFacts DEF GrantStates, Remains
  <1>4. mediaFaults' \in 0 .. MediaFaults
    BY <1>21, LeaseFacts DEF Fails
  <1>5. \/ ~ref /\ ~dir /\ grant' = NoGrant /\ deadline' = deadline
        \/ /\ pruner = "claimed" /\ grant' = [g EXCEPT !.busy = FALSE, !.failures = grant.failures + 1]
           /\ deadline' = IF grant.failures < CleanupRetries THEN mediaClock + 2 ^ grant.failures ELSE deadline
        \/ pruner = "shutdown" /\ grant' = x /\ deadline' = deadline
    <2>1. Cleaned(g) <=> ~ref /\ ~dir
      BY <1>3 DEF Cleaned
    <2> QED BY <1>2, <2>1 DEF PruneAttempt
  <1> HIDE DEF g
  <1>6. /\ x \in GrantStates /\ (x.present <=> grant.present) /\ ~x.busy /\ (x.retained <=> ref) /\ (x.dir <=> dir) /\ x.expires = grant.expires
        /\ x.failures = grant.failures
    BY <1>3 DEF GrantStates
  <1>7. [g EXCEPT !.busy = FALSE, !.failures = grant.failures + 1] = y
    BY <1>3 DEF GrantStates
  <1> HIDE DEF x
  <1>8. pruner = "claimed" => grant.failures <= CleanupRetries /\ grant.failures + 1 \in 0 .. CleanupRetries + 1
    BY LeaseFacts DEF LeaseInv, GrantSound
  <1>9. pruner = "claimed" => /\ y \in GrantStates /\ (y.present <=> grant.present) /\ ~y.busy /\ (y.retained <=> ref) /\ (y.dir <=> dir)
                              /\ y.expires = grant.expires /\ y.failures = grant.failures + 1
    BY <1>6, <1>8 DEF GrantStates
  <1> HIDE DEF y
  <1>10. NoGrant \in GrantStates /\ ~NoGrant.present /\ ~NoGrant.busy /\ ~NoGrant.retained /\ ~NoGrant.dir
    BY ZeroFacts DEF GrantStates, NoGrant
  <1>11. deadline = NoDeadline /\ grant.present /\ \A c \in Callers : caller[c].at = "idle"
    BY <1>1, LeaseFacts DEF LeaseInv, OneWorks, GrantSound
  <1>12. \/ deadline' = NoDeadline
         \/ pruner = "claimed" /\ grant' = y /\ grant.failures < CleanupRetries /\ deadline' \in Nat
    <2>1. CASE pruner = "claimed" /\ grant.failures < CleanupRetries
      <3>1. grant.failures \in 0 .. CleanupRetries
        BY <1>8, <2>1, LeaseFacts
      <3>2. 2 ^ grant.failures \in Nat
        BY <3>1, MediaAssumption
      <3> DEFINE p == 2 ^ grant.failures
      <3>3. p \in Nat
        BY <3>2
      <3>4. deadline' = deadline \/ (grant' = y /\ deadline' = mediaClock + p)
        BY <1>5, <1>7, <2>1, <3>1
      <3> HIDE DEF p
      <3>5. deadline' = deadline \/ (grant' = y /\ deadline' \in Nat)
        BY <3>3, <3>4, LeaseFacts
      <3> QED BY <1>11, <2>1, <3>5
    <2>2. CASE ~(pruner = "claimed" /\ grant.failures < CleanupRetries)
      <3>1. deadline' = deadline
        BY <1>5, <2>2
      <3> QED BY <1>11, <3>1
    <2> QED BY <2>1, <2>2
  <1>13. \/ ~ref /\ ~dir /\ grant' = NoGrant
         \/ pruner = "claimed" /\ grant' = y
         \/ pruner = "shutdown" /\ grant' = x
    BY <1>5, <1>7
  <1>14. /\ grant' \in GrantStates /\ ~grant'.busy /\ (grant'.retained <=> ref) /\ (grant'.dir \/ grant'.retained => grant'.present)
         /\ pruner = "claimed" /\ grant'.present => grant' = y
    BY <1>6, <1>9, <1>10, <1>11, <1>13
  <1>15. LeaseTypes'
    BY <1>1, <1>21, <1>4, <1>12, <1>14, LeaseFacts DEF LeaseInv, LeaseTypes
  <1>16. pruner' \in {"idle", "closed"}
    BY <1>1
  <1>17. OneWorks' /\ UsedIsHeld'
    BY <1>1, <1>11, <1>16 DEF OneWorks, UsedIsHeld
  <1>18. GrantSound'
    <2>1. deadline' # NoDeadline => grant'.present /\ grant'.failures <= CleanupRetries
      BY <1>9, <1>11, <1>12, LeaseFacts
    <2>2. refHeld' <=> grant'.retained
      BY <1>21, <1>14, LeaseFacts
    <2> QED BY <1>1, <1>11, <1>14, <1>16, <2>1, <2>2 DEF GrantSound
  <1>19. LeaseIndexed'
    <2> SUFFICES ASSUME Open', grant'.present, grant'.failures <= CleanupRetries PROVE deadline' # NoDeadline
      BY DEF LeaseIndexed
    <2>1. pruner = "claimed" /\ grant' = y
      BY <1>1, <1>14 DEF Open
    <2>2. grant.failures < CleanupRetries
      BY <1>9, <2>1, LeaseFacts
    <2>3. ~(~ref /\ ~dir /\ grant' = NoGrant)
      BY <1>10
    <2>4. deadline' = mediaClock + 2 ^ grant.failures /\ grant.failures \in 0 .. CleanupRetries
      BY <1>5, <2>1, <2>2, <2>3, <1>8, LeaseFacts
    <2>5. 2 ^ grant.failures \in Nat
      BY <2>4, MediaAssumption
    <2> DEFINE p == 2 ^ grant.failures
    <2>6. p \in Nat /\ deadline' = mediaClock + p
      BY <2>4, <2>5
    <2> HIDE DEF p
    <2> QED BY <2>6, LeaseFacts
  <1>20. ToldKept'
    <2> SUFFICES ASSUME Open', NEW d \in Callers PROVE ToldOf(d)'
      BY DEF ToldKept
    <2>1. pruner = "claimed" /\ ToldOf(d)
      BY <1>1 DEF LeaseInv, ToldKept, Open
    <2>2. caller[d].told <= mediaClock /\ caller[d].told <= mediaClock + LeaseTTL /\ caller[d].at = "idle"
      BY <1>11, <2>1 DEF ToldOf, Passed
    <2> QED BY <1>1, <1>16, <2>2 DEF ToldOf, Passed
  <1> QED BY <1>15, <1>17, <1>18, <1>19, <1>20 DEF LeaseInv

LEMMA CloseMediaKeeps ==
  ASSUME LeaseInv, CloseMedia
  PROVE  LeaseInv'
  <1>1. pruner = "idle" /\ pruner' = "closing" /\ UNCHANGED <<grant, refHeld, deadline, caller, mediaClock, mediaFaults>>
    BY DEF CloseMedia
  <1>2. LeaseTypes'
    BY <1>1 DEF LeaseInv, LeaseTypes
  <1>3. OneWorks' /\ GrantSound' /\ UsedIsHeld' /\ LeaseIndexed' /\ ToldKept'
    BY <1>1 DEF LeaseInv, OneWorks, GrantSound, UsedIsHeld, LeaseIndexed, ToldKept, Open
  <1> QED BY <1>2, <1>3 DEF LeaseInv

LEMMA PruneAllKeeps ==
  ASSUME LeaseInv, PruneAll, pruner \in {"closing", "closed"}
  PROVE  LeaseInv'
  <1> DEFINE g == [grant EXCEPT !.busy = TRUE]
  <1>1. /\ \A c \in Callers : caller[c].at = "idle"
        /\ deadline' = NoDeadline /\ UNCHANGED <<refHeld, caller, mediaClock, mediaFaults>>
    BY DEF PruneAll, MediaJoined
  <1>2. \/ grant.present /\ grant' = g /\ pruner' = "shutdown"
        \/ grant' = grant /\ pruner' = "closed"
    BY DEF PruneAll
  <1>3. g \in GrantStates /\ (g.present <=> grant.present) /\ g.busy /\ (g.retained <=> grant.retained) /\ (g.dir <=> grant.dir) /\ g.expires = grant.expires
        /\ g.failures = grant.failures
    BY LeaseFacts DEF GrantStates
  <1> HIDE DEF g
  <1>4. LeaseTypes'
    BY <1>1, <1>2, <1>3, LeaseFacts DEF LeaseInv, LeaseTypes
  <1>5. OneWorks'
    BY <1>1, <1>2, <1>3 DEF OneWorks
  <1>6. GrantSound'
    <2>1. CASE grant' = g /\ grant.present /\ pruner' = "shutdown"
      BY <1>1, <1>3, <2>1 DEF LeaseInv, GrantSound
    <2>2. CASE grant' = grant /\ pruner' = "closed"
      BY <1>1, <2>2 DEF LeaseInv, GrantSound
    <2> QED BY <1>2, <2>1, <2>2
  <1>7. UsedIsHeld' /\ LeaseIndexed' /\ ToldKept'
    BY <1>1, <1>2 DEF UsedIsHeld, LeaseIndexed, ToldKept, Open
  <1> QED BY <1>4, <1>5, <1>6, <1>7 DEF LeaseInv

LEMMA MediaTickKeeps ==
  ASSUME LeaseInv, MediaTick
  PROVE  LeaseInv'
  <1>1. mediaClock' = mediaClock + 1 /\ mediaClock < MediaHorizon /\ UNCHANGED <<grant, refHeld, deadline, caller, pruner, mediaFaults>>
    BY DEF MediaTick
  <1>2. mediaClock' \in 0 .. MediaHorizon /\ mediaClock \in Nat
    BY <1>1, LeaseFacts
  <1>3. LeaseTypes'
    BY <1>1, <1>2 DEF LeaseInv, LeaseTypes
  <1>4. OneWorks' /\ UsedIsHeld' /\ LeaseIndexed'
    BY <1>1 DEF LeaseInv, OneWorks, UsedIsHeld, LeaseIndexed, Open
  <1>5. GrantSound'
    BY <1>1, LeaseFacts DEF LeaseInv, GrantSound
  <1>6. ToldKept'
    <2> SUFFICES ASSUME Open, NEW d \in Callers PROVE ToldOf(d)'
      BY <1>1 DEF ToldKept, Open
    <2>1. \A e \in Callers : (Passed(e) => Passed(e)') /\ (caller[e].told <= mediaClock + LeaseTTL => caller[e].told <= mediaClock' + LeaseTTL)
      BY <1>1, LeaseFacts DEF Passed
    <2>2. ToldOf(d)
      BY DEF LeaseInv, ToldKept
    <2> QED BY <1>1, <2>1, <2>2 DEF ToldOf
  <1> QED BY <1>3, <1>4, <1>5, <1>6 DEF LeaseInv

LEMMA LeaseStepKeeps ==
  ASSUME LeaseInv, [MediaNext]_mediaVars
  PROVE  LeaseInv'
  <1>1. CASE UNCHANGED mediaVars
    <2>1. UNCHANGED <<grant, refHeld, deadline, caller, pruner, mediaClock, mediaFaults>>
      BY <1>1 DEF mediaVars
    <2>2. LeaseTypes' /\ OneWorks'
      BY <2>1 DEF LeaseInv, LeaseTypes, OneWorks
    <2>3. GrantSound' /\ UsedIsHeld' /\ LeaseIndexed' /\ ToldKept'
      BY <2>1 DEF LeaseInv, GrantSound, UsedIsHeld, LeaseIndexed, ToldKept, ToldOf, Passed, Open
    <2> QED BY <2>2, <2>3 DEF LeaseInv
  <1>2. ASSUME NEW c \in Callers, Claim(c) \/ CallerStep(c) PROVE LeaseInv'
    BY <1>2, ClaimKeeps, RetainKeeps, RetainFailsKeeps, ExportKeeps, ReleaseKeeps DEF CallerStep
  <1>3. CASE PruneDue
    BY <1>3, PruneDueKeeps
  <1>4. CASE PruneLease
    BY <1>4, PruneLeaseKeeps
  <1>5. CASE CloseMedia
    BY <1>5, CloseMediaKeeps
  <1>6. CASE FinishMedia \/ CloseMediaAgain
    BY <1>6, PruneAllKeeps DEF FinishMedia, CloseMediaAgain
  <1>7. CASE MediaTick
    BY <1>7, MediaTickKeeps
  <1> QED BY <1>1, <1>2, <1>3, <1>4, <1>5, <1>6, <1>7 DEF MediaNext

MediaSteps == MediaInit /\ [][MediaNext]_mediaVars

\* The properties of the leases that MCComponents checks.
LeaseSafe == MediaTypeOK /\ LeaseIndexed /\ ReferenceOwned /\ UsedIsHeld

LEMMA LeaseInvSafe == LeaseInv => LeaseSafe
  BY DEF LeaseInv, LeaseTypes, GrantStates, CallerStates, MediaTypeOK, GrantSound, ReferenceOwned, LeaseSafe

\* One step removes the reference or the directory only when nobody was promised more time.
LEMMA PromiseKept ==
  ASSUME LeaseInv, [MediaNext]_mediaVars, Open, (refHeld /\ ~refHeld') \/ (grant.dir /\ ~grant'.dir)
  PROVE  \A c \in Callers : caller[c].told <= mediaClock
  <1>1. CASE UNCHANGED mediaVars
    BY <1>1 DEF mediaVars
  <1>2. ASSUME NEW c \in Callers, Claim(c) PROVE FALSE
    BY <1>2, LeaseFacts DEF Claim, GrantStates
  <1>3. ASSUME NEW c \in Callers, Retain(c) PROVE FALSE
    BY <1>3, LeaseFacts DEF Retain, GrantStates
  <1>4. ASSUME NEW c \in Callers, RetainFails(c) PROVE FALSE
    BY <1>4, LeaseFacts DEF RetainFails, GrantStates
  <1>5. ASSUME NEW c \in Callers, Export(c) PROVE FALSE
    BY <1>5 DEF Export
  <1>6. ASSUME NEW c \in Callers, Release(c) PROVE FALSE
    BY <1>6, LeaseFacts DEF Release, GrantStates
  <1>7. CASE PruneDue
    BY <1>7, LeaseFacts DEF PruneDue, GrantStates
  <1>8. CASE PruneLease
    <2>1. pruner = "claimed"
      BY <1>8 DEF PruneLease, Open
    <2> QED BY <2>1 DEF LeaseInv, ToldKept, ToldOf, Passed
  <1>9. CASE CloseMedia \/ MediaTick
    BY <1>9 DEF CloseMedia, MediaTick
  <1>10. CASE FinishMedia \/ CloseMediaAgain
    BY <1>10 DEF FinishMedia, CloseMediaAgain, Open
  <1> QED BY <1>1, <1>2, <1>3, <1>4, <1>5, <1>6, <1>7, <1>8, <1>9, <1>10 DEF MediaNext, CallerStep

\* The lease invariant is inductive (runtime/media.go: mediaCollection), and the checked properties follow.
THEOREM LeaseInductive == MediaSteps => [](LeaseInv /\ LeaseSafe)
  <1>1. LeaseInv /\ [MediaNext]_mediaVars => LeaseInv'
    BY LeaseStepKeeps
  <1> QED BY <1>1, LeaseInitKeeps, LeaseInvSafe, PTL DEF MediaSteps

\* What a plugin was told of the expiry is kept by every sweep while the runtime is open
\* (runtime/media.go retain, prune): whichever call renewed the lease.
THEOREM LeaseNotPrunedEarly == MediaSteps => NotPrunedEarly
  <1>1. LeaseInv /\ [MediaNext]_mediaVars =>
          [Open /\ ((refHeld /\ ~refHeld') \/ (grant.dir /\ ~grant'.dir)) => \A c \in Callers : caller[c].told <= mediaClock]_mediaVars
    BY PromiseKept
  <1>2. MediaSteps => []LeaseInv
    BY LeaseInductive, PTL
  <1> QED BY <1>1, <1>2, PTL DEF MediaSteps, NotPrunedEarly
-----------------------------------------------------------------------------
(* SignalBus.  Whatever a task still works with is held by its emission, an *)
(* entry on its way to the queue included; and what is held is not gone.    *)

ItemStates == [at : {"none", "owned", "exited", "transferred"} \cup InQueue,
               child : {"none", "working", "completed", "exited"}, held : BOOLEAN,
               result : {"none", "value", "refused", "ctx"}, canceled : {"no", "outside", "own"}]
ConnStates == {"out", "in", "cut", "closed", "gone"}
AtWork == {"owned", "queued", "running", "forwarding"}

BusTypes ==
    /\ conn \in [Conns -> ConnStates] /\ item \in [Items -> ItemStates]
    /\ emission = [e \in Emissions |-> emission[e]]
    /\ \A e \in Emissions : emission[e] = [at |-> emission[e].at, entries |-> emission[e].entries, next |-> emission[e].next]

\* The entry an emission has acquired and not submitted yet.
Acquired(e, c) == emission[e].at = "submitting" /\ c = emission[e].entries[emission[e].next]

BusHeld ==
    /\ \A i \in Items : item[i].at \in AtWork => item[i].held
    /\ \A i \in Items : item[i].held => conn[i[2]] # "gone"
    /\ \A e \in Emissions, c \in Conns : Acquired(e, c) => item[<<e, c>>].at = "owned"

BusInv == BusTypes /\ BusHeld

\* An entry keeps its result, and an acquired one is left alone by others.
ItemGrows(x, y) ==
    /\ y \in ItemStates
    /\ x.result # "none" => y.result = x.result
    /\ y.at \in AtWork => y.held

LEMMA ItemOps ==
  ASSUME NEW x \in ItemStates, x.at \in AtWork => x.held, NEW r \in {"value", "refused", "ctx"}, NEW why \in {"outside", "own"}
  PROVE  /\ ItemGrows(x, Finish(x, r)) /\ Finish(x, r).at = x.at /\ Finish(x, r).held = x.held
         /\ ItemGrows(x, CancelItem(x, why)) /\ CancelItem(x, why).at = x.at /\ CancelItem(x, why).held = x.held
         /\ ItemGrows(x, Exited(x, r)) /\ ~Exited(x, r).held /\ Exited(x, r).at = "exited"
         /\ (x.at \notin AtWork => ItemGrows(x, OnExit(x))) /\ ~OnExit(x).held /\ OnExit(x).at = x.at
         /\ ItemGrows(x, OnComplete(x)) /\ OnComplete(x).at = x.at /\ OnComplete(x).held = x.held
  <1> DEFINE f(z) == Finish(z, r)
             k(z, w) == CancelItem(z, w)
  <1>1. \A z \in ItemStates : /\ f(z) \in ItemStates /\ f(z).at = z.at /\ (f(z).held <=> z.held) /\ f(z).held = z.held
                              /\ (z.result # "none" => f(z).result = z.result)
    BY DEF Finish, ItemStates
  <1>2. \A z \in ItemStates : /\ Finish(z, "value") \in ItemStates /\ Finish(z, "value").at = z.at /\ Finish(z, "value").held = z.held
                              /\ (z.result # "none" => Finish(z, "value").result = z.result)
    BY DEF Finish, ItemStates
  <1>3. \A z \in ItemStates, w \in {"outside", "own"} : /\ k(z, w) \in ItemStates /\ k(z, w).at = z.at /\ k(z, w).held = z.held /\ k(z, w).result = z.result
    BY DEF CancelItem, ItemStates
  <1>4. ItemGrows(x, Finish(x, r)) /\ ItemGrows(x, CancelItem(x, why))
    BY <1>1, <1>3 DEF ItemGrows
  <1>5. /\ Exited(x, r) \in ItemStates /\ ~Exited(x, r).held /\ Exited(x, r).at = "exited" /\ (x.result # "none" => Exited(x, r).result = x.result)
    <2>1. k(f(x), "own") \in ItemStates /\ (x.result # "none" => k(f(x), "own").result = x.result)
      BY <1>1, <1>3
    <2>2. Exited(x, r) = [k(f(x), "own") EXCEPT !.at = "exited", !.held = FALSE]
      BY DEF Exited
    <2> HIDE DEF f, k
    <2> QED BY <2>1, <2>2 DEF ItemStates
  <1>6. OnExit(x) \in ItemStates /\ ~OnExit(x).held /\ OnExit(x).at = x.at /\ OnExit(x).result = x.result
    <2>1. k(x, "own") \in ItemStates /\ k(x, "own").result = x.result /\ k(x, "own").at = x.at
      BY <1>3
    <2>2. OnExit(x) = [k(x, "own") EXCEPT !.held = FALSE]
      BY DEF OnExit
    <2> HIDE DEF k
    <2> QED BY <2>1, <2>2 DEF ItemStates
  <1>7. OnComplete(x) \in ItemStates /\ OnComplete(x).at = x.at /\ OnComplete(x).held = x.held /\ (x.result # "none" => OnComplete(x).result = x.result)
    <2>1. OnComplete(x) = k(Finish(x, "value"), "own")
      BY DEF OnComplete
    <2> HIDE DEF k
    <2> QED BY <2>1, <1>2, <1>3
  <1>8. Finish(x, r).at = x.at /\ Finish(x, r).held = x.held /\ CancelItem(x, why).at = x.at /\ CancelItem(x, why).held = x.held
    BY <1>1, <1>3
  <1>9. \A y : y.at = "exited" => y.at \notin AtWork
    BY DEF AtWork
  <1> QED BY <1>4, <1>5, <1>6, <1>7, <1>8, <1>9 DEF ItemGrows

ItemsGrow == \A i \in Items : ItemGrows(item[i], item'[i])

\* One entry changes.
LEMMA SetItemKeeps ==
  ASSUME BusInv, NEW i, NEW x, SetItem(i, x), i \in Items => ItemGrows(item[i], x) /\ (x.held => conn[i[2]] # "gone")
  PROVE  /\ conn' \in [Conns -> ConnStates] /\ item' \in [Items -> ItemStates] /\ ItemsGrow
         /\ \A j \in Items : item'[j] = IF j = i THEN x ELSE item[j]
         /\ \A j \in Items : item'[j].held => conn'[j[2]] # "gone"
  <1> DEFINE itm == [item EXCEPT ![i] = x]
  <1>1. item' = itm /\ conn' = Released(itm)
    BY DEF SetItem
  <1>2. \A j \in Items : itm[j] = IF j = i THEN x ELSE item[j]
    BY DEF BusInv, BusTypes
  <1>3. itm \in [Items -> ItemStates]
    BY DEF BusInv, BusTypes, ItemGrows
  <1> HIDE DEF itm
  <1>4. conn' \in [Conns -> ConnStates]
    BY <1>1 DEF Released, ConnStates, BusInv, BusTypes
  <1>5. ItemsGrow
    <2> SUFFICES ASSUME NEW j \in Items PROVE ItemGrows(item[j], item'[j])
      BY DEF ItemsGrow
    <2>1. CASE j = i
      BY <1>1, <1>2, <2>1
    <2>2. CASE j # i
      <3>1. item'[j] = item[j] /\ item[j] \in ItemStates /\ (item[j].at \in AtWork => item[j].held)
        BY <1>1, <1>2, <2>2 DEF BusInv, BusTypes, BusHeld
      <3> QED BY <3>1 DEF ItemGrows
    <2> QED BY <2>1, <2>2
  <1>6. ASSUME NEW j \in Items, item'[j].held PROVE conn'[j[2]] # "gone"
    <2>1. PICK e \in Emissions, c \in Conns : j = <<e, c>>
      BY DEF Items
    <2>2. conn[c] # "gone"
      BY <1>1, <1>2, <1>6, <2>1 DEF BusInv, BusHeld
    <2>3. itm[<<e, c>>].held
      BY <1>1, <1>6, <2>1
    <2>4. conn'[c] # "gone"
      BY <1>1, <2>2, <2>3 DEF Released
    <2> QED BY <2>1, <2>4
  <1> QED BY <1>1, <1>2, <1>3, <1>4, <1>5, <1>6

LEMMA BusInitKeeps == BusInit => BusInv
  BY DEF BusInit, BusInv, BusTypes, BusHeld, ConnStates, ItemStates, NewItem, AtWork, Acquired, InQueue

\* One entry changes; what an emission has acquired stays "owned" unless that emission moves on.
LEMMA EntryKeeps ==
  ASSUME BusInv, NEW i \in Items, NEW x, SetItem(i, x), ItemGrows(item[i], x), x.held => item[i].held, item[i].at # "owned" \/ x.at = "owned",
         UNCHANGED emission
  PROVE  BusInv' /\ ItemsGrow
  <1>1. /\ conn' \in [Conns -> ConnStates] /\ item' \in [Items -> ItemStates] /\ ItemsGrow
        /\ \A j \in Items : item'[j] = IF j = i THEN x ELSE item[j]
        /\ \A j \in Items : item'[j].held => conn'[j[2]] # "gone"
    BY SetItemKeeps DEF BusInv, BusHeld
  <1>2. BusTypes'
    BY <1>1 DEF BusInv, BusTypes
  <1>3. BusHeld'
    <2>1. \A j \in Items : item'[j].at \in AtWork => item'[j].held
      BY <1>1 DEF ItemsGrow, ItemGrows
    <2>2. ASSUME NEW e \in Emissions, NEW c \in Conns, Acquired(e, c)' PROVE item'[<<e, c>>].at = "owned"
      <3>1. <<e, c>> \in Items /\ item[<<e, c>>].at = "owned"
        BY <2>2 DEF Acquired, BusInv, BusHeld, Items
      <3> QED BY <1>1, <3>1
    <2> QED BY <1>1, <2>1, <2>2 DEF BusHeld
  <1> QED BY <1>1, <1>2, <1>3 DEF BusInv

\* Contexts end for the entries of a set, nothing else changes of them.
LEMMA CancelsKeep ==
  ASSUME BusInv, NEW S, item' = [i \in Items |-> IF i \in S THEN CancelItem(item[i], "outside") ELSE item[i]],
         UNCHANGED emission, conn' \in [Conns -> ConnStates], \A j \in Items : item[j].held => conn'[j[2]] # "gone"
  PROVE  BusInv' /\ ItemsGrow
  <1>1. \A j \in Items : item[j] \in ItemStates /\ (item[j].at \in AtWork => item[j].held)
    BY DEF BusInv, BusTypes, BusHeld
  <1>2. \A j \in Items : ItemGrows(item[j], CancelItem(item[j], "outside")) /\ CancelItem(item[j], "outside").at = item[j].at
                          /\ CancelItem(item[j], "outside").held = item[j].held
    BY <1>1, ItemOps
  <1>3. \A j \in Items : ItemGrows(item[j], item[j])
    BY <1>1 DEF ItemGrows
  <1>4. \A j \in Items : ItemGrows(item[j], item'[j]) /\ item'[j].at = item[j].at /\ item'[j].held = item[j].held
    BY <1>2, <1>3
  <1>5. item' \in [Items -> ItemStates]
    BY <1>2, <1>1 DEF ItemGrows
  <1>6. BusTypes'
    BY <1>5 DEF BusInv, BusTypes
  <1>7. BusHeld'
    <2>1. ASSUME NEW e \in Emissions, NEW c \in Conns, Acquired(e, c)' PROVE item'[<<e, c>>].at = "owned"
      <3>1. <<e, c>> \in Items /\ item[<<e, c>>].at = "owned"
        BY <2>1 DEF Acquired, BusInv, BusHeld, Items
      <3> QED BY <1>4, <3>1
    <2> QED BY <1>1, <1>4, <2>1 DEF BusHeld
  <1> QED BY <1>4, <1>6, <1>7 DEF BusInv, ItemsGrow

\* Nothing changes of the entries.
LEMMA EntriesStay ==
  ASSUME BusInv, UNCHANGED <<item, emission>>, conn' \in [Conns -> ConnStates], \A c \in Conns : conn'[c] = "gone" => conn[c] = "gone"
  PROVE  BusInv' /\ ItemsGrow
  <1>1. BusTypes'
    BY DEF BusInv, BusTypes
  <1>2. \A i \in Items : i[2] \in Conns
    BY DEF Items
  <1>3. BusHeld'
    BY <1>2 DEF BusInv, BusHeld, Acquired
  <1>4. ItemsGrow
    BY DEF BusInv, BusTypes, BusHeld, ItemsGrow, ItemGrows
  <1> QED BY <1>1, <1>3, <1>4 DEF BusInv

LEMMA SlotKeeps ==
  ASSUME BusInv, NEW c \in Conns, ConnectSlot(c) \/ DisconnectSlot(c)
  PROVE  BusInv' /\ ItemsGrow
  <1>1. UNCHANGED <<item, emission>>
    BY DEF ConnectSlot, DisconnectSlot
  <1>2. conn' = [conn EXCEPT ![c] = "in"] \/ conn' = [conn EXCEPT ![c] = "cut"]
    BY DEF ConnectSlot, DisconnectSlot
  <1>3. conn' \in [Conns -> ConnStates] /\ \A d \in Conns : conn'[d] = "gone" => conn[d] = "gone"
    BY <1>2 DEF BusInv, BusTypes, ConnStates
  <1> QED BY <1>1, <1>3, EntriesStay

LEMMA CloseSlotKeeps ==
  ASSUME BusInv, NEW c \in Conns, CloseSlot(c)
  PROVE  BusInv' /\ ItemsGrow
  <1> DEFINE S == {i \in Items : i[2] = c /\ item[i].held /\ c \notin DrainConns}
  <1>1. item' = [i \in Items |-> IF i \in S THEN CancelItem(item[i], "outside") ELSE item[i]] /\ UNCHANGED emission
    BY DEF CloseSlot
  <1>2. conn' = [conn EXCEPT ![c] = IF \A e \in Emissions : ~item[<<e, c>>].held THEN "gone" ELSE "closed"]
    BY DEF CloseSlot
  <1>3. conn' \in [Conns -> ConnStates]
    BY <1>2 DEF BusInv, BusTypes, ConnStates
  <1>4. ASSUME NEW j \in Items, item[j].held PROVE conn'[j[2]] # "gone"
    <2>1. PICK e \in Emissions, d \in Conns : j = <<e, d>>
      BY DEF Items
    <2>2. conn[d] # "gone"
      BY <1>4, <2>1 DEF BusInv, BusHeld
    <2>3. CASE d = c
      BY <1>2, <1>4, <2>1, <2>3 DEF BusInv, BusTypes
    <2>4. CASE d # c
      BY <1>2, <2>1, <2>2, <2>4 DEF BusInv, BusTypes
    <2> QED BY <2>3, <2>4
  <1> HIDE DEF S
  <1> QED BY <1>1, <1>3, <1>4, CancelsKeep

\* An emission moves on, and has acquired nothing.
LEMMA EmissionMoves ==
  ASSUME BusInv, NEW e \in Emissions, NEW a, NEW s, NEW n, a # "submitting",
         emission' = [emission EXCEPT ![e] = [at |-> a, entries |-> s, next |-> n]]
  PROVE  /\ emission' = [f \in Emissions |-> emission'[f]]
         /\ \A f \in Emissions : emission'[f] = [at |-> emission'[f].at, entries |-> emission'[f].entries, next |-> emission'[f].next]
         /\ \A f \in Emissions, c \in Conns : Acquired(f, c)' => f # e /\ Acquired(f, c)
  <1>1. emission = [f \in Emissions |-> emission[f]]
    BY DEF BusInv, BusTypes
  <1>2. emission' = [f \in Emissions |-> emission'[f]]
    BY <1>1
  <1>3. emission'[e] = [at |-> a, entries |-> s, next |-> n] /\ \A f \in Emissions : f # e => emission'[f] = emission[f]
    BY <1>1
  <1>4. \A f \in Emissions : emission'[f] = [at |-> emission'[f].at, entries |-> emission'[f].entries, next |-> emission'[f].next]
    BY <1>3 DEF BusInv, BusTypes
  <1> QED BY <1>2, <1>3, <1>4 DEF Acquired

LEMMA EmitBeginKeeps ==
  ASSUME BusInv, NEW e \in Emissions, EmitBegin(e)
  PROVE  BusInv' /\ ItemsGrow
  <1>1. UNCHANGED <<item, conn>>
    BY DEF EmitBegin
  <1>2. emission[e] = [at |-> emission[e].at, entries |-> emission[e].entries, next |-> emission[e].next]
    BY DEF BusInv, BusTypes
  <1>3. \E a, s, n : a # "submitting" /\ emission' = [emission EXCEPT ![e] = [at |-> a, entries |-> s, next |-> n]]
    <2>1. PICK a, s, n : emission[e] = [at |-> a, entries |-> s, next |-> n]
      BY <1>2
    <2> DEFINE E1 == [at |-> "returned", entries |-> s, next |-> n]
               E2 == [at |-> "admitting", entries |-> snapshot, next |-> n]
    <2>4. [emission[e] EXCEPT !.at = "returned"] = E1
      BY <2>1
    <2>5. [emission[e] EXCEPT !.at = "admitting", !.entries = snapshot] = E2
      <3>1. PICK r : r = [emission[e] EXCEPT !.at = "admitting"]
        OBVIOUS
      <3>2. r = [at |-> "admitting", entries |-> s, next |-> n]
        BY <2>1, <3>1
      <3>3. [emission[e] EXCEPT !.at = "admitting", !.entries = snapshot] = [r EXCEPT !.entries = snapshot]
        BY <3>1
      <3>4. [r EXCEPT !.entries = snapshot] = E2
        BY <3>2
      <3> QED BY <3>3, <3>4
    <2>2. emission' = [emission EXCEPT ![e] = IF bus # "open" \/ snapshot = <<>> THEN [emission[e] EXCEPT !.at = "returned"]
                                             ELSE [emission[e] EXCEPT !.at = "admitting", !.entries = snapshot]]
      BY DEF EmitBegin, BusInv, BusTypes
    <2>3. emission' = [emission EXCEPT ![e] = E1] \/ emission' = [emission EXCEPT ![e] = E2]
      BY <2>4, <2>5, <2>2
    <2> QED BY <2>3
  <1>4. /\ emission' = [f \in Emissions |-> emission'[f]]
        /\ \A f \in Emissions : emission'[f] = [at |-> emission'[f].at, entries |-> emission'[f].entries, next |-> emission'[f].next]
        /\ \A f \in Emissions, c \in Conns : Acquired(f, c)' => Acquired(f, c)
    BY <1>3, EmissionMoves
  <1>5. BusTypes'
    BY <1>1, <1>4 DEF BusInv, BusTypes
  <1>6. BusHeld'
    BY <1>1, <1>4 DEF BusInv, BusHeld
  <1>7. ItemsGrow
    BY <1>1 DEF BusInv, BusTypes, BusHeld, ItemsGrow, ItemGrows
  <1> QED BY <1>5, <1>6, <1>7 DEF BusInv

\* RefuseRest: the entries from the next one on are finished.
LEMMA RefuseKeeps ==
  ASSUME BusInv, NEW e \in Emissions, RefuseRest(e)
  PROVE  BusInv' /\ ItemsGrow
  <1> DEFINE rest == {emission[e].entries[j] : j \in emission[e].next .. Len(emission[e].entries)}
             itm == [i \in Items |-> IF i[1] = e /\ i[2] \in rest THEN Exited(item[i], "refused") ELSE item[i]]
  <1>1. item' = itm /\ conn' = Released(itm) /\ emission' = [emission EXCEPT ![e].at = "admitted"]
    BY DEF RefuseRest
  <1> HIDE DEF rest
  <1>2. \A j \in Items : item[j] \in ItemStates /\ (item[j].at \in AtWork => item[j].held)
    BY DEF BusInv, BusTypes, BusHeld
  <1>3. \A j \in Items : ItemGrows(item[j], Exited(item[j], "refused")) /\ ~Exited(item[j], "refused").held
    BY <1>2, ItemOps
  <1>4. \A j \in Items : ItemGrows(item[j], item[j])
    BY <1>2 DEF ItemGrows
  <1>5. ItemsGrow
    BY <1>1, <1>3, <1>4 DEF ItemsGrow
  <1>6. item' \in [Items -> ItemStates]
    BY <1>1, <1>2, <1>3 DEF ItemGrows
  <1>7. \A j \in Items : item'[j].held => item[j].held
    BY <1>1, <1>3
  <1>8. \A j \in Items : j[1] # e => item'[j] = item[j]
    BY <1>1
  <1> HIDE DEF itm
  <1>9. conn' \in [Conns -> ConnStates]
    BY <1>1 DEF Released, ConnStates, BusInv, BusTypes
  <1>10. ASSUME NEW j \in Items, item'[j].held PROVE conn'[j[2]] # "gone"
    <2>1. PICK f \in Emissions, c \in Conns : j = <<f, c>>
      BY DEF Items
    <2>2. conn[c] # "gone" /\ itm[<<f, c>>].held
      BY <1>1, <1>7, <1>10, <2>1 DEF BusInv, BusHeld
    <2>3. conn'[c] # "gone"
      BY <1>1, <2>2 DEF Released
    <2> QED BY <2>1, <2>3
  <1>11. /\ emission' = [f \in Emissions |-> emission'[f]]
         /\ \A f \in Emissions : emission'[f] = [at |-> emission'[f].at, entries |-> emission'[f].entries, next |-> emission'[f].next]
         /\ \A f \in Emissions, c \in Conns : Acquired(f, c)' => f # e /\ Acquired(f, c)
    <2>1. PICK a, s, n : emission[e] = [at |-> a, entries |-> s, next |-> n]
      BY DEF BusInv, BusTypes
    <2>2. emission' = [emission EXCEPT ![e] = [at |-> "admitted", entries |-> s, next |-> n]]
      <3>1. [emission[e] EXCEPT !.at = "admitted"] = [at |-> "admitted", entries |-> s, next |-> n]
        BY <2>1
      <3>2. emission' = [emission EXCEPT ![e] = [emission[e] EXCEPT !.at = "admitted"]]
        BY <1>1 DEF BusInv, BusTypes
      <3> QED BY <3>1, <3>2
    <2> QED BY <2>2, EmissionMoves
  <1>12. BusTypes'
    BY <1>6, <1>9, <1>11 DEF BusTypes
  <1>13. BusHeld'
    <2>1. ASSUME NEW f \in Emissions, NEW c \in Conns, Acquired(f, c)' PROVE item'[<<f, c>>].at = "owned"
      <3>1. <<f, c>> \in Items /\ item[<<f, c>>].at = "owned" /\ <<f, c>>[1] # e
        BY <1>11, <2>1 DEF BusInv, BusHeld, Items
      <3> QED BY <1>8, <3>1
    <2> QED BY <1>5, <1>10, <2>1 DEF BusHeld, ItemsGrow, ItemGrows
  <1> QED BY <1>5, <1>12, <1>13 DEF BusInv

LEMMA EmitAcquireKeeps ==
  ASSUME BusInv, NEW e \in Emissions, EmitAcquire(e)
  PROVE  BusInv' /\ ItemsGrow
  <1> DEFINE c == emission[e].entries[emission[e].next]
             i == <<e, c>>
             x == [item[i] EXCEPT !.at = "owned", !.held = TRUE]
  <1>1. RefuseRest(e) \/ (Accepts(c) /\ SetItem(i, x) /\ emission' = [emission EXCEPT ![e].at = "submitting"])
    BY DEF EmitAcquire
  <1>2. CASE Accepts(c) /\ SetItem(i, x) /\ emission' = [emission EXCEPT ![e].at = "submitting"]
    <2>1. i \in Items => ItemGrows(item[i], x) /\ x.at = "owned" /\ conn[i[2]] # "gone"
      BY <1>2 DEF ItemGrows, ItemStates, BusInv, BusTypes, Accepts
    <2> HIDE DEF x
    <2>2. /\ conn' \in [Conns -> ConnStates] /\ item' \in [Items -> ItemStates] /\ ItemsGrow
          /\ \A j \in Items : item'[j] = IF j = i THEN x ELSE item[j]
          /\ \A j \in Items : item'[j].held => conn'[j[2]] # "gone"
      BY <1>2, <2>1, SetItemKeeps
    <2>3. PICK a, s, n : emission[e] = [at |-> a, entries |-> s, next |-> n]
      BY DEF BusInv, BusTypes
    <2>4. emission' = [emission EXCEPT ![e] = [at |-> "submitting", entries |-> s, next |-> n]]
      <3>1. [emission[e] EXCEPT !.at = "submitting"] = [at |-> "submitting", entries |-> s, next |-> n]
        BY <2>3
      <3>2. emission' = [emission EXCEPT ![e] = [emission[e] EXCEPT !.at = "submitting"]]
        BY <1>2 DEF BusInv, BusTypes
      <3> QED BY <3>1, <3>2
    <2>5. emission'[e] = [at |-> "submitting", entries |-> s, next |-> n] /\ \A f \in Emissions : f # e => emission'[f] = emission[f]
      BY <2>4 DEF BusInv, BusTypes
    <2>6. BusTypes'
      BY <2>2, <2>4, <2>5 DEF BusInv, BusTypes
    <2>7. ASSUME NEW f \in Emissions, NEW d \in Conns, Acquired(f, d)' PROVE item'[<<f, d>>].at = "owned"
      <3>1. CASE f = e
        <4>1. d = c /\ i \in Items
          BY <2>3, <2>5, <2>7, <3>1 DEF Acquired, Items
        <4> QED BY <2>1, <2>2, <3>1, <4>1
      <3>2. CASE f # e
        <4>1. <<f, d>> \in Items /\ item[<<f, d>>].at = "owned" /\ <<f, d>> # i
          BY <2>5, <2>7, <3>2 DEF Acquired, Items, BusInv, BusHeld
        <4> QED BY <2>2, <4>1
      <3> QED BY <3>1, <3>2
    <2>8. BusHeld'
      BY <2>2, <2>7 DEF BusHeld, ItemsGrow, ItemGrows
    <2> QED BY <2>2, <2>6, <2>8 DEF BusInv
  <1> QED BY <1>1, <1>2, RefuseKeeps

LEMMA EmitSubmitKeeps ==
  ASSUME BusInv, NEW e \in Emissions, EmitSubmit(e)
  PROVE  BusInv' /\ ItemsGrow
  <1> DEFINE m == emission[e]
             c == m.entries[m.next]
             i == <<e, c>>
             x == [item[i] EXCEPT !.at = "queued"]
  <1>1. m.at = "submitting" /\ (RefuseRest(e) \/ (SetItem(i, x) /\ emission' = [emission EXCEPT ![e] = NextEntry(m)]))
    BY DEF EmitSubmit
  <1>2. CASE SetItem(i, x) /\ emission' = [emission EXCEPT ![e] = NextEntry(m)]
    <2>1. i \in Items => item[i].at = "owned" /\ item[i].held
      BY <1>1 DEF BusInv, BusHeld, Items, Acquired, AtWork
    <2>2. i \in Items => ItemGrows(item[i], x) /\ x.held = item[i].held /\ conn[i[2]] # "gone"
      <3> SUFFICES ASSUME i \in Items PROVE ItemGrows(item[i], x) /\ x.held = item[i].held /\ conn[i[2]] # "gone"
        OBVIOUS
      <3>1. item[i] \in ItemStates
        BY DEF BusInv, BusTypes
      <3>2. ItemGrows(item[i], x) /\ x.held = item[i].held
        BY <2>1, <3>1 DEF ItemGrows, ItemStates, InQueue
      <3>3. conn[i[2]] # "gone"
        BY <2>1 DEF BusInv, BusHeld
      <3> QED BY <3>2, <3>3
    <2> HIDE DEF x
    <2>3. /\ conn' \in [Conns -> ConnStates] /\ item' \in [Items -> ItemStates] /\ ItemsGrow
          /\ \A j \in Items : item'[j] = IF j = i THEN x ELSE item[j]
          /\ \A j \in Items : item'[j].held => conn'[j[2]] # "gone"
      BY <1>2, <2>2, SetItemKeeps
    <2>4. PICK a, s, n : m = [at |-> a, entries |-> s, next |-> n]
      BY DEF BusInv, BusTypes
    <2>5. \E b, k : b # "submitting" /\ NextEntry(m) = [at |-> b, entries |-> s, next |-> k]
      <3>1. NextEntry(m) = IF n = Len(s) THEN [at |-> "admitted", entries |-> s, next |-> n] ELSE [at |-> "admitting", entries |-> s, next |-> n + 1]
        <4>1. m.next = n /\ m.entries = s
          BY <2>4
        <4>2. NextEntry(m) = IF n = Len(s) THEN [m EXCEPT !.at = "admitted"] ELSE [m EXCEPT !.at = "admitting", !.next = n + 1]
          BY <4>1, Zenon DEF NextEntry
        <4>3. [m EXCEPT !.at = "admitted"] = [at |-> "admitted", entries |-> s, next |-> n]
          BY <2>4
        <4>4. [m EXCEPT !.at = "admitting", !.next = n + 1] = [at |-> "admitting", entries |-> s, next |-> n + 1]
          <5>1. PICK r : r = [m EXCEPT !.at = "admitting"]
            OBVIOUS
          <5>2. r = [at |-> "admitting", entries |-> s, next |-> n]
            BY <2>4, <5>1
          <5>3. [m EXCEPT !.at = "admitting", !.next = n + 1] = [r EXCEPT !.next = n + 1]
            BY <5>1
          <5>4. [r EXCEPT !.next = n + 1] = [at |-> "admitting", entries |-> s, next |-> n + 1]
            BY <5>2
          <5> QED BY <5>3, <5>4
        <4> HIDE DEF m
        <4> QED BY <4>2, <4>3, <4>4, Zenon
      <3> QED BY <3>1
    <2>6. /\ emission' = [f \in Emissions |-> emission'[f]]
          /\ \A f \in Emissions : emission'[f] = [at |-> emission'[f].at, entries |-> emission'[f].entries, next |-> emission'[f].next]
          /\ \A f \in Emissions, d \in Conns : Acquired(f, d)' => f # e /\ Acquired(f, d)
      BY <1>2, <2>5, EmissionMoves
    <2>7. BusTypes'
      BY <2>3, <2>6 DEF BusTypes
    <2>8. ASSUME NEW f \in Emissions, NEW d \in Conns, Acquired(f, d)' PROVE item'[<<f, d>>].at = "owned"
      <3>1. <<f, d>> \in Items /\ item[<<f, d>>].at = "owned" /\ <<f, d>> # i
        BY <2>6, <2>8 DEF Items, BusInv, BusHeld
      <3> QED BY <2>3, <3>1
    <2>9. BusHeld'
      BY <2>3, <2>8 DEF BusHeld, ItemsGrow, ItemGrows
    <2> QED BY <2>3, <2>7, <2>9 DEF BusInv
  <1> QED BY <1>1, <1>2, RefuseKeeps

LEMMA EmitReturnKeeps ==
  ASSUME BusInv, NEW e \in Emissions, EmitReturn(e)
  PROVE  BusInv' /\ ItemsGrow
  <1>1. UNCHANGED <<item, conn>> /\ emission' = [emission EXCEPT ![e].at = "returned"]
    BY DEF EmitReturn
  <1>2. PICK a, s, n : emission[e] = [at |-> a, entries |-> s, next |-> n]
    BY DEF BusInv, BusTypes
  <1>3. emission' = [emission EXCEPT ![e] = [at |-> "returned", entries |-> s, next |-> n]]
    <2>1. [emission[e] EXCEPT !.at = "returned"] = [at |-> "returned", entries |-> s, next |-> n]
      BY <1>2
    <2>2. emission' = [emission EXCEPT ![e] = [emission[e] EXCEPT !.at = "returned"]]
      BY <1>1 DEF BusInv, BusTypes
    <2> QED BY <2>1, <2>2
  <1>4. /\ emission' = [f \in Emissions |-> emission'[f]]
        /\ \A f \in Emissions : emission'[f] = [at |-> emission'[f].at, entries |-> emission'[f].entries, next |-> emission'[f].next]
        /\ \A f \in Emissions, c \in Conns : Acquired(f, c)' => Acquired(f, c)
    BY <1>3, EmissionMoves
  <1>5. BusTypes'
    BY <1>1, <1>4 DEF BusInv, BusTypes
  <1>6. BusHeld'
    BY <1>1, <1>4 DEF BusInv, BusHeld
  <1>7. ItemsGrow
    BY <1>1 DEF BusInv, BusTypes, BusHeld, ItemsGrow, ItemGrows
  <1> QED BY <1>5, <1>6, <1>7 DEF BusInv

LEMMA EmitTimeoutKeeps ==
  ASSUME BusInv, NEW e \in Emissions, EmitTimeout(e)
  PROVE  BusInv' /\ ItemsGrow
  <1> DEFINE S == {i \in Items : i[1] = e /\ UnderDeadline(item[i])}
  <1>1. item' = [i \in Items |-> IF i \in S THEN CancelItem(item[i], "outside") ELSE item[i]] /\ UNCHANGED <<conn, emission>>
    BY DEF EmitTimeout
  <1>2. conn' \in [Conns -> ConnStates] /\ \A j \in Items : item[j].held => conn'[j[2]] # "gone"
    BY <1>1 DEF BusInv, BusTypes, BusHeld
  <1> HIDE DEF S
  <1> QED BY <1>1, <1>2, CancelsKeep

LEMMA CloseQueueKeeps ==
  ASSUME BusInv, CloseBusQueue
  PROVE  BusInv' /\ ItemsGrow
  <1> DEFINE S == {i \in Items : item[i].at = "running" \/ (item[i].at = "queued" /\ i[2] \notin DrainConns)}
  <1>1. item' = [i \in Items |-> IF i \in S THEN CancelItem(item[i], "outside") ELSE item[i]] /\ UNCHANGED <<conn, emission>>
    BY DEF CloseBusQueue
  <1>2. conn' \in [Conns -> ConnStates] /\ \A j \in Items : item[j].held => conn'[j[2]] # "gone"
    BY <1>1 DEF BusInv, BusTypes, BusHeld
  <1> HIDE DEF S
  <1> QED BY <1>1, <1>2, CancelsKeep

\* What is known of one entry.
LEMMA EntryFacts ==
  ASSUME BusInv, NEW i \in Items
  PROVE  item[i] \in ItemStates /\ (item[i].at \in AtWork => item[i].held)
  BY DEF BusInv, BusTypes, BusHeld

LEMMA AfterCancelKeeps ==
  ASSUME BusInv, NEW i \in Items, AfterCancel(i)
  PROVE  BusInv' /\ ItemsGrow
  <1>1. SetItem(i, Finish(item[i], "ctx")) /\ UNCHANGED emission
    BY DEF AfterCancel
  <1>2. ItemGrows(item[i], Finish(item[i], "ctx")) /\ Finish(item[i], "ctx").at = item[i].at /\ Finish(item[i], "ctx").held = item[i].held
    BY EntryFacts, ItemOps
  <1> QED BY <1>1, <1>2, EntryKeeps

LEMMA RunItemKeeps ==
  ASSUME BusInv, NEW i \in Items, RunItem(i)
  PROVE  BusInv' /\ ItemsGrow
  <1> DEFINE x == [item[i] EXCEPT !.at = "running"]
  <1>1. item[i].at = "queued" /\ item[i].held /\ (SetItem(i, x) \/ SetItem(i, Exited(item[i], "ctx"))) /\ UNCHANGED emission
    BY EntryFacts DEF RunItem, AtWork
  <1>2. ItemGrows(item[i], x)
    BY <1>1, EntryFacts DEF ItemGrows, ItemStates, InQueue
  <1>3. ItemGrows(item[i], Exited(item[i], "ctx"))
    BY EntryFacts, ItemOps
  <1> HIDE DEF x
  <1> QED BY <1>1, <1>2, <1>3, EntryKeeps

LEMMA ReturnItemKeeps ==
  ASSUME BusInv, NEW i \in Items, ReturnItem(i)
  PROVE  BusInv' /\ ItemsGrow
  <1>1. item[i].at = "running" /\ SetItem(i, Exited(item[i], "value")) /\ UNCHANGED emission
    BY DEF ReturnItem
  <1>2. ItemGrows(item[i], Exited(item[i], "value")) /\ ~Exited(item[i], "value").held
    BY EntryFacts, ItemOps
  <1> QED BY <1>1, <1>2, EntryKeeps

LEMMA ForwardItemKeeps ==
  ASSUME BusInv, NEW i \in Items, ForwardItem(i)
  PROVE  BusInv' /\ ItemsGrow
  <1> DEFINE y == [item[i] EXCEPT !.at = "forwarding"]
             x == [y EXCEPT !.child = "working"]
  <1>1. item[i].at = "running" /\ item[i].held /\ SetItem(i, x) /\ UNCHANGED emission
    BY EntryFacts DEF ForwardItem, AtWork
  <1>2. y \in ItemStates /\ y.held /\ y.result = item[i].result
    BY <1>1, EntryFacts DEF ItemStates, InQueue
  <1>3. x \in ItemStates /\ x.held /\ x.result = item[i].result
    <2> HIDE DEF y
    <2> QED BY <1>2 DEF ItemStates
  <1> HIDE DEF x
  <1>4. ItemGrows(item[i], x)
    BY <1>3 DEF ItemGrows
  <1> QED BY <1>1, <1>4, EntryKeeps

LEMMA RegisterExitKeeps ==
  ASSUME BusInv, NEW i \in Items, RegisterExit(i)
  PROVE  BusInv' /\ ItemsGrow
  <1> DEFINE x == [item[i] EXCEPT !.at = "hooked"]
  <1>1. item[i].at = "forwarding" /\ item[i].held /\ (SetItem(i, x) \/ SetItem(i, OnExit(x))) /\ UNCHANGED emission
    BY EntryFacts DEF RegisterExit, AtWork
  <1>2. x \in ItemStates /\ x.at = "hooked" /\ x.result = item[i].result /\ "hooked" \notin AtWork
    BY <1>1, EntryFacts DEF ItemStates, InQueue, AtWork
  <1> HIDE DEF x
  <1>3. ItemGrows(x, OnExit(x)) /\ ~OnExit(x).held /\ OnExit(x).at = x.at
    BY <1>2, ItemOps
  <1>4. ItemGrows(item[i], x) /\ ItemGrows(item[i], OnExit(x))
    BY <1>2, <1>3 DEF ItemGrows
  <1> QED BY <1>1, <1>3, <1>4, EntryKeeps

LEMMA RegisterCompleteKeeps ==
  ASSUME BusInv, NEW i \in Items, RegisterComplete(i)
  PROVE  BusInv' /\ ItemsGrow
  <1> DEFINE x == [item[i] EXCEPT !.at = "transferred"]
  <1>1. item[i].at = "hooked" /\ (SetItem(i, x) \/ SetItem(i, OnComplete(x))) /\ UNCHANGED emission
    BY DEF RegisterComplete
  <1>2. x \in ItemStates /\ x.at = "transferred" /\ x.held = item[i].held /\ x.result = item[i].result /\ "transferred" \notin AtWork
    BY <1>1, EntryFacts DEF ItemStates, InQueue, AtWork
  <1> HIDE DEF x
  <1>3. ItemGrows(x, OnComplete(x)) /\ OnComplete(x).held = x.held /\ OnComplete(x).at = x.at
    BY <1>2, ItemOps
  <1>4. ItemGrows(item[i], x) /\ ItemGrows(item[i], OnComplete(x))
    BY <1>2, <1>3 DEF ItemGrows
  <1> QED BY <1>1, <1>2, <1>3, <1>4, EntryKeeps

LEMMA ChildCompletesKeeps ==
  ASSUME BusInv, NEW i \in Items, ChildCompletes(i)
  PROVE  BusInv' /\ ItemsGrow
  <1> DEFINE x == [item[i] EXCEPT !.child = "completed"]
  <1>1. (SetItem(i, x) \/ SetItem(i, OnComplete(x))) /\ UNCHANGED emission
    BY DEF ChildCompletes
  <1>2. x \in ItemStates /\ x.at = item[i].at /\ x.held = item[i].held /\ x.result = item[i].result
    BY EntryFacts DEF ItemStates
  <1>3. x.at \in AtWork => x.held
    BY <1>2, EntryFacts
  <1> HIDE DEF x
  <1>4. ItemGrows(x, OnComplete(x)) /\ OnComplete(x).held = x.held /\ OnComplete(x).at = x.at
    BY <1>2, <1>3, ItemOps
  <1>5. ItemGrows(item[i], x) /\ ItemGrows(item[i], OnComplete(x))
    BY <1>2, <1>3, <1>4 DEF ItemGrows
  <1> QED BY <1>1, <1>2, <1>4, <1>5, EntryKeeps

LEMMA ChildExitsKeeps ==
  ASSUME BusInv, NEW i \in Items, ChildExits(i)
  PROVE  BusInv' /\ ItemsGrow
  <1> DEFINE x == [item[i] EXCEPT !.child = "exited"]
  <1>1. (SetItem(i, x) \/ (x.at \in {"hooked", "transferred"} /\ SetItem(i, OnExit(x)))) /\ UNCHANGED emission
    BY DEF ChildExits
  <1>2. x \in ItemStates /\ x.at = item[i].at /\ x.held = item[i].held /\ x.result = item[i].result
    BY EntryFacts DEF ItemStates
  <1>3. x.at \in AtWork => x.held
    BY <1>2, EntryFacts
  <1> HIDE DEF x
  <1>4. x.at \in {"hooked", "transferred"} => ItemGrows(x, OnExit(x)) /\ ~OnExit(x).held /\ OnExit(x).at = x.at
    BY <1>2, <1>3, ItemOps DEF AtWork
  <1>5. ItemGrows(item[i], x) /\ (x.at \in {"hooked", "transferred"} => ItemGrows(item[i], OnExit(x)))
    BY <1>2, <1>3, <1>4 DEF ItemGrows
  <1>6. CASE SetItem(i, x)
    BY <1>1, <1>2, <1>5, <1>6, EntryKeeps
  <1>7. CASE x.at \in {"hooked", "transferred"} /\ SetItem(i, OnExit(x))
    BY <1>1, <1>2, <1>4, <1>5, <1>7, EntryKeeps
  <1> QED BY <1>1, <1>6, <1>7

LEMMA BusStepKeeps ==
  ASSUME BusInv, [BusNext]_busVars
  PROVE  BusInv' /\ ItemsGrow
  <1>1. CASE UNCHANGED busVars \/ BeginCloseSignal \/ SignalDone
    <2>1. UNCHANGED <<item, emission>> /\ UNCHANGED conn
      BY <1>1 DEF busVars, BeginCloseSignal, SignalDone
    <2>2. conn' \in [Conns -> ConnStates] /\ \A c \in Conns : conn'[c] = "gone" => conn[c] = "gone"
      BY <2>1 DEF BusInv, BusTypes
    <2> QED BY <2>1, <2>2, EntriesStay
  <1>2. ASSUME NEW c \in Conns, ConnectSlot(c) \/ DisconnectSlot(c) \/ CloseSlot(c) PROVE BusInv' /\ ItemsGrow
    BY <1>2, SlotKeeps, CloseSlotKeeps
  <1>3. ASSUME NEW e \in Emissions, EmitBegin(e) \/ EmitStep(e) \/ EmitTimeout(e) PROVE BusInv' /\ ItemsGrow
    BY <1>3, EmitBeginKeeps, EmitAcquireKeeps, EmitSubmitKeeps, EmitReturnKeeps, EmitTimeoutKeeps DEF EmitStep
  <1>4. ASSUME NEW i \in Items, AfterCancel(i) \/ RunItem(i) \/ ForwardItem(i) PROVE BusInv' /\ ItemsGrow
    BY <1>4, AfterCancelKeeps, RunItemKeeps, ForwardItemKeeps
  <1>5. ASSUME NEW i \in Items, CallbackStep(i) PROVE BusInv' /\ ItemsGrow
    BY <1>5, ReturnItemKeeps, RegisterExitKeeps, RegisterCompleteKeeps, ChildCompletesKeeps, ChildExitsKeeps DEF CallbackStep
  <1>6. CASE CloseBusQueue
    BY <1>6, CloseQueueKeeps
  <1> QED BY <1>1, <1>2, <1>3, <1>4, <1>5, <1>6 DEF BusNext, CloseStep

BusSteps == BusInit /\ [][BusNext]_busVars

LEMMA BusInvSafe == BusInv => ConnectionDoneLast
  <1> SUFFICES ASSUME BusInv, NEW i \in Items, conn[i[2]] = "gone"
               PROVE  ~item[i].held /\ item[i].at \in {"none", "exited", "hooked", "transferred"}
    BY DEF ConnectionDoneLast
  <1>1. ~item[i].held /\ item[i] \in ItemStates /\ item[i].at \notin AtWork
    BY DEF BusInv, BusTypes, BusHeld
  <1> QED BY <1>1 DEF ItemStates, AtWork, InQueue

\* The bus invariant is inductive (signal/connection.go acquire, release): whatever closes and
\* whenever it is cancelled, a connection is done only when its callbacks are.
THEOREM BusInductive == BusSteps => [](BusInv /\ ConnectionDoneLast)
  <1>1. BusInv /\ [BusNext]_busVars => BusInv'
    BY BusStepKeeps
  <1> QED BY <1>1, BusInitKeeps, BusInvSafe, PTL DEF BusSteps

\* No late callback replaces the result an Emit has seen (signal/result.go finish).
THEOREM BusResultsKept == BusSteps => ResultsKept
  <1>1. BusInv /\ [BusNext]_busVars => [\A i \in Items : item[i].result # "none" => item'[i].result = item[i].result]_busVars
    BY BusStepKeeps DEF ItemsGrow, ItemGrows
  <1>2. BusSteps => []BusInv
    BY BusInductive, PTL
  <1> QED BY <1>1, <1>2, PTL DEF BusSteps, ResultsKept
-----------------------------------------------------------------------------
(* HookRoutes.  The state of one critical section is a record; the          *)
(* invariant is stated of such a record and of the gate.                    *)

InstanceStates == [state : {"unused", "starting", "ready", "exited", "stopped"}, manual : BOOLEAN, stops : 0 .. 1]
RouteLeases == [of : Instances, number : Leases] \cup {NoLease}
RouteTimers == [state : {"none", "armed", "fired", "over"}, of : Instances \cup {Nowhere}]
RouteEvents == [at : {"idle", "trigger", "starting", "locking", "active", "invoked", "ending", "leaving"},
                of : Instances \cup {Nowhere}, continuation : BOOLEAN, token : BOOLEAN, canceled : BOOLEAN, failed : BOOLEAN]
RouteStates == [instance : [Instances -> InstanceStates], indexed : SUBSET Instances, lease : RouteLeases,
                timer : [Leases -> RouteTimers], event : [Events -> RouteEvents], work : Int]

\* An answer may only set a lease for an instance that nobody stopped; a usable instance is indexed.
InvokedLive(s, g) ==
    /\ \A e \in Events : s.event[e].at = "invoked" =>
          /\ s.event[e].token
          /\ g = "open" /\ ~s.event[e].canceled => s.event[e].of \in s.indexed /\ ~s.instance[s.event[e].of].manual
    /\ g = "open" => \A i \in Instances : s.instance[i].state \in {"starting", "ready"} /\ ~s.instance[i].manual => i \in s.indexed
    /\ \A e \in Events : (s.event[e].at \in {"idle", "trigger"} => s.event[e].of = Nowhere) /\ (s.event[e].at \notin {"idle", "trigger"} => s.event[e].of \in Instances)

LeaseLive(s, g) ==
    s.lease # NoLease => /\ g = "open" /\ s.timer[s.lease.number].state \in {"armed", "fired"}
                         /\ ~s.instance[s.lease.of].manual /\ s.lease.of \in s.indexed

\* What every helper does: the events stay where they are, with tokens that may be cancelled;
\* the timers that fired stay, and all of them while the lease does.
RouteKept(s, t) ==
    /\ t \in RouteStates
    /\ \A e \in Events : /\ t.event[e].at = s.event[e].at /\ t.event[e].of = s.event[e].of /\ t.event[e].token = s.event[e].token
                         /\ s.event[e].canceled => t.event[e].canceled
    /\ \A l \in Leases : s.timer[l].state # "armed" => t.timer[l] = s.timer[l]
    /\ t.lease = NoLease \/ (t.lease = s.lease /\ t.timer = s.timer)

LEMMA ClearLeaseKeeps ==
  ASSUME NEW s \in RouteStates
  PROVE  /\ RouteKept(s, ClearLease(s)) /\ ClearLease(s).lease = NoLease
         /\ ClearLease(s).indexed = s.indexed /\ ClearLease(s).instance = s.instance /\ ClearLease(s).event = s.event
  <1> DEFINE t == ClearLease(s)
             f == TimersWithout(s.timer, s.lease.number)
             w == IF s.timer[s.lease.number].state = "armed" THEN s.work - 1 ELSE s.work
  <1>1. f \in [Leases -> RouteTimers] /\ \A l \in Leases : s.timer[l].state # "armed" => f[l] = s.timer[l]
    BY DEF TimersWithout, RouteStates, RouteTimers
  <1>2. w \in Int
    BY DEF RouteStates
  <1>3. /\ t \in RouteStates /\ t.lease = NoLease /\ t.indexed = s.indexed /\ t.instance = s.instance /\ t.event = s.event
        /\ (t.timer = s.timer \/ t.timer = f)
    <2>1. CASE s.lease = NoLease
      BY <2>1 DEF ClearLease
    <2>2. CASE s.lease # NoLease
      <3>1. t = [s EXCEPT !.lease = NoLease, !.timer = f, !.work = w]
        BY <2>2 DEF ClearLease
      <3> HIDE DEF t, f, w
      <3> QED BY <1>1, <1>2, <3>1 DEF RouteStates, RouteLeases
    <2> QED BY <2>1, <2>2
  <1> HIDE DEF t, f, w
  <1>4. \A l \in Leases : s.timer[l].state # "armed" => t.timer[l] = s.timer[l]
    BY <1>1, <1>3
  <1>5. RouteKept(s, t)
    BY <1>3, <1>4 DEF RouteKept
  <1> QED BY <1>3, <1>5 DEF t

LEMMA CancelTokensKeep ==
  ASSUME NEW s \in RouteStates, NEW is
  PROVE  /\ RouteKept(s, CancelTokens(s, is))
         /\ CancelTokens(s, is).indexed = s.indexed /\ CancelTokens(s, is).instance = s.instance
         /\ CancelTokens(s, is).lease = s.lease /\ CancelTokens(s, is).timer = s.timer
         /\ \A e \in Events : s.event[e].token /\ s.event[e].of \in is => CancelTokens(s, is).event[e].canceled
  <1> DEFINE x(e) == [s.event[e] EXCEPT !.canceled = s.event[e].canceled \/ (s.event[e].token /\ s.event[e].of \in is)]
             f == [e \in Events |-> x(e)]
             t == [s EXCEPT !.event = f]
  <1>1. \A e \in Events : /\ x(e) \in RouteEvents /\ x(e).at = s.event[e].at /\ x(e).of = s.event[e].of /\ x(e).token = s.event[e].token
                          /\ (s.event[e].canceled => x(e).canceled) /\ (s.event[e].token /\ s.event[e].of \in is => x(e).canceled)
    BY DEF RouteStates, RouteEvents
  <1>2. CancelTokens(s, is) = t
    BY DEF CancelTokens
  <1> HIDE DEF x
  <1>3. f \in [Events -> RouteEvents] /\ \A e \in Events : f[e] = x(e)
    BY <1>1
  <1> HIDE DEF f
  <1>4. t \in RouteStates /\ t.event = f /\ t.indexed = s.indexed /\ t.instance = s.instance /\ t.lease = s.lease /\ t.timer = s.timer
    BY <1>3 DEF RouteStates
  <1> HIDE DEF t
  <1> QED BY <1>1, <1>2, <1>3, <1>4 DEF RouteKept


LEMMA ClearWorkerKeeps ==
  ASSUME NEW s \in RouteStates, NEW i \in Instances
  PROVE  /\ RouteKept(s, ClearWorker(s, i)) /\ ClearWorker(s, i).indexed = s.indexed /\ ClearWorker(s, i).instance = s.instance
         /\ ClearWorker(s, i).lease.of # i
         /\ \A e \in Events : s.event[e].token /\ s.event[e].of = i => ClearWorker(s, i).event[e].canceled
  <1> DEFINE u == IF s.lease.of = i THEN ClearLease(s) ELSE s
             t == CancelTokens(u, {i})
  <1>1. RouteKept(s, s)
    BY DEF RouteKept
  <1>2. NoLease.of # i
    BY RoutesAssumption DEF NoLease
  <1>3. RouteKept(s, u) /\ u.indexed = s.indexed /\ u.instance = s.instance /\ u.lease.of # i /\ u.event = s.event
    BY <1>1, <1>2, ClearLeaseKeeps
  <1> HIDE DEF u
  <1>4. u \in RouteStates
    BY <1>3 DEF RouteKept
  <1>5. /\ RouteKept(u, t) /\ t.indexed = u.indexed /\ t.instance = u.instance /\ t.lease = u.lease /\ t.timer = u.timer
        /\ \A e \in Events : u.event[e].token /\ u.event[e].of = i => t.event[e].canceled
    BY <1>4, CancelTokensKeep
  <1> HIDE DEF t
  <1>6. RouteKept(s, t)
    BY <1>3, <1>5 DEF RouteKept
  <1>7. t = ClearWorker(s, i)
    BY DEF t, u, ClearWorker
  <1> QED BY <1>3, <1>5, <1>6, <1>7

LEMMA StopTransientKeeps ==
  ASSUME NEW s \in RouteStates, NEW i, InvokedLive(s, gate), LeaseLive(s, gate)
  PROVE  /\ RouteKept(s, StopTransient(s, i)) /\ InvokedLive(StopTransient(s, i), gate) /\ LeaseLive(StopTransient(s, i), gate)
         /\ \A j \in Instances : j # i => /\ j \in s.indexed => j \in StopTransient(s, i).indexed
                                          /\ StopTransient(s, i).instance[j] = s.instance[j]
  <1>1. CASE gate # "open" \/ i \notin s.indexed
    <2>1. StopTransient(s, i) = s
      BY <1>1 DEF StopTransient
    <2> QED BY <2>1 DEF RouteKept
  <1>2. CASE gate = "open" /\ i \in s.indexed
    <2> DEFINE u == [s EXCEPT !.indexed = s.indexed \ {i}]
               c == ClearWorker(u, i)
               x == [c.instance[i] EXCEPT !.manual = TRUE, !.stops = 1]
               n == [c.instance EXCEPT ![i] = x]
               w == c.work + 1
               t == [c EXCEPT !.instance = n, !.work = w]
    <2>1. i \in Instances /\ u \in RouteStates
      BY <1>2 DEF RouteStates
    <2>2. /\ u.indexed = s.indexed \ {i} /\ u.instance = s.instance /\ u.event = s.event /\ u.lease = s.lease /\ u.timer = s.timer
      BY DEF RouteStates
    <2> HIDE DEF u
    <2>3. /\ RouteKept(u, c) /\ c.indexed = u.indexed /\ c.instance = u.instance /\ c.lease.of # i
          /\ \A e \in Events : u.event[e].token /\ u.event[e].of = i => c.event[e].canceled
      BY <2>1, ClearWorkerKeeps
    <2>4. c \in RouteStates
      BY <2>3 DEF RouteKept
    <2>5. StopTransient(s, i) = t
      BY <1>2 DEF StopTransient, u
    <2> HIDE DEF c
    <2>6. x \in InstanceStates /\ x.manual
      <3>1. c.instance[i] \in InstanceStates
        BY <2>1, <2>4 DEF RouteStates
      <3>2. PICK y \in InstanceStates : y = c.instance[i]
        BY <3>1
      <3>3. [y EXCEPT !.manual = TRUE, !.stops = 1] \in InstanceStates /\ [y EXCEPT !.manual = TRUE, !.stops = 1].manual
        <4> DEFINE z == [y EXCEPT !.manual = TRUE]
                   v == [z EXCEPT !.stops = 1]
        <4>1. z \in InstanceStates /\ z.manual
          BY DEF InstanceStates
        <4> HIDE DEF z
        <4>2. 1 \in 0 .. 1
          OBVIOUS
        <4>3. v \in InstanceStates /\ v.manual
          BY <4>1, <4>2 DEF InstanceStates
        <4>4. v = [y EXCEPT !.manual = TRUE, !.stops = 1]
          BY DEF z
        <4> HIDE DEF v
        <4> QED BY <4>3, <4>4
      <3> QED BY <3>2, <3>3 DEF x
    <2> HIDE DEF x
    <2>7. n \in [Instances -> InstanceStates] /\ n[i] = x /\ \A j \in Instances : j # i => n[j] = c.instance[j]
      BY <2>1, <2>4, <2>6 DEF RouteStates
    <2> HIDE DEF n
    <2>8. /\ t \in RouteStates /\ t.instance = n /\ t.indexed = c.indexed /\ t.lease = c.lease /\ t.timer = c.timer /\ t.event = c.event
      <3>1. w \in Int
        BY <2>4 DEF RouteStates
      <3> HIDE DEF w
      <3> QED BY <2>4, <2>7, <3>1 DEF RouteStates
    <2> HIDE DEF t
    <2>9. RouteKept(s, t)
      BY <2>2, <2>3, <2>8 DEF RouteKept
    <2>10. \A j \in Instances : j # i => (j \in s.indexed => j \in t.indexed) /\ t.instance[j] = s.instance[j]
      BY <2>2, <2>3, <2>7, <2>8
    <2>11. InvokedLive(t, gate)
      <3>1. ASSUME NEW e \in Events, t.event[e].at = "invoked"
            PROVE  t.event[e].token /\ (~t.event[e].canceled => t.event[e].of \in t.indexed /\ ~t.instance[t.event[e].of].manual)
        <4>1. t.event[e].of = s.event[e].of /\ s.event[e].at = "invoked" /\ t.event[e].token = s.event[e].token /\ s.event[e].of \in Instances
          BY <2>9, <3>1 DEF RouteKept, InvokedLive
        <4>2. s.event[e].token /\ (~s.event[e].canceled => s.event[e].of \in s.indexed /\ ~s.instance[s.event[e].of].manual)
          BY <1>2, <4>1 DEF InvokedLive
        <4>3. ~t.event[e].canceled => ~s.event[e].canceled /\ s.event[e].of # i
          BY <2>2, <2>3, <2>8, <2>9, <4>1, <4>2 DEF RouteKept
        <4> QED BY <2>10, <4>1, <4>2, <4>3
      <3>2. \A j \in Instances : t.instance[j].state \in {"starting", "ready"} /\ ~t.instance[j].manual => j \in t.indexed
        BY <1>2, <2>6, <2>7, <2>8, <2>10 DEF InvokedLive
      <3>3. \A e \in Events : (t.event[e].at \in {"idle", "trigger"} => t.event[e].of = Nowhere) /\ (t.event[e].at \notin {"idle", "trigger"} => t.event[e].of \in Instances)
        BY <2>9 DEF InvokedLive, RouteKept
      <3> QED BY <3>1, <3>2, <3>3 DEF InvokedLive
    <2>12. LeaseLive(t, gate)
      <3> SUFFICES ASSUME t.lease # NoLease PROVE LeaseLive(t, gate)
        BY DEF LeaseLive
      <3>1. t.lease = s.lease /\ t.timer = s.timer /\ t.lease.of # i
        BY <2>3, <2>8, <2>9 DEF RouteKept
      <3>2. s.lease.of \in Instances
        BY <3>1 DEF RouteStates, RouteLeases
      <3> QED BY <2>10, <3>1, <3>2 DEF LeaseLive
    <2> QED BY <2>5, <2>9, <2>10, <2>11, <2>12
  <1> QED BY <1>1, <1>2

-----------------------------------------------------------------------------
InsideRoute == {"active", "invoked", "ending", "leaving"}

RouteInv ==
    /\ Now \in RouteStates /\ InvokedLive(Now, gate) /\ LeaseLive(Now, gate)
    /\ gate \in {"open", "closing", "closed"}
    /\ holder \in [Instances -> Events \cup {Nowhere}]
    /\ \A e \in Events : hookEvent[e].at \in InsideRoute => holder[hookEvent[e].of] = e

TimerHarmless ==
    \A l \in Leases : timer[l].state = "fired" /\ timer'[l].state = "over" /\ lease # NoLease /\ lease.number # l => lease' = lease

LEMMA NowFields ==
  /\ Now.instance = instance /\ Now.indexed = indexed /\ Now.lease = lease
  /\ Now.timer = timer /\ Now.event = hookEvent /\ Now.work = ownedWork
  BY DEF Now

LEMMA RouteFacts ==
  ASSUME RouteInv
  PROVE  /\ instance \in [Instances -> InstanceStates] /\ indexed \subseteq Instances /\ lease \in RouteLeases
         /\ timer \in [Leases -> RouteTimers] /\ hookEvent \in [Events -> RouteEvents] /\ ownedWork \in Int
  BY NowFields DEF RouteInv, RouteStates

\* A step lands in the state s, whose events hold the routes they are inside of.
LEMMA RouteLands ==
  ASSUME RouteInv, NEW s \in RouteStates, Become(s), InvokedLive(s, gate'), LeaseLive(s, gate'), gate' \in {"open", "closing", "closed"},
         holder' \in [Instances -> Events \cup {Nowhere}],
         \A e \in Events : s.event[e].at \in InsideRoute => holder'[s.event[e].of] = e,
         \A l \in Leases : timer[l].state = "fired" => s.timer[l].state = "fired" \/ s.lease = lease \/ lease.number = l
  PROVE  RouteInv' /\ TimerHarmless
  <1>1. Now' = s /\ hookEvent' = s.event /\ timer' = s.timer /\ lease' = s.lease
    BY DEF Now, Become, RouteStates
  <1>2. Now' \in RouteStates
    BY <1>1
  <1>3. InvokedLive(Now, gate)'
    BY <1>1 DEF InvokedLive
  <1>4. LeaseLive(Now, gate)'
    BY <1>1 DEF LeaseLive
  <1>5. \A e \in Events : hookEvent'[e].at \in InsideRoute => holder'[hookEvent'[e].of] = e
    BY <1>1
  <1>6. RouteInv'
    BY <1>2, <1>3, <1>4, <1>5 DEF RouteInv
  <1>7. TimerHarmless
    BY <1>1 DEF TimerHarmless
  <1> QED BY <1>6, <1>7

LEMMA RouteInitKeeps == RoutesInit => RouteInv
  <1> SUFFICES ASSUME RoutesInit PROVE RouteInv
    OBVIOUS
  <1>1. NoEvent \in RouteEvents /\ NoEvent.at = "idle" /\ NoEvent.of = Nowhere
    BY DEF NoEvent, RouteEvents
  <1>2. NoLease \in RouteLeases
    BY DEF RouteLeases
  <1>3. [state |-> "unused", manual |-> FALSE, stops |-> 0] \in InstanceStates /\ [state |-> "none", of |-> Nowhere] \in RouteTimers
    BY DEF InstanceStates, RouteTimers
  <1>4. Now \in RouteStates
    BY <1>1, <1>2, <1>3 DEF RoutesInit, Now, RouteStates
  <1>5. InvokedLive(Now, gate) /\ LeaseLive(Now, gate)
    BY <1>1, NowFields DEF RoutesInit, InvokedLive, LeaseLive
  <1> QED BY <1>1, <1>4, <1>5 DEF RoutesInit, RouteInv, InsideRoute

\* One event moves, nothing else changes but the count and the holder of its route.
LEMMA EventMoves ==
  ASSUME RouteInv, NEW e \in Events, NEW x \in RouteEvents, hookEvent' = [hookEvent EXCEPT ![e] = x],
         UNCHANGED <<instance, indexed, lease, timer, gate>>, ownedWork' \in Int,
         (x.at \in {"idle", "trigger"} => x.of = Nowhere) /\ (x.at \notin {"idle", "trigger"} => x.of \in Instances),
         x.at = "invoked" => x.token /\ x.of \in indexed /\ ~instance[x.of].manual,
         holder' \in [Instances -> Events \cup {Nowhere}],
         x.at \in InsideRoute => holder'[x.of] = e,
         \A f \in Events : f # e /\ hookEvent[f].at \in InsideRoute => holder'[hookEvent[f].of] = f
  PROVE  RouteInv' /\ TimerHarmless
  <1>1. /\ hookEvent' \in [Events -> RouteEvents] /\ hookEvent'[e] = x /\ \A f \in Events : f # e => hookEvent'[f] = hookEvent[f]
    BY RouteFacts
  <1>2. Now' \in RouteStates
    BY <1>1, RouteFacts DEF Now, RouteStates
  <1>3. /\ Now'.event = hookEvent' /\ Now'.instance = instance /\ Now'.indexed = indexed /\ Now'.lease = lease /\ Now'.timer = timer
    BY DEF Now
  <1>4. InvokedLive(Now, gate)'
    BY <1>1, <1>3, NowFields DEF RouteInv, InvokedLive
  <1>5. LeaseLive(Now, gate)'
    BY <1>3, NowFields DEF RouteInv, LeaseLive
  <1>6. \A f \in Events : hookEvent'[f].at \in InsideRoute => holder'[hookEvent'[f].of] = f
    BY <1>1
  <1>7. TimerHarmless
    BY DEF TimerHarmless
  <1> QED BY <1>2, <1>4, <1>5, <1>6, <1>7 DEF RouteInv

LEMMA HookEventFacts ==
  ASSUME RouteInv, NEW e \in Events
  PROVE  /\ hookEvent[e] \in RouteEvents /\ (hookEvent[e].at \in {"idle", "trigger"} => hookEvent[e].of = Nowhere) /\ (hookEvent[e].at \notin {"idle", "trigger"} => hookEvent[e].of \in Instances)
         /\ hookEvent[e].at = "invoked" => /\ hookEvent[e].token
                                           /\ gate = "open" /\ ~hookEvent[e].canceled =>
                                                 hookEvent[e].of \in indexed /\ ~instance[hookEvent[e].of].manual
         /\ hookEvent[e].at \in InsideRoute => holder[hookEvent[e].of] = e
         /\ NoEvent \in RouteEvents /\ NoEvent.at = "idle" /\ NoEvent.of = Nowhere
  <1>1. NoEvent \in RouteEvents /\ NoEvent.at = "idle" /\ NoEvent.of = Nowhere
    BY DEF NoEvent, RouteEvents
  <1>2. hookEvent[e] \in RouteEvents
    BY RouteFacts
  <1> QED BY <1>1, <1>2, NowFields DEF RouteInv, InvokedLive

LEMMA LookupLeaseKeeps ==
  ASSUME RouteInv, NEW e \in Events, LookupLease(e)
  PROVE  RouteInv' /\ TimerHarmless
  <1> DEFINE x == IF lease # NoLease /\ timer[lease.number].state = "armed"
                  THEN [NoEvent EXCEPT !.at = "locking", !.of = lease.of, !.continuation = TRUE]
                  ELSE [NoEvent EXCEPT !.at = "trigger"]
  <1>1. /\ hookEvent' = [hookEvent EXCEPT ![e] = x] /\ hookEvent[e].at = "idle"
        /\ UNCHANGED <<instance, indexed, lease, timer, holder, ownedWork, gate>>
    BY DEF LookupLease
  <1>2. x \in RouteEvents /\ x.at \in {"locking", "trigger"} /\ (x.at = "locking" => x.of \in Instances) /\ (x.at = "trigger" => x.of = Nowhere)
    <2>1. CASE lease # NoLease
      <3>1. lease.of \in Instances
        BY <2>1, RouteFacts DEF RouteLeases
      <3> QED BY <3>1 DEF NoEvent, RouteEvents
    <2>2. CASE lease = NoLease
      BY <2>2 DEF NoEvent, RouteEvents
    <2> QED BY <2>1, <2>2
  <1> HIDE DEF x
  <1>3. \A f \in Events : hookEvent[f].at \in InsideRoute => holder'[hookEvent[f].of] = f
    BY <1>1, HookEventFacts
  <1>4. holder' \in [Instances -> Events \cup {Nowhere}] /\ ownedWork' \in Int
    BY <1>1, RouteFacts DEF RouteInv
  <1>5. x.at \notin InsideRoute
    BY <1>2 DEF InsideRoute
  <1> QED BY <1>1, <1>2, <1>3, <1>4, <1>5, EventMoves

LEMMA NotTriggeredKeeps ==
  ASSUME RouteInv, NEW e \in Events, NotTriggered(e) \/ LockAbandoned(e)
  PROVE  RouteInv' /\ TimerHarmless
  <1>1. /\ hookEvent' = [hookEvent EXCEPT ![e] = NoEvent]
        /\ UNCHANGED <<instance, indexed, lease, timer, holder, ownedWork, gate>>
    BY DEF NotTriggered, LockAbandoned
  <1>2. \A f \in Events : hookEvent[f].at \in InsideRoute => holder'[hookEvent[f].of] = f
    BY <1>1, HookEventFacts
  <1>3. holder' \in [Instances -> Events \cup {Nowhere}] /\ ownedWork' \in Int
    BY <1>1, RouteFacts DEF RouteInv
  <1>4. NoEvent \in RouteEvents /\ NoEvent.at = "idle" /\ NoEvent.of = Nowhere /\ NoEvent.at \notin InsideRoute
    BY HookEventFacts DEF InsideRoute
  <1> QED BY <1>1, <1>2, <1>3, <1>4, EventMoves

LEMMA LockRouteKeeps ==
  ASSUME RouteInv, NEW e \in Events, LockRoute(e)
  PROVE  RouteInv' /\ TimerHarmless
  <1> DEFINE i == hookEvent[e].of
             x1 == [hookEvent[e] EXCEPT !.at = "active"]
             x2 == [hookEvent[e] EXCEPT !.at = "ending", !.failed = TRUE]
  <1>1. /\ hookEvent[e].at = "locking" /\ holder[i] = Nowhere /\ holder' = [holder EXCEPT ![i] = e]
        /\ (hookEvent' = [hookEvent EXCEPT ![e] = x1] \/ hookEvent' = [hookEvent EXCEPT ![e] = x2])
        /\ UNCHANGED <<instance, indexed, lease, timer, ownedWork, gate>>
    BY DEF LockRoute, RouteFree
  <1>2. i \in Instances
    BY <1>1, HookEventFacts
  <1>3. x1 \in RouteEvents /\ x1.at = "active" /\ x1.of = i /\ x2 \in RouteEvents /\ x2.at = "ending" /\ x2.of = i
    BY HookEventFacts DEF RouteEvents
  <1> HIDE DEF x1, x2
  <1>4. holder' \in [Instances -> Events \cup {Nowhere}] /\ ownedWork' \in Int /\ holder'[i] = e
    BY <1>1, <1>2, RouteFacts DEF RouteInv
  <1>5. ASSUME NEW f \in Events, hookEvent[f].at \in InsideRoute PROVE holder'[hookEvent[f].of] = f
    <2>1. holder[hookEvent[f].of] = f /\ f # Nowhere /\ hookEvent[f].of \in Instances
      BY <1>5, HookEventFacts, RoutesAssumption DEF InsideRoute
    <2> QED BY <1>1, <1>2, <2>1 DEF RouteInv
  <1>6. CASE hookEvent' = [hookEvent EXCEPT ![e] = x1]
    BY <1>1, <1>2, <1>3, <1>4, <1>5, <1>6, EventMoves
  <1>7. CASE hookEvent' = [hookEvent EXCEPT ![e] = x2]
    BY <1>1, <1>2, <1>3, <1>4, <1>5, <1>7, EventMoves
  <1> QED BY <1>1, <1>6, <1>7

LEMMA BeginInvocationKeeps ==
  ASSUME RouteInv, NEW e \in Events, BeginInvocation(e)
  PROVE  RouteInv' /\ TimerHarmless
  <1> DEFINE i == hookEvent[e].of
             x1 == [hookEvent[e] EXCEPT !.at = "invoked", !.token = TRUE]
             x2 == [hookEvent[e] EXCEPT !.at = "ending", !.token = TRUE, !.failed = TRUE]
             x3 == [hookEvent[e] EXCEPT !.at = "ending", !.failed = TRUE]
  <1>1. /\ hookEvent[e].at = "active" /\ (ownedWork' = ownedWork + 1 \/ ownedWork' = ownedWork)
        /\ UNCHANGED <<instance, indexed, lease, timer, holder, gate>>
        /\ \/ gate = "open" /\ ~instance[i].manual /\ instance[i].state = "ready" /\ hookEvent' = [hookEvent EXCEPT ![e] = x1]
           \/ hookEvent' = [hookEvent EXCEPT ![e] = x2]
           \/ hookEvent' = [hookEvent EXCEPT ![e] = x3]
    BY RouteFacts DEF BeginInvocation, Invocable
  <1>2. i \in Instances /\ holder[i] = e
    BY <1>1, HookEventFacts DEF InsideRoute
  <1>3. /\ x1 \in RouteEvents /\ x1.at = "invoked" /\ x1.of = i /\ x1.token
        /\ x2 \in RouteEvents /\ x2.at = "ending" /\ x2.of = i /\ x3 \in RouteEvents /\ x3.at = "ending" /\ x3.of = i
    BY HookEventFacts DEF RouteEvents
  <1> HIDE DEF x1, x2, x3
  <1>4. holder' \in [Instances -> Events \cup {Nowhere}] /\ ownedWork' \in Int /\ holder'[i] = e
    BY <1>1, <1>2, RouteFacts DEF RouteInv
  <1>5. \A f \in Events : hookEvent[f].at \in InsideRoute => holder'[hookEvent[f].of] = f
    BY <1>1, HookEventFacts
  <1>6. CASE gate = "open" /\ ~instance[i].manual /\ instance[i].state = "ready" /\ hookEvent' = [hookEvent EXCEPT ![e] = x1]
    <2>1. i \in indexed
      BY <1>2, <1>6, NowFields DEF RouteInv, InvokedLive
    <2> QED BY <1>1, <1>2, <1>3, <1>4, <1>5, <1>6, <2>1, EventMoves
  <1>7. CASE hookEvent' = [hookEvent EXCEPT ![e] = x2]
    BY <1>1, <1>2, <1>3, <1>4, <1>5, <1>7, EventMoves
  <1>8. CASE hookEvent' = [hookEvent EXCEPT ![e] = x3]
    BY <1>1, <1>2, <1>3, <1>4, <1>5, <1>8, EventMoves
  <1> QED BY <1>1, <1>6, <1>7, <1>8

\* The call ends without a result that is used.
LEMMA EndingKeeps ==
  ASSUME RouteInv, NEW e \in Events, hookEvent[e].at = "invoked",
         hookEvent' = [hookEvent EXCEPT ![e] = [hookEvent[e] EXCEPT !.at = "ending", !.failed = TRUE]],
         UNCHANGED <<instance, indexed, lease, timer, holder, ownedWork, gate>>
  PROVE  RouteInv' /\ TimerHarmless
  <1> DEFINE i == hookEvent[e].of
             x == [hookEvent[e] EXCEPT !.at = "ending", !.failed = TRUE]
  <1>1. i \in Instances /\ holder[i] = e
    BY HookEventFacts DEF InsideRoute
  <1>2. x \in RouteEvents /\ x.at = "ending" /\ x.of = i /\ hookEvent' = [hookEvent EXCEPT ![e] = x]
    BY HookEventFacts DEF RouteEvents
  <1> HIDE DEF x
  <1>3. holder' \in [Instances -> Events \cup {Nowhere}] /\ ownedWork' \in Int
    BY RouteFacts DEF RouteInv
  <1>4. \A f \in Events : hookEvent[f].at \in InsideRoute => holder'[hookEvent[f].of] = f
    BY HookEventFacts
  <1>5. x.of \in Instances /\ holder'[x.of] = e /\ UNCHANGED <<instance, indexed, lease, timer, gate>>
    BY <1>1, <1>2
  <1> QED BY <1>2, <1>3, <1>4, <1>5, EventMoves

LEMMA LeaveHandleKeeps ==
  ASSUME RouteInv, NEW e \in Events, LeaveHandle(e)
  PROVE  RouteInv' /\ TimerHarmless
  <1> DEFINE i == hookEvent[e].of
  <1>1. /\ hookEvent[e].at = "leaving" /\ holder' = [holder EXCEPT ![i] = Nowhere]
        /\ (ownedWork' = ownedWork - 1 \/ ownedWork' = ownedWork) /\ hookEvent' = [hookEvent EXCEPT ![e] = NoEvent]
        /\ UNCHANGED <<instance, indexed, lease, timer, gate>>
    BY DEF LeaveHandle
  <1>2. i \in Instances /\ holder[i] = e
    BY <1>1, HookEventFacts DEF InsideRoute
  <1>3. holder' \in [Instances -> Events \cup {Nowhere}] /\ ownedWork' \in Int
    BY <1>1, <1>2, RouteFacts DEF RouteInv
  <1>4. ASSUME NEW f \in Events, f # e, hookEvent[f].at \in InsideRoute PROVE holder'[hookEvent[f].of] = f
    <2>1. holder[hookEvent[f].of] = f /\ hookEvent[f].of # i /\ hookEvent[f].of \in Instances
      BY <1>2, <1>4, HookEventFacts DEF InsideRoute
    <2> QED BY <1>1, <2>1 DEF RouteInv
  <1>5. NoEvent \in RouteEvents /\ NoEvent.at = "idle" /\ NoEvent.of = Nowhere /\ NoEvent.at \notin InsideRoute
    BY HookEventFacts DEF InsideRoute
  <1> QED BY <1>1, <1>3, <1>4, <1>5, EventMoves

\* The state in which an event is somewhere else.
LEMMA NowWith ==
  ASSUME RouteInv, NEW e \in Events, NEW x \in RouteEvents, x.at # "invoked", (x.at \in {"idle", "trigger"} => x.of = Nowhere) /\ (x.at \notin {"idle", "trigger"} => x.of \in Instances)
  PROVE  LET s == [Now EXCEPT !.event = [hookEvent EXCEPT ![e] = x]] IN
         /\ s \in RouteStates /\ InvokedLive(s, gate) /\ LeaseLive(s, gate)
         /\ s.event = [hookEvent EXCEPT ![e] = x] /\ s.lease = lease /\ s.timer = timer /\ s.indexed = indexed /\ s.instance = instance
         /\ s.event[e] = x /\ \A f \in Events : f # e => s.event[f] = hookEvent[f]
  <1> DEFINE F == [hookEvent EXCEPT ![e] = x]
             s == [Now EXCEPT !.event = F]
  <1>1. F \in [Events -> RouteEvents] /\ F[e] = x /\ \A f \in Events : f # e => F[f] = hookEvent[f]
    BY RouteFacts
  <1> HIDE DEF F
  <1>2. s \in RouteStates /\ s.event = F /\ s.lease = lease /\ s.timer = timer /\ s.indexed = indexed /\ s.instance = instance
    BY <1>1, NowFields DEF RouteInv, RouteStates
  <1> HIDE DEF s
  <1>3. InvokedLive(s, gate) /\ LeaseLive(s, gate)
    BY <1>1, <1>2, NowFields DEF RouteInv, InvokedLive, LeaseLive
  <1> QED BY <1>1, <1>2, <1>3 DEF s, F

\* Landing after a helper that stops an instance.
LEMMA StopLands ==
  ASSUME RouteInv, NEW s \in RouteStates, NEW i, InvokedLive(s, gate), LeaseLive(s, gate), Become(StopTransient(s, i)),
         UNCHANGED <<gate, holder>>,
         \A e \in Events : s.event[e].at \in InsideRoute => holder[s.event[e].of] = e,
         \A l \in Leases : timer[l].state = "fired" => s.timer[l].state = "fired" \/ lease.number = l
  PROVE  RouteInv' /\ TimerHarmless
  <1> DEFINE t == StopTransient(s, i)
  <1>1. RouteKept(s, t) /\ InvokedLive(t, gate) /\ LeaseLive(t, gate)
    BY StopTransientKeeps
  <1>2. t \in RouteStates /\ \A e \in Events : t.event[e].at = s.event[e].at /\ t.event[e].of = s.event[e].of
    BY <1>1 DEF RouteKept
  <1>3. \A l \in Leases : timer[l].state = "fired" => t.timer[l].state = "fired" \/ lease.number = l
    BY <1>1 DEF RouteKept
  <1> HIDE DEF t
  <1>4. Become(t)
    BY DEF t
  <1>5. InvokedLive(t, gate') /\ LeaseLive(t, gate') /\ gate' \in {"open", "closing", "closed"} /\ holder' \in [Instances -> Events \cup {Nowhere}]
    BY <1>1 DEF RouteInv
  <1>6. \A e \in Events : t.event[e].at \in InsideRoute => holder'[t.event[e].of] = e
    BY <1>2
  <1>7. \A l \in Leases : timer[l].state = "fired" => t.timer[l].state = "fired" \/ t.lease = lease \/ lease.number = l
    BY <1>3
  <1> QED BY <1>2, <1>4, <1>5, <1>6, <1>7, RouteLands

LEMMA WaitReadyKeeps ==
  ASSUME RouteInv, NEW e \in Events, WaitReady(e)
  PROVE  RouteInv' /\ TimerHarmless
  <1> DEFINE i == hookEvent[e].of
  <1>1. hookEvent[e].at = "starting" /\ UNCHANGED <<holder, gate>> /\ i \in Instances
    BY HookEventFacts DEF WaitReady
  <1>2. CASE hookEvent' = [hookEvent EXCEPT ![e].at = "locking"] /\ UNCHANGED <<instance, indexed, lease, timer, ownedWork>>
    <2> DEFINE x == [hookEvent[e] EXCEPT !.at = "locking"]
    <2>1. x \in RouteEvents /\ x.at = "locking" /\ x.of = i /\ hookEvent' = [hookEvent EXCEPT ![e] = x]
      BY <1>2, HookEventFacts, RouteFacts DEF RouteEvents
    <2> HIDE DEF x
    <2>2. \A f \in Events : hookEvent[f].at \in InsideRoute => holder'[hookEvent[f].of] = f
      BY <1>1, HookEventFacts
    <2>3. holder' \in [Instances -> Events \cup {Nowhere}] /\ ownedWork' \in Int /\ x.at \notin InsideRoute
      BY <1>1, <1>2, <2>1, RouteFacts DEF RouteInv, InsideRoute
    <2> QED BY <1>1, <1>2, <2>1, <2>2, <2>3, EventMoves
  <1>3. CASE Become(StopTransient([Now EXCEPT !.event[e] = NoEvent], i))
    <2> DEFINE s == [Now EXCEPT !.event = [hookEvent EXCEPT ![e] = NoEvent]]
    <2>1. [Now EXCEPT !.event[e] = NoEvent] = s
      BY DEF Now
    <2>2. NoEvent \in RouteEvents /\ NoEvent.at = "idle" /\ NoEvent.of = Nowhere /\ NoEvent.at \notin InsideRoute
      BY HookEventFacts DEF InsideRoute
    <2>3. /\ s \in RouteStates /\ InvokedLive(s, gate) /\ LeaseLive(s, gate)
          /\ s.timer = timer /\ s.event[e] = NoEvent /\ \A f \in Events : f # e => s.event[f] = hookEvent[f]
      BY <2>2, NowWith
    <2> HIDE DEF s
    <2>4. \A f \in Events : s.event[f].at \in InsideRoute => holder[s.event[f].of] = f
      BY <2>2, <2>3, HookEventFacts
    <2>5. Become(StopTransient(s, i))
      BY <1>3, <2>1
    <2> QED BY <1>1, <2>3, <2>4, <2>5, StopLands
  <1> QED BY <1>2, <1>3 DEF WaitReady

LEMMA SetLeaseKeeps ==
  ASSUME RouteInv, NEW e \in Events, SetLease(e)
  PROVE  RouteInv' /\ TimerHarmless
  <1> DEFINE i == hookEvent[e].of
             cleared == ClearLease(Now)
             freed == IF lease # NoLease /\ lease.of # i THEN StopTransient(cleared, lease.of) ELSE cleared
  <1>1. hookEvent[e].at = "invoked" /\ UNCHANGED <<holder, gate>> /\ i \in Instances /\ holder[i] = e
    BY HookEventFacts DEF SetLease, InsideRoute
  <1>2. CASE hookEvent' = [hookEvent EXCEPT ![e].at = "ending", ![e].failed = TRUE] /\ UNCHANGED <<instance, indexed, lease, timer, ownedWork>>
    <2>1. hookEvent' = [hookEvent EXCEPT ![e] = [hookEvent[e] EXCEPT !.at = "ending", !.failed = TRUE]]
      BY <1>2, RouteFacts
    <2> QED BY <1>1, <1>2, <2>1, EndingKeeps
  <1>3. ASSUME NEW l \in Leases, ~hookEvent[e].canceled, gate = "open", timer[l].state = "none",
               Become([freed EXCEPT !.lease = [of |-> i, number |-> l], !.timer[l] = [state |-> "armed", of |-> i],
                                    !.work = @ + 1, !.event[e].at = "ending"])
        PROVE  RouteInv' /\ TimerHarmless
    <2>1. i \in indexed /\ ~instance[i].manual
      BY <1>1, <1>3, HookEventFacts
    <2>2. /\ RouteKept(Now, cleared) /\ cleared.lease = NoLease /\ cleared.indexed = indexed /\ cleared.instance = instance /\ cleared.event = hookEvent
      BY NowFields, ClearLeaseKeeps DEF RouteInv
    <2>3. cleared \in RouteStates /\ InvokedLive(cleared, gate) /\ LeaseLive(cleared, gate)
      BY <2>2, NowFields DEF RouteKept, RouteInv, InvokedLive, LeaseLive
    <2>4. RouteKept(cleared, cleared)
      BY <2>3 DEF RouteKept
    <2> HIDE DEF cleared
    <2>5. RouteKept(cleared, freed) /\ InvokedLive(freed, gate) /\ i \in freed.indexed /\ ~freed.instance[i].manual
      <3>1. CASE lease # NoLease /\ lease.of # i
        BY <1>1, <2>1, <2>2, <2>3, <3>1, StopTransientKeeps
      <3>2. CASE ~(lease # NoLease /\ lease.of # i)
        BY <2>1, <2>2, <2>3, <2>4, <3>2
      <3> QED BY <3>1, <3>2
    <2> DEFINE y == [freed.event[e] EXCEPT !.at = "ending"]
               F == [freed.event EXCEPT ![e] = y]
               r == [of |-> i, number |-> l]
               T == [freed.timer EXCEPT ![l] = [state |-> "armed", of |-> i]]
               w == freed.work + 1
               s == [freed EXCEPT !.lease = r, !.timer = T, !.work = w, !.event = F]
    <2>6. Become(s)
      BY <1>3
    <2> HIDE DEF freed
    <2>7. freed \in RouteStates
      BY <2>5 DEF RouteKept
    <2>8. y \in RouteEvents /\ y.at = "ending" /\ y.of = freed.event[e].of
      BY <2>7 DEF RouteStates, RouteEvents
    <2> HIDE DEF y
    <2>9. F \in [Events -> RouteEvents] /\ F[e] = y /\ \A f \in Events : f # e => F[f] = freed.event[f]
      BY <2>7, <2>8 DEF RouteStates
    <2>10. r \in RouteLeases /\ r.of = i /\ r.number = l
      BY <1>1 DEF RouteLeases
    <2>11. T \in [Leases -> RouteTimers] /\ T[l].state = "armed" /\ \A k \in Leases : k # l => T[k] = freed.timer[k]
      <3>1. [state |-> "armed", of |-> i] \in RouteTimers
        BY <1>1 DEF RouteTimers
      <3> QED BY <2>7, <3>1 DEF RouteStates
    <2>12. w \in Int
      BY <2>7 DEF RouteStates
    <2> HIDE DEF F, r, T, w
    <2>13. s \in RouteStates /\ s.lease = r /\ s.timer = T /\ s.event = F /\ s.indexed = freed.indexed /\ s.instance = freed.instance
      BY <2>7, <2>9, <2>10, <2>11, <2>12 DEF RouteStates
    <2> HIDE DEF s
    <2>14. \A f \in Events : freed.event[f].at = hookEvent[f].at /\ freed.event[f].of = hookEvent[f].of
      BY <2>2, <2>5 DEF RouteKept
    <2>15. InvokedLive(s, gate')
      BY <1>1, <2>5, <2>8, <2>9, <2>13, <2>14 DEF InvokedLive
    <2>16. LeaseLive(s, gate')
      BY <1>1, <1>3, <2>5, <2>10, <2>11, <2>13 DEF LeaseLive
    <2>17. \A f \in Events : s.event[f].at \in InsideRoute => holder'[s.event[f].of] = f
      BY <1>1, <2>8, <2>9, <2>13, <2>14, HookEventFacts
    <2>18. \A k \in Leases : timer[k].state = "fired" => s.timer[k].state = "fired"
      <3>1. \A k \in Leases : timer[k].state = "fired" => freed.timer[k].state = "fired" /\ k # l
        BY <1>3, <2>2, <2>5, NowFields DEF RouteKept
      <3> QED BY <2>11, <2>13, <3>1
    <2>19. gate' \in {"open", "closing", "closed"} /\ holder' \in [Instances -> Events \cup {Nowhere}]
      BY <1>1 DEF RouteInv
    <2> QED BY <2>6, <2>13, <2>15, <2>16, <2>17, <2>18, <2>19, RouteLands
  <1>4. \/ hookEvent' = [hookEvent EXCEPT ![e].at = "ending", ![e].failed = TRUE] /\ UNCHANGED <<instance, indexed, lease, timer, ownedWork>>
        \/ /\ ~hookEvent[e].canceled /\ gate = "open"
           /\ \E l \in Leases : timer[l].state = "none" /\
                 Become([freed EXCEPT !.lease = [of |-> i, number |-> l], !.timer[l] = [state |-> "armed", of |-> i],
                                      !.work = @ + 1, !.event[e].at = "ending"])
    BY DEF SetLease, Settable
  <1> QED BY <1>2, <1>3, <1>4

LEMMA CompletedKeeps ==
  ASSUME RouteInv, NEW e \in Events, Completed(e)
  PROVE  RouteInv' /\ TimerHarmless
  <1> DEFINE s == IF hookEvent[e].continuation /\ lease.of = hookEvent[e].of THEN ClearLease(Now) ELSE Now
             y == [s.event[e] EXCEPT !.at = "ending"]
             F == [s.event EXCEPT ![e] = y]
             t == [s EXCEPT !.event = F]
  <1>1. hookEvent[e].at = "invoked" /\ UNCHANGED <<holder, gate>> /\ hookEvent[e].of \in Instances /\ holder[hookEvent[e].of] = e
    BY HookEventFacts DEF Completed, InsideRoute
  <1>2. Become(t)
    BY DEF Completed
  <1>3. /\ RouteKept(Now, s) /\ s.indexed = indexed /\ s.instance = instance /\ s.event = hookEvent
    <2>1. RouteKept(Now, Now)
      BY DEF RouteKept, RouteInv
    <2> QED BY <2>1, NowFields, ClearLeaseKeeps DEF RouteInv
  <1> HIDE DEF s
  <1>4. s \in RouteStates
    BY <1>3 DEF RouteKept
  <1>5. y \in RouteEvents /\ y.at = "ending" /\ y.of = hookEvent[e].of
    BY <1>3, HookEventFacts DEF RouteEvents
  <1> HIDE DEF y
  <1>6. F \in [Events -> RouteEvents] /\ F[e] = y /\ \A f \in Events : f # e => F[f] = hookEvent[f]
    BY <1>3, <1>5, RouteFacts
  <1> HIDE DEF F
  <1>7. t \in RouteStates /\ t.event = F /\ t.lease = s.lease /\ t.timer = s.timer /\ t.indexed = indexed /\ t.instance = instance
    BY <1>3, <1>4, <1>6 DEF RouteStates
  <1> HIDE DEF t
  <1>8. InvokedLive(t, gate')
    BY <1>1, <1>5, <1>6, <1>7, NowFields DEF InvokedLive, RouteInv
  <1>9. LeaseLive(t, gate')
    BY <1>1, <1>3, <1>7, NowFields DEF LeaseLive, RouteInv, RouteKept
  <1>10. \A f \in Events : t.event[f].at \in InsideRoute => holder'[t.event[f].of] = f
    BY <1>1, <1>5, <1>6, <1>7, HookEventFacts
  <1>11. \A l \in Leases : timer[l].state = "fired" => t.timer[l].state = "fired"
    BY <1>3, <1>7, NowFields DEF RouteKept
  <1>12. gate' \in {"open", "closing", "closed"} /\ holder' \in [Instances -> Events \cup {Nowhere}]
    BY <1>1 DEF RouteInv
  <1> QED BY <1>2, <1>7, <1>8, <1>9, <1>10, <1>11, <1>12, RouteLands

LEMMA EndHandleKeeps ==
  ASSUME RouteInv, NEW e \in Events, EndHandle(e)
  PROVE  RouteInv' /\ TimerHarmless
  <1> DEFINE i == hookEvent[e].of
             y == [hookEvent[e] EXCEPT !.at = "leaving"]
             s == [Now EXCEPT !.event = [hookEvent EXCEPT ![e] = y]]
  <1>1. hookEvent[e].at = "ending" /\ UNCHANGED <<holder, gate>> /\ i \in Instances /\ holder[i] = e
    BY HookEventFacts DEF EndHandle, InsideRoute
  <1>2. y \in RouteEvents /\ y.at = "leaving" /\ y.of = i
    BY HookEventFacts DEF RouteEvents
  <1>3. [Now EXCEPT !.event[e].at = "leaving"] = s
    BY DEF Now
  <1>4. Become(s) \/ Become(StopTransient(s, i))
    BY <1>3 DEF EndHandle
  <1> HIDE DEF y
  <1>5. /\ s \in RouteStates /\ InvokedLive(s, gate) /\ LeaseLive(s, gate) /\ s.lease = lease
        /\ s.timer = timer /\ s.event[e] = y /\ \A f \in Events : f # e => s.event[f] = hookEvent[f]
    BY <1>1, <1>2, NowWith
  <1> HIDE DEF s
  <1>6. \A f \in Events : s.event[f].at \in InsideRoute => holder[s.event[f].of] = f
    BY <1>1, <1>2, <1>5, HookEventFacts
  <1>7. CASE Become(s)
    <2>1. gate' \in {"open", "closing", "closed"} /\ holder' \in [Instances -> Events \cup {Nowhere}] /\ InvokedLive(s, gate') /\ LeaseLive(s, gate')
      BY <1>1, <1>5 DEF RouteInv
    <2>2. \A f \in Events : s.event[f].at \in InsideRoute => holder'[s.event[f].of] = f
      BY <1>1, <1>6
    <2> QED BY <1>5, <1>7, <2>1, <2>2, RouteLands
  <1>8. CASE Become(StopTransient(s, i))
    BY <1>1, <1>5, <1>6, <1>8, StopLands
  <1> QED BY <1>4, <1>7, <1>8

LEMMA ExpireLeaseKeeps ==
  ASSUME RouteInv, NEW l \in Leases, ExpireLease(l)
  PROVE  RouteInv' /\ TimerHarmless
  <1> DEFINE i == timer[l].of
             y == [timer[l] EXCEPT !.state = "over"]
             T == [timer EXCEPT ![l] = y]
             w == ownedWork - 1
             s == [Now EXCEPT !.timer = T, !.work = w]
  <1>1. timer[l].state = "fired" /\ UNCHANGED <<holder, gate>>
    BY DEF ExpireLease
  <1>2. [Now EXCEPT !.timer[l].state = "over", !.work = @ - 1] = s
    BY DEF Now
  <1>3. \/ lease.number = l /\ Become(StopTransient(ClearLease(s), i))
        \/ lease.number # l /\ Become(s)
        \/ gate # "open" /\ Become(s)
    BY <1>2 DEF ExpireLease, Expired
  <1>4. y \in RouteTimers
    BY RouteFacts DEF RouteTimers
  <1> HIDE DEF y
  <1>5. T \in [Leases -> RouteTimers] /\ w \in Int /\ \A k \in Leases : k # l => T[k] = timer[k]
    BY <1>4, RouteFacts
  <1> HIDE DEF T, w
  <1>6. s \in RouteStates /\ s.timer = T /\ s.lease = lease /\ s.event = hookEvent /\ s.indexed = indexed /\ s.instance = instance
    BY <1>5, NowFields DEF RouteInv, RouteStates
  <1> HIDE DEF s
  <1>7. InvokedLive(s, gate)
    BY <1>6, NowFields DEF InvokedLive, RouteInv
  <1>8. \A f \in Events : s.event[f].at \in InsideRoute => holder[s.event[f].of] = f
    BY <1>6, HookEventFacts
  <1>9. \A k \in Leases : timer[k].state = "fired" => k = l \/ s.timer[k].state = "fired"
    BY <1>5, <1>6
  <1>10. CASE lease.number = l /\ Become(StopTransient(ClearLease(s), i))
    <2> DEFINE c == ClearLease(s)
    <2>1. RouteKept(s, c) /\ c.lease = NoLease /\ c.indexed = s.indexed /\ c.instance = s.instance /\ c.event = s.event
      BY <1>6, ClearLeaseKeeps
    <2> HIDE DEF c
    <2>2. c \in RouteStates /\ InvokedLive(c, gate) /\ LeaseLive(c, gate)
      BY <1>7, <2>1 DEF RouteKept, InvokedLive, LeaseLive
    <2>3. \A k \in Leases : timer[k].state = "fired" => c.timer[k].state = "fired" \/ lease.number = k
      BY <1>9, <1>10, <2>1 DEF RouteKept
    <2>4. \A f \in Events : c.event[f].at \in InsideRoute => holder[c.event[f].of] = f
      BY <1>8, <2>1
    <2>5. Become(StopTransient(c, i))
      BY <1>10 DEF c
    <2> QED BY <1>1, <2>2, <2>3, <2>4, <2>5, StopLands
  <1>11. CASE (lease.number # l \/ gate # "open") /\ Become(s)
    <2>1. LeaseLive(s, gate')
      <3> SUFFICES ASSUME lease # NoLease PROVE LeaseLive(s, gate')
        BY <1>6 DEF LeaseLive
      <3>1. /\ gate = "open" /\ timer[lease.number].state \in {"armed", "fired"}
            /\ ~instance[lease.of].manual /\ lease.of \in indexed /\ lease.number \in Leases
        BY NowFields, RouteFacts DEF RouteInv, LeaseLive, RouteLeases
      <3>2. s.timer[lease.number] = timer[lease.number]
        BY <1>5, <1>6, <1>11, <3>1
      <3> QED BY <1>1, <1>6, <3>1, <3>2 DEF LeaseLive
    <2>2. gate' \in {"open", "closing", "closed"} /\ holder' \in [Instances -> Events \cup {Nowhere}] /\ InvokedLive(s, gate')
      BY <1>1, <1>7 DEF RouteInv
    <2>3. \A f \in Events : s.event[f].at \in InsideRoute => holder'[s.event[f].of] = f
      BY <1>1, <1>8
    <2> QED BY <1>6, <1>11, <2>1, <2>2, <2>3, RouteLands
  <1> QED BY <1>3, <1>10, <1>11

LEMMA CancelRouteKeeps ==
  ASSUME RouteInv, CancelRoute
  PROVE  RouteInv' /\ TimerHarmless
  <1> DEFINE running == {hookEvent[e].of : e \in {x \in Events : hookEvent[x].token}}
             c == ClearLease(Now)
             s == CancelTokens(c, Instances)
             doomed == (running \cup {lease.of}) \cap indexed
             x(i) == [s.instance[i] EXCEPT !.manual = TRUE, !.stops = 1]
             I == [i \in Instances |-> IF i \in doomed THEN x(i) ELSE s.instance[i]]
             n == s.indexed \ doomed
             w == s.work + Cardinality(doomed)
             t == [s EXCEPT !.indexed = n, !.instance = I, !.work = w]
  <1>1. Become(t) /\ UNCHANGED <<holder, gate>>
    BY DEF CancelRoute
  <1>2. RouteKept(Now, c) /\ c.lease = NoLease /\ c.indexed = indexed /\ c.instance = instance /\ c.event = hookEvent
    BY NowFields, ClearLeaseKeeps DEF RouteInv
  <1> HIDE DEF c
  <1>3. /\ RouteKept(c, s) /\ s.indexed = indexed /\ s.instance = instance /\ s.lease = NoLease
        /\ \A e \in Events : hookEvent[e].token /\ hookEvent[e].of \in Instances => s.event[e].canceled
    BY <1>2, CancelTokensKeep DEF RouteKept
  <1> HIDE DEF s
  <1>4. s \in RouteStates /\ doomed \subseteq Instances /\ Cardinality(doomed) \in Nat
    <2>1. doomed \subseteq Instances
      BY RouteFacts
    <2>2. IsFiniteSet(doomed)
      BY <2>1, RoutesAssumption, FS_Subset
    <2> QED BY <1>3, <2>1, <2>2, FS_CardinalityType DEF RouteKept
  <1> HIDE DEF doomed
  <1>5. \A i \in Instances : x(i) \in InstanceStates /\ x(i).manual
    <2> SUFFICES ASSUME NEW i \in Instances PROVE x(i) \in InstanceStates /\ x(i).manual
      OBVIOUS
    <2>1. PICK y \in InstanceStates : y = s.instance[i]
      BY <1>3, RouteFacts
    <2> DEFINE z == [y EXCEPT !.manual = TRUE]
               v == [z EXCEPT !.stops = 1]
    <2>2. z \in InstanceStates /\ z.manual
      BY DEF InstanceStates
    <2> HIDE DEF z
    <2>3. 1 \in 0 .. 1
      OBVIOUS
    <2>4. v \in InstanceStates /\ v.manual
      BY <2>2, <2>3 DEF InstanceStates
    <2>5. v = x(i)
      BY <2>1 DEF z
    <2> HIDE DEF v
    <2> QED BY <2>4, <2>5
  <1> HIDE DEF x
  <1>6. I \in [Instances -> InstanceStates] /\ (\A i \in Instances : i \in doomed => I[i].manual) /\ (\A i \in Instances : i \notin doomed => I[i] = instance[i])
    BY <1>3, <1>5, RouteFacts
  <1>7. n \subseteq Instances /\ w \in Int
    BY <1>3, <1>4, RouteFacts DEF RouteStates
  <1>17. n = indexed \ doomed
    BY <1>3
  <1> HIDE DEF I, n, w
  <1>8. t \in RouteStates /\ t.indexed = n /\ t.instance = I /\ t.lease = NoLease /\ t.timer = s.timer /\ t.event = s.event
    BY <1>3, <1>4, <1>6, <1>7 DEF RouteStates
  <1> HIDE DEF t
  <1>9. \A e \in Events : t.event[e].at = hookEvent[e].at /\ t.event[e].of = hookEvent[e].of /\ t.event[e].token = hookEvent[e].token
    BY <1>2, <1>3, <1>8 DEF RouteKept
  <1>10. InvokedLive(t, gate')
    <2>1. ASSUME NEW e \in Events, t.event[e].at = "invoked" PROVE t.event[e].token /\ t.event[e].canceled
      <3>1. hookEvent[e].at = "invoked" /\ hookEvent[e].token /\ hookEvent[e].of \in Instances
        BY <1>9, <2>1, HookEventFacts
      <3> QED BY <1>3, <1>8, <1>9, <3>1
    <2>2. \A i \in Instances : t.instance[i].state \in {"starting", "ready"} /\ ~t.instance[i].manual /\ gate = "open" => i \in t.indexed
      BY <1>6, <1>17, <1>8, NowFields DEF RouteInv, InvokedLive
    <2>3. \A e \in Events : (t.event[e].at \in {"idle", "trigger"} => t.event[e].of = Nowhere) /\ (t.event[e].at \notin {"idle", "trigger"} => t.event[e].of \in Instances)
      BY <1>9, HookEventFacts
    <2> QED BY <1>1, <2>1, <2>2, <2>3 DEF InvokedLive
  <1>11. LeaseLive(t, gate')
    BY <1>8 DEF LeaseLive
  <1>12. \A f \in Events : t.event[f].at \in InsideRoute => holder'[t.event[f].of] = f
    BY <1>1, <1>9, HookEventFacts
  <1>13. \A l \in Leases : timer[l].state = "fired" => t.timer[l].state = "fired"
    BY <1>2, <1>3, <1>8, NowFields DEF RouteKept
  <1>14. gate' \in {"open", "closing", "closed"} /\ holder' \in [Instances -> Events \cup {Nowhere}]
    BY <1>1 DEF RouteInv
  <1> QED BY <1>1, <1>8, <1>10, <1>11, <1>12, <1>13, <1>14, RouteLands

LEMMA SweepExitedKeeps ==
  ASSUME RouteInv, NEW i \in Instances, SweepExited(i)
  PROVE  RouteInv' /\ TimerHarmless
  <1> DEFINE s == [Now EXCEPT !.indexed = indexed \ {i}]
             t == ClearWorker(s, i)
  <1>1. /\ instance[i].state = "exited" /\ UNCHANGED <<holder, gate>>
        /\ Become(ClearWorker([Now EXCEPT !.indexed = @ \ {i}], i))
    BY DEF SweepExited
  <1>2. [Now EXCEPT !.indexed = @ \ {i}] = s
    BY DEF Now
  <1>3. s \in RouteStates /\ s.indexed = indexed \ {i} /\ s.lease = lease /\ s.timer = timer /\ s.event = hookEvent /\ s.instance = instance
    BY RouteFacts, NowFields DEF RouteInv, RouteStates
  <1>4. Become(t)
    BY <1>1, <1>2
  <1> HIDE DEF s
  <1>5. /\ RouteKept(s, t) /\ t.indexed = s.indexed /\ t.instance = s.instance /\ t.lease.of # i
        /\ \A e \in Events : s.event[e].token /\ s.event[e].of = i => t.event[e].canceled
    BY <1>3, ClearWorkerKeeps
  <1> HIDE DEF t
  <1>6. /\ t \in RouteStates /\ t.indexed = indexed \ {i} /\ t.instance = instance
        /\ \A e \in Events : /\ t.event[e].at = hookEvent[e].at /\ t.event[e].of = hookEvent[e].of /\ t.event[e].token = hookEvent[e].token
                             /\ hookEvent[e].canceled => t.event[e].canceled
    BY <1>3, <1>5 DEF RouteKept
  <1>7. InvokedLive(t, gate')
    <2>1. ASSUME NEW e \in Events, t.event[e].at = "invoked"
          PROVE  t.event[e].token /\ (gate = "open" /\ ~t.event[e].canceled => t.event[e].of \in t.indexed /\ ~t.instance[t.event[e].of].manual)
      <3>1. hookEvent[e].at = "invoked" /\ hookEvent[e].token
        BY <1>6, <2>1, HookEventFacts
      <3>2. ~t.event[e].canceled => ~hookEvent[e].canceled /\ hookEvent[e].of # i
        BY <1>3, <1>5, <1>6, <3>1
      <3> QED BY <1>6, <3>1, <3>2, HookEventFacts
    <2>2. \A j \in Instances : t.instance[j].state \in {"starting", "ready"} /\ ~t.instance[j].manual /\ gate = "open" => j \in t.indexed
      BY <1>1, <1>6, NowFields DEF RouteInv, InvokedLive
    <2>3. \A e \in Events : (t.event[e].at \in {"idle", "trigger"} => t.event[e].of = Nowhere) /\ (t.event[e].at \notin {"idle", "trigger"} => t.event[e].of \in Instances)
      BY <1>6, HookEventFacts
    <2> QED BY <1>1, <2>1, <2>2, <2>3 DEF InvokedLive
  <1>8. LeaseLive(t, gate')
    <2> SUFFICES ASSUME t.lease # NoLease PROVE LeaseLive(t, gate')
      BY DEF LeaseLive
    <2>1. t.lease = lease /\ t.timer = timer /\ lease.of # i
      BY <1>3, <1>5 DEF RouteKept
    <2> QED BY <1>1, <1>6, <2>1, NowFields DEF RouteInv, LeaseLive
  <1>9. \A f \in Events : t.event[f].at \in InsideRoute => holder'[t.event[f].of] = f
    BY <1>1, <1>6, HookEventFacts
  <1>10. \A l \in Leases : timer[l].state = "fired" => t.timer[l].state = "fired"
    BY <1>3, <1>5 DEF RouteKept
  <1>11. gate' \in {"open", "closing", "closed"} /\ holder' \in [Instances -> Events \cup {Nowhere}]
    BY <1>1 DEF RouteInv
  <1> QED BY <1>4, <1>6, <1>7, <1>8, <1>9, <1>10, <1>11, RouteLands

LEMMA CloseRoutesKeeps ==
  ASSUME RouteInv, CloseRoutes
  PROVE  RouteInv' /\ TimerHarmless
  <1> DEFINE c == ClearLease(Now)
             s == CancelTokens(c, Instances)
             x(i) == [s.instance[i] EXCEPT !.manual = s.instance[i].manual \/ i \in indexed]
             I == [i \in Instances |-> x(i)]
             t == [s EXCEPT !.instance = I]
  <1>1. Become(t) /\ UNCHANGED holder /\ gate' = "closing"
    BY DEF CloseRoutes
  <1>2. RouteKept(Now, c) /\ c.lease = NoLease /\ c.indexed = indexed /\ c.instance = instance /\ c.event = hookEvent
    BY NowFields, ClearLeaseKeeps DEF RouteInv
  <1> HIDE DEF c
  <1>3. RouteKept(c, s) /\ s.indexed = indexed /\ s.instance = instance /\ s.lease = NoLease
    BY <1>2, CancelTokensKeep DEF RouteKept
  <1> HIDE DEF s
  <1>4. s \in RouteStates
    BY <1>3 DEF RouteKept
  <1>5. \A i \in Instances : x(i) \in InstanceStates
    <2>1. \A i \in Instances : s.instance[i] \in InstanceStates
      BY <1>3, RouteFacts
    <2> QED BY <2>1 DEF InstanceStates
  <1> HIDE DEF x
  <1>6. I \in [Instances -> InstanceStates]
    BY <1>5
  <1> HIDE DEF I
  <1>7. t \in RouteStates /\ t.lease = NoLease /\ t.timer = s.timer /\ t.event = s.event
    BY <1>3, <1>4, <1>6 DEF RouteStates
  <1> HIDE DEF t
  <1>8. \A e \in Events : t.event[e].at = hookEvent[e].at /\ t.event[e].of = hookEvent[e].of /\ t.event[e].token = hookEvent[e].token
    BY <1>2, <1>3, <1>7 DEF RouteKept
  <1>9. InvokedLive(t, gate') /\ LeaseLive(t, gate')
    BY <1>1, <1>7, <1>8, HookEventFacts DEF InvokedLive, LeaseLive
  <1>10. \A f \in Events : t.event[f].at \in InsideRoute => holder'[t.event[f].of] = f
    BY <1>1, <1>8, HookEventFacts
  <1>11. \A l \in Leases : timer[l].state = "fired" => t.timer[l].state = "fired"
    BY <1>2, <1>3, <1>7, NowFields DEF RouteKept
  <1>12. gate' \in {"open", "closing", "closed"} /\ holder' \in [Instances -> Events \cup {Nowhere}]
    BY <1>1 DEF RouteInv
  <1> QED BY <1>1, <1>7, <1>9, <1>10, <1>11, <1>12, RouteLands

\* Instances, their index and timers that elapse: the events and the lease stay.
LEMMA InstancesMove ==
  ASSUME RouteInv, instance' \in [Instances -> InstanceStates], indexed' \subseteq Instances, timer' \in [Leases -> RouteTimers],
         hookEvent' \in [Events -> RouteEvents], ownedWork' \in Int, UNCHANGED <<lease, holder, gate>>,
         indexed \subseteq indexed',
         \A i \in Instances : instance'[i].manual = instance[i].manual,
         \A i \in Instances : instance'[i].state \in {"starting", "ready"} /\ ~instance'[i].manual =>
                                 i \in indexed' \/ (instance[i].state \in {"starting", "ready"}),
         \A l \in Leases : timer[l].state \in {"armed", "fired"} => timer'[l].state \in {"armed", "fired"},
         \A e \in Events : \/ hookEvent'[e] = hookEvent[e]
                           \/ hookEvent'[e].at = "starting" /\ hookEvent'[e].of \in Instances
  PROVE  RouteInv' /\ TimerHarmless
  <1>1. /\ Now'.event = hookEvent' /\ Now'.instance = instance' /\ Now'.indexed = indexed' /\ Now'.lease = lease /\ Now'.timer = timer'
    BY DEF Now
  <1>2. Now' \in RouteStates
    BY RouteFacts DEF Now, RouteStates
  <1>3. InvokedLive(Now, gate)'
    <2>1. ASSUME NEW e \in Events, hookEvent'[e].at = "invoked"
          PROVE  hookEvent'[e].token /\ (gate = "open" /\ ~hookEvent'[e].canceled => hookEvent'[e].of \in indexed' /\ ~instance'[hookEvent'[e].of].manual)
      <3>1. hookEvent'[e] = hookEvent[e]
        BY <2>1
      <3>2. hookEvent[e].of \in Instances
        BY <2>1, <3>1, HookEventFacts
      <3> QED BY <2>1, <3>1, <3>2, HookEventFacts
    <2>2. \A i \in Instances : instance'[i].state \in {"starting", "ready"} /\ ~instance'[i].manual /\ gate = "open" => i \in indexed'
      BY NowFields DEF RouteInv, InvokedLive
    <2>3. \A e \in Events : (hookEvent'[e].at \in {"idle", "trigger"} => hookEvent'[e].of = Nowhere) /\ (hookEvent'[e].at \notin {"idle", "trigger"} => hookEvent'[e].of \in Instances)
      BY HookEventFacts
    <2> QED BY <1>1, <2>1, <2>2, <2>3 DEF InvokedLive
  <1>4. LeaseLive(Now, gate)'
    <2> SUFFICES ASSUME lease # NoLease
                 PROVE  gate = "open" /\ timer'[lease.number].state \in {"armed", "fired"} /\ ~instance'[lease.of].manual /\ lease.of \in indexed'
      BY <1>1 DEF LeaseLive
    <2>1. /\ gate = "open" /\ timer[lease.number].state \in {"armed", "fired"}
          /\ ~instance[lease.of].manual /\ lease.of \in indexed /\ lease.number \in Leases /\ lease.of \in Instances
      BY NowFields, RouteFacts DEF RouteInv, LeaseLive, RouteLeases
    <2> QED BY <2>1
  <1>5. \A e \in Events : hookEvent'[e].at \in InsideRoute => holder'[hookEvent'[e].of] = e
    BY HookEventFacts DEF InsideRoute
  <1>6. TimerHarmless
    BY DEF TimerHarmless
  <1> QED BY <1>2, <1>3, <1>4, <1>5, <1>6 DEF RouteInv

LEMMA StartTransientKeeps ==
  ASSUME RouteInv, NEW e \in Events, NEW i \in Instances, StartTransient(e, i)
  PROVE  RouteInv' /\ TimerHarmless
  <1> DEFINE y == [instance[i] EXCEPT !.state = "starting"]
             x1 == [hookEvent[e] EXCEPT !.at = "starting"]
             x == [x1 EXCEPT !.of = i]
  <1>1. /\ indexed' = indexed \cup {i} /\ UNCHANGED <<lease, timer, holder, ownedWork, gate>>
        /\ (instance' = instance \/ instance' = [instance EXCEPT ![i] = y])
    BY DEF StartTransient
  <1>2. hookEvent' = [hookEvent EXCEPT ![e] = x]
    BY RouteFacts DEF StartTransient
  <1>3. y \in InstanceStates /\ y.manual = instance[i].manual
    BY RouteFacts DEF InstanceStates
  <1>4. x \in RouteEvents /\ x.at = "starting" /\ x.of = i
    <2>1. x1 \in RouteEvents /\ x1.at = "starting"
      BY HookEventFacts DEF RouteEvents
    <2> HIDE DEF x1
    <2> QED BY <2>1 DEF RouteEvents
  <1> HIDE DEF x, y
  <1>5. hookEvent' \in [Events -> RouteEvents] /\ hookEvent'[e] = x /\ \A f \in Events : f # e => hookEvent'[f] = hookEvent[f]
    BY <1>2, <1>4, RouteFacts
  <1>6. /\ instance' \in [Instances -> InstanceStates] /\ \A j \in Instances : instance'[j].manual = instance[j].manual
        /\ \A j \in Instances : j # i => instance'[j] = instance[j]
    BY <1>1, <1>3, RouteFacts
  <1>7. /\ indexed' \subseteq Instances /\ indexed \subseteq indexed' /\ i \in indexed' /\ timer' \in [Leases -> RouteTimers] /\ ownedWork' \in Int
        /\ \A l \in Leases : timer'[l] = timer[l]
    BY <1>1, RouteFacts
  <1> QED BY <1>1, <1>4, <1>5, <1>6, <1>7, InstancesMove

LEMMA ProcessKeeps ==
  ASSUME RouteInv, NEW i \in Instances, BecomesReady(i) \/ InstanceExits(i) \/ StopEnds(i)
  PROVE  RouteInv' /\ TimerHarmless
  <1>1. /\ UNCHANGED <<indexed, lease, timer, hookEvent, holder, gate>> /\ (ownedWork' = ownedWork \/ ownedWork' = ownedWork - instance[i].stops)
    BY DEF BecomesReady, InstanceExits, StopEnds
  <1>2. ownedWork' \in Int
    <2>1. instance[i].stops \in 0 .. 1
      BY RouteFacts DEF InstanceStates
    <2> QED BY <1>1, <2>1, RouteFacts
  <1>3. PICK y \in InstanceStates : /\ instance' = [instance EXCEPT ![i] = y] /\ y.manual = instance[i].manual
                                    /\ y.state \in {"starting", "ready"} /\ ~y.manual => instance[i].state \in {"starting", "ready"}
    <2>1. CASE BecomesReady(i)
      <3> DEFINE st == IF instance[i].manual THEN "stopped" ELSE "ready"
                 y == [instance[i] EXCEPT !.state = st]
      <3>1. instance' = [instance EXCEPT ![i] = y] /\ instance[i].state = "starting"
        BY <2>1 DEF BecomesReady
      <3>2. y \in InstanceStates /\ y.manual = instance[i].manual
        BY RouteFacts DEF InstanceStates
      <3> QED BY <3>1, <3>2
    <2>2. CASE InstanceExits(i)
      <3> DEFINE y == [instance[i] EXCEPT !.state = "exited"]
      <3>1. instance' = [instance EXCEPT ![i] = y] /\ instance[i].state = "ready"
        BY <2>2 DEF InstanceExits
      <3>2. y \in InstanceStates /\ y.manual = instance[i].manual
        BY RouteFacts DEF InstanceStates
      <3> QED BY <3>1, <3>2
    <2>3. CASE StopEnds(i)
      <3> DEFINE z == [instance[i] EXCEPT !.state = "stopped"]
                 y == [z EXCEPT !.stops = 0]
      <3>1. instance' = [instance EXCEPT ![i] = y] /\ instance[i].manual
        BY <2>3, RouteFacts DEF StopEnds
      <3>2. z \in InstanceStates /\ z.manual = instance[i].manual
        BY RouteFacts DEF InstanceStates
      <3> HIDE DEF z
      <3>3. 0 \in 0 .. 1
        OBVIOUS
      <3>4. y \in InstanceStates /\ y.manual = instance[i].manual
        BY <3>2, <3>3 DEF InstanceStates
      <3> QED BY <3>1, <3>4
    <2> QED BY <2>1, <2>2, <2>3
  <1>4. instance' \in [Instances -> InstanceStates] /\ instance'[i] = y /\ \A j \in Instances : j # i => instance'[j] = instance[j]
    BY <1>3, RouteFacts
  <1>5. /\ indexed' \subseteq Instances /\ indexed \subseteq indexed' /\ timer' \in [Leases -> RouteTimers] /\ hookEvent' \in [Events -> RouteEvents]
        /\ (\A l \in Leases : timer'[l] = timer[l]) /\ (\A e \in Events : hookEvent'[e] = hookEvent[e])
    BY <1>1, RouteFacts
  <1>6. /\ \A j \in Instances : instance'[j].manual = instance[j].manual
        /\ \A j \in Instances : instance'[j].state \in {"starting", "ready"} /\ ~instance'[j].manual => instance[j].state \in {"starting", "ready"}
    BY <1>3, <1>4
  <1> QED BY <1>1, <1>2, <1>4, <1>5, <1>6, InstancesMove

LEMMA LeaseElapsesKeeps ==
  ASSUME RouteInv, NEW l \in Leases, LeaseElapses(l)
  PROVE  RouteInv' /\ TimerHarmless
  <1> DEFINE y == [timer[l] EXCEPT !.state = "fired"]
  <1>1. /\ timer[l].state = "armed" /\ timer' = [timer EXCEPT ![l] = y] /\ UNCHANGED <<instance, indexed, lease, hookEvent, holder, ownedWork, gate>>
    BY DEF LeaseElapses
  <1>2. y \in RouteTimers /\ y.state = "fired"
    BY RouteFacts DEF RouteTimers
  <1> HIDE DEF y
  <1>3. timer' \in [Leases -> RouteTimers] /\ \A k \in Leases : timer[k].state \in {"armed", "fired"} => timer'[k].state \in {"armed", "fired"}
    BY <1>1, <1>2, RouteFacts
  <1>4. /\ instance' \in [Instances -> InstanceStates] /\ indexed' \subseteq Instances /\ hookEvent' \in [Events -> RouteEvents]
        /\ ownedWork' \in Int /\ indexed \subseteq indexed'
    BY <1>1, RouteFacts
  <1> QED BY <1>1, <1>3, <1>4, InstancesMove

LEMMA RoutesClosedKeeps ==
  ASSUME RouteInv, RoutesClosed
  PROVE  RouteInv' /\ TimerHarmless
  <1>1. gate = "closing" /\ gate' = "closed" /\ UNCHANGED <<instance, indexed, lease, timer, hookEvent, holder, ownedWork>>
    BY DEF RoutesClosed
  <1>2. Now' = Now
    BY <1>1 DEF Now
  <1>3. InvokedLive(Now, gate)' /\ LeaseLive(Now, gate)'
    BY <1>1, <1>2 DEF RouteInv, InvokedLive, LeaseLive
  <1>4. TimerHarmless
    BY <1>1 DEF TimerHarmless
  <1> QED BY <1>1, <1>2, <1>3, <1>4 DEF RouteInv

LEMMA RouteStepKeeps ==
  ASSUME RouteInv, [RoutesNext]_routesVars
  PROVE  RouteInv' /\ TimerHarmless
  <1>1. CASE UNCHANGED routesVars
    <2>1. UNCHANGED <<instance, indexed, lease, timer, hookEvent, holder, ownedWork, gate>>
      BY <1>1 DEF routesVars
    <2>2. Now' = Now
      BY <2>1 DEF Now
    <2>3. InvokedLive(Now, gate)' /\ LeaseLive(Now, gate)'
      BY <2>1, <2>2 DEF RouteInv, InvokedLive, LeaseLive
    <2>4. TimerHarmless
      BY <2>1 DEF TimerHarmless
    <2> QED BY <2>1, <2>2, <2>3, <2>4 DEF RouteInv
  <1>2. ASSUME NEW e \in Events, LookupLease(e) \/ LockAbandoned(e) PROVE RouteInv' /\ TimerHarmless
    BY <1>2, LookupLeaseKeeps, NotTriggeredKeeps
  <1>3. ASSUME NEW e \in Events, EventStep(e) PROVE RouteInv' /\ TimerHarmless
    <2>1. CASE RequestFails(e)
      <3>1. /\ hookEvent[e].at = "invoked" /\ UNCHANGED <<instance, indexed, lease, timer, holder, ownedWork, gate>>
            /\ hookEvent' = [hookEvent EXCEPT ![e] = [hookEvent[e] EXCEPT !.at = "ending", !.failed = TRUE]]
        BY <2>1, RouteFacts DEF RequestFails
      <3> QED BY <3>1, EndingKeeps
    <2>2. CASE NotTriggered(e) \/ WaitReady(e) \/ LockRoute(e) \/ BeginInvocation(e) \/ LeaveHandle(e)
      BY <2>2, NotTriggeredKeeps, WaitReadyKeeps, LockRouteKeeps, BeginInvocationKeeps, LeaveHandleKeeps
    <2>3. CASE SetLease(e) \/ Completed(e) \/ EndHandle(e)
      BY <2>3, SetLeaseKeeps, CompletedKeeps, EndHandleKeeps
    <2> QED BY <1>3, <2>1, <2>2, <2>3 DEF EventStep
  <1>4. ASSUME NEW e \in Events, NEW i \in Instances, StartTransient(e, i) PROVE RouteInv' /\ TimerHarmless
    BY <1>4, StartTransientKeeps
  <1>5. ASSUME NEW l \in Leases, LeaseElapses(l) \/ ExpireLease(l) PROVE RouteInv' /\ TimerHarmless
    BY <1>5, LeaseElapsesKeeps, ExpireLeaseKeeps
  <1>6. ASSUME NEW i \in Instances, BecomesReady(i) \/ InstanceExits(i) \/ SweepExited(i) \/ StopEnds(i) PROVE RouteInv' /\ TimerHarmless
    BY <1>6, ProcessKeeps, SweepExitedKeeps
  <1>7. CASE CancelRoute \/ CloseRoutes \/ RoutesClosed
    BY <1>7, CancelRouteKeeps, CloseRoutesKeeps, RoutesClosedKeeps
  <1> QED BY <1>1, <1>2, <1>3, <1>4, <1>5, <1>6, <1>7 DEF RoutesNext

RouteSteps == RoutesInit /\ [][RoutesNext]_routesVars

\* The properties of the routes the invariant gives.
RouteSafe == LeaseIsLive /\ RouteSerial

LEMMA RouteInvSafe == RouteInv => RouteSafe
  <1> SUFFICES ASSUME RouteInv PROVE LeaseIsLive /\ RouteSerial
    BY DEF RouteSafe
  <1>1. LeaseIsLive
    BY NowFields DEF RouteInv, LeaseLive, LeaseIsLive
  <1>2. RouteSerial
    <2> SUFFICES ASSUME NEW e \in Events, NEW f \in Events, e # f, hookEvent[e].of = hookEvent[f].of,
                        hookEvent[e].at \in {"active", "invoked", "ending", "leaving"}
                 PROVE  hookEvent[f].at \in {"starting", "locking"}
      BY DEF RouteSerial
    <2>1. holder[hookEvent[e].of] = e /\ hookEvent[f].at \notin InsideRoute
      BY HookEventFacts DEF InsideRoute
    <2>2. hookEvent[f].of \in Instances /\ Nowhere \notin Instances
      BY HookEventFacts, RoutesAssumption
    <2>3. hookEvent[f].at \notin {"idle", "trigger"} /\ hookEvent[f] \in RouteEvents
      BY <2>2, HookEventFacts
    <2> QED BY <2>1, <2>3 DEF InsideRoute, RouteEvents
  <1> QED BY <1>1, <1>2

\* The route invariant is inductive (runtime/routes.go, worker.go handle): a waiting lease has its
\* timer and a worker nobody stopped, and one event at a time is inside a worker.
THEOREM RouteInductive == RouteSteps => [](RouteInv /\ RouteSafe)
  <1>1. RouteInv /\ [RoutesNext]_routesVars => RouteInv'
    BY RouteStepKeeps
  <1> QED BY <1>1, RouteInitKeeps, RouteInvSafe, PTL DEF RouteSteps

\* A late expiry callback leaves every lease but its own alone (runtime/routes.go expireLease).
THEOREM RouteTimerHarmless == RouteSteps => StaleTimerHarmless
  <1>1. RouteInv /\ [RoutesNext]_routesVars =>
          [\A l \in Leases : timer[l].state = "fired" /\ timer'[l].state = "over" /\ lease # NoLease /\ lease.number # l => lease' = lease]_routesVars
    BY RouteStepKeeps DEF TimerHarmless
  <1>2. RouteSteps => []RouteInv
    BY RouteInductive, PTL
  <1> QED BY <1>1, <1>2, PTL DEF RouteSteps, StaleTimerHarmless
-----------------------------------------------------------------------------
(* The worker of a hook.  A process belongs to the field cmd while it runs, *)
(* and a run between its two looks finds an open channel and no process     *)
(* unless another run is there too.                                         *)

WorkerFields == [status : {"stopped", "starting", "ready", "running", "degraded", "stopping", "failed"},
    cmd : Processes \cup {NoProcess}, starting : BOOLEAN, stopping : BOOLEAN,
    manual : BOOLEAN, active : 0 .. 1, done : {"nil", "open", "closed"}, overlap : BOOLEAN]
RunStates == [at : {"idle", "spawned", "entered", "init", "answered", "failed", "killing"}, proc : Processes \cup {NoProcess}]
StopStates == [at : {"idle", "nothing", "marked", "waiting", "joining", "returned"}, proc : Processes \cup {NoProcess},
               chan : {"none", "current", "replaced", "closed"}, overtaken : BOOLEAN]
Reloads == [commit : {"none", "preparing", "ready", "taken"}, armed : BOOLEAN]
WorkerTypes ==
    /\ worker \in WorkerFields /\ process \in [Processes -> {"unused", "alive", "exited", "reaped"}]
    /\ runTask \in [RunTasks -> RunStates] /\ stopper \in [Stoppers -> StopStates]
    /\ restarts \in 0 .. MaxRestartTasks
    /\ reload \in Reloads
    /\ host \in {"open", "closed", "done"} /\ episode \in {"stops", "events"}

LEMMA TypesAgree == WorkerTypeOK <=> WorkerTypes
  BY DEF WorkerTypeOK, WorkerTypes, WorkerFields, RunStates, StopStates, Reloads

\* cmd is a process that runs; who starts or stops without one is on the way.
ProcessKnown ==
    /\ OneProcess
    /\ worker.cmd # NoProcess => process[worker.cmd] \in {"alive", "exited"}
    /\ worker.starting => \E r \in RunTasks : runTask[r].at \in {"entered", "failed"}
    /\ worker.stopping /\ worker.cmd = NoProcess => \E s \in Stoppers : stopper[s].at = "nothing"

\* What a stop knows of cmd while nobody asks for a start.
StopKnows(st) ==
    /\ worker.manual
    /\ st.at \in {"marked", "waiting"} => worker.cmd \in {st.proc, NoProcess}
    /\ st.at = "nothing" => worker.cmd = NoProcess
    /\ st.at = "joining" /\ st.chan = "closed" => worker.cmd = NoProcess
    /\ st.at = "returned" /\ ~worker.overlap => worker.cmd = NoProcess

StopsSound == \A s \in Stoppers :
    /\ stopper[s].at \in {"marked", "waiting"} => stopper[s].proc # NoProcess
    /\ stopper[s].at # "idle" /\ ~stopper[s].overtaken => StopKnows(stopper[s])

StartsApart == ~worker.overlap =>
    /\ \A r \in RunTasks : runTask[r].at = "entered" => worker.cmd = NoProcess /\ worker.done = "open"
    /\ \A r, q \in RunTasks : runTask[r].at = "entered" /\ runTask[q].at = "entered" => r = q
    /\ worker.cmd # NoProcess => worker.done = "open"

ReloadArmed == reload.armed => reload.commit = "ready" /\ worker.active # 0

WorkerInv == WorkerTypes /\ ProcessKnown /\ StopsSound /\ StartsApart /\ RestartScheduled /\ ReloadArmed /\ HostDoneLast

WorkerSafe ==
    /\ OneProcess /\ StopMeansStopped /\ DoneClosedOnce
    /\ RestartScheduled /\ ReloadNotForgotten /\ HostDoneLast

LEMMA WorkerInvSafe == WorkerInv => WorkerSafe
  <1> SUFFICES ASSUME WorkerInv PROVE StopMeansStopped /\ DoneClosedOnce /\ ReloadNotForgotten
    BY DEF WorkerInv, ProcessKnown, WorkerSafe
  <1>1. StopMeansStopped
    BY WorkerAssumption DEF StopMeansStopped, WorkerInv, ProcessKnown, OneProcess, StopsSound, StopKnows
  <1>2. DoneClosedOnce
    BY WorkerAssumption DEF DoneClosedOnce, WorkerInv, ProcessKnown, OneProcess, StartsApart
  <1> QED BY <1>1, <1>2 DEF ReloadNotForgotten, WorkerInv, ReloadArmed

LEMMA WorkerInitKeeps == WorkerInit => WorkerInv
  <1> SUFFICES ASSUME WorkerInit PROVE WorkerInv
    OBVIOUS
  <1>1. WorkerTypes
    BY WorkerAssumption DEF WorkerInit, WorkerTypes, WorkerFields, RunStates, StopStates, Reloads, NoRun, NoStop
  <1> QED BY <1>1, WorkerAssumption DEF WorkerInit, WorkerInv, ProcessKnown, OneProcess, StopsSound, StartsApart, RestartScheduled,
     ReloadArmed, HostDoneLast, NoRun, NoStop

\* startTask(w.run) has found a free goroutine.
LEMMA Spawned ==
  ASSUME Spawn
  PROVE  \E r \in RunTasks : runTask[r].at = "idle" /\ runTask' = [runTask EXCEPT ![r].at = "spawned"]
  BY DEF Spawn

\* What RunEnter, Launch and StoppingWorker come to.
RunBounces(r) ==
    /\ runTask[r].at = "spawned" /\ runTask' = [runTask EXCEPT ![r] = NoRun]
    /\ worker.cmd # NoProcess \/ worker.starting \/ worker.stopping \/ worker.manual
    /\ UNCHANGED <<worker, stopper, process, restarts, reload, host, episode>>
RunEnters(r) ==
    /\ runTask[r].at = "spawned" /\ runTask' = [runTask EXCEPT ![r].at = "entered"]
    /\ worker.cmd = NoProcess /\ ~worker.starting /\ ~worker.stopping /\ ~worker.manual
    /\ worker' = [worker EXCEPT !.starting = TRUE, !.status = "starting", !.done = "open",
                                !.overlap = @ \/ \E q \in RunTasks : runTask[q].at = "entered"]
    /\ stopper' = Rechanneled("replaced")
    /\ UNCHANGED <<process, restarts, reload, host, episode>>
Launches(r, p) ==
    /\ runTask[r].at = "entered" /\ runTask' = [runTask EXCEPT ![r] = [at |-> "init", proc |-> p]]
    /\ Launchable /\ worker' = [worker EXCEPT !.cmd = p, !.starting = FALSE]
    /\ process[p] = "unused" /\ process' = [process EXCEPT ![p] = "alive"]
    /\ UNCHANGED <<stopper, restarts, reload, host, episode>>
LaunchDropped(r) ==
    /\ runTask[r].at = "entered" /\ runTask' = [runTask EXCEPT ![r] = NoRun]
    /\ worker' = [worker EXCEPT !.starting = FALSE, !.status = "stopped"]
    /\ UNCHANGED <<stopper, process, restarts, reload, host, episode>>
LaunchFails(r) ==
    /\ runTask[r].at = "entered" /\ runTask' = [runTask EXCEPT ![r].at = "failed"]
    /\ UNCHANGED <<worker, stopper, process, restarts, reload, host, episode>>
StopJoins(s) ==
    /\ worker.stopping /\ stopper[s].at = "idle"
    /\ \E at \in {"joining", "returned"}, chan \in {"none", "current"}, late \in BOOLEAN :
          /\ stopper' = [stopper EXCEPT ![s] = [at |-> at, proc |-> NoProcess, chan |-> chan, overtaken |-> late]]
          /\ late = ~worker.manual /\ (at = "returned" => worker.done # "open")
    /\ UNCHANGED <<worker, process, runTask, restarts, host, episode>>
StopMarks(s) ==
    /\ ~worker.stopping /\ stopper[s].at = "idle"
    /\ worker' = [worker EXCEPT !.stopping = TRUE, !.manual = TRUE]
    /\ \E at \in {"nothing", "marked"} :
          /\ at = "nothing" <=> worker.cmd = NoProcess
          /\ stopper' = [stopper EXCEPT ![s] = [at |-> at, proc |-> worker.cmd, chan |-> "none", overtaken |-> FALSE]]
    /\ UNCHANGED <<process, runTask, restarts, host, episode>>
ReloadStands == reload' = reload \/ (reload.commit = "taken" /\ reload' = [reload EXCEPT !.commit = "none"])

LEMMA RunCases ==
  ASSUME WorkerTypes, NEW r \in RunTasks
  PROVE  /\ RunEnter(r) => RunBounces(r) \/ RunEnters(r)
         /\ Launch(r) => (\E p \in Processes : Launches(r, p)) \/ LaunchDropped(r) \/ LaunchFails(r)
  <1>1. RunEnter(r) => RunBounces(r) \/ RunEnters(r)
    <2> SUFFICES ASSUME RunEnter(r) PROVE RunBounces(r) \/ RunEnters(r)
      OBVIOUS
    <2>1. CASE worker.cmd # NoProcess \/ worker.starting \/ worker.stopping \/ worker.manual
      <3>1. runTask'[r].at = "idle"
        BY <2>1 DEF RunEnter, WorkerTypes, NoRun
      <3> QED BY <2>1, <3>1 DEF RunEnter, RunBounces
    <2>2. CASE ~(worker.cmd # NoProcess \/ worker.starting \/ worker.stopping \/ worker.manual)
      <3>1. runTask'[r].at = "entered"
        BY <2>2 DEF RunEnter, WorkerTypes, RunStates
      <3> QED BY <2>2, <3>1 DEF RunEnter, RunEnters
    <2> QED BY <2>1, <2>2
  <1>2. Launch(r) => (\E p \in Processes : Launches(r, p)) \/ LaunchDropped(r) \/ LaunchFails(r)
    BY DEF Launch, Launches, LaunchDropped, LaunchFails
  <1> QED BY <1>1, <1>2

LEMMA StopCases ==
  ASSUME WorkerTypes, NEW s \in Stoppers, stopper[s].at = "idle", StoppingWorker(s), UNCHANGED <<process, runTask, restarts, host, episode>>
  PROVE  StopJoins(s) \/ StopMarks(s)
  <1>1. (~worker.manual) \in BOOLEAN
    OBVIOUS
  <1>2. CASE worker.stopping /\ worker.done = "open"
    BY <1>1, <1>2 DEF StoppingWorker, StopJoins, NoStop
  <1>3. CASE worker.stopping /\ worker.done # "open"
    BY <1>1, <1>3 DEF StoppingWorker, StopJoins, NoStop
  <1>4. CASE ~worker.stopping
    BY <1>4 DEF StoppingWorker, StopMarks, NoStop
  <1> QED BY <1>2, <1>3, <1>4

LEMMA WorkerUpdates ==
  ASSUME worker \in WorkerFields
  PROVE  /\ \A x \in 0 .. 1 : [worker EXCEPT !.active = x, !.status = "running"] \in WorkerFields
         /\ \A x \in 0 .. 1, t \in {"ready", worker.status} : [worker EXCEPT !.active = x, !.status = t] \in WorkerFields
         /\ [worker EXCEPT !.manual = FALSE] \in WorkerFields
  <1>1. [worker EXCEPT !.manual = FALSE] \in WorkerFields
    BY DEF WorkerFields
  <1>2. /\ \A x \in 0 .. 1 : [worker EXCEPT !.active = x, !.status = "running"] \in WorkerFields
        /\ \A x \in 0 .. 1, t \in {"ready", worker.status} : [worker EXCEPT !.active = x, !.status = t] \in WorkerFields
    BY DEF WorkerFields
  <1> QED BY <1>1, <1>2

\* StartWorker overtakes the stops under way.
LEMMA StopsOvertaken ==
  ASSUME stopper \in [Stoppers -> StopStates]
  PROVE  [s \in Stoppers |-> [stopper[s] EXCEPT !.overtaken = @ \/ stopper[s].at # "idle"]] \in [Stoppers -> StopStates]
  <1> SUFFICES ASSUME NEW s \in Stoppers PROVE [stopper[s] EXCEPT !.overtaken = @ \/ stopper[s].at # "idle"] \in StopStates
    OBVIOUS
  <1>1. (stopper[s].overtaken \/ stopper[s].at # "idle") \in BOOLEAN /\ stopper[s] \in StopStates
    OBVIOUS
  <1> QED BY <1>1 DEF StopStates

\* takeReloadLocked: what is taken is armed no more.
LEMMA TakenFields ==
  ASSUME NEW rl \in Reloads, NEW active \in 0 .. 1
  PROVE  /\ Taken(rl, active) \in Reloads
         /\ Taken(rl, active).armed /\ (rl.armed => rl.commit = "ready") => Taken(rl, active).commit = "ready" /\ active # 0
  BY DEF Taken, Reloads

LEMMA StartWorkerKeeps ==
  ASSUME WorkerInv, StartWorker
  PROVE  WorkerInv'
  <1>1. WorkerTypes'
    <2>1. worker' \in WorkerFields
      BY WorkerUpdates DEF StartWorker, WorkerInv, WorkerTypes
    <2>2. runTask' \in [RunTasks -> RunStates]
      BY Spawned DEF StartWorker, WorkerInv, WorkerTypes, RunStates
    <2>3. stopper' \in [Stoppers -> StopStates]
      BY StopsOvertaken DEF StartWorker, WorkerInv, WorkerTypes
    <2> QED BY <2>1, <2>2, <2>3 DEF StartWorker, WorkerInv, WorkerTypes
  <1> USE WorkerAssumption DEF WorkerInv, WorkerTypes, WorkerFields, RunStates, StopStates, Reloads, StartWorker
  <1>p. PICK r \in RunTasks : runTask[r].at = "idle" /\ runTask' = [runTask EXCEPT ![r].at = "spawned"]
    BY Spawned
  <1> USE DEF ProcessKnown, OneProcess, StopsSound, StopKnows, StartsApart, RestartScheduled, AutoRestart, ReloadArmed, HostDoneLast
  <1>2. ProcessKnown' BY <1>p
  <1>3. StopsSound' BY <1>p
  <1>4. StartsApart' BY <1>p
  <1>5. RestartScheduled' BY <1>p
  <1>6. ReloadArmed' BY <1>p
  <1>7. HostDoneLast' BY <1>p
  <1> QED BY <1>1, <1>2, <1>3, <1>4, <1>5, <1>6, <1>7

LEMMA RestartFiresKeeps ==
  ASSUME WorkerInv, RestartFires
  PROVE  WorkerInv'
  <1> USE WorkerAssumption DEF WorkerInv, WorkerTypes, WorkerFields, RunStates, StopStates, Reloads, RestartFires
  <1>p. \/ runTask' = runTask /\ host # "open"
        \/ \E r \in RunTasks : runTask[r].at = "idle" /\ runTask' = [runTask EXCEPT ![r].at = "spawned"]
    BY Spawned
  <1>1. WorkerTypes'
    <2>1. runTask' \in [RunTasks -> RunStates]
      BY <1>p
    <2>2. restarts' \in 0 .. MaxRestartTasks
      BY <1>p
    <2> QED BY <2>1, <2>2
  <1> USE DEF ProcessKnown, OneProcess, StopsSound, StopKnows, StartsApart, RestartScheduled, AutoRestart, ReloadArmed, HostDoneLast
  <1>2. ProcessKnown' BY <1>p
  <1>3. StopsSound' BY <1>p
  <1>4. StartsApart'
    <2>1. \A q \in RunTasks : runTask'[q].at = "entered" => runTask[q].at = "entered"
      BY <1>p
    <2> QED BY <2>1
  <1>5. RestartScheduled' BY <1>p
  <1>6. ReloadArmed' BY <1>p
  <1>7. HostDoneLast' BY <1>p
  <1> QED BY <1>1, <1>2, <1>3, <1>4, <1>5, <1>6, <1>7

LEMMA CloseHostKeeps ==
  ASSUME WorkerInv, CloseHost
  PROVE  WorkerInv'
  <1> USE WorkerAssumption DEF WorkerInv, WorkerTypes, WorkerFields, RunStates, StopStates, Reloads, CloseHost
  <1>1. WorkerTypes' OBVIOUS
  <1> USE DEF ProcessKnown, OneProcess, StopsSound, StopKnows, StartsApart, RestartScheduled, AutoRestart, ReloadArmed, HostDoneLast
  <1>2. ProcessKnown' OBVIOUS
  <1>3. StopsSound' OBVIOUS
  <1>4. StartsApart' OBVIOUS
  <1>5. RestartScheduled' OBVIOUS
  <1>6. ReloadArmed' OBVIOUS
  <1>7. HostDoneLast' OBVIOUS
  <1> QED BY <1>1, <1>2, <1>3, <1>4, <1>5, <1>6, <1>7

LEMMA FinishCloseKeeps ==
  ASSUME WorkerInv, FinishClose
  PROVE  WorkerInv'
  <1> USE WorkerAssumption DEF WorkerInv, WorkerTypes, WorkerFields, RunStates, StopStates, Reloads, FinishClose, HostJoined
  <1>1. WorkerTypes' OBVIOUS
  <1> USE DEF ProcessKnown, OneProcess, StopsSound, StopKnows, StartsApart, RestartScheduled, AutoRestart, ReloadArmed, HostDoneLast
  <1>2. ProcessKnown' OBVIOUS
  <1>3. StopsSound' OBVIOUS
  <1>4. StartsApart' OBVIOUS
  <1>5. RestartScheduled' OBVIOUS
  <1>6. ReloadArmed' OBVIOUS
  <1>7. HostDoneLast' OBVIOUS
  <1> QED BY <1>1, <1>2, <1>3, <1>4, <1>5, <1>6, <1>7

LEMMA BeginHandleKeeps ==
  ASSUME WorkerInv, BeginHandle
  PROVE  WorkerInv'
  <1> USE WorkerAssumption DEF WorkerInv, WorkerTypes, WorkerFields, RunStates, StopStates, Reloads, BeginHandle
  <1>1. WorkerTypes'
    <2>1. worker' \in WorkerFields
      BY WorkerUpdates
    <2> QED BY <2>1
  <1> USE DEF ProcessKnown, OneProcess, StopsSound, StopKnows, StartsApart, RestartScheduled, AutoRestart, ReloadArmed, HostDoneLast
  <1>2. ProcessKnown' OBVIOUS
  <1>3. StopsSound' OBVIOUS
  <1>4. StartsApart' OBVIOUS
  <1>5. RestartScheduled' OBVIOUS
  <1>6. ReloadArmed' OBVIOUS
  <1>7. HostDoneLast' OBVIOUS
  <1> QED BY <1>1, <1>2, <1>3, <1>4, <1>5, <1>6, <1>7

LEMMA FinishHandleKeeps ==
  ASSUME WorkerInv, FinishHandle
  PROVE  WorkerInv'
  <1>1. WorkerTypes'
    <2>1. worker' \in WorkerFields
      <3>1. worker' = [worker EXCEPT !.active = 0, !.status = IF worker.status = "running" THEN "ready" ELSE worker.status]
        BY DEF FinishHandle
      <3>2. worker \in WorkerFields
        BY DEF WorkerInv, WorkerTypes
      <3>3. PICK x \in 0 .. 1, t \in {"ready", worker.status} : worker' = [worker EXCEPT !.active = x, !.status = t]
        <4> DEFINE t == IF worker.status = "running" THEN "ready" ELSE worker.status
        <4>1. t \in {"ready", worker.status} /\ 0 \in 0 .. 1 /\ worker' = [worker EXCEPT !.active = 0, !.status = t]
          BY <3>1
        <4> HIDE DEF t
        <4> QED BY <4>1
      <3> QED BY <3>2, <3>3, WorkerUpdates
    <2>2. reload' \in Reloads
      BY TakenFields DEF FinishHandle, WorkerInv, WorkerTypes
    <2> QED BY <2>1, <2>2 DEF FinishHandle, WorkerInv, WorkerTypes
  <1> USE WorkerAssumption DEF WorkerInv, WorkerTypes, WorkerFields, RunStates, StopStates, FinishHandle
  <1> USE DEF ProcessKnown, OneProcess, StopsSound, StopKnows, StartsApart, RestartScheduled, AutoRestart, ReloadArmed, HostDoneLast
  <1>2. ProcessKnown' OBVIOUS
  <1>3. StopsSound' OBVIOUS
  <1>4. StartsApart' OBVIOUS
  <1>5. RestartScheduled' OBVIOUS
  <1>6. ReloadArmed' BY TakenFields
  <1>7. HostDoneLast' OBVIOUS
  <1> QED BY <1>1, <1>2, <1>3, <1>4, <1>5, <1>6, <1>7

LEMMA PrepareReloadKeeps ==
  ASSUME WorkerInv, PrepareReload
  PROVE  WorkerInv'
  <1> USE WorkerAssumption DEF WorkerInv, WorkerTypes, WorkerFields, RunStates, StopStates, Reloads, PrepareReload
  <1>1. WorkerTypes' OBVIOUS
  <1> USE DEF ProcessKnown, OneProcess, StopsSound, StopKnows, StartsApart, RestartScheduled, AutoRestart, ReloadArmed, HostDoneLast
  <1>2. ProcessKnown' OBVIOUS
  <1>3. StopsSound' OBVIOUS
  <1>4. StartsApart' OBVIOUS
  <1>5. RestartScheduled' OBVIOUS
  <1>6. ReloadArmed' OBVIOUS
  <1>7. HostDoneLast' OBVIOUS
  <1> QED BY <1>1, <1>2, <1>3, <1>4, <1>5, <1>6, <1>7

LEMMA PreparedKeeps ==
  ASSUME WorkerInv, Prepared
  PROVE  WorkerInv'
  <1> USE WorkerAssumption DEF WorkerInv, WorkerTypes, WorkerFields, RunStates, StopStates, Reloads, Prepared
  <1>1. WorkerTypes' OBVIOUS
  <1> USE DEF ProcessKnown, OneProcess, StopsSound, StopKnows, StartsApart, RestartScheduled, AutoRestart, ReloadArmed, HostDoneLast
  <1>2. ProcessKnown' OBVIOUS
  <1>3. StopsSound' OBVIOUS
  <1>4. StartsApart' OBVIOUS
  <1>5. RestartScheduled' OBVIOUS
  <1>6. ReloadArmed' OBVIOUS
  <1>7. HostDoneLast' OBVIOUS
  <1> QED BY <1>1, <1>2, <1>3, <1>4, <1>5, <1>6, <1>7

LEMMA ArmReloadKeeps ==
  ASSUME WorkerInv, ArmReload
  PROVE  WorkerInv'
  <1>a. [reload EXCEPT !.armed = TRUE] \in Reloads /\ [commit |-> "none", armed |-> FALSE] \in Reloads
    BY DEF Reloads, WorkerInv, WorkerTypes
  <1>b. worker.active \in 0 .. 1
    BY DEF WorkerInv, WorkerTypes, WorkerFields
  <1>1. WorkerTypes'
    <2>1. reload' \in Reloads
      BY <1>a, <1>b, TakenFields DEF ArmReload
    <2> QED BY <2>1 DEF ArmReload, WorkerInv, WorkerTypes
  <1> USE WorkerAssumption DEF WorkerInv, WorkerTypes, WorkerFields, RunStates, StopStates, ArmReload
  <1> USE DEF ProcessKnown, OneProcess, StopsSound, StopKnows, StartsApart, RestartScheduled, AutoRestart, ReloadArmed, HostDoneLast
  <1>2. ProcessKnown' OBVIOUS
  <1>3. StopsSound' OBVIOUS
  <1>4. StartsApart' OBVIOUS
  <1>5. RestartScheduled' OBVIOUS
  <1>6. ReloadArmed' BY <1>a, TakenFields DEF Reloads
  <1>7. HostDoneLast' OBVIOUS
  <1> QED BY <1>1, <1>2, <1>3, <1>4, <1>5, <1>6, <1>7

LEMMA RunBouncesKeeps ==
  ASSUME NEW r \in RunTasks, WorkerInv, RunBounces(r)
  PROVE  WorkerInv'
  <1> USE WorkerAssumption DEF WorkerInv, WorkerTypes, WorkerFields, RunStates, StopStates, Reloads, RunBounces, NoRun
  <1>1. WorkerTypes' OBVIOUS
  <1> USE DEF ProcessKnown, OneProcess, StopsSound, StopKnows, StartsApart, RestartScheduled, AutoRestart, ReloadArmed, HostDoneLast
  <1>2. ProcessKnown' OBVIOUS
  <1>3. StopsSound' OBVIOUS
  <1>4. StartsApart' OBVIOUS
  <1>5. RestartScheduled' OBVIOUS
  <1>6. ReloadArmed' OBVIOUS
  <1>7. HostDoneLast' OBVIOUS
  <1> QED BY <1>1, <1>2, <1>3, <1>4, <1>5, <1>6, <1>7

LEMMA RunEntersKeeps ==
  ASSUME NEW r \in RunTasks, WorkerInv, RunEnters(r)
  PROVE  WorkerInv'
  <1> USE WorkerAssumption DEF WorkerInv, WorkerTypes, WorkerFields, RunStates, StopStates, Reloads, RunEnters, Rechanneled
  <1>1. WorkerTypes'
    <2>1. worker' \in WorkerFields
      OBVIOUS
    <2>2. runTask' \in [RunTasks -> RunStates]
      OBVIOUS
    <2>3. stopper' \in [Stoppers -> StopStates]
      OBVIOUS
    <2> QED BY <2>1, <2>2, <2>3
  <1> USE DEF ProcessKnown, OneProcess, StopsSound, StopKnows, StartsApart, RestartScheduled, AutoRestart, ReloadArmed, HostDoneLast
  <1>2. ProcessKnown' OBVIOUS
  <1>3. StopsSound' OBVIOUS
  <1>4. StartsApart'
    <2>1. /\ ~worker'.overlap => \A q \in RunTasks : runTask'[q].at = "entered" => q = r
          /\ worker'.cmd = NoProcess /\ worker'.done = "open"
      OBVIOUS
    <2> QED BY <2>1
  <1>5. RestartScheduled' OBVIOUS
  <1>6. ReloadArmed' OBVIOUS
  <1>7. HostDoneLast' OBVIOUS
  <1> QED BY <1>1, <1>2, <1>3, <1>4, <1>5, <1>6, <1>7

LEMMA LaunchesKeeps ==
  ASSUME NEW r \in RunTasks, NEW p \in Processes, WorkerInv, Launches(r, p)
  PROVE  WorkerInv'
  <1> USE WorkerAssumption DEF WorkerInv, WorkerTypes, WorkerFields, RunStates, StopStates, Reloads, Launches, Launchable
  <1>1. WorkerTypes'
    <2>1. worker' \in WorkerFields
      OBVIOUS
    <2>2. runTask' \in [RunTasks -> RunStates]
      OBVIOUS
    <2>3. process' \in [Processes -> {"unused", "alive", "exited", "reaped"}]
      OBVIOUS
    <2> QED BY <2>1, <2>2, <2>3
  <1> USE DEF ProcessKnown, OneProcess, StopsSound, StopKnows, StartsApart, RestartScheduled, AutoRestart, ReloadArmed, HostDoneLast
  <1>2. ProcessKnown' OBVIOUS
  <1>3. StopsSound' OBVIOUS
  <1>4. StartsApart' OBVIOUS
  <1>5. RestartScheduled' OBVIOUS
  <1>6. ReloadArmed' OBVIOUS
  <1>7. HostDoneLast' OBVIOUS
  <1> QED BY <1>1, <1>2, <1>3, <1>4, <1>5, <1>6, <1>7

LEMMA LaunchDroppedKeeps ==
  ASSUME NEW r \in RunTasks, WorkerInv, LaunchDropped(r)
  PROVE  WorkerInv'
  <1> USE WorkerAssumption DEF WorkerInv, WorkerTypes, WorkerFields, RunStates, StopStates, Reloads, LaunchDropped, NoRun
  <1>1. WorkerTypes' OBVIOUS
  <1> USE DEF ProcessKnown, OneProcess, StopsSound, StopKnows, StartsApart, RestartScheduled, AutoRestart, ReloadArmed, HostDoneLast
  <1>2. ProcessKnown' OBVIOUS
  <1>3. StopsSound' OBVIOUS
  <1>4. StartsApart' OBVIOUS
  <1>5. RestartScheduled' OBVIOUS
  <1>6. ReloadArmed' OBVIOUS
  <1>7. HostDoneLast' OBVIOUS
  <1> QED BY <1>1, <1>2, <1>3, <1>4, <1>5, <1>6, <1>7

LEMMA LaunchFailsKeeps ==
  ASSUME NEW r \in RunTasks, WorkerInv, LaunchFails(r)
  PROVE  WorkerInv'
  <1> USE WorkerAssumption DEF WorkerInv, WorkerTypes, WorkerFields, RunStates, StopStates, Reloads, LaunchFails
  <1>1. WorkerTypes' OBVIOUS
  <1> USE DEF ProcessKnown, OneProcess, StopsSound, StopKnows, StartsApart, RestartScheduled, AutoRestart, ReloadArmed, HostDoneLast
  <1>2. ProcessKnown' OBVIOUS
  <1>3. StopsSound' OBVIOUS
  <1>4. StartsApart' OBVIOUS
  <1>5. RestartScheduled' OBVIOUS
  <1>6. ReloadArmed' OBVIOUS
  <1>7. HostDoneLast' OBVIOUS
  <1> QED BY <1>1, <1>2, <1>3, <1>4, <1>5, <1>6, <1>7

LEMMA InitAnswerKeeps ==
  ASSUME NEW r \in RunTasks, WorkerInv, InitAnswer(r)
  PROVE  WorkerInv'
  <1> USE WorkerAssumption DEF WorkerInv, WorkerTypes, WorkerFields, RunStates, StopStates, Reloads, InitAnswer
  <1>1. WorkerTypes' OBVIOUS
  <1> USE DEF ProcessKnown, OneProcess, StopsSound, StopKnows, StartsApart, RestartScheduled, AutoRestart, ReloadArmed, HostDoneLast
  <1>2. ProcessKnown' OBVIOUS
  <1>3. StopsSound' OBVIOUS
  <1>4. StartsApart' OBVIOUS
  <1>5. RestartScheduled' OBVIOUS
  <1>6. ReloadArmed' OBVIOUS
  <1>7. HostDoneLast' OBVIOUS
  <1> QED BY <1>1, <1>2, <1>3, <1>4, <1>5, <1>6, <1>7

LEMMA BecomeReadyKeeps ==
  ASSUME NEW r \in RunTasks, WorkerInv, BecomeReady(r)
  PROVE  WorkerInv'
  <1> USE WorkerAssumption DEF WorkerInv, WorkerTypes, WorkerFields, RunStates, StopStates, Reloads, BecomeReady, NoRun
  <1>1. WorkerTypes' OBVIOUS
  <1> USE DEF ProcessKnown, OneProcess, StopsSound, StopKnows, StartsApart, RestartScheduled, AutoRestart, ReloadArmed, HostDoneLast
  <1>2. ProcessKnown' OBVIOUS
  <1>3. StopsSound' OBVIOUS
  <1>4. StartsApart' OBVIOUS
  <1>5. RestartScheduled' OBVIOUS
  <1>6. ReloadArmed' OBVIOUS
  <1>7. HostDoneLast' OBVIOUS
  <1> QED BY <1>1, <1>2, <1>3, <1>4, <1>5, <1>6, <1>7

LEMMA StartFailedKeeps ==
  ASSUME NEW r \in RunTasks, WorkerInv, StartFailed(r)
  PROVE  WorkerInv'
  <1> USE WorkerAssumption DEF WorkerInv, WorkerTypes, WorkerFields, RunStates, StopStates, Reloads, StartFailed, NoRun, RestartAfterFailedStart
  <1>1. WorkerTypes'
    <2>1. worker' \in WorkerFields
      OBVIOUS
    <2>2. runTask' \in [RunTasks -> RunStates]
      OBVIOUS
    <2>3. restarts' \in 0 .. MaxRestartTasks
      OBVIOUS
    <2> QED BY <2>1, <2>2, <2>3
  <1> USE DEF ProcessKnown, OneProcess, StopsSound, StopKnows, StartsApart, RestartScheduled, AutoRestart, ReloadArmed, HostDoneLast
  <1>2. ProcessKnown' OBVIOUS
  <1>3. StopsSound' OBVIOUS
  <1>4. StartsApart' OBVIOUS
  <1>5. RestartScheduled' OBVIOUS
  <1>6. ReloadArmed' OBVIOUS
  <1>7. HostDoneLast' OBVIOUS
  <1> QED BY <1>1, <1>2, <1>3, <1>4, <1>5, <1>6, <1>7

LEMMA KillStartedKeeps ==
  ASSUME NEW r \in RunTasks, WorkerInv, KillStarted(r)
  PROVE  WorkerInv'
  <1> USE WorkerAssumption DEF WorkerInv, WorkerTypes, WorkerFields, RunStates, StopStates, Reloads, KillStarted, NoRun, Killed
  <1>1. WorkerTypes' OBVIOUS
  <1> USE DEF ProcessKnown, OneProcess, StopsSound, StopKnows, StartsApart, RestartScheduled, AutoRestart, ReloadArmed, HostDoneLast
  <1>2. ProcessKnown' OBVIOUS
  <1>3. StopsSound' OBVIOUS
  <1>4. StartsApart' OBVIOUS
  <1>5. RestartScheduled' OBVIOUS
  <1>6. ReloadArmed' OBVIOUS
  <1>7. HostDoneLast' OBVIOUS
  <1> QED BY <1>1, <1>2, <1>3, <1>4, <1>5, <1>6, <1>7

LEMMA ProcessExitsKeeps ==
  ASSUME NEW p \in Processes, WorkerInv, ProcessExits(p)
  PROVE  WorkerInv'
  <1> USE WorkerAssumption DEF WorkerInv, WorkerTypes, WorkerFields, RunStates, StopStates, Reloads, ProcessExits
  <1>1. WorkerTypes' OBVIOUS
  <1> USE DEF ProcessKnown, OneProcess, StopsSound, StopKnows, StartsApart, RestartScheduled, AutoRestart, ReloadArmed, HostDoneLast
  <1>2. ProcessKnown' OBVIOUS
  <1>3. StopsSound' OBVIOUS
  <1>4. StartsApart' OBVIOUS
  <1>5. RestartScheduled' OBVIOUS
  <1>6. ReloadArmed' OBVIOUS
  <1>7. HostDoneLast' OBVIOUS
  <1> QED BY <1>1, <1>2, <1>3, <1>4, <1>5, <1>6, <1>7

LEMMA WaitLoopKeeps ==
  ASSUME NEW p \in Processes, WorkerInv, WaitLoop(p)
  PROVE  WorkerInv'
  <1> USE WorkerAssumption DEF WorkerInv, WorkerTypes, WorkerFields, RunStates, StopStates, Reloads, WaitLoop, Unwanted, AfterExit, Rechanneled
  <1>1. WorkerTypes'
    <2>1. worker' \in WorkerFields
      OBVIOUS
    <2>2. process' \in [Processes -> {"unused", "alive", "exited", "reaped"}]
      OBVIOUS
    <2>3. stopper' \in [Stoppers -> StopStates]
      OBVIOUS
    <2>4. restarts' \in 0 .. MaxRestartTasks
      OBVIOUS
    <2> QED BY <2>1, <2>2, <2>3, <2>4
  <1> USE DEF ProcessKnown, OneProcess, StopsSound, StopKnows, StartsApart, RestartScheduled, AutoRestart, ReloadArmed, HostDoneLast
  <1>2. ProcessKnown' OBVIOUS
  <1>3. StopsSound' OBVIOUS
  <1>4. StartsApart' OBVIOUS
  <1>5. RestartScheduled' OBVIOUS
  <1>6. ReloadArmed' OBVIOUS
  <1>7. HostDoneLast' OBVIOUS
  <1> QED BY <1>1, <1>2, <1>3, <1>4, <1>5, <1>6, <1>7

LEMMA StopJoinsKeeps ==
  ASSUME NEW s \in Stoppers, WorkerInv, StopJoins(s), ReloadStands
  PROVE  WorkerInv'
  <1> USE WorkerAssumption DEF WorkerInv, WorkerTypes, WorkerFields, RunStates, StopStates, Reloads, StopJoins, ReloadStands
  <1>p. PICK at \in {"joining", "returned"}, chan \in {"none", "current"}, late \in BOOLEAN :
          /\ stopper' = [stopper EXCEPT ![s] = [at |-> at, proc |-> NoProcess, chan |-> chan, overtaken |-> late]]
          /\ late = ~worker.manual /\ (at = "returned" => worker.done # "open")
    OBVIOUS
  <1>1. WorkerTypes'
    <2>1. stopper' \in [Stoppers -> StopStates]
      BY <1>p
    <2>2. reload' \in Reloads
      BY <1>p
    <2> QED BY <2>1, <2>2
  <1> USE DEF ProcessKnown, OneProcess, StopsSound, StopKnows, StartsApart, RestartScheduled, AutoRestart, ReloadArmed, HostDoneLast
  <1>2. ProcessKnown' BY <1>p
  <1>3. StopsSound' BY <1>p
  <1>4. StartsApart' BY <1>p
  <1>5. RestartScheduled' BY <1>p
  <1>6. ReloadArmed' BY <1>p
  <1>7. HostDoneLast' BY <1>p
  <1> QED BY <1>1, <1>2, <1>3, <1>4, <1>5, <1>6, <1>7

LEMMA StopMarksKeeps ==
  ASSUME NEW s \in Stoppers, WorkerInv, StopMarks(s), ReloadStands
  PROVE  WorkerInv'
  <1> USE WorkerAssumption DEF WorkerInv, WorkerTypes, WorkerFields, RunStates, StopStates, Reloads, StopMarks, ReloadStands
  <1>p. PICK at \in {"nothing", "marked"} :
          /\ at = "nothing" <=> worker.cmd = NoProcess
          /\ stopper' = [stopper EXCEPT ![s] = [at |-> at, proc |-> worker.cmd, chan |-> "none", overtaken |-> FALSE]]
    OBVIOUS
  <1>1. WorkerTypes'
    <2>1. worker' \in WorkerFields
      BY <1>p
    <2>2. stopper' \in [Stoppers -> StopStates]
      BY <1>p
    <2>3. reload' \in Reloads
      BY <1>p
    <2> QED BY <2>1, <2>2, <2>3
  <1> USE DEF ProcessKnown, OneProcess, StopsSound, StopKnows, StartsApart, RestartScheduled, AutoRestart, ReloadArmed, HostDoneLast
  <1>2. ProcessKnown' BY <1>p
  <1>3. StopsSound' BY <1>p
  <1>4. StartsApart' BY <1>p
  <1>5. RestartScheduled' BY <1>p
  <1>6. ReloadArmed' BY <1>p
  <1>7. HostDoneLast' BY <1>p
  <1> QED BY <1>1, <1>2, <1>3, <1>4, <1>5, <1>6, <1>7

LEMMA StopNothingKeeps ==
  ASSUME NEW s \in Stoppers, WorkerInv, StopNothing(s)
  PROVE  WorkerInv'
  <1> USE WorkerAssumption DEF WorkerInv, WorkerTypes, WorkerFields, RunStates, StopStates, Reloads, StopNothing, NoStop
  <1>1. WorkerTypes' OBVIOUS
  <1> USE DEF ProcessKnown, OneProcess, StopsSound, StopKnows, StartsApart, RestartScheduled, AutoRestart, ReloadArmed, HostDoneLast
  <1>2. ProcessKnown' OBVIOUS
  <1>3. StopsSound' OBVIOUS
  <1>4. StartsApart' OBVIOUS
  <1>5. RestartScheduled' OBVIOUS
  <1>6. ReloadArmed' OBVIOUS
  <1>7. HostDoneLast' OBVIOUS
  <1> QED BY <1>1, <1>2, <1>3, <1>4, <1>5, <1>6, <1>7

LEMMA StopShownKeeps ==
  ASSUME NEW s \in Stoppers, WorkerInv, StopShown(s)
  PROVE  WorkerInv'
  <1> USE WorkerAssumption DEF WorkerInv, WorkerTypes, WorkerFields, RunStates, StopStates, Reloads, StopShown
  <1>1. WorkerTypes'
    <2>1. worker' \in WorkerFields
      OBVIOUS
    <2>2. stopper' \in [Stoppers -> StopStates]
      OBVIOUS
    <2> QED BY <2>1, <2>2
  <1> USE DEF ProcessKnown, OneProcess, StopsSound, StopKnows, StartsApart, RestartScheduled, AutoRestart, ReloadArmed, HostDoneLast
  <1>2. ProcessKnown' OBVIOUS
  <1>3. StopsSound' OBVIOUS
  <1>4. StartsApart' OBVIOUS
  <1>5. RestartScheduled' OBVIOUS
  <1>6. ReloadArmed' OBVIOUS
  <1>7. HostDoneLast' OBVIOUS
  <1> QED BY <1>1, <1>2, <1>3, <1>4, <1>5, <1>6, <1>7

LEMMA StopKillKeeps ==
  ASSUME NEW s \in Stoppers, WorkerInv, StopKill(s)
  PROVE  WorkerInv'
  <1> USE WorkerAssumption DEF WorkerInv, WorkerTypes, WorkerFields, RunStates, StopStates, Reloads, StopKill, Killed
  <1>1. WorkerTypes' OBVIOUS
  <1> USE DEF ProcessKnown, OneProcess, StopsSound, StopKnows, StartsApart, RestartScheduled, AutoRestart, ReloadArmed, HostDoneLast
  <1>2. ProcessKnown' OBVIOUS
  <1>3. StopsSound' OBVIOUS
  <1>4. StartsApart' OBVIOUS
  <1>5. RestartScheduled' OBVIOUS
  <1>6. ReloadArmed' OBVIOUS
  <1>7. HostDoneLast' OBVIOUS
  <1> QED BY <1>1, <1>2, <1>3, <1>4, <1>5, <1>6, <1>7

LEMMA StopJoinedKeeps ==
  ASSUME NEW s \in Stoppers, WorkerInv, StopJoined(s)
  PROVE  WorkerInv'
  <1> USE WorkerAssumption DEF WorkerInv, WorkerTypes, WorkerFields, RunStates, StopStates, Reloads, StopJoined, StopIsJoined, NoStop
  <1>1. WorkerTypes' OBVIOUS
  <1> USE DEF ProcessKnown, OneProcess, StopsSound, StopKnows, StartsApart, RestartScheduled, AutoRestart, ReloadArmed, HostDoneLast
  <1>2. ProcessKnown' OBVIOUS
  <1>3. StopsSound'
    <2>1. CASE stopper[s].at = "waiting"
      BY <2>1
    <2>2. CASE stopper[s].at = "joining"
      BY <2>2
    <2> QED BY <2>1, <2>2
  <1>4. StartsApart' OBVIOUS
  <1>5. RestartScheduled' OBVIOUS
  <1>6. ReloadArmed' OBVIOUS
  <1>7. HostDoneLast' OBVIOUS
  <1> QED BY <1>1, <1>2, <1>3, <1>4, <1>5, <1>6, <1>7

LEMMA StopGivesUpKeeps ==
  ASSUME NEW s \in Stoppers, WorkerInv, StopGivesUp(s)
  PROVE  WorkerInv'
  <1> USE WorkerAssumption DEF WorkerInv, WorkerTypes, WorkerFields, RunStates, StopStates, Reloads, StopGivesUp, NoStop, Killed
  <1>1. WorkerTypes' OBVIOUS
  <1> USE DEF ProcessKnown, OneProcess, StopsSound, StopKnows, StartsApart, RestartScheduled, AutoRestart, ReloadArmed, HostDoneLast
  <1>2. ProcessKnown' OBVIOUS
  <1>3. StopsSound' OBVIOUS
  <1>4. StartsApart' OBVIOUS
  <1>5. RestartScheduled' OBVIOUS
  <1>6. ReloadArmed' OBVIOUS
  <1>7. HostDoneLast' OBVIOUS
  <1> QED BY <1>1, <1>2, <1>3, <1>4, <1>5, <1>6, <1>7

LEMMA StopReturnedKeeps ==
  ASSUME NEW s \in Stoppers, WorkerInv, StopReturned(s)
  PROVE  WorkerInv'
  <1> USE WorkerAssumption DEF WorkerInv, WorkerTypes, WorkerFields, RunStates, StopStates, Reloads, StopReturned, NoStop
  <1>1. WorkerTypes' OBVIOUS
  <1> USE DEF ProcessKnown, OneProcess, StopsSound, StopKnows, StartsApart, RestartScheduled, AutoRestart, ReloadArmed, HostDoneLast
  <1>2. ProcessKnown' OBVIOUS
  <1>3. StopsSound' OBVIOUS
  <1>4. StartsApart' OBVIOUS
  <1>5. RestartScheduled' OBVIOUS
  <1>6. ReloadArmed' OBVIOUS
  <1>7. HostDoneLast' OBVIOUS
  <1> QED BY <1>1, <1>2, <1>3, <1>4, <1>5, <1>6, <1>7

LEMMA WorkerStepKeeps == WorkerInv /\ [WorkerNext]_workerVars => WorkerInv'
  <1> SUFFICES ASSUME WorkerInv, [WorkerNext]_workerVars PROVE WorkerInv'
    OBVIOUS
  <1>0. WorkerTypes
    BY DEF WorkerInv
  <1>1. CASE UNCHANGED workerVars
    BY <1>1 DEF workerVars, WorkerInv, WorkerTypes, ProcessKnown, OneProcess, StopsSound, StopKnows, StartsApart, RestartScheduled,
       AutoRestart, ReloadArmed, HostDoneLast
  <1>2. CASE \/ StartWorker \/ RestartFires \/ CloseHost \/ FinishClose
             \/ BeginHandle \/ FinishHandle \/ PrepareReload \/ Prepared \/ ArmReload
    BY <1>2, StartWorkerKeeps, RestartFiresKeeps, CloseHostKeeps, FinishCloseKeeps, BeginHandleKeeps, FinishHandleKeeps,
       PrepareReloadKeeps, PreparedKeeps, ArmReloadKeeps
  <1>3. ASSUME NEW r \in RunTasks, RunTaskStep(r) PROVE WorkerInv'
    BY <1>0, <1>3, RunCases, RunBouncesKeeps, RunEntersKeeps, LaunchesKeeps, LaunchDroppedKeeps, LaunchFailsKeeps,
       InitAnswerKeeps, BecomeReadyKeeps, StartFailedKeeps, KillStartedKeeps DEF RunTaskStep
  <1>4. ASSUME NEW p \in Processes, ProcessExits(p) \/ WaitLoop(p) PROVE WorkerInv'
    BY <1>4, ProcessExitsKeeps, WaitLoopKeeps
  <1>5. ASSUME NEW s \in Stoppers, StopBegin(s) PROVE WorkerInv'
    BY <1>0, <1>5, StopCases, StopJoinsKeeps, StopMarksKeeps DEF StopBegin, ReloadStands
  <1>6. ASSUME NEW s \in Stoppers, StopStep(s) \/ StopGivesUp(s) \/ StopReturned(s) PROVE WorkerInv'
    BY <1>6, StopNothingKeeps, StopShownKeeps, StopKillKeeps, StopJoinedKeeps, StopGivesUpKeeps, StopReturnedKeeps DEF StopStep
  <1>7. ASSUME NEW s \in Stoppers, RunReload(s) PROVE WorkerInv'
    <2>1. CASE host = "open" /\ s # Closer /\ stopper[s].at = "idle"
      BY <1>0, <1>7, <2>1, StopCases, StopJoinsKeeps, StopMarksKeeps DEF RunReload, ReloadStands
    <2>2. CASE UNCHANGED <<worker, stopper>>
      BY <1>7, <2>2 DEF RunReload, WorkerInv, WorkerTypes, Reloads, ProcessKnown, OneProcess, StopsSound, StopKnows, StartsApart,
         RestartScheduled, AutoRestart, ReloadArmed, HostDoneLast
    <2> QED BY <1>7, <2>1, <2>2 DEF RunReload
  <1> QED BY <1>1, <1>2, <1>3, <1>4, <1>5, <1>6, <1>7 DEF WorkerNext

\* A worker has one process, closes its channel once, is down after a stop and up again after a fault,
\* and the manager is done last (runtime/worker.go run, waitLoop, stop; manager.go finishClose), for
\* every number of runs, stops and processes.
THEOREM WorkerInductive == WorkerSpec => [](WorkerInv /\ WorkerSafe)
  <1>1. WorkerInv /\ [WorkerNext]_workerVars => WorkerInv'
    BY WorkerStepKeeps
  <1> QED BY <1>1, WorkerInitKeeps, WorkerInvSafe, PTL DEF WorkerSpec
=============================================================================
