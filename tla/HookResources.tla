--------------------------- MODULE HookResources ----------------------------
(***************************************************************************)
(* What the hook runtime keeps for its plugins (internal/hook/runtime).    *)
(* First the key-value store they share (shared.go with the expiry index   *)
(* of expiry.go) and the maintenance loop of manager.go that sleeps until  *)
(* the next deadline: callers read the clock before they take the lock, so *)
(* they may act on a time that has passed.  Then the temporary media       *)
(* leases (media.go): one medium, claimed by plugin calls and by the       *)
(* sweeper, with a persistent reference, an exported directory and bounded *)
(* retries of a cleanup that failed; a step is a critical section of the   *)
(* collection lock or one call of the media service, which may fail.  The  *)
(* two share no state and have a specification each.                       *)
(***************************************************************************)
EXTENDS Integers, FiniteSets, FiniteSetsExt, Functions

(* The shared store.                                                        *)
CONSTANTS
    SharedKeys,     \* keys; their order breaks ties of the eviction
    Sizes,          \* a value is its encoded size
    TTLs,           \* times to live; 0 never expires
    MaxEntries, MaxSize,
    Horizon         \* bound of the clock

ASSUME SharedAssumption ==
    /\ SharedKeys \subseteq Nat /\ Sizes \subseteq 1 .. MaxSize /\ TTLs \subseteq Nat
    /\ MaxEntries \in Nat \ {0} /\ MaxSize \in Nat /\ Horizon \in Nat

VARIABLES
    store,      \* items, total size, expiry index and the pending wake of the loop
    clock,
    sleeper     \* the maintenance loop: awake, or asleep until a deadline (Never: none)

sharedVars == <<store, clock, sleeper>>

NoEntry == [size |-> 0, ttl |-> 0, last |-> 0]
Never == Horizon + 10
Entries == [size : Sizes, ttl : TTLs, last : 0 .. Horizon]

SharedTypeOK ==
    /\ store.items \in [SharedKeys -> Entries \cup {NoEntry}]
    /\ store.size \in 0 .. MaxSize /\ store.wake \in BOOLEAN
    /\ store.expiry \in [SharedKeys -> 0 .. Never]
    /\ clock \in 0 .. Horizon
    /\ sleeper \in [awake : BOOLEAN, due : 0 .. Never]

SharedInit ==
    /\ store = [items |-> [k \in SharedKeys |-> NoEntry], size |-> 0, wake |-> FALSE,
                expiry |-> [k \in SharedKeys |-> Never]]
    /\ clock = 0 /\ sleeper = [awake |-> TRUE, due |-> Never]

Present(s) == {k \in SharedKeys : s.items[k] # NoEntry}

\* expired
ExpiredAt(entry, now) == entry.ttl > 0 /\ now >= entry.last + entry.ttl

\* expiryQueue.next
NextDeadline(s) == Min(Range(s.expiry))

\* Mutant: the loop is woken only when the next deadline moves away.
RescheduledSooner(s, k, deadline) ==
    LET t == [s EXCEPT !.expiry[k] = deadline] IN
    [t EXCEPT !.wake = @ \/ NextDeadline(t) > NextDeadline(s)]

\* expiryQueue.set and remove: the loop is woken when the next deadline has changed.
Rescheduled(s, k, deadline) ==
    LET t == [s EXCEPT !.expiry[k] = deadline] IN
    [t EXCEPT !.wake = @ \/ NextDeadline(t) # NextDeadline(s)]

\* scheduleExpiryLocked
ScheduleExpiry(s, k) ==
    Rescheduled(s, k, IF s.items[k].ttl = 0 THEN Never ELSE s.items[k].last + s.items[k].ttl)

\* Mutant: the index keeps the deadline of a deleted key.
DeletedUnindexed(s, k) == [s EXCEPT !.items[k] = NoEntry, !.size = @ - s.items[k].size]

\* deleteLocked
Deleted(s, k) == Rescheduled([s EXCEPT !.items[k] = NoEntry, !.size = @ - s.items[k].size], k, Never)

\* Mutant: an entry is due only after its deadline.
DueAfter(s, now) == {k \in SharedKeys : s.expiry[k] < now}

\* popDue
Due(s, now) == {k \in SharedKeys : s.expiry[k] <= now}

\* pruneExpiredLocked: the due keys leave the index first, then the items.
Pruned(s, now) ==
    IF Due(s, now) = {} THEN s
    ELSE [s EXCEPT !.items = [k \in SharedKeys |-> IF k \in Due(s, now) THEN NoEntry ELSE s.items[k]],
                   !.expiry = [k \in SharedKeys |-> IF k \in Due(s, now) THEN Never ELSE s.expiry[k]],
                   !.size = @ - MapThenSumSet(LAMBDA k : s.items[k].size, Due(s, now)),
                   !.wake = TRUE]

\* Mutant: only the number of entries is limited.
FitsEntries(s, k, size) == Cardinality(Present(s) \cup {k}) <= MaxEntries

\* The incoming value in place of the present one.
Fits(s, k, size) ==
    /\ Cardinality(Present(s) \cup {k}) <= MaxEntries
    /\ s.size - s.items[k].size + size <= MaxSize

\* Least recently used first, by key among equals.
Before(s, j, k) == s.items[j].last < s.items[k].last \/ (s.items[j].last = s.items[k].last /\ j < k)

\* makeRoomLocked: the shortest run of the least recently used keys that makes room.
Evicted(s, k, size) ==
    LET Others == Present(s) \ {k}
        Victims == {R \in SUBSET Others : \A j \in R, o \in Others \ R : Before(s, j, o)}
        Without(R) == FoldSet(LAMBDA j, t : Deleted(t, j), s, R)
        Enough == {R \in Victims : Fits(Without(R), k, size)} IN
    IF Fits(s, k, size) THEN s ELSE Without(CHOOSE R \in Enough : \A Q \in Enough : R \subseteq Q)

\* Mutant: the size of the replaced value stays in the total.
StoredEntryAdded(s, k, entry) ==
    LET t == Evicted(Pruned(s, entry.last), k, entry.size) IN
    ScheduleExpiry([t EXCEPT !.items[k] = entry, !.size = @ + entry.size], k)

\* storeLocked
StoredEntry(s, k, entry) ==
    LET t == Evicted(Pruned(s, entry.last), k, entry.size) IN
    ScheduleExpiry([t EXCEPT !.items[k] = entry, !.size = @ - t.items[k].size + entry.size], k)

\* The time a caller has read: the present one, or one of just before.
Readings == {clock, IF clock > 0 THEN clock - 1 ELSE 0}

-----------------------------------------------------------------------------
(* Requests of plugins.                                                     *)

GetShared(k) ==
    /\ k \in Present(store)
    /\ \E now \in Readings :
          store' = IF ExpiredAt(store.items[k], now) THEN Deleted(store, k)
                   ELSE ScheduleExpiry([store EXCEPT !.items[k].last = now], k)
    /\ UNCHANGED <<clock, sleeper>>

SetWithTTL(k) ==
    /\ \E now \in Readings, size \in Sizes, ttl \in TTLs :
          store' = StoredEntry(store, k, [size |-> size, ttl |-> ttl, last |-> now])
    /\ UNCHANGED <<clock, sleeper>>

DeleteShared(k) ==
    /\ k \in Present(store)
    /\ store' = Deleted(store, k)
    /\ UNCHANGED <<clock, sleeper>>

ListShared ==
    /\ \E now \in Readings : store' = Pruned(store, now)
    /\ UNCHANGED <<clock, sleeper>>

\* A swap that finds what it expects: nothing (0), or the value of that size.
CompareAndSwap(k) ==
    /\ \E now \in Readings, expected \in Sizes \cup {0} :
          LET s == IF k \in Present(store) /\ ExpiredAt(store.items[k], now) THEN Deleted(store, k) ELSE store IN
          IF s.items[k].size = expected
          THEN \E size \in Sizes, ttl \in TTLs :
                 store' = StoredEntry(s, k, [size |-> size, ttl |-> ttl, last |-> now])
          ELSE store' = s
    /\ UNCHANGED <<clock, sleeper>>

-----------------------------------------------------------------------------
(* The maintenance loop.                                                    *)

Sweep ==
    /\ sleeper.awake
    /\ store' = Pruned(store, clock)
    /\ sleeper' = [awake |-> FALSE, due |-> NextDeadline(store')]
    /\ UNCHANGED clock

WakeUp ==
    /\ ~sleeper.awake /\ (store.wake \/ sleeper.due <= clock)
    /\ store' = IF store.wake THEN [store EXCEPT !.wake = FALSE] ELSE store
    /\ sleeper' = [sleeper EXCEPT !.awake = TRUE]
    /\ UNCHANGED clock

Tick ==
    /\ clock < Horizon /\ clock' = clock + 1
    /\ UNCHANGED <<store, sleeper>>

SharedNext ==
    \/ \E k \in SharedKeys : GetShared(k) \/ SetWithTTL(k) \/ DeleteShared(k) \/ CompareAndSwap(k)
    \/ ListShared \/ Sweep \/ WakeUp \/ Tick

SharedSpec == SharedInit /\ [][SharedNext]_sharedVars /\ WF_sharedVars(Sweep) /\ WF_sharedVars(WakeUp)

-----------------------------------------------------------------------------
(* Properties.                                                              *)

\* The running total of sizes is the sum of what is stored, through replacements,
\* evictions, expiry and deletion, and both limits hold.
SizeCounted ==
    /\ store.size = MapThenSumSet(LAMBDA k : store.items[k].size, SharedKeys)
    /\ Cardinality(Present(store)) <= MaxEntries

\* The index holds exactly the entries that expire, each at its own deadline.
IndexAgrees ==
    \A k \in SharedKeys :
        store.expiry[k] = IF k \in Present(store) /\ store.items[k].ttl > 0
                          THEN store.items[k].last + store.items[k].ttl ELSE Never

\* No entry outsleeps the loop: asleep without a wake pending, it will rise at the
\* earliest deadline, whatever was stored, read or deleted since it went to sleep.
NotOverslept == ~sleeper.awake /\ ~store.wake => sleeper.due <= NextDeadline(store)

\* An entry whose time has passed is removed although nobody asks for it.
ExpiredRemoved ==
    \A k \in SharedKeys : (clock = Horizon /\ k \in Present(store) /\ ExpiredAt(store.items[k], clock)) ~>
                          ~(k \in Present(store) /\ ExpiredAt(store.items[k], clock))

-----------------------------------------------------------------------------
(* The media leases.                                                        *)
CONSTANTS
    Callers,        \* goroutines in retain .. release
    LeaseTTL,       \* mediaLeaseTTL, in units of the first retry delay
    CleanupRetries, \* mediaCleanupRetries
    MediaHorizon,   \* bound of the clock
    MediaFaults     \* bound: failing calls

ASSUME MediaAssumption ==
    /\ LeaseTTL \in Nat \ {0} /\ CleanupRetries \in Nat /\ MediaHorizon \in Nat /\ MediaFaults \in Nat
    /\ \A n \in 0 .. CleanupRetries : 2 ^ n \in Nat      \* arithmetic, for the provers

VARIABLES
    grant,      \* the lease record: present, busy, retained, dir, expires, failures
    refHeld,    \* the persistent reference exists
    deadline,   \* entry of the expiry index, or NoDeadline
    caller,     \* where each caller is, and the expiry it was told
    pruner,     \* the sweeper, or the shutdown after it: "idle", "claimed", "closing", "closed"
    mediaClock,
    mediaFaults

mediaVars == <<grant, refHeld, deadline, caller, pruner, mediaClock, mediaFaults>>

NoDeadline == -1
NoGrant == [present |-> FALSE, busy |-> FALSE, retained |-> FALSE, dir |-> FALSE, expires |-> 0, failures |-> 0]

MediaTypeOK ==
    /\ grant \in [present : BOOLEAN, busy : BOOLEAN, retained : BOOLEAN, dir : BOOLEAN,
                  expires : 0 .. MediaHorizon + LeaseTTL, failures : 0 .. CleanupRetries + 1]
    /\ refHeld \in BOOLEAN /\ deadline \in Nat \cup {NoDeadline}
    /\ caller \in [Callers -> [at : {"idle", "claimed", "using"}, before : Nat, told : 0 .. MediaHorizon + LeaseTTL]]
    /\ pruner \in {"idle", "claimed", "shutdown", "closing", "closed"}
    /\ mediaClock \in 0 .. MediaHorizon /\ mediaFaults \in 0 .. MediaFaults

MediaInit ==
    /\ grant = NoGrant /\ refHeld = FALSE /\ deadline = NoDeadline
    /\ caller = [c \in Callers |-> [at |-> "idle", before |-> 0, told |-> 0]]
    /\ pruner = "idle" /\ mediaClock = 0 /\ mediaFaults = 0

Open == pruner \in {"idle", "claimed"}
Fails == mediaFaults < MediaFaults /\ mediaFaults' = mediaFaults + 1

-----------------------------------------------------------------------------
(* Plugin calls.                                                            *)

\* Mutant: every claim extends the lease by another term.
ClaimAhead(c) ==
    /\ Open /\ caller[c].at = "idle" /\ ~grant.busy
    /\ grant' = [grant EXCEPT !.present = TRUE, !.busy = TRUE]
    /\ caller' = [caller EXCEPT ![c] = [at |-> "claimed", told |-> grant.expires + LeaseTTL,
                                        before |-> IF deadline # NoDeadline THEN deadline ELSE grant.expires]]
    /\ UNCHANGED <<refHeld, deadline, pruner, mediaClock, mediaFaults>>

\* retain claims the lease, a new one if need be; a busy one makes it wait.
Claim(c) ==
    /\ Open /\ caller[c].at = "idle" /\ ~grant.busy
    /\ grant' = [grant EXCEPT !.present = TRUE, !.busy = TRUE]
    /\ caller' = [caller EXCEPT ![c].at = "claimed",
                                ![c].before = IF deadline # NoDeadline THEN deadline ELSE grant.expires,
                                ![c].told = mediaClock + LeaseTTL]
    /\ UNCHANGED <<refHeld, deadline, pruner, mediaClock, mediaFaults>>

\* Mutant: a lease whose reference is already held keeps its old deadline.
RenewedOnce(c) == IF grant.retained THEN deadline ELSE caller[c].told

\* The new deadline of a lease in use.
Renewed(c) == caller[c].told

\* The reference is there, or AddReference succeeds.
Retain(c) ==
    /\ caller[c].at = "claimed"
    /\ refHeld' = TRUE
    /\ grant' = [grant EXCEPT !.retained = TRUE, !.expires = caller[c].told, !.failures = 0]
    /\ deadline' = Renewed(c)
    /\ caller' = [caller EXCEPT ![c].at = "using"]
    /\ UNCHANGED <<pruner, mediaClock, mediaFaults>>

\* AddReference fails: a lease without a directory is forgotten, the other one goes back
\* to its deadline.
RetainFails(c) ==
    /\ caller[c].at = "claimed" /\ ~grant.retained /\ Fails
    /\ IF ~grant.dir
       THEN grant' = NoGrant /\ deadline' = NoDeadline
       ELSE /\ grant' = [grant EXCEPT !.busy = FALSE]
            /\ deadline' = IF grant.failures <= CleanupRetries THEN caller[c].before ELSE deadline
    /\ caller' = [caller EXCEPT ![c].at = "idle", ![c].told = 0]
    /\ UNCHANGED <<refHeld, pruner, mediaClock>>

\* media.export and a large media.read.
Export(c) ==
    /\ caller[c].at = "using" /\ ~grant.dir
    /\ grant' = [grant EXCEPT !.dir = TRUE]
    /\ UNCHANGED <<refHeld, deadline, caller, pruner, mediaClock, mediaFaults>>

\* Mutant: release leaves a lease that came due meanwhile to the index.
MediaReleasedDue == deadline

\* release puts a lease that came due while it was busy back into the index.
MediaReleased == IF mediaClock >= grant.expires /\ grant.failures <= CleanupRetries THEN grant.expires ELSE deadline

Release(c) ==
    /\ caller[c].at = "using"
    /\ grant' = [grant EXCEPT !.busy = FALSE]
    /\ deadline' = MediaReleased
    /\ caller' = [caller EXCEPT ![c].at = "idle"]
    /\ UNCHANGED <<refHeld, pruner, mediaClock, mediaFaults>>

-----------------------------------------------------------------------------
(* The sweeper and the shutdown.                                            *)

\* Mutant: the sweeper takes a lease in use.
ClaimableBusy == TRUE

\* A busy lease loses its index entry; release will put it back.
ClaimableGrant == ~grant.busy

PruneDue ==
    /\ pruner = "idle" /\ deadline # NoDeadline /\ deadline <= mediaClock
    /\ deadline' = NoDeadline
    /\ IF ClaimableGrant
       THEN grant' = [grant EXCEPT !.busy = TRUE] /\ pruner' = "claimed"
       ELSE UNCHANGED <<grant, pruner>>
    /\ UNCHANGED <<refHeld, caller, mediaClock, mediaFaults>>

\* Mutant: the lease is forgotten with its directory, the reference stays.
CleanedDirectory(g) == ~g.dir

Cleaned(g) == ~g.retained /\ ~g.dir

\* What an attempt leaves of the lease when the reference, the directory remain.
Remains(ref, dir) == [grant EXCEPT !.retained = ref, !.dir = dir]

PruneAttempt(ref, dir) ==
    /\ ref => grant.retained
    /\ dir => grant.dir
    /\ IF ref \/ dir THEN Fails ELSE UNCHANGED mediaFaults
    /\ refHeld' = (refHeld /\ ref)
    /\ \/ /\ Cleaned(Remains(ref, dir))
          /\ grant' = NoGrant /\ UNCHANGED deadline
       \/ /\ ~Cleaned(Remains(ref, dir)) /\ pruner = "claimed"
          /\ grant' = [Remains(ref, dir) EXCEPT !.busy = FALSE, !.failures = grant.failures + 1]
          /\ deadline' = IF grant.failures < CleanupRetries THEN mediaClock + 2 ^ grant.failures ELSE deadline
       \/ /\ ~Cleaned(Remains(ref, dir)) /\ pruner = "shutdown"
          /\ grant' = [Remains(ref, dir) EXCEPT !.busy = FALSE] /\ UNCHANGED deadline

\* pruneLease: the reference and the directory are tried independently.
PruneLease ==
    /\ pruner \in {"claimed", "shutdown"}
    /\ \E ref, dir \in BOOLEAN : PruneAttempt(ref, dir)
    /\ pruner' = IF pruner = "claimed" THEN "idle" ELSE "closed"
    /\ UNCHANGED <<caller, mediaClock>>

\* Close: rootCtx ends; the calls in flight and the sweeper are joined first.
CloseMedia ==
    /\ pruner = "idle"
    /\ pruner' = "closing"
    /\ UNCHANGED <<grant, refHeld, deadline, caller, mediaClock, mediaFaults>>

\* Mutant: the shutdown does not wait for the calls in flight.
MediaJoinedNow == TRUE

MediaJoined == \A c \in Callers : caller[c].at = "idle"

\* prune(closeAll): every lease, whatever its deadline or its failures.
PruneAll ==
    /\ MediaJoined
    /\ deadline' = NoDeadline
    /\ IF grant.present /\ ~grant.busy
       THEN grant' = [grant EXCEPT !.busy = TRUE] /\ pruner' = "shutdown"
       ELSE pruner' = "closed" /\ UNCHANGED grant
    /\ UNCHANGED <<refHeld, caller, mediaClock, mediaFaults>>

FinishMedia == pruner = "closing" /\ PruneAll

\* A later Close tries again what the first could not release.
CloseMediaAgain == pruner = "closed" /\ grant.present /\ PruneAll

MediaTick ==
    /\ mediaClock < MediaHorizon
    /\ mediaClock' = mediaClock + 1
    /\ UNCHANGED <<grant, refHeld, deadline, caller, pruner, mediaFaults>>

CallerStep(c) == Retain(c) \/ RetainFails(c) \/ Export(c) \/ Release(c)

MediaNext ==
    \/ \E c \in Callers : Claim(c) \/ CallerStep(c)
    \/ PruneDue \/ PruneLease \/ CloseMedia \/ FinishMedia \/ CloseMediaAgain \/ MediaTick

MediaSpec ==
    /\ MediaInit /\ [][MediaNext]_mediaVars
    /\ WF_mediaVars(PruneDue) /\ WF_mediaVars(PruneLease) /\ WF_mediaVars(FinishMedia) /\ WF_mediaVars(MediaTick)
    /\ \A c \in Callers : WF_mediaVars(Retain(c)) /\ WF_mediaVars(Release(c))

-----------------------------------------------------------------------------
(* Properties.                                                              *)

\* A lease that nobody works on is in the index, so that it ends by itself; only the
\* retries of its cleanup running out, or the shutdown, take it out.
LeaseIndexed ==
    Open /\ grant.present /\ ~grant.busy /\ grant.failures <= CleanupRetries => deadline # NoDeadline

\* The persistent reference is never left behind without the lease that removes it.
ReferenceOwned == refHeld => grant.present

\* While a plugin uses the medium its reference and its exported directory stay.
UsedIsHeld == \A c \in Callers : caller[c].at = "using" => grant.retained /\ refHeld /\ grant.busy

\* What a plugin was told of the expiry is kept: neither the reference nor the directory
\* is removed earlier while the runtime is open, whichever call renewed the lease.
NotPrunedEarly ==
    [][Open /\ ((refHeld /\ ~refHeld') \/ (grant.dir /\ ~grant'.dir)) =>
          \A c \in Callers : caller[c].told <= mediaClock]_mediaVars

\* After the shutdown a lease is left only when its cleanup failed.
LeasesEnd == pruner = "closing" ~> (pruner = "closed" /\ (grant.present => mediaFaults > 0))
=============================================================================
