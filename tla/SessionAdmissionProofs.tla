----------------------- MODULE SessionAdmissionProofs -----------------------
(***************************************************************************)
(* The gates of SessionAdmission are exclusive locks taken in order, for   *)
(* any number of scopes, sessions and goroutines, and the maps are dropped *)
(* when nobody is inside; the bindings behind the gates are the current    *)
(* ones, and their changes are published outside every gate.               *)
(***************************************************************************)
EXTENDS SessionAdmission, FiniteSetTheorems, TLAPS

\* The goroutines that hold or await a key.
Users(k) == {c \in Clients : ref[c][k] # Nil}

\* The leases in progress, outermost first.
Leases == {p \in Clients \X (1 .. 3) : p[2] <= level[p[1]]}

\* Where a goroutine is tells how deep it is.
Nesting ==
    \A c \in Clients :
        /\ level[c] <= Depth(job[c])
        /\ pc[c] = "admit" => level[c] < Depth(job[c])
        /\ pc[c] = "out" => level[c] = 0
        /\ pc[c] \notin {"out", "admit"} => level[c] >= 1

\* A binding that is current, or that somebody entered with, names its session.
Named ==
    /\ \A s \in Scopes : current[s] # 0 =>
         current[s] <= version /\ bound[current[s]].session \in Sessions
    /\ \A c \in Clients : pc[c] # "out" =>
         /\ job[c].scope \in Scopes
         /\ job[c].enter = "binding" =>
              /\ job[c].binding \in 1 .. version
              /\ bound[job[c].binding].session \in Sessions

\* The map of gates against the goroutines that refer to them.
GateMap ==
    /\ \A c \in Clients, k \in Keys : ref[c][k] # Nil => gates[k] = ref[c][k]
    /\ \A k, l \in Keys : gates[k] # Nil /\ gates[k] = gates[l] => k = l
    /\ \A k \in Keys : IsFiniteSet(Users(k))
    /\ \A k \in Keys : gates[k] # Nil =>
         refs[gates[k]] = Cardinality(Users(k)) /\ Users(k) # {}

\* A goroutine refers to the gates it holds and to the one it waits for.
HoldsKey(c, k) ==
    /\ at[c][k] # 0 => /\ ref[c][k] # Nil /\ token[ref[c][k]]
                       /\ at[c][k] <= level[c]
    /\ at[c][k] = 0 => (ref[c][k] # Nil <=> pc[c] = "acquire" /\ IsNext(c, k))
    /\ pc[c] \in {"want", "acquire"} /\ k \in todo[c] => at[c][k] = 0
    /\ pc[c] = "finish" => at[c][k] < level[c]

Holding == \A c \in Clients, k \in Keys : HoldsKey(c, k)

\* Inner leases hold later keys, and what is still wanted is later again.
KeyOrder(c, k, l) ==
    /\ at[c][l] # 0 /\ at[c][l] < at[c][k] => Before(l, k)
    /\ pc[c] \in {"want", "acquire"} /\ k \in todo[c] /\ at[c][l] # 0 => Before(l, k)

Ordered == \A c \in Clients, k, l \in Keys : KeyOrder(c, k, l)

\* The manager counts the leases, and is idle once, when there are none.
Counted ==
    /\ IsFiniteSet(Leases) /\ active = Cardinality(Leases)
    /\ idles # 0 => idles = 1 /\ closed /\ active = 0
    /\ torn => idles # 0

IndInv == /\ TypeOK /\ Nesting /\ Named /\ GateMap /\ Holding
          /\ MutualExclusion /\ Ordered /\ Counted

-----------------------------------------------------------------------------
(* Facts about keys and jobs.                                               *)

\* A key is its kind and a name.
LEMMA KeyShape ==
    \A k \in Keys : k = <<k[1], k[2]>> /\ k[1] \in Nat /\ k[2] \in Nat
<1> TAKE k \in Keys
<1>1. CASE k \in {0} \X Scopes
  <2>1. PICK s \in Scopes : k = <<0, s>>
      BY <1>1
  <2> QED BY <2>1, NamesAssumption
<1>2. CASE k \in {1} \X Sessions
  <2>1. PICK i \in Sessions : k = <<1, i>>
      BY <1>2
  <2> QED BY <2>1, NamesAssumption
<1> QED BY <1>1, <1>2 DEF Keys, Locks!Keys

\* The order of keys is total: of two different keys one comes first.
LEMMA BeforeTotal ==
    ASSUME NEW k \in Keys, NEW l \in Keys, k # l
    PROVE  Before(k, l) <=> ~Before(l, k)
BY KeyShape DEF Before, Locks!Before

\* A key does not come before itself, and the order is transitive.
LEMMA BeforeOrder ==
    /\ \A k \in Keys : ~Before(k, k)
    /\ \A k, l, m \in Keys : Before(k, l) /\ Before(l, m) => Before(k, m)
BY KeyShape DEF Before, Locks!Before

\* Entry points nest up to three leases.
LEMMA DepthType ==
    ASSUME NEW j \in Job
    PROVE  Depth(j) \in 1 .. 3
BY DEF Job, Depth, EntryPoints

\* What a lease asks for are keys.
LEMMA AskedType ==
    ASSUME TypeOK, Named, NEW j \in Job, NEW n \in Nat, j.scope \in Scopes,
           j.enter = "binding" => /\ j.binding \in Versions
                                  /\ bound[j.binding].session \in Sessions
    PROVE  Asked(j, n) \subseteq Keys
<1>1. ScopeKey(j.scope) \in Keys
    BY DEF ScopeKey, Keys, Locks!Keys
<1>2. \A i \in Sessions : SessionKey(i) \in Keys
    BY DEF SessionKey, Keys, Locks!Keys
<1>3. CurrentIds(j.scope) \subseteq Sessions
    BY DEF CurrentIds, Named
<1>4. j.ids \subseteq Sessions
    BY DEF Job
<1> QED BY <1>1, <1>2, <1>3, <1>4 DEF Asked, SessionKeys

-----------------------------------------------------------------------------
\* The manager starts with no gate, no lease and no binding.
LEMMA Initially == Init => IndInv
<1> SUFFICES ASSUME Init PROVE IndInv
    OBVIOUS
<1> USE DEF Init
<1>0. NoJob \in Job
    BY DEF NoJob, Job, EntryPoints
<1>1. TypeOK
  <2>1. bound \in [Versions -> [scope : Scopes \cup {Nil},
                               session : Sessions \cup {Nil}, valid : BOOLEAN]]
      BY DEF Unbound
  <2>2. pc \in [Clients -> Pcs] /\ job \in [Clients -> Job]
      BY <1>0 DEF Pcs
  <2>3. version \in 0 .. MaxVersion
      BY EntersAssumption
  <2>4. closed \in BOOLEAN /\ torn \in BOOLEAN /\ token \in [Gates -> BOOLEAN]
      OBVIOUS
  <2>5. /\ gates \in [Keys -> Gates \cup {Nil}] /\ refs \in [Gates -> Nat]
        /\ active \in Nat /\ idles \in Nat /\ level \in [Clients -> 0 .. 3]
      OBVIOUS
  <2>6. /\ ref \in [Clients -> [Keys -> Gates \cup {Nil}]]
        /\ at \in [Clients -> [Keys -> 0 .. 3]]
      OBVIOUS
  <2>7. /\ todo \in [Clients -> SUBSET Keys] /\ queued \in [Clients -> SUBSET Versions]
        /\ canceled \subseteq Clients /\ delivered \subseteq Versions
        /\ current \in [Scopes -> Versions \cup {0}]
      OBVIOUS
  <2> QED BY <2>1, <2>2, <2>3, <2>4, <2>5, <2>6, <2>7 DEF TypeOK
<1>2. Nesting
  <2>1. Depth(NoJob) \in 1 .. 3
      BY <1>0, DepthType
  <2> QED BY <2>1 DEF Nesting
<1>3. Named
    BY DEF Named
<1>4. GateMap
  <2>1. \A k \in Keys : Users(k) = {}
      BY DEF Users
  <2> QED BY <2>1, FS_EmptySet DEF GateMap
<1>5. Holding
    BY DEF Holding, HoldsKey
<1>6. MutualExclusion
    BY DEF MutualExclusion, Held
<1>7. Ordered
    BY DEF Ordered, KeyOrder
<1>8. Counted
  <2>1. Leases = {}
      BY DEF Leases
  <2> QED BY <2>1, FS_EmptySet DEF Counted
<1> QED BY <1>1, <1>2, <1>3, <1>4, <1>5, <1>6, <1>7, <1>8 DEF IndInv

-----------------------------------------------------------------------------
\* A key is held by a lease that is there.
LEMMA AtBound ==
    ASSUME IndInv, NEW c \in Clients, NEW k \in Keys
    PROVE  at[c][k] \in 0 .. 3 /\ level[c] \in 0 .. 3 /\ at[c][k] <= level[c]
<1>1. at[c][k] \in 0 .. 3 /\ level[c] \in 0 .. 3
    BY DEF IndInv, TypeOK
<1> QED BY <1>1 DEF IndInv, Holding, HoldsKey

(* Parts that a step leaves alone.                                          *)

\* The gates and who refers to them are as before.
LEMMA GatesKept ==
    ASSUME IndInv, UNCHANGED <<gates, refs, token, ref, at>>
    PROVE  GateMap' /\ MutualExclusion'
<1>1. \A k \in Keys : Users(k)' = Users(k)
    BY DEF Users
<1> QED BY <1>1 DEF IndInv, GateMap, MutualExclusion, Held

\* No lease begins or ends.
LEMMA LeasesKept ==
    ASSUME IndInv, UNCHANGED <<level, lifeVars>>
    PROVE  Counted'
<1>1. Leases' = Leases
    BY DEF Leases
<1> QED BY <1>1 DEF IndInv, Counted, lifeVars

\* No binding changes and nobody enters.
LEMMA NamesKept ==
    ASSUME IndInv, UNCHANGED bindVars,
           \A d \in Clients : pc'[d] # "out" => pc[d] # "out" /\ job'[d] = job[d]
    PROVE  Named'
BY DEF IndInv, Named, bindVars

\* The depth of everybody but c is as before.
LEMMA NestingKept ==
    ASSUME IndInv, NEW c \in Clients,
           \A d \in Clients \ {c} : pc'[d] = pc[d] /\ level'[d] = level[d]
                                    /\ job'[d] = job[d],
           level'[c] <= Depth(job'[c]),
           pc'[c] = "admit" => level'[c] < Depth(job'[c]),
           pc'[c] = "out" => level'[c] = 0,
           pc'[c] \notin {"out", "admit"} => level'[c] >= 1
    PROVE  Nesting'
BY DEF IndInv, Nesting, Depth

\* A step of c that keeps its gates and leaves no key wanted.
LEMMA HoldingKept ==
    ASSUME IndInv, NEW c \in Clients,
           UNCHANGED <<gates, refs, token, ref, at>>,
           \A d \in Clients \ {c} : pc'[d] = pc[d] /\ level'[d] = level[d]
                                    /\ todo'[d] = todo[d],
           pc[c] # "acquire", pc'[c] \notin {"want", "acquire"},
           \A k \in Keys : at[c][k] <= level'[c],
           pc'[c] = "finish" => \A k \in Keys : at[c][k] < level'[c]
    PROVE  Holding' /\ Ordered'
<1>1. Holding'
  <2> SUFFICES ASSUME NEW d \in Clients, NEW k \in Keys
               PROVE  HoldsKey(d, k)'
      BY DEF Holding
  <2>1. CASE d = c
      BY <2>1 DEF IndInv, Holding, HoldsKey
  <2>2. CASE d # c
      BY <2>2 DEF IndInv, Holding, HoldsKey, IsNext
  <2> QED BY <2>1, <2>2
<1>2. Ordered'
    BY DEF IndInv, Ordered, KeyOrder
<1> QED BY <1>1, <1>2

\* A lease begins: the manager counts one more.
LEMMA LeaseBegins ==
    ASSUME TypeOK, IsFiniteSet(Leases), NEW c \in Clients, level[c] < 3,
           level' = [level EXCEPT ![c] = @ + 1]
    PROVE  IsFiniteSet(Leases') /\ Cardinality(Leases') = Cardinality(Leases) + 1
<1> DEFINE p == <<c, level[c] + 1>>
<1>1. level[c] \in 0 .. 3 /\ \A d \in Clients : level[d] \in 0 .. 3
    BY DEF TypeOK
<1>2. Leases' = Leases \cup {p}
  <2>1. \A q \in Clients \X (1 .. 3) : q[2] <= level'[q[1]] <=> q[2] <= level[q[1]] \/ q = p
    <3> TAKE q \in Clients \X (1 .. 3)
    <3>1. q[1] \in Clients /\ q[2] \in 1 .. 3 /\ q = <<q[1], q[2]>>
        OBVIOUS
    <3>2. CASE q[1] = c
        BY <3>1, <3>2, <1>1 DEF TypeOK
    <3>3. CASE q[1] # c
        BY <3>1, <3>3, <1>1 DEF TypeOK
    <3> QED BY <3>2, <3>3
  <2>2. p \in Clients \X (1 .. 3)
      BY <1>1
  <2> QED BY <2>1, <2>2 DEF Leases
<1>3. p \notin Leases
    BY <1>1 DEF Leases
<1> QED BY <1>2, <1>3, FS_AddElement

\* A lease ends: the manager counts one less.
LEMMA LeaseEnds ==
    ASSUME TypeOK, IsFiniteSet(Leases), NEW c \in Clients, level[c] >= 1,
           level' = [level EXCEPT ![c] = @ - 1]
    PROVE  /\ IsFiniteSet(Leases') /\ Cardinality(Leases) \in Nat \ {0}
           /\ Cardinality(Leases') = Cardinality(Leases) - 1
<1> DEFINE p == <<c, level[c]>>
<1>1. level[c] \in 0 .. 3 /\ \A d \in Clients : level[d] \in 0 .. 3
    BY DEF TypeOK
<1>2. Leases' = Leases \ {p}
  <2>1. \A q \in Clients \X (1 .. 3) : q[2] <= level'[q[1]] <=> q[2] <= level[q[1]] /\ q # p
    <3> TAKE q \in Clients \X (1 .. 3)
    <3>1. q[1] \in Clients /\ q[2] \in 1 .. 3 /\ q = <<q[1], q[2]>>
        OBVIOUS
    <3>2. CASE q[1] = c
        BY <3>1, <3>2, <1>1 DEF TypeOK
    <3>3. CASE q[1] # c
        BY <3>1, <3>3, <1>1 DEF TypeOK
    <3> QED BY <3>2, <3>3
  <2> QED BY <2>1 DEF Leases
<1>3. p \in Leases
    BY <1>1 DEF Leases
<1>4. Cardinality(Leases) \in Nat /\ Cardinality(Leases) # 0
    BY <1>3, FS_CardinalityType, FS_EmptySet
<1> QED BY <1>2, <1>3, <1>4, FS_RemoveElement

-----------------------------------------------------------------------------
(* One lemma for each action.                                               *)

\* Begin keeps the invariant: it asks for keys and takes none.
LEMMA BeginKeeps ==
    ASSUME IndInv, NEW c \in Clients, Begin(c)
    PROVE  IndInv'
<1> USE DEF Begin, Goto
<1>1. PICK e \in Enters, s \in Scopes, ids \in SUBSET Sessions :
        LET j == [enter |-> e, scope |-> s, ids |-> ids,
                  binding |-> IF e = "binding" THEN current[s] ELSE 0]
        IN  /\ e = "binding" => current[s] # 0
            /\ job' = [job EXCEPT ![c] = j]
            /\ todo' = [todo EXCEPT ![c] = Asked(j, 1)]
    OBVIOUS
<1> DEFINE j == [enter |-> e, scope |-> s, ids |-> ids,
                 binding |-> IF e = "binding" THEN current[s] ELSE 0]
<1>2. j \in Job /\ j.scope \in Scopes
    BY EntersAssumption DEF IndInv, TypeOK, Job
<1>3. j.enter = "binding" => /\ j.binding \in Versions /\ j.binding \in 1 .. version
                             /\ bound[j.binding].session \in Sessions
    BY <1>1 DEF IndInv, TypeOK, Named, Versions
<1>4. Asked(j, 1) \subseteq Keys
    BY <1>2, <1>3, AskedType DEF IndInv
<1>5. job' = [job EXCEPT ![c] = j] /\ todo' = [todo EXCEPT ![c] = Asked(j, 1)]
    BY <1>1
<1>6. Depth(j) \in 1 .. 3 /\ level[c] = 0
    BY <1>2, DepthType DEF IndInv, Nesting
<1>7. \A d \in Clients \ {c} : pc'[d] = pc[d] /\ job'[d] = job[d] /\ todo'[d] = todo[d]
    BY <1>5 DEF IndInv, TypeOK
<1>8. pc'[c] = "admit" /\ job'[c] = j
    BY <1>5 DEF IndInv, TypeOK
<1> HIDE DEF j
<1>t. TypeOK'
    BY <1>2, <1>4, <1>5 DEF IndInv, TypeOK, gateVars, lifeVars, bindVars, Pcs
<1>n. Nesting'
  <2>1. level' = level /\ level'[c] <= Depth(job'[c]) /\ level'[c] < Depth(job'[c])
      BY <1>6, <1>8
  <2> QED BY <2>1, <1>7, <1>8, NestingKept
<1>b. Named'
    BY <1>2, <1>3, <1>7, <1>8 DEF IndInv, Named, bindVars
<1>g. GateMap' /\ MutualExclusion'
    BY GatesKept DEF gateVars
<1>h. Holding' /\ Ordered'
  <2>1. \A k \in Keys : at[c][k] <= level'[c]
      BY <1>6 DEF IndInv, TypeOK, Holding, HoldsKey
  <2> QED BY <2>1, <1>7, <1>8, HoldingKept DEF gateVars
<1>c. Counted'
    BY LeasesKept
<1> QED BY <1>t, <1>n, <1>b, <1>g, <1>h, <1>c DEF IndInv

\* Cancel touches the context only.
LEMMA CancelKeeps ==
    ASSUME IndInv, NEW c \in Clients, Cancel(c)
    PROVE  IndInv'
<1> USE DEF Cancel
<1>t. TypeOK'
    BY DEF IndInv, TypeOK, gateVars, lifeVars, bindVars
<1>n. Nesting'
    BY DEF IndInv, Nesting
<1>b. Named'
    BY NamesKept
<1>g. GateMap' /\ MutualExclusion'
    BY GatesKept DEF gateVars
<1>h. Holding' /\ Ordered'
    BY DEF IndInv, Holding, HoldsKey, Ordered, KeyOrder, IsNext, gateVars
<1>c. Counted'
    BY LeasesKept
<1> QED BY <1>t, <1>n, <1>b, <1>g, <1>h, <1>c DEF IndInv

\* Admit keeps the invariant: refused it changes no lease, admitted it wants keys
\* that come after those held.
LEMMA AdmitKeeps ==
    ASSUME IndInv, NEW c \in Clients, Admit(c)
    PROVE  IndInv'
<1> DEFINE wanted == todo[c] \ Held(c)
<1>1. pc[c] = "admit" /\ level[c] < Depth(job[c]) /\ level[c] \in 0 .. 3
      /\ Depth(job[c]) \in 1 .. 3
    BY DepthType DEF Admit, IndInv, Nesting, TypeOK
<1>2. UNCHANGED <<gates, refs, token, ref, at, closed, idles, torn, bindVars,
                  delivered, queued>>
    BY DEF Admit, gateVars
<1>g. GateMap' /\ MutualExclusion'
    BY <1>2, GatesKept
<1>3. CASE /\ IF level[c] = 0 THEN Return(c) ELSE Stay(c, "leave")
           /\ todo' = [todo EXCEPT ![c] = {}]
           /\ UNCHANGED <<active, level>>
  <2>1. /\ pc' = [pc EXCEPT ![c] = IF level[c] = 0 THEN "out" ELSE "leave"]
        /\ job' = IF level[c] = 0 THEN [job EXCEPT ![c] = NoJob] ELSE job
        /\ canceled' \subseteq Clients
      BY <1>3 DEF Return, Stay, Goto, IndInv, TypeOK
  <2>2. NoJob \in Job /\ Depth(NoJob) \in 1 .. 3
      BY DepthType DEF NoJob, Job, EntryPoints
  <2>3. \A d \in Clients \ {c} : /\ pc'[d] = pc[d] /\ job'[d] = job[d]
                                 /\ todo'[d] = todo[d] /\ level'[d] = level[d]
      BY <1>3, <2>1 DEF IndInv, TypeOK
  <2>4. /\ pc'[c] = IF level[c] = 0 THEN "out" ELSE "leave"
        /\ job'[c] = IF level[c] = 0 THEN NoJob ELSE job[c]
      BY <2>1 DEF IndInv, TypeOK
  <2>t. TypeOK'
    <3>1. pc' \in [Clients -> Pcs] /\ job' \in [Clients -> Job]
        BY <2>1, <2>2 DEF IndInv, TypeOK, Pcs
    <3>2. todo' \in [Clients -> SUBSET Keys]
        BY <1>3 DEF IndInv, TypeOK
    <3> QED BY <1>2, <1>3, <2>1, <3>1, <3>2 DEF IndInv, TypeOK, bindVars
  <2>n. Nesting'
    <3>1. level' = level /\ level'[c] <= Depth(job'[c])
        BY <1>1, <1>3, <2>2, <2>4
    <3> QED BY <1>1, <2>3, <2>4, <3>1, NestingKept
  <2>b. Named'
      BY <1>1, <1>2, <2>3, <2>4, NamesKept
  <2>h. Holding' /\ Ordered'
    <3>1. \A k \in Keys : at[c][k] <= level'[c]
        BY <1>3, AtBound
    <3> QED BY <1>1, <1>2, <2>3, <2>4, <3>1, HoldingKept
  <2>c. Counted'
      BY <1>2, <1>3, LeasesKept DEF lifeVars
  <2> QED BY <1>g, <2>t, <2>n, <2>b, <2>h, <2>c DEF IndInv
<1>4. CASE /\ ~closed /\ \A k \in wanted, l \in Held(c) : ~Before(k, l)
           /\ active' = active + 1
           /\ level' = [level EXCEPT ![c] = @ + 1]
           /\ todo' = [todo EXCEPT ![c] = wanted]
           /\ Stay(c, IF wanted = {} THEN "check" ELSE "want")
  <2>1. /\ pc' = [pc EXCEPT ![c] = IF wanted = {} THEN "check" ELSE "want"]
        /\ UNCHANGED <<job, canceled>>
      BY <1>4 DEF Stay, Goto
  <2>2. \A d \in Clients \ {c} : /\ pc'[d] = pc[d] /\ job'[d] = job[d]
                                 /\ todo'[d] = todo[d] /\ level'[d] = level[d]
      BY <1>4, <2>1 DEF IndInv, TypeOK
  <2>3. /\ pc'[c] \in {"check", "want"} /\ level'[c] = level[c] + 1
        /\ todo'[c] = wanted
      BY <1>4, <2>1 DEF IndInv, TypeOK
  <2>4. wanted \subseteq Keys
      BY DEF IndInv, TypeOK
  <2>t. TypeOK'
    <3>1. pc' \in [Clients -> Pcs] /\ todo' \in [Clients -> SUBSET Keys]
        BY <1>4, <2>1, <2>4 DEF IndInv, TypeOK, Pcs
    <3>2. level' \in [Clients -> 0 .. 3] /\ active' \in Nat
        BY <1>1, <1>4 DEF IndInv, TypeOK
    <3> QED BY <1>2, <2>1, <3>1, <3>2 DEF IndInv, TypeOK, bindVars
  <2>n. Nesting'
    <3>1. level'[c] <= Depth(job'[c]) /\ level'[c] >= 1
        BY <1>1, <2>1, <2>3
    <3> QED BY <2>2, <2>3, <3>1, NestingKept
  <2>b. Named'
      BY <1>1, <1>2, <2>1, <2>2, NamesKept
  <2>h. Holding'
    <3> SUFFICES ASSUME NEW d \in Clients, NEW k \in Keys
                 PROVE  HoldsKey(d, k)'
        BY DEF Holding
    <3>1. CASE d = c
      <4>1. at[c][k] \in 0 .. 3 /\ level[c] \in 0 .. 3 /\ at[c][k] <= level[c]
          BY AtBound
      <4>2. k \in wanted => at[c][k] = 0
          BY DEF Held
      <4> QED BY <1>1, <1>2, <2>3, <3>1, <4>1, <4>2 DEF IndInv, Holding, HoldsKey
    <3>2. CASE d # c
        BY <1>2, <2>2, <3>2 DEF IndInv, Holding, HoldsKey, IsNext
    <3> QED BY <3>1, <3>2
  <2>o. Ordered'
    <3> SUFFICES ASSUME NEW d \in Clients, NEW k \in Keys, NEW l \in Keys
                 PROVE  KeyOrder(d, k, l)'
        BY DEF Ordered
    <3>1. CASE d = c
      <4>1. k \in wanted /\ at[c][l] # 0 => k # l /\ ~Before(k, l)
          BY <1>4 DEF Held
      <4> QED BY <1>2, <2>3, <3>1, <4>1, BeforeTotal DEF IndInv, Ordered, KeyOrder
    <3>2. CASE d # c
        BY <1>2, <2>2, <3>2 DEF IndInv, Ordered, KeyOrder
    <3> QED BY <3>1, <3>2
  <2>c. Counted'
    <3>1. IsFiniteSet(Leases') /\ Cardinality(Leases') = Cardinality(Leases) + 1
      <4>1. level[c] < 3
          BY <1>1
      <4> QED BY <1>4, <4>1, LeaseBegins DEF IndInv, Counted
    <3> QED BY <1>2, <1>4, <3>1 DEF IndInv, Counted
  <2> QED BY <1>g, <2>t, <2>n, <2>b, <2>h, <2>o, <2>c DEF IndInv
<1> QED BY <1>3, <1>4 DEF Admit

\* Check keeps the invariant: what a nested lease will ask for are keys.
LEMMA CheckKeeps ==
    ASSUME IndInv, NEW c \in Clients, Check(c)
    PROVE  IndInv'
<1>1. pc[c] = "check" /\ level[c] \in 1 .. 3
    BY DEF Check, IndInv, Nesting, TypeOK
<1>2. UNCHANGED <<gates, refs, token, ref, at, lifeVars, bindVars, delivered, job,
                  level, queued, canceled>>
    BY DEF Check, gateVars
<1>3. PICK l \in {"leave", "admit", "inside"} :
        /\ pc' = [pc EXCEPT ![c] = l]
        /\ l = "admit" => level[c] < Depth(job[c])
        /\ \/ todo' = todo
           \/ todo' = [todo EXCEPT ![c] = Asked(job[c], level[c] + 1)]
    BY DEF Check, Goto
<1>4. Asked(job[c], level[c] + 1) \subseteq Keys
  <2>1. /\ job[c] \in Job /\ job[c].scope \in Scopes /\ level[c] + 1 \in Nat
        /\ job[c].enter = "binding" => /\ job[c].binding \in Versions
                                       /\ bound[job[c].binding].session \in Sessions
    <3>1. job[c] \in Job /\ level[c] + 1 \in Nat
        BY <1>1 DEF IndInv, TypeOK
    <3>2. version \in 0 .. MaxVersion
        BY DEF IndInv, TypeOK
    <3>3. 1 .. version \subseteq Versions
        BY <3>2, EntersAssumption DEF Versions
    <3> QED BY <1>1, <3>1, <3>3 DEF IndInv, Named
  <2> QED BY <2>1, AskedType DEF IndInv
<1>5. \A d \in Clients \ {c} : pc'[d] = pc[d] /\ todo'[d] = todo[d]
    BY <1>3 DEF IndInv, TypeOK
<1>6. pc'[c] = l
    BY <1>3 DEF IndInv, TypeOK
<1>t. TypeOK'
  <2>1. pc' \in [Clients -> Pcs] /\ todo' \in [Clients -> SUBSET Keys]
      BY <1>3, <1>4 DEF IndInv, TypeOK, Pcs
  <2> QED BY <1>2, <2>1 DEF IndInv, TypeOK, lifeVars, bindVars
<1>n. Nesting'
  <2>1. level[c] <= Depth(job[c])
      BY DEF IndInv, Nesting
  <2> QED BY <1>1, <1>2, <1>3, <1>5, <1>6, <2>1, NestingKept
<1>b. Named'
    BY <1>1, <1>2, <1>5, NamesKept
<1>g. GateMap' /\ MutualExclusion'
    BY <1>2, GatesKept
<1>h. Holding' /\ Ordered'
  <2>1. \A k \in Keys : at[c][k] <= level'[c]
      BY <1>2, AtBound
  <2> QED BY <1>1, <1>2, <1>5, <1>6, <2>1, HoldingKept
<1>c. Counted'
    BY <1>2, LeasesKept
<1> QED BY <1>t, <1>n, <1>b, <1>g, <1>h, <1>c DEF IndInv

\* SetCurrent and ClearSessionBindings keep the types and leave every binding that
\* was ever seen with its session.
LEMMA BindingsKept ==
    ASSUME IndInv, NEW c \in Clients, NEW s \in Scopes, NEW i \in Sessions \cup {Nil},
           \/ SetCurrent(c, s, i) \/ (i \in Sessions /\ ClearSessionBindings(c, i))
    PROVE  /\ version' \in 0 .. MaxVersion /\ version' >= version
           /\ current' \in [Scopes -> Versions \cup {0}]
           /\ bound' \in [Versions -> [scope : Scopes \cup {Nil},
                                       session : Sessions \cup {Nil}, valid : BOOLEAN]]
           /\ queued' \in [Clients -> SUBSET Versions]
           /\ \A v \in 1 .. version : bound'[v].session = bound[v].session
           /\ \A t \in Scopes : current'[t] # 0 =>
                current'[t] <= version' /\ bound'[current'[t]].session \in Sessions
<1>1. /\ version \in 0 .. MaxVersion /\ MaxVersion \in Nat
      /\ current \in [Scopes -> Versions \cup {0}]
      /\ bound \in [Versions -> [scope : Scopes \cup {Nil},
                                 session : Sessions \cup {Nil}, valid : BOOLEAN]]
      /\ queued \in [Clients -> SUBSET Versions]
    BY EntersAssumption DEF IndInv, TypeOK
<1>2. 1 .. version \subseteq Versions
    BY <1>1 DEF Versions
<1>3. \A t \in Scopes : current[t] # 0 =>
        current[t] \in 1 .. version /\ bound[current[t]].session \in Sessions
    BY <1>1 DEF IndInv, Named, Versions
<1>4. CASE SetCurrent(c, s, i)
  <2> DEFINE v == version + 1
             old == current[s]
             freed == IF old = 0 THEN bound ELSE [bound EXCEPT ![old].valid = FALSE]
             new == [scope |-> s, session |-> i, valid |-> TRUE]
  <2>1. /\ version < MaxVersion /\ version' = v
        /\ current' = [current EXCEPT ![s] = IF i = Nil THEN 0 ELSE v]
        /\ bound' = IF i = Nil THEN freed ELSE [freed EXCEPT ![v] = new]
        /\ queued' = [queued EXCEPT ![c] = @ \cup {v}]
      BY <1>4 DEF SetCurrent
  <2>2. v \in Versions /\ version' \in 0 .. MaxVersion /\ version' >= version
      BY <1>1, <2>1 DEF Versions
  <2>3. /\ freed \in [Versions -> [scope : Scopes \cup {Nil},
                                   session : Sessions \cup {Nil}, valid : BOOLEAN]]
        /\ \A u \in Versions : freed[u].session = bound[u].session
      BY <1>1
  <2>4. new \in [scope : Scopes \cup {Nil}, session : Sessions \cup {Nil},
                valid : BOOLEAN]
      OBVIOUS
  <2>5. v \notin 1 .. version
      BY <1>1
  <2> HIDE DEF v, old, freed, new
  <2>6. bound' \in [Versions -> [scope : Scopes \cup {Nil},
                                session : Sessions \cup {Nil}, valid : BOOLEAN]]
      BY <2>1, <2>2, <2>3, <2>4
  <2>7. \A u \in 1 .. version : bound'[u].session = bound[u].session
      BY <1>2, <2>1, <2>2, <2>3, <2>5
  <2>8. i # Nil => bound'[v] = new
      BY <2>1, <2>2, <2>3
  <2>9. \A t \in Scopes : current'[t] # 0 =>
          current'[t] <= version' /\ bound'[current'[t]].session \in Sessions
    <3> TAKE t \in Scopes
    <3>1. CASE t = s
        BY <1>1, <2>1, <2>8, <3>1 DEF new, v
    <3>2. CASE t # s
        BY <1>1, <1>3, <2>1, <2>7, <3>2 DEF v
    <3> QED BY <3>1, <3>2
  <2>10. /\ current' \in [Scopes -> Versions \cup {0}]
         /\ queued' \in [Clients -> SUBSET Versions]
      BY <1>1, <2>1, <2>2
  <2> QED BY <2>2, <2>6, <2>7, <2>9, <2>10
<1>5. CASE i \in Sessions /\ ClearSessionBindings(c, i)
  <2> DEFINE hit == {t \in Scopes : CurrentIds(t) = {i}}
             last == version + Cardinality(hit)
  <2>1. /\ last <= MaxVersion /\ version' = last
        /\ current' = [t \in Scopes |-> IF t \in hit THEN 0 ELSE current[t]]
        /\ bound' = [u \in Versions |-> IF \E t \in hit : current[t] = u
                                        THEN [bound[u] EXCEPT !.valid = FALSE]
                                        ELSE bound[u]]
        /\ queued' = [queued EXCEPT ![c] = @ \cup (version + 1 .. last)]
      BY <1>5 DEF ClearSessionBindings
  <2>2. Cardinality(hit) \in Nat
    <3>1. IsFiniteSet(hit)
        BY NamesAssumption, FS_Subset
    <3> QED BY <3>1, FS_CardinalityType
  <2> HIDE DEF hit
  <2>3. /\ version' \in 0 .. MaxVersion /\ version' >= version
        /\ version + 1 .. last \subseteq Versions
      BY <1>1, <2>1, <2>2 DEF Versions
  <2>4. /\ bound' \in [Versions -> [scope : Scopes \cup {Nil},
                                   session : Sessions \cup {Nil}, valid : BOOLEAN]]
        /\ \A u \in Versions : bound'[u].session = bound[u].session
      BY <1>1, <2>1
  <2>5. /\ current' \in [Scopes -> Versions \cup {0}]
        /\ queued' \in [Clients -> SUBSET Versions]
      BY <1>1, <2>1, <2>3
  <2>6. \A t \in Scopes : current'[t] # 0 =>
          current'[t] <= version' /\ bound'[current'[t]].session \in Sessions
      BY <1>1, <1>2, <1>3, <2>1, <2>3, <2>4
  <2> QED BY <1>2, <2>3, <2>4, <2>5, <2>6
<1> QED BY <1>4, <1>5

\* Commit changes bindings and no lock.
LEMMA CommitKeeps ==
    ASSUME IndInv, NEW c \in Clients, Commit(c)
    PROVE  IndInv'
<1>1. pc[c] = "inside" /\ pc' = [pc EXCEPT ![c] = "leave"]
    BY DEF Commit, Goto
<1>2. UNCHANGED <<gates, refs, token, ref, at, lifeVars, delivered, job, level,
                  todo, canceled>>
    BY DEF Commit, gateVars
<1>3. job[c] \in Job /\ job[c].scope \in Scopes /\ job[c].ids \subseteq Sessions
    BY <1>1 DEF IndInv, TypeOK, Named, Job
<1>4. /\ version' \in 0 .. MaxVersion /\ version' >= version
      /\ current' \in [Scopes -> Versions \cup {0}]
      /\ bound' \in [Versions -> [scope : Scopes \cup {Nil},
                                  session : Sessions \cup {Nil}, valid : BOOLEAN]]
      /\ queued' \in [Clients -> SUBSET Versions]
      /\ \A v \in 1 .. version : bound'[v].session = bound[v].session
      /\ \A t \in Scopes : current'[t] # 0 =>
           current'[t] <= version' /\ bound'[current'[t]].session \in Sessions
  <2>1. CASE \E i \in Sessions \cup {Nil} : SetCurrent(c, job[c].scope, i)
      BY <1>3, <2>1, BindingsKept
  <2>2. CASE \E i \in Sessions : ClearSessionBindings(c, i)
      BY <1>3, <2>2, BindingsKept
  <2>3. CASE UNCHANGED <<bindVars, queued>>
      BY <2>3 DEF IndInv, TypeOK, Named, bindVars
  <2>4. \/ \E i \in Sessions \cup {Nil} : SetCurrent(c, job[c].scope, i)
        \/ \E i \in Sessions : ClearSessionBindings(c, i)
        \/ UNCHANGED <<bindVars, queued>>
      BY <1>3 DEF Commit
  <2> QED BY <2>1, <2>2, <2>3, <2>4
<1>5. pc'[c] = "leave" /\ \A d \in Clients \ {c} : pc'[d] = pc[d]
    BY <1>1 DEF IndInv, TypeOK
<1>t. TypeOK'
  <2>1. pc' \in [Clients -> Pcs]
      BY <1>1 DEF IndInv, TypeOK, Pcs
  <2> QED BY <1>2, <1>4, <2>1 DEF IndInv, TypeOK, lifeVars
<1>n. Nesting'
  <2>1. level[c] <= Depth(job[c]) /\ level[c] >= 1
      BY <1>1 DEF IndInv, Nesting
  <2> QED BY <1>2, <1>5, <2>1, NestingKept
<1>b. Named'
  <2>1. \A d \in Clients : pc[d] # "out" /\ job[d].enter = "binding" =>
          /\ job[d].binding \in 1 .. version'
          /\ bound'[job[d].binding].session \in Sessions
    <3>1. 1 .. version \subseteq 1 .. version'
        BY <1>4 DEF IndInv, TypeOK
    <3> QED BY <1>4, <3>1 DEF IndInv, Named
  <2> QED BY <1>1, <1>2, <1>4, <1>5, <2>1 DEF IndInv, Named
<1>g. GateMap' /\ MutualExclusion'
    BY <1>2, GatesKept
<1>h. Holding' /\ Ordered'
  <2>1. \A k \in Keys : at[c][k] <= level'[c]
      BY <1>2, AtBound
  <2> QED BY <1>1, <1>2, <1>5, <2>1, HoldingKept
<1>c. Counted'
    BY <1>2, LeasesKept
<1> QED BY <1>t, <1>n, <1>b, <1>g, <1>h, <1>c DEF IndInv

\* Publish keeps the invariant: the lease has released its keys.
LEMMA PublishKeeps ==
    ASSUME IndInv, NEW c \in Clients, Publish(c)
    PROVE  IndInv'
<1>1. /\ pc[c] = "leave" /\ pc' = [pc EXCEPT ![c] = "finish"]
      /\ \A k \in Keys : at[c][k] # level[c]
    BY DEF Publish, Goto
<1>2. UNCHANGED <<gates, refs, token, ref, at, lifeVars, bindVars, job, level, todo,
                  canceled>>
    BY DEF Publish, gateVars
<1>3. pc'[c] = "finish" /\ \A d \in Clients \ {c} : pc'[d] = pc[d]
    BY <1>1 DEF IndInv, TypeOK
<1>t. TypeOK'
  <2>1. pc' \in [Clients -> Pcs]
      BY <1>1 DEF IndInv, TypeOK, Pcs
  <2>2. delivered' \subseteq Versions /\ queued' \in [Clients -> SUBSET Versions]
      BY DEF Publish, IndInv, TypeOK
  <2> QED BY <1>2, <2>1, <2>2 DEF IndInv, TypeOK, lifeVars, bindVars
<1>n. Nesting'
  <2>1. level[c] <= Depth(job[c]) /\ level[c] >= 1
      BY <1>1 DEF IndInv, Nesting
  <2> QED BY <1>2, <1>3, <2>1, NestingKept
<1>b. Named'
    BY <1>1, <1>2, <1>3, NamesKept
<1>g. GateMap' /\ MutualExclusion'
    BY <1>2, GatesKept
<1>h. Holding' /\ Ordered'
  <2>1. \A k \in Keys : at[c][k] <= level'[c] /\ at[c][k] < level'[c]
      BY <1>1, <1>2, AtBound
  <2> QED BY <1>1, <1>2, <1>3, <2>1, HoldingKept
<1>c. Counted'
    BY <1>2, LeasesKept
<1> QED BY <1>t, <1>n, <1>b, <1>g, <1>h, <1>c DEF IndInv

\* FinishAdmission ends a lease; the last one of a closed manager makes it idle.
LEMMA FinishAdmissionKeeps ==
    ASSUME IndInv, NEW c \in Clients, FinishAdmission(c)
    PROVE  IndInv'
<1>1. /\ pc[c] = "finish" /\ active' = active - 1
      /\ idles' = IF closed /\ active = 1 THEN idles + 1 ELSE idles
      /\ level' = [level EXCEPT ![c] = @ - 1]
    BY DEF FinishAdmission
<1>2. UNCHANGED <<gates, refs, token, ref, at, closed, torn, bindVars, delivered,
                  todo, queued>>
    BY DEF FinishAdmission, gateVars
<1>3. /\ pc' = [pc EXCEPT ![c] = IF level[c] = 1 THEN "out" ELSE "leave"]
      /\ job' = IF level[c] = 1 THEN [job EXCEPT ![c] = NoJob] ELSE job
      /\ canceled' \subseteq Clients
    BY DEF FinishAdmission, Return, Stay, Goto, IndInv, TypeOK
<1>4. NoJob \in Job /\ Depth(NoJob) \in 1 .. 3
    BY DepthType DEF NoJob, Job, EntryPoints
<1>5. level[c] \in 1 .. 3 /\ level[c] <= Depth(job[c]) /\ Depth(job[c]) \in 1 .. 3
  <2>1. job[c] \in Job /\ level[c] \in 0 .. 3
      BY DEF IndInv, TypeOK
  <2>2. level[c] >= 1 /\ level[c] <= Depth(job[c])
      BY <1>1 DEF IndInv, Nesting
  <2> QED BY <2>1, <2>2, DepthType
<1>6. \A d \in Clients \ {c} : pc'[d] = pc[d] /\ job'[d] = job[d] /\ level'[d] = level[d]
    BY <1>1, <1>3 DEF IndInv, TypeOK
<1>7. /\ pc'[c] = IF level[c] = 1 THEN "out" ELSE "leave"
      /\ job'[c] = IF level[c] = 1 THEN NoJob ELSE job[c]
      /\ level'[c] = level[c] - 1
    BY <1>1, <1>3 DEF IndInv, TypeOK
<1>8. /\ IsFiniteSet(Leases') /\ Cardinality(Leases) \in Nat \ {0}
      /\ Cardinality(Leases') = Cardinality(Leases) - 1
  <2>1. level[c] >= 1
      BY <1>5
  <2> QED BY <1>1, <2>1, LeaseEnds DEF IndInv, Counted
<1>9. active \in Nat \ {0} /\ idles = 0 /\ ~torn
    BY <1>8 DEF IndInv, Counted
<1>t. TypeOK'
  <2>1. pc' \in [Clients -> Pcs] /\ job' \in [Clients -> Job]
      BY <1>3, <1>4 DEF IndInv, TypeOK, Pcs
  <2>2. level' \in [Clients -> 0 .. 3]
      BY <1>1, <1>5 DEF IndInv, TypeOK
  <2>3. active' \in Nat /\ idles' \in Nat
      BY <1>1, <1>9
  <2> QED BY <1>2, <1>3, <2>1, <2>2, <2>3 DEF IndInv, TypeOK, bindVars
<1>n. Nesting'
  <2>1. level'[c] <= Depth(job'[c])
      BY <1>4, <1>5, <1>7
  <2> QED BY <1>5, <1>6, <1>7, <2>1, NestingKept
<1>b. Named'
    BY <1>1, <1>2, <1>6, <1>7, NamesKept
<1>g. GateMap' /\ MutualExclusion'
    BY <1>2, GatesKept
<1>h. Holding' /\ Ordered'
  <2>1. \A k \in Keys : at[c][k] <= level'[c]
    <3> TAKE k \in Keys
    <3>1. at[c][k] \in 0 .. 3 /\ at[c][k] < level[c]
        BY <1>1, AtBound DEF IndInv, Holding, HoldsKey
    <3> QED BY <1>5, <1>7, <3>1
  <2> QED BY <1>1, <1>2, <1>6, <1>7, <2>1, HoldingKept
<1>c. Counted'
  <2>1. idles' # 0 => idles' = 1 /\ closed /\ active' = 0
      BY <1>1, <1>9
  <2>2. active' = Cardinality(Leases')
      BY <1>1, <1>8 DEF IndInv, Counted
  <2> QED BY <1>2, <1>8, <1>9, <2>1, <2>2 DEF Counted
<1> QED BY <1>t, <1>n, <1>b, <1>g, <1>h, <1>c DEF IndInv

\* With no lease counted, nobody holds or awaits a key.
LEMMA IdleMeansEmpty ==
    ASSUME IndInv, active = 0, NEW c \in Clients
    PROVE  level[c] = 0 /\ \A k \in Keys : at[c][k] = 0 /\ ref[c][k] = Nil
<1>1. Leases = {}
    BY FS_EmptySet DEF IndInv, Counted
<1>2. level[c] = 0
  <2>1. level[c] \in 0 .. 3
      BY DEF IndInv, TypeOK
  <2>2. ~(<<c, 1>> \in Leases)
      BY <1>1
  <2>3. ~(1 <= level[c])
      BY <2>2 DEF Leases
  <2> QED BY <2>1, <2>3
<1>3. pc[c] # "acquire"
    BY <1>2 DEF IndInv, Nesting
<1>4. \A k \in Keys : at[c][k] = 0
    BY <1>2, AtBound
<1> QED BY <1>2, <1>3, <1>4 DEF IndInv, Holding, HoldsKey

\* BeginClose refuses what comes; with nobody inside the manager is idle at once.
LEMMA BeginCloseKeeps ==
    ASSUME IndInv, BeginClose
    PROVE  IndInv'
<1> USE DEF BeginClose
<1>1. idles = 0 /\ ~torn
    BY DEF IndInv, Counted
<1>t. TypeOK'
    BY DEF IndInv, TypeOK, gateVars, bindVars
<1>n. Nesting'
    BY DEF IndInv, Nesting
<1>b. Named'
    BY NamesKept
<1>g. GateMap' /\ MutualExclusion'
    BY GatesKept DEF gateVars
<1>h. Holding' /\ Ordered'
    BY DEF IndInv, Holding, HoldsKey, Ordered, KeyOrder, IsNext, gateVars
<1>c. Counted'
  <2>1. Leases' = Leases
      BY DEF Leases
  <2> QED BY <1>1, <2>1 DEF IndInv, Counted
<1> QED BY <1>t, <1>n, <1>b, <1>g, <1>h, <1>c DEF IndInv

\* Close drops a map of gates that nobody refers to.
LEMMA CloseKeeps ==
    ASSUME IndInv, Close
    PROVE  IndInv'
<1> USE DEF Close
<1>1. active = 0 /\ closed
    BY DEF IndInv, Counted, TypeOK
<1>2. \A c \in Clients : \A k \in Keys : at[c][k] = 0 /\ ref[c][k] = Nil
    BY <1>1, IdleMeansEmpty
<1>t. TypeOK'
  <2>1. bound' \in [Versions -> [scope : Scopes \cup {Nil},
                                session : Sessions \cup {Nil}, valid : BOOLEAN]]
      BY DEF IndInv, TypeOK
  <2>2. gates' \in [Keys -> Gates \cup {Nil}] /\ current' \in [Scopes -> Versions \cup {0}]
        /\ torn' \in BOOLEAN
      OBVIOUS
  <2> QED BY <2>1, <2>2 DEF IndInv, TypeOK
<1>n. Nesting'
    BY DEF IndInv, Nesting
<1>b. Named'
  <2>1. \A v \in Versions : bound'[v].session = bound[v].session
      BY DEF IndInv, TypeOK
  <2>2. 1 .. version \subseteq Versions
      BY EntersAssumption DEF IndInv, TypeOK, Versions
  <2> QED BY <2>1, <2>2 DEF IndInv, Named
<1>g. GateMap'
  <2>1. \A k \in Keys : Users(k)' = {}
      BY <1>2 DEF Users
  <2> QED BY <1>2, <2>1, FS_EmptySet DEF GateMap
<1>m. MutualExclusion'
    BY DEF IndInv, MutualExclusion, Held
<1>h. Holding' /\ Ordered'
    BY DEF IndInv, Holding, HoldsKey, Ordered, KeyOrder, IsNext
<1>c. Counted'
  <2>1. Leases' = Leases
      BY DEF Leases
  <2> QED BY <2>1 DEF IndInv, Counted, TypeOK
<1> QED BY <1>t, <1>n, <1>b, <1>g, <1>m, <1>h, <1>c DEF IndInv

-----------------------------------------------------------------------------
(* Steps on a gate.                                                         *)

\* At most one key is next.
LEMMA NextUnique ==
    ASSUME IndInv, NEW c \in Clients, NEW k \in Keys, NEW l \in Keys,
           IsNext(c, k), IsNext(c, l)
    PROVE  k = l
BY BeforeTotal DEF IsNext

\* The parts that a step on the gates does not touch.
LEMMA GateStepKeeps ==
    ASSUME IndInv, NEW c \in Clients, NEW p \in Pcs \ {"out", "admit"},
           pc[c] \notin {"out", "admit"}, pc' = [pc EXCEPT ![c] = p],
           UNCHANGED <<lifeVars, bindVars, job, level>>
    PROVE  Nesting' /\ Named' /\ Counted'
<1>1. pc'[c] = p /\ \A d \in Clients \ {c} : pc'[d] = pc[d]
    BY DEF IndInv, TypeOK
<1>2. Nesting'
  <2>1. level[c] <= Depth(job[c]) /\ level[c] >= 1
      BY DEF IndInv, Nesting
  <2> QED BY <1>1, <2>1, NestingKept
<1>3. Named'
    BY <1>1, NamesKept
<1> QED BY <1>2, <1>3, LeasesKept

\* A goroutine gives up its reference: the last one takes the gate off the map.
LEMMA DropKeeps ==
    ASSUME IndInv, NEW c \in Clients, NEW k \in Keys, ref[c][k] # Nil, Drop(c, k)
    PROVE  /\ GateMap' /\ refs' \in [Gates -> Nat]
           /\ gates' \in [Keys -> Gates \cup {Nil}]
           /\ ref' \in [Clients -> [Keys -> Gates \cup {Nil}]]
           /\ ref'[c][k] = Nil
           /\ \A d \in Clients, l \in Keys : d # c \/ l # k => ref'[d][l] = ref[d][l]
<1> DEFINE g == ref[c][k]
<1>1. /\ refs' = [refs EXCEPT ![g] = @ - 1]
      /\ gates' = IF refs[g] = 1 THEN [gates EXCEPT ![k] = Nil] ELSE gates
      /\ ref' = [ref EXCEPT ![c][k] = Nil]
    BY DEF Drop
<1>2. g \in Gates /\ gates[k] = g /\ g # Nil
    BY DEF IndInv, TypeOK, GateMap
<1>3. /\ ref'[c][k] = Nil
      /\ \A d \in Clients, l \in Keys : d # c \/ l # k => ref'[d][l] = ref[d][l]
    BY <1>1 DEF IndInv, TypeOK
<1>4. Users(k)' = Users(k) \ {c} /\ c \in Users(k)
    BY <1>3 DEF Users
<1>5. \A l \in Keys \ {k} : Users(l)' = Users(l)
    BY <1>3 DEF Users
<1>6. IsFiniteSet(Users(k)) /\ refs[g] = Cardinality(Users(k))
    BY <1>2 DEF IndInv, GateMap
<1>7. /\ IsFiniteSet(Users(k)') /\ Cardinality(Users(k)') = refs[g] - 1
      /\ refs[g] \in Nat \ {0} /\ Cardinality(Users(k)') \in Nat
  <2>1. IsFiniteSet(Users(k) \ {c}) /\ Cardinality(Users(k) \ {c}) = refs[g] - 1
      BY <1>4, <1>6, FS_RemoveElement
  <2>2. Cardinality(Users(k) \ {c}) \in Nat /\ refs[g] \in Nat
      BY <1>6, <2>1, FS_CardinalityType
  <2> QED BY <1>4, <2>1, <2>2
<1>8. refs[g] = 1 <=> Users(k)' = {}
  <2>1. Cardinality(Users(k)') = 0 <=> Users(k)' = {}
      BY <1>7, FS_EmptySet
  <2> QED BY <1>7, <2>1
<1>9. refs'[g] = refs[g] - 1 /\ \A h \in Gates \ {g} : refs'[h] = refs[h]
    BY <1>1, <1>2 DEF IndInv, TypeOK
<1>10. gates'[k] = (IF refs[g] = 1 THEN Nil ELSE g)
       /\ \A l \in Keys \ {k} : gates'[l] = gates[l] /\ gates[l] # g
    BY <1>1, <1>2 DEF IndInv, TypeOK, GateMap
<1>11. /\ refs' \in [Gates -> Nat] /\ gates' \in [Keys -> Gates \cup {Nil}]
       /\ ref' \in [Clients -> [Keys -> Gates \cup {Nil}]]
    BY <1>1, <1>2, <1>7 DEF IndInv, TypeOK
<1> HIDE DEF g
<1>12. ASSUME NEW d \in Clients, NEW l \in Keys, ref'[d][l] # Nil
       PROVE  gates'[l] = ref'[d][l]
  <2>1. CASE l = k
    <3>1. d # c /\ ref'[d][k] = ref[d][k] /\ gates[k] = ref[d][k]
        BY <1>3, <1>12, <2>1 DEF IndInv, GateMap
    <3>2. Users(k)' # {}
        BY <1>12, <2>1 DEF Users
    <3> QED BY <1>2, <1>8, <1>10, <2>1, <3>1, <3>2
  <2>2. CASE l # k
      BY <1>3, <1>10, <1>12, <2>2 DEF IndInv, GateMap
  <2> QED BY <2>1, <2>2
<1>13. ASSUME NEW l \in Keys, NEW m \in Keys, gates'[l] # Nil, gates'[l] = gates'[m]
       PROVE  l = m
    BY <1>2, <1>10, <1>13 DEF IndInv, GateMap
<1>14. \A l \in Keys : IsFiniteSet(Users(l)')
    BY <1>5, <1>7 DEF IndInv, GateMap
<1>15. ASSUME NEW l \in Keys, gates'[l] # Nil
       PROVE  refs'[gates'[l]] = Cardinality(Users(l)') /\ Users(l)' # {}
  <2>1. CASE l = k
      BY <1>7, <1>8, <1>9, <1>10, <1>15, <2>1
  <2>2. CASE l # k
    <3>1. gates'[l] = gates[l] /\ gates[l] \in Gates \ {g} /\ Users(l)' = Users(l)
        BY <1>5, <1>10, <1>15, <2>2 DEF IndInv, TypeOK
    <3> QED BY <1>9, <1>15, <3>1 DEF IndInv, GateMap
  <2> QED BY <2>1, <2>2
<1> QED BY <1>3, <1>11, <1>12, <1>13, <1>14, <1>15 DEF GateMap

\* Want keeps the invariant: the gate of the key is made or counted once more.
LEMMA WantKeeps ==
    ASSUME IndInv, NEW c \in Clients, Want(c)
    PROVE  IndInv'
<1>1. PICK k \in Keys, g \in Gates :
        /\ IsNext(c, k)
        /\ IF gates[k] = Nil THEN Unused(g) ELSE g = gates[k]
        /\ gates' = [gates EXCEPT ![k] = g]
        /\ refs' = [refs EXCEPT ![g] = IF gates[k] = Nil THEN 1 ELSE @ + 1]
        /\ token' = [token EXCEPT ![g] = gates[k] # Nil /\ @]
        /\ ref' = [ref EXCEPT ![c][k] = g]
    BY DEF Want
<1>2. /\ pc[c] = "want" /\ pc' = [pc EXCEPT ![c] = "acquire"]
      /\ UNCHANGED <<lifeVars, bindVars, delivered, job, level, todo, at, queued,
                     canceled>>
    BY DEF Want, Goto
<1>3. pc'[c] = "acquire" /\ \A d \in Clients \ {c} : pc'[d] = pc[d]
    BY <1>2 DEF IndInv, TypeOK
<1>4. /\ ref'[c][k] = g /\ g # Nil
      /\ \A d \in Clients, l \in Keys : d # c \/ l # k => ref'[d][l] = ref[d][l]
    BY <1>1, NilAssumption DEF IndInv, TypeOK
<1>5. gates'[k] = g /\ \A l \in Keys \ {k} : gates'[l] = gates[l] /\ gates[l] # g
    BY <1>1 DEF IndInv, TypeOK, GateMap, Unused
<1>6. /\ refs'[g] = IF gates[k] = Nil THEN 1 ELSE refs[g] + 1
      /\ \A h \in Gates \ {g} : refs'[h] = refs[h]
    BY <1>1 DEF IndInv, TypeOK
<1>7. /\ gates[k] # Nil => token'[g] = token[g]
      /\ \A h \in Gates \ {g} : token'[h] = token[h]
    BY <1>1 DEF IndInv, TypeOK
<1>8. at[c][k] = 0 /\ ref[c][k] = Nil
    BY <1>1, <1>2 DEF IndInv, Holding, HoldsKey, IsNext
<1>9. /\ Users(k)' = Users(k) \cup {c} /\ c \notin Users(k)
      /\ \A l \in Keys \ {k} : Users(l)' = Users(l)
    BY <1>4, <1>8 DEF Users
<1>10. IsFiniteSet(Users(k)') /\ Cardinality(Users(k)') = Cardinality(Users(k)) + 1
    BY <1>9, FS_AddElement DEF IndInv, GateMap
<1>11. refs'[g] = Cardinality(Users(k)')
  <2>1. CASE gates[k] = Nil
    <3>1. Users(k) = {}
        BY <2>1 DEF IndInv, GateMap, Users
    <3> QED BY <1>6, <1>10, <2>1, <3>1, FS_EmptySet
  <2>2. CASE gates[k] # Nil
    <3>1. refs[g] = Cardinality(Users(k))
        BY <1>1, <2>2 DEF IndInv, GateMap
    <3> QED BY <1>6, <1>10, <2>2, <3>1
  <2> QED BY <2>1, <2>2
<1>t. TypeOK'
  <2>1. pc' \in [Clients -> Pcs]
      BY <1>2 DEF IndInv, TypeOK, Pcs
  <2>2. gates' \in [Keys -> Gates \cup {Nil}] /\ refs' \in [Gates -> Nat]
      BY <1>1 DEF IndInv, TypeOK
  <2>3. token' \in [Gates -> BOOLEAN]
      BY <1>1 DEF IndInv, TypeOK
  <2>4. ref' \in [Clients -> [Keys -> Gates \cup {Nil}]]
      BY <1>1 DEF IndInv, TypeOK
  <2> QED BY <1>2, <2>1, <2>2, <2>3, <2>4 DEF IndInv, TypeOK, lifeVars, bindVars
<1>n. Nesting' /\ Named' /\ Counted'
    BY <1>2, GateStepKeeps DEF Pcs
<1>g. GateMap'
  <2>1. ASSUME NEW d \in Clients, NEW l \in Keys, ref'[d][l] # Nil
        PROVE  gates'[l] = ref'[d][l]
    <3>1. CASE d = c /\ l = k
        BY <1>4, <1>5, <3>1
    <3>2. CASE d # c \/ l # k
        BY <1>1, <1>4, <1>5, <2>1, <3>2 DEF IndInv, GateMap
    <3> QED BY <3>1, <3>2
  <2>2. ASSUME NEW l \in Keys, NEW m \in Keys, gates'[l] # Nil, gates'[l] = gates'[m]
        PROVE  l = m
      BY <1>5, <2>2 DEF IndInv, GateMap
  <2>3. \A l \in Keys : IsFiniteSet(Users(l)')
      BY <1>9, <1>10 DEF IndInv, GateMap
  <2>4. ASSUME NEW l \in Keys, gates'[l] # Nil
        PROVE  refs'[gates'[l]] = Cardinality(Users(l)') /\ Users(l)' # {}
    <3>1. CASE l = k
        BY <1>5, <1>9, <1>11, <3>1
    <3>2. CASE l # k
      <4>1. gates'[l] = gates[l] /\ gates[l] \in Gates \ {g} /\ Users(l)' = Users(l)
          BY <1>5, <1>9, <2>4, <3>2 DEF IndInv, TypeOK
      <4> QED BY <1>6, <2>4, <4>1 DEF IndInv, GateMap
    <3> QED BY <3>1, <3>2
  <2> QED BY <2>1, <2>2, <2>3, <2>4 DEF GateMap
<1>m. MutualExclusion'
    BY <1>2 DEF IndInv, MutualExclusion, Held
<1>h. Holding'
  <2> SUFFICES ASSUME NEW d \in Clients, NEW l \in Keys
               PROVE  HoldsKey(d, l)'
      BY DEF Holding
  <2>1. at[d][l] # 0 => token'[ref[d][l]] /\ ref'[d][l] = ref[d][l]
    <3> SUFFICES ASSUME at[d][l] # 0
                 PROVE  token'[ref[d][l]] /\ ref'[d][l] = ref[d][l]
        OBVIOUS
    <3>1. /\ ref[d][l] # Nil /\ ref[d][l] \in Gates /\ token[ref[d][l]]
          /\ gates[l] = ref[d][l]
        BY DEF IndInv, Holding, HoldsKey, TypeOK, GateMap
    <3>2. d # c \/ l # k
        BY <1>8
    <3>3. gates[k] = Nil => ref[d][l] # g
        BY <1>1 DEF Unused
    <3> QED BY <1>4, <1>7, <3>1, <3>2, <3>3
  <2>2. CASE d = c
    <3>1. at[c][l] = 0 /\ l # k => ref[c][l] = Nil /\ ~IsNext(c, l)
        BY <1>1, <1>2, NextUnique DEF IndInv, Holding, HoldsKey
    <3>2. IsNext(c, l)' <=> IsNext(c, l)
        BY <1>2 DEF IsNext
    <3> QED BY <1>1, <1>2, <1>3, <1>4, <1>8, <2>1, <2>2, <3>1, <3>2
            DEF IndInv, Holding, HoldsKey
  <2>3. CASE d # c
      BY <1>2, <1>3, <1>4, <2>1, <2>3 DEF IndInv, Holding, HoldsKey, IsNext
  <2> QED BY <2>2, <2>3
<1>o. Ordered'
  <2> SUFFICES ASSUME NEW d \in Clients, NEW l \in Keys, NEW m \in Keys
               PROVE  KeyOrder(d, l, m)'
      BY DEF Ordered
  <2> QED BY <1>2, <1>3 DEF IndInv, Ordered, KeyOrder
<1> QED BY <1>t, <1>n, <1>g, <1>m, <1>h, <1>o DEF IndInv

\* Acquire keeps the invariant: an empty token means that nobody holds the key.
LEMMA AcquireKeeps ==
    ASSUME IndInv, NEW c \in Clients, Acquire(c)
    PROVE  IndInv'
<1>1. PICK k \in Keys :
        /\ IsNext(c, k) /\ ~token[ref[c][k]]
        /\ token' = [token EXCEPT ![ref[c][k]] = TRUE]
        /\ at' = [at EXCEPT ![c][k] = level[c]]
        /\ todo' = [todo EXCEPT ![c] = @ \ {k}]
        /\ pc' = [pc EXCEPT ![c] = IF todo[c] = {k} THEN "check" ELSE "want"]
    BY DEF Acquire, Goto
<1>2. /\ pc[c] = "acquire"
      /\ UNCHANGED <<gates, refs, lifeVars, bindVars, delivered, job, level, ref,
                     queued, canceled>>
    BY DEF Acquire
<1>3. pc'[c] \in {"check", "want"} /\ \A d \in Clients \ {c} : pc'[d] = pc[d]
    BY <1>1 DEF IndInv, TypeOK
<1>4. /\ at[c][k] = 0 /\ ref[c][k] # Nil /\ ref[c][k] \in Gates
      /\ gates[k] = ref[c][k]
    BY <1>1, <1>2 DEF IndInv, TypeOK, GateMap, Holding, HoldsKey, IsNext
<1>5. \A d \in Clients : at[d][k] = 0
    BY <1>1, <1>4 DEF IndInv, GateMap, Holding, HoldsKey
<1>6. /\ at'[c][k] = level[c]
      /\ \A d \in Clients, l \in Keys : d # c \/ l # k => at'[d][l] = at[d][l]
    BY <1>1 DEF IndInv, TypeOK
<1>7. token'[ref[c][k]] /\ \A h \in Gates : token[h] => token'[h]
    BY <1>1, <1>4 DEF IndInv, TypeOK
<1>8. level[c] \in 1 .. 3
  <2>1. level[c] \in 0 .. 3
      BY DEF IndInv, TypeOK
  <2> QED BY <1>2, <2>1 DEF IndInv, Nesting
<1>9. todo'[c] = todo[c] \ {k} /\ \A d \in Clients \ {c} : todo'[d] = todo[d]
    BY <1>1 DEF IndInv, TypeOK
<1>t. TypeOK'
  <2>1. pc' \in [Clients -> Pcs] /\ todo' \in [Clients -> SUBSET Keys]
      BY <1>1 DEF IndInv, TypeOK, Pcs
  <2>2. token' \in [Gates -> BOOLEAN]
      BY <1>1, <1>4 DEF IndInv, TypeOK
  <2>3. at' \in [Clients -> [Keys -> 0 .. 3]]
      BY <1>1, <1>8 DEF IndInv, TypeOK
  <2> QED BY <1>2, <2>1, <2>2, <2>3 DEF IndInv, TypeOK, lifeVars, bindVars
<1>n. Nesting' /\ Named' /\ Counted'
    BY <1>1, <1>2, GateStepKeeps DEF Pcs
<1>g. GateMap'
  <2>1. \A l \in Keys : Users(l)' = Users(l)
      BY <1>2 DEF Users
  <2> QED BY <1>2, <2>1 DEF IndInv, GateMap
<1>m. MutualExclusion'
  <2> SUFFICES ASSUME NEW d \in Clients, NEW e \in Clients, d # e, NEW l \in Keys,
                      at'[d][l] # 0, at'[e][l] # 0
               PROVE  FALSE
      BY DEF MutualExclusion, Held
  <2>1. CASE l = k
      BY <1>5, <1>6, <2>1
  <2>2. CASE l # k
      BY <1>6, <2>2 DEF IndInv, MutualExclusion, Held
  <2> QED BY <2>1, <2>2
<1>h. Holding'
  <2> SUFFICES ASSUME NEW d \in Clients, NEW l \in Keys
               PROVE  HoldsKey(d, l)'
      BY DEF Holding
  <2>1. ref[d][l] # Nil => ref[d][l] \in Gates
      BY DEF IndInv, TypeOK
  <2>2. CASE d = c /\ l = k
      BY <1>2, <1>3, <1>4, <1>6, <1>7, <1>8, <1>9, <2>2 DEF HoldsKey
  <2>3. CASE d = c /\ l # k
    <3>1. at[c][l] = 0 => ref[c][l] = Nil
        BY <1>1, <2>3, NextUnique DEF IndInv, Holding, HoldsKey
    <3> QED BY <1>2, <1>3, <1>6, <1>7, <1>9, <2>1, <2>3, <3>1
            DEF IndInv, Holding, HoldsKey
  <2>4. CASE d # c
      BY <1>2, <1>3, <1>6, <1>7, <1>9, <2>1, <2>4
         DEF IndInv, Holding, HoldsKey, IsNext
  <2> QED BY <2>2, <2>3, <2>4
<1>o. Ordered'
  <2> SUFFICES ASSUME NEW d \in Clients, NEW l \in Keys, NEW m \in Keys
               PROVE  KeyOrder(d, l, m)'
      BY DEF Ordered
  <2>1. CASE d = c
    <3>1. at[c][l] <= level[c] /\ at[c][l] \in 0 .. 3
        BY AtBound
    <3>2. at[c][m] # 0 => Before(m, k)
        BY <1>1, <1>2 DEF IndInv, Ordered, KeyOrder, IsNext
    <3>3. l \in todo[c] \ {k} => Before(k, l)
        BY <1>1 DEF IsNext
    <3>4. l \in todo[c] /\ at[c][m] # 0 => Before(m, l)
        BY <1>2 DEF IndInv, Ordered, KeyOrder
    <3>5. at[c][m] # 0 /\ at[c][m] < at[c][l] => Before(m, l)
        BY DEF IndInv, Ordered, KeyOrder
    <3>6. at'[c][m] # 0 /\ at'[c][m] < at'[c][l] => Before(m, l)
      <4>1. CASE m = k
          BY <1>6, <1>8, <3>1, <4>1
      <4>2. CASE m # k /\ l = k
          BY <1>6, <3>2, <4>2
      <4>3. CASE m # k /\ l # k
          BY <1>6, <3>5, <4>3
      <4> QED BY <4>1, <4>2, <4>3
    <3>7. l \in todo'[c] /\ at'[c][m] # 0 => Before(m, l)
        BY <1>6, <1>9, <3>3, <3>4
    <3> QED BY <2>1, <3>6, <3>7 DEF KeyOrder
  <2>2. CASE d # c
      BY <1>3, <1>6, <1>9, <2>2 DEF IndInv, Ordered, KeyOrder
  <2> QED BY <2>1, <2>2
<1> QED BY <1>t, <1>n, <1>g, <1>m, <1>h, <1>o DEF IndInv

\* GiveUp keeps the invariant: only the reference waited on goes.
LEMMA GiveUpKeeps ==
    ASSUME IndInv, NEW c \in Clients, GiveUp(c)
    PROVE  IndInv'
<1>1. PICK k \in Keys : IsNext(c, k) /\ Drop(c, k)
    BY DEF GiveUp
<1>2. /\ pc[c] = "acquire" /\ pc' = [pc EXCEPT ![c] = "leave"]
      /\ todo' = [todo EXCEPT ![c] = {}]
      /\ UNCHANGED <<token, lifeVars, bindVars, delivered, job, level, at, queued,
                     canceled>>
    BY DEF GiveUp, Goto
<1>3. at[c][k] = 0 /\ ref[c][k] # Nil
    BY <1>1, <1>2 DEF IndInv, Holding, HoldsKey, IsNext
<1>4. /\ pc'[c] = "leave" /\ \A d \in Clients \ {c} : pc'[d] = pc[d]
      /\ \A d \in Clients \ {c} : todo'[d] = todo[d]
    BY <1>2 DEF IndInv, TypeOK
<1>5. /\ GateMap' /\ refs' \in [Gates -> Nat]
      /\ gates' \in [Keys -> Gates \cup {Nil}]
      /\ ref' \in [Clients -> [Keys -> Gates \cup {Nil}]]
      /\ ref'[c][k] = Nil
      /\ \A d \in Clients, l \in Keys : d # c \/ l # k => ref'[d][l] = ref[d][l]
    BY <1>1, <1>3, DropKeeps
<1>t. TypeOK'
  <2>1. pc' \in [Clients -> Pcs] /\ todo' \in [Clients -> SUBSET Keys]
      BY <1>2 DEF IndInv, TypeOK, Pcs
  <2> QED BY <1>2, <1>5, <2>1 DEF IndInv, TypeOK, lifeVars, bindVars
<1>n. Nesting' /\ Named' /\ Counted'
    BY <1>2, GateStepKeeps DEF Pcs
<1>m. MutualExclusion'
    BY <1>2 DEF IndInv, MutualExclusion, Held
<1>h. Holding'
  <2> SUFFICES ASSUME NEW d \in Clients, NEW l \in Keys
               PROVE  HoldsKey(d, l)'
      BY DEF Holding
  <2>1. CASE d = c /\ l = k
      BY <1>2, <1>3, <1>4, <1>5, <2>1 DEF HoldsKey
  <2>2. CASE d = c /\ l # k
    <3>1. at[c][l] = 0 => ref[c][l] = Nil
        BY <1>1, <2>2, NextUnique DEF IndInv, Holding, HoldsKey
    <3> QED BY <1>2, <1>4, <1>5, <2>2, <3>1 DEF IndInv, Holding, HoldsKey
  <2>3. CASE d # c
      BY <1>2, <1>4, <1>5, <2>3 DEF IndInv, Holding, HoldsKey, IsNext
  <2> QED BY <2>1, <2>2, <2>3
<1>o. Ordered'
  <2> SUFFICES ASSUME NEW d \in Clients, NEW l \in Keys, NEW m \in Keys
               PROVE  KeyOrder(d, l, m)'
      BY DEF Ordered
  <2> QED BY <1>2, <1>4 DEF IndInv, Ordered, KeyOrder
<1> QED BY <1>t, <1>n, <1>5, <1>m, <1>h, <1>o DEF IndInv

\* Release keeps the invariant: the token taken back is the holder's own.
LEMMA ReleaseKeeps ==
    ASSUME IndInv, NEW c \in Clients, Release(c)
    PROVE  IndInv'
<1>1. PICK k \in Keys :
        /\ IsLast(c, k) /\ Drop(c, k)
        /\ token' = [token EXCEPT ![ref[c][k]] = FALSE]
        /\ at' = [at EXCEPT ![c][k] = 0]
    BY DEF Release
<1>2. /\ pc[c] = "leave"
      /\ UNCHANGED <<lifeVars, bindVars, delivered, pc, job, level, todo, queued,
                     canceled>>
    BY DEF Release
<1>3. at[c][k] = level[c] /\ level[c] \in 1 .. 3
  <2>1. level[c] \in 0 .. 3
      BY DEF IndInv, TypeOK
  <2> QED BY <1>1, <1>2, <2>1 DEF IndInv, Nesting, IsLast
<1>4. ref[c][k] # Nil /\ ref[c][k] \in Gates /\ gates[k] = ref[c][k]
    BY <1>3 DEF IndInv, TypeOK, GateMap, Holding, HoldsKey
<1>5. /\ GateMap' /\ refs' \in [Gates -> Nat]
      /\ gates' \in [Keys -> Gates \cup {Nil}]
      /\ ref' \in [Clients -> [Keys -> Gates \cup {Nil}]]
      /\ ref'[c][k] = Nil
      /\ \A d \in Clients, l \in Keys : d # c \/ l # k => ref'[d][l] = ref[d][l]
    BY <1>1, <1>4, DropKeeps
<1>6. /\ at'[c][k] = 0
      /\ \A d \in Clients, l \in Keys : d # c \/ l # k => at'[d][l] = at[d][l]
    BY <1>1 DEF IndInv, TypeOK
<1>7. \A h \in Gates \ {ref[c][k]} : token'[h] = token[h]
    BY <1>1 DEF IndInv, TypeOK
<1>8. \A d \in Clients, l \in Keys : at'[d][l] # 0 => at'[d][l] = at[d][l]
    BY <1>6
<1>t. TypeOK'
  <2>1. token' \in [Gates -> BOOLEAN]
      BY <1>1, <1>4 DEF IndInv, TypeOK
  <2>2. at' \in [Clients -> [Keys -> 0 .. 3]]
      BY <1>1 DEF IndInv, TypeOK
  <2> QED BY <1>2, <1>5, <2>1, <2>2 DEF IndInv, TypeOK, lifeVars, bindVars
<1>n. Nesting' /\ Named' /\ Counted'
  <2>1. Nesting'
      BY <1>2 DEF IndInv, Nesting
  <2> QED BY <1>2, <2>1, NamesKept, LeasesKept
<1>m. MutualExclusion'
    BY <1>8 DEF IndInv, MutualExclusion, Held
<1>h. Holding'
  <2> SUFFICES ASSUME NEW d \in Clients, NEW l \in Keys
               PROVE  HoldsKey(d, l)'
      BY DEF Holding
  <2>1. CASE d = c /\ l = k
      BY <1>2, <1>3, <1>5, <1>6, <2>1 DEF HoldsKey
  <2>2. CASE d # c \/ l # k
    <3>1. at[d][l] # 0 => ref[d][l] # ref[c][k] /\ ref[d][l] \in Gates
      <4> SUFFICES ASSUME at[d][l] # 0
                   PROVE  ref[d][l] # ref[c][k] /\ ref[d][l] \in Gates
          OBVIOUS
      <4>1. ref[d][l] # Nil /\ ref[d][l] \in Gates /\ gates[l] = ref[d][l]
          BY DEF IndInv, TypeOK, GateMap, Holding, HoldsKey
      <4>2. ref[d][l] = ref[c][k] => l = k
          BY <1>4, <4>1 DEF IndInv, GateMap
      <4>3. l = k => d = c
          BY <1>3 DEF IndInv, MutualExclusion, Held
      <4> QED BY <2>2, <4>1, <4>2, <4>3
    <3> QED BY <1>2, <1>5, <1>6, <1>7, <2>2, <3>1
            DEF IndInv, Holding, HoldsKey, IsNext
  <2> QED BY <2>1, <2>2
<1>o. Ordered'
  <2> SUFFICES ASSUME NEW d \in Clients, NEW l \in Keys, NEW m \in Keys
               PROVE  KeyOrder(d, l, m)'
      BY DEF Ordered
  <2>1. at'[d][l] = at[d][l] \/ at'[d][l] = 0
      BY <1>6
  <2>2. at[d][m] \in 0 .. 3
      BY DEF IndInv, TypeOK
  <2> QED BY <1>2, <1>8, <2>1, <2>2 DEF IndInv, Ordered, KeyOrder
<1> QED BY <1>t, <1>n, <1>5, <1>m, <1>h, <1>o DEF IndInv

-----------------------------------------------------------------------------
(* Every step keeps the invariant.                                          *)

\* The invariant is inductive: no step of a goroutine, of a context or of the
\* shutdown leaves it.
LEMMA Inductive == IndInv /\ [Next]_vars => IndInv'
<1> SUFFICES ASSUME IndInv, [Next]_vars PROVE IndInv'
    OBVIOUS
<1>1. ASSUME NEW c \in Clients, Begin(c) \/ Cancel(c) \/ Step(c) PROVE IndInv'
    BY <1>1, BeginKeeps, CancelKeeps, AdmitKeeps, WantKeeps, AcquireKeeps,
       GiveUpKeeps, CheckKeeps, CommitKeeps, ReleaseKeeps, PublishKeeps,
       FinishAdmissionKeeps DEF Step
<1>2. CASE BeginClose
    BY <1>2, BeginCloseKeeps
<1>3. CASE Close
    BY <1>3, CloseKeeps
<1>4. CASE UNCHANGED vars
  <2>1. /\ \A k \in Keys : Users(k)' = Users(k)
        /\ Leases' = Leases
      BY <1>4 DEF Users, Leases, vars
  <2>2. TypeOK'
      BY <1>4 DEF IndInv, TypeOK, vars
  <2>3. Nesting' /\ Named'
      BY <1>4 DEF IndInv, Nesting, Named, vars
  <2>4. GateMap' /\ MutualExclusion' /\ Counted'
      BY <1>4, <2>1 DEF IndInv, GateMap, MutualExclusion, Held, Counted, vars
  <2>5. Holding' /\ Ordered'
      BY <1>4 DEF IndInv, Holding, HoldsKey, Ordered, KeyOrder, IsNext, vars
  <2> QED BY <2>2, <2>3, <2>4, <2>5 DEF IndInv
<1> QED BY <1>1, <1>2, <1>3, <1>4 DEF Next

\* The invariant holds throughout.
THEOREM Invariant == Spec => []IndInv
BY Initially, Inductive, PTL DEF Spec

\* The manager keeps its types: no count goes below zero, no lease nests deeper
\* than its entry point says, whatever is canceled or closed.
THEOREM TypeCorrect == Spec => []TypeOK
<1>1. IndInv => TypeOK
    BY DEF IndInv
<1> QED BY <1>1, Invariant, PTL

\* A scope's or a session's key is held by one goroutine at a time, although its
\* gate object is dropped by releaseGate and made again by enterKeys.
THEOREM OneHolder == Spec => []MutualExclusion
<1>1. IndInv => MutualExclusion
    BY DEF IndInv
<1> QED BY <1>1, Invariant, PTL

\* The map holds exactly the gates that are held or awaited.
THEOREM GatesExact == Spec => []GatesCounted
<1>1. IndInv => GatesCounted
    BY DEF IndInv, GateMap, GatesCounted, Users
<1> QED BY <1>1, Invariant, PTL

\* The maps are dropped when nobody is inside or on the way in, and the idle
\* channel is closed at most once.
THEOREM TeardownQuiet == Spec => []QuietTeardown
<1>1. IndInv => QuietTeardown
  <2> SUFFICES ASSUME IndInv PROVE QuietTeardown
      OBVIOUS
  <2>1. idles <= 1
      BY DEF IndInv, Counted, TypeOK
  <2>2. ASSUME torn, NEW c \in Clients PROVE level[c] = 0
      BY <2>2, IdleMeansEmpty DEF IndInv, Counted
  <2> QED BY <2>1, <2>2 DEF QuietTeardown
<1> QED BY <1>1, Invariant, PTL

-----------------------------------------------------------------------------
(* The bindings.                                                            *)

\* A goroutine has a key, or the lease it is entering will take it.
Wants(c, k) == k \in todo[c] \/ at[c][k] # 0

\* The lease being entered, or held inside, is the innermost one of the job.
Innermost(c) ==
    \/ pc[c] = "admit" /\ level[c] + 1 = Depth(job[c])
    \/ pc[c] \in {"want", "acquire", "check", "inside"} /\ level[c] = Depth(job[c])

\* On the way in a goroutine has its scope's key or will take it; in its innermost lease
\* also those of the sessions it names.  What was wanted is held when it looks around.
KeysTaken(c) ==
    /\ pc[c] \in {"check", "inside"} => todo[c] = {}
    /\ pc[c] = "inside" => level[c] = Depth(job[c])
    /\ /\ pc[c] \in {"admit", "want", "acquire", "check", "inside"}
       /\ job[c].enter # "sessions"
       => Wants(c, ScopeKey(job[c].scope))
    /\ Innermost(c) /\ job[c].enter \in {"sessions", "activation", "target"} =>
         \A i \in job[c].ids : Wants(c, SessionKey(i))
    /\ Innermost(c) /\ job[c].enter = "binding" =>
         Wants(c, SessionKey(bound[job[c].binding].session))

\* A current binding names its scope.
ScopeOwns == \A s \in Scopes : current[s] # 0 => bound[current[s]].scope = s

\* Every version made so far was published, or waits in a lease to be.
Accounted ==
    /\ \A v \in Versions : v <= version <=>
         v \in delivered \/ \E c \in Clients : v \in queued[c]
    /\ \A c \in Clients : queued[c] # {} =>
         /\ pc[c] \in {"leave", "finish"} /\ level[c] >= 1
         /\ pc[c] = "finish" => level[c] >= 2

BindInv == /\ \A c \in Clients : KeysTaken(c)
           /\ ScopeOwns /\ Accounted /\ BindingStable /\ ValidIsCurrent

\* A step of one goroutine leaves the others where they are.
LEMMA OthersStay ==
    ASSUME IndInv, NEW c \in Clients, Begin(c) \/ Cancel(c) \/ Step(c),
           NEW d \in Clients, d # c
    PROVE  /\ pc'[d] = pc[d] /\ job'[d] = job[d] /\ level'[d] = level[d]
           /\ todo'[d] = todo[d] /\ at'[d] = at[d] /\ queued'[d] = queued[d]
<1> USE DEF IndInv, TypeOK, Goto
<1>1. CASE Begin(c) \/ Cancel(c)
    BY <1>1 DEF Begin, Cancel
<1>2. CASE Admit(c)
    BY <1>2 DEF Admit, Return, Stay
<1>3. CASE Want(c) \/ Acquire(c) \/ GiveUp(c)
    BY <1>3 DEF Want, Acquire, GiveUp
<1>4. CASE Check(c)
    BY <1>4 DEF Check
<1>5. CASE Commit(c)
    BY <1>5 DEF Commit, SetCurrent, ClearSessionBindings
<1>6. CASE Release(c) \/ Publish(c)
    BY <1>6 DEF Release, Publish
<1>7. CASE FinishAdmission(c)
    BY <1>7 DEF FinishAdmission, Return, Stay
<1> QED BY <1>1, <1>2, <1>3, <1>4, <1>5, <1>6, <1>7 DEF Step

\* Only Commit and Close touch the bindings.
LEMMA BindingsStay ==
    ASSUME NEW c \in Clients,
           \/ Begin(c) \/ Cancel(c) \/ Admit(c) \/ Want(c) \/ Acquire(c) \/ GiveUp(c)
           \/ Check(c) \/ Release(c) \/ Publish(c) \/ FinishAdmission(c)
    PROVE  UNCHANGED <<version, current, bound>>
BY DEF Begin, Cancel, Admit, Want, Acquire, GiveUp, Check, Release, Publish,
       FinishAdmission, bindVars

\* What Commit does, with the keys it does it under.
LEMMA CommitCases ==
    ASSUME IndInv, BindInv, NEW c \in Clients, Commit(c)
    PROVE  \/ \E i \in Sessions \cup {Nil} :
                SetCurrent(c, job[c].scope, i) /\ at[c][ScopeKey(job[c].scope)] # 0
           \/ \E i \in Sessions : ClearSessionBindings(c, i) /\ at[c][SessionKey(i)] # 0
           \/ UNCHANGED <<version, current, bound, queued>>
<1>1. pc[c] = "inside" /\ todo[c] = {} /\ Innermost(c) /\ KeysTaken(c)
    BY DEF Commit, BindInv, KeysTaken, Innermost
<1>2. job[c] \in Job /\ job[c].ids \subseteq Sessions
    BY DEF IndInv, TypeOK, Job
<1>3. job[c].enter # "sessions" => at[c][ScopeKey(job[c].scope)] # 0
    BY <1>1 DEF KeysTaken, Wants
<1>4. job[c].enter \in {"sessions", "target"} =>
        \A i \in job[c].ids : at[c][SessionKey(i)] # 0
    BY <1>1 DEF KeysTaken, Wants
<1>5. CASE /\ job[c].enter \in {"activation", "target"}
           /\ \E i \in job[c].ids \cup {Nil} : SetCurrent(c, job[c].scope, i)
    BY <1>2, <1>3, <1>5
<1>6. CASE job[c].enter = "binding" /\ SetCurrent(c, job[c].scope, Nil)
    BY <1>3, <1>6
<1>7. CASE /\ job[c].enter \in {"target", "sessions"}
           /\ \E i \in job[c].ids : ClearSessionBindings(c, i)
    BY <1>2, <1>4, <1>7
<1>8. CASE UNCHANGED <<bindVars, queued>>
    BY <1>8 DEF bindVars
<1> QED BY <1>5, <1>6, <1>7, <1>8 DEF Commit

\* A binding once made keeps its session.
LEMMA SessionsStay ==
    ASSUME IndInv, BindInv, [Next]_vars
    PROVE  version' >= version /\ \A v \in 1 .. version : bound'[v].session = bound[v].session
<1>0. version \in 0 .. MaxVersion /\ MaxVersion \in Nat
    BY EntersAssumption DEF IndInv, TypeOK
<1>1. ASSUME NEW c \in Clients, Commit(c)
      PROVE version' >= version /\ \A v \in 1 .. version : bound'[v].session = bound[v].session
  <2>1. job[c].scope \in Scopes
      BY <1>1 DEF Commit, IndInv, Named
  <2> QED BY <1>0, <1>1, <2>1, CommitCases, BindingsKept
<1>2. CASE Close
    BY <1>0, <1>2 DEF Close, IndInv, TypeOK, Versions
<1>3. CASE UNCHANGED <<version, current, bound>>
    BY <1>0, <1>3
<1>4. \/ \E c \in Clients : Commit(c)
      \/ Close
      \/ UNCHANGED <<version, current, bound>>
    BY BindingsStay DEF Next, Step, BeginClose, bindVars, vars
<1> QED BY <1>1, <1>2, <1>3, <1>4

\* A goroutine whose own state and whose binding's session are as before.
LEMMA KeysStay ==
    ASSUME NEW d \in Clients, KeysTaken(d),
           pc'[d] = pc[d], job'[d] = job[d], level'[d] = level[d],
           todo'[d] = todo[d], at'[d] = at[d],
           pc[d] # "out" /\ job[d].enter = "binding" =>
             bound'[job[d].binding].session = bound[job[d].binding].session
    PROVE  KeysTaken(d)'
BY DEF KeysTaken, Wants, Innermost, Depth, ScopeKey, SessionKey

\* The keys a goroutine's job names.
LEMMA JobKeys ==
    ASSUME IndInv, NEW c \in Clients, pc[c] # "out"
    PROVE  /\ ScopeKey(job[c].scope) \in Keys
           /\ \A i \in job[c].ids : SessionKey(i) \in Keys
           /\ job[c].enter = "binding" => SessionKey(bound[job[c].binding].session) \in Keys
<1>1. job[c].scope \in Scopes /\ job[c].ids \subseteq Sessions
    BY DEF IndInv, Named, TypeOK, Job
<1>2. job[c].enter = "binding" => bound[job[c].binding].session \in Sessions
    BY DEF IndInv, Named
<1> QED BY <1>1, <1>2 DEF ScopeKey, SessionKey, Keys, Locks!Keys

\* The goroutine that moves takes the keys it will need, or is on its way out.
LEMMA OwnKeys ==
    ASSUME IndInv, IndInv', BindInv, NEW c \in Clients, Begin(c) \/ Cancel(c) \/ Step(c)
    PROVE  KeysTaken(c)'
<1>0. KeysTaken(c) /\ job[c] \in Job /\ level[c] \in 0 .. 3 /\ level[c] <= Depth(job[c])
    BY DEF BindInv, IndInv, TypeOK, Nesting
<1>1. CASE pc'[c] \in {"out", "leave", "finish"}
    BY <1>1 DEF KeysTaken, Innermost
<1>2. CASE Begin(c)
  <2>1. PICK e \in Enters, s \in Scopes, ids \in SUBSET Sessions :
          LET j == [enter |-> e, scope |-> s, ids |-> ids,
                    binding |-> IF e = "binding" THEN current[s] ELSE 0]
          IN  /\ job' = [job EXCEPT ![c] = j]
              /\ todo' = [todo EXCEPT ![c] = Asked(j, 1)]
      BY <1>2 DEF Begin
  <2> DEFINE j == [enter |-> e, scope |-> s, ids |-> ids,
                   binding |-> IF e = "binding" THEN current[s] ELSE 0]
  <2>2. pc'[c] = "admit" /\ job'[c] = j /\ todo'[c] = Asked(j, 1) /\ level'[c] = 0
      BY <1>2, <2>1 DEF Begin, Goto, IndInv, TypeOK, Nesting
  <2>3. e \in EntryPoints
      BY EntersAssumption
  <2>4. e # "sessions" => Asked(j, 1) = {ScopeKey(s)}
      BY <2>3 DEF Asked, Depth, EntryPoints
  <2>5. e = "sessions" => Asked(j, 1) = SessionKeys(ids)
      BY DEF Asked
  <2>6. e \in {"activation", "target", "binding"} => Depth(j) > 1
      BY DEF Depth
  <2> QED BY <2>2, <2>3, <2>4, <2>5, <2>6
          DEF KeysTaken, Wants, Innermost, SessionKeys, EntryPoints
<1>3. CASE Cancel(c)
    BY <1>0, <1>3, KeysStay DEF Cancel, bindVars
<1>4. CASE Admit(c) /\ pc'[c] \notin {"out", "leave", "finish"}
  <2>1. /\ level' = [level EXCEPT ![c] = @ + 1]
        /\ todo' = [todo EXCEPT ![c] = todo[c] \ Held(c)]
        /\ pc'[c] = IF todo[c] \ Held(c) = {} THEN "check" ELSE "want"
        /\ pc[c] = "admit" /\ UNCHANGED <<job, at, bound>>
      BY <1>4 DEF Admit, Return, Stay, Goto, IndInv, TypeOK, bindVars
  <2>2. level'[c] = level[c] + 1 /\ todo'[c] = todo[c] \ Held(c)
      BY <2>1 DEF IndInv, TypeOK
  <2>3. \A k \in Keys : Wants(c, k) => Wants(c, k)'
      BY <2>1, <2>2 DEF Wants, Held
  <2>4. Innermost(c)' => Innermost(c)
      BY <1>0, <2>1, <2>2 DEF Innermost, Depth
  <2>5. /\ job[c].enter # "sessions" => Wants(c, ScopeKey(job[c].scope))'
        /\ Innermost(c)' /\ job[c].enter \in {"sessions", "activation", "target"} =>
             \A i \in job[c].ids : Wants(c, SessionKey(i))'
        /\ Innermost(c)' /\ job[c].enter = "binding" =>
             Wants(c, SessionKey(bound[job[c].binding].session))'
      BY <1>0, <2>1, <2>3, <2>4, JobKeys DEF KeysTaken, ScopeKey, SessionKey
  <2>6. pc'[c] = "check" => todo'[c] = {}
      BY <2>1, <2>2
  <2> QED BY <2>1, <2>5, <2>6 DEF KeysTaken, ScopeKey, SessionKey
<1>5. CASE Want(c)
    BY <1>0, <1>5 DEF Want, Goto, bindVars, KeysTaken, Wants, Innermost, Depth, ScopeKey,
                      SessionKey, IndInv, TypeOK
<1>6. CASE Acquire(c)
  <2>1. PICK k \in Keys : /\ k \in todo[c]
                          /\ at' = [at EXCEPT ![c][k] = level[c]]
                          /\ todo' = [todo EXCEPT ![c] = @ \ {k}]
                          /\ pc' = [pc EXCEPT ![c] =
                                      IF todo[c] = {k} THEN "check" ELSE "want"]
      BY <1>6 DEF Acquire, Goto, IsNext
  <2>2. pc[c] = "acquire" /\ level[c] # 0 /\ UNCHANGED <<job, level, bound>>
      BY <1>6 DEF Acquire, IndInv, Nesting, bindVars
  <2>3. \A l \in Keys : Wants(c, l) => Wants(c, l)'
      BY <2>1, <2>2 DEF Wants, IndInv, TypeOK
  <2>4. /\ pc'[c] \in {"check", "want"} /\ (Innermost(c)' => Innermost(c))
        /\ pc'[c] = "check" => todo'[c] = {}
      BY <2>1, <2>2 DEF Innermost, Depth, IndInv, TypeOK
  <2>5. /\ job[c].enter # "sessions" => Wants(c, ScopeKey(job[c].scope))'
        /\ Innermost(c)' /\ job[c].enter \in {"sessions", "activation", "target"} =>
             \A i \in job[c].ids : Wants(c, SessionKey(i))'
        /\ Innermost(c)' /\ job[c].enter = "binding" =>
             Wants(c, SessionKey(bound[job[c].binding].session))'
      BY <1>0, <2>2, <2>3, <2>4, JobKeys DEF KeysTaken, ScopeKey, SessionKey
  <2> QED BY <2>2, <2>4, <2>5 DEF KeysTaken, ScopeKey, SessionKey
<1>7. CASE Check(c) /\ pc'[c] \notin {"out", "leave", "finish"}
  <2>1. /\ pc[c] = "check" /\ UNCHANGED <<job, level, at, bound>> /\ todo[c] = {}
        /\ job[c].enter # "sessions" => at[c][ScopeKey(job[c].scope)] # 0
      BY <1>0, <1>7 DEF Check, KeysTaken, Wants, bindVars
  <2>2. CASE pc'[c] = "admit" /\ level[c] < Depth(job[c])
             /\ todo'[c] = Asked(job[c], level[c] + 1)
    <3>1. job[c].enter # "sessions"
      <4>1. level[c] >= 1
          BY <2>1 DEF IndInv, Nesting
      <4> QED BY <1>0, <2>2, <4>1 DEF Depth
    <3>2. level[c] + 1 = Depth(job[c]) /\ job[c].enter \in {"activation", "target"} =>
            SessionKeys(job[c].ids) \subseteq todo'[c]
        BY <1>0, <2>2 DEF Asked, SessionKeys
    <3>3. level[c] + 1 = Depth(job[c]) /\ job[c].enter = "binding" =>
            SessionKey(bound[job[c].binding].session) \in todo'[c]
        BY <1>0, <2>2 DEF Asked, SessionKeys
    <3> QED BY <2>1, <2>2, <3>1, <3>2, <3>3
            DEF KeysTaken, Wants, Innermost, SessionKeys, ScopeKey, SessionKey, Depth
  <2>3. CASE pc'[c] = "inside" /\ level[c] = Depth(job[c]) /\ todo'[c] = todo[c]
    <3>1. Innermost(c)
        BY <2>1, <2>3 DEF Innermost
    <3>2. level'[c] = Depth(job'[c])
        BY <2>1, <2>3
    <3> QED BY <1>0, <2>1, <2>3, <3>1, <3>2 DEF KeysTaken, Wants, ScopeKey, SessionKey
  <2>4. \/ pc'[c] = "admit" /\ level[c] < Depth(job[c])
           /\ todo'[c] = Asked(job[c], level[c] + 1)
        \/ pc'[c] = "inside" /\ ~(level[c] < Depth(job[c])) /\ todo'[c] = todo[c]
      BY <1>7 DEF Check, Goto, IndInv, TypeOK
  <2>5. Depth(job[c]) \in 1 .. 3
      BY <1>0, DepthType
  <2> QED BY <1>0, <2>2, <2>3, <2>4, <2>5
<1>8. \/ pc'[c] \in {"out", "leave", "finish"}
      \/ Begin(c) \/ Cancel(c) \/ Admit(c) \/ Want(c) \/ Acquire(c) \/ Check(c)
    BY DEF Step, GiveUp, Commit, Release, Publish, FinishAdmission, Return, Stay, Goto,
           IndInv, TypeOK
<1> QED BY <1>1, <1>2, <1>3, <1>4, <1>5, <1>6, <1>7, <1>8

\* Every goroutine keeps, or will take, the keys its job asks for.
LEMMA KeysKept ==
    ASSUME IndInv, IndInv', BindInv, [Next]_vars, NEW d \in Clients
    PROVE  KeysTaken(d)'
<1>0. pc[d] # "out" /\ job[d].enter = "binding" =>
        bound'[job[d].binding].session = bound[job[d].binding].session
    BY SessionsStay DEF IndInv, Named
<1>1. KeysTaken(d)
    BY DEF BindInv
<1>2. ASSUME NEW c \in Clients, Begin(c) \/ Cancel(c) \/ Step(c)
      PROVE  KeysTaken(d)'
  <2>1. CASE d = c
      BY <1>2, <2>1, OwnKeys
  <2>2. CASE d # c
      BY <1>0, <1>1, <1>2, <2>2, OthersStay, KeysStay
  <2> QED BY <2>1, <2>2
<1>3. CASE BeginClose \/ Close \/ UNCHANGED vars
    BY <1>0, <1>1, <1>3, KeysStay DEF BeginClose, Close, vars
<1> QED BY <1>2, <1>3 DEF Next

\* SetCurrent keeps the bindings: the handle it makes is new, and the one it takes down
\* was the scope's own.
LEMMA SetCurrentBinds ==
    ASSUME IndInv, BindInv, NEW c \in Clients, NEW s \in Scopes,
           NEW i \in Sessions \cup {Nil}, SetCurrent(c, s, i)
    PROVE  /\ ScopeOwns' /\ ValidIsCurrent'
           /\ \A t \in Scopes \ {s} : current'[t] = current[t]
           /\ \A t \in Scopes \ {s} : current[t] # 0 => bound'[current[t]] = bound[current[t]]
<1> DEFINE old == current[s]
           freed == IF old = 0 THEN bound ELSE [bound EXCEPT ![old].valid = FALSE]
<1>1. /\ version \in 0 .. MaxVersion /\ MaxVersion \in Nat
      /\ current \in [Scopes -> Versions \cup {0}]
      /\ bound \in [Versions -> [scope : Scopes \cup {Nil},
                                 session : Sessions \cup {Nil}, valid : BOOLEAN]]
    BY EntersAssumption DEF IndInv, TypeOK
<1>2. \A t \in Scopes : current[t] # 0 =>
        /\ current[t] \in 1 .. version /\ current[t] \in Versions
        /\ bound[current[t]].scope = t
    BY <1>1 DEF IndInv, Named, Versions, BindInv, ScopeOwns
<1>3. \A t \in Scopes \ {s} : current[t] # 0 => current[t] # old
    BY <1>2
<1>4. /\ current' = [current EXCEPT ![s] = IF i = Nil THEN 0 ELSE version + 1]
      /\ version < MaxVersion
    BY DEF SetCurrent
<1>5. version + 1 \in Versions
    BY <1>1, <1>4 DEF Versions
<1>6. \A v \in Versions :
        bound'[v] = IF i # Nil /\ v = version + 1
                    THEN [scope |-> s, session |-> i, valid |-> TRUE]
                    ELSE IF v = old THEN [bound[v] EXCEPT !.valid = FALSE] ELSE bound[v]
  <2>1. bound' = IF i = Nil THEN freed
                 ELSE [freed EXCEPT ![version + 1] = [scope |-> s, session |-> i,
                                                      valid |-> TRUE]]
      BY DEF SetCurrent
  <2>2. \A v \in Versions : freed[v] = IF v = old THEN [bound[v] EXCEPT !.valid = FALSE]
                                                  ELSE bound[v]
    <3>1. CASE old = 0
        BY <1>1, <3>1 DEF Versions
    <3>2. CASE old # 0
        BY <1>1, <3>2
    <3> QED BY <3>1, <3>2
  <2>3. DOMAIN freed = Versions
      BY <1>1
  <2> HIDE DEF freed
  <2>4. CASE i = Nil
      BY <2>1, <2>2, <2>4
  <2>5. CASE i # Nil
      BY <1>5, <2>1, <2>2, <2>3, <2>5
  <2> QED BY <2>4, <2>5
<1>7. \A t \in Scopes : current'[t] = IF t = s THEN (IF i = Nil THEN 0 ELSE version + 1)
                                               ELSE current[t]
    BY <1>1, <1>4
<1>8. \A t \in Scopes : current[t] # version + 1
    BY <1>1, <1>2
<1> HIDE DEF old, freed
<1>9. ScopeOwns'
  <2> SUFFICES ASSUME NEW t \in Scopes, current'[t] # 0 PROVE bound'[current'[t]].scope = t
      BY DEF ScopeOwns
  <2>1. CASE t = s
    <3>1. i # Nil /\ current'[t] = version + 1
        BY <1>7, <2>1
    <3>2. bound'[version + 1] = [scope |-> s, session |-> i, valid |-> TRUE]
        BY <1>5, <1>6, <3>1
    <3> QED BY <2>1, <3>1, <3>2
  <2>2. CASE t # s
      BY <1>2, <1>3, <1>6, <1>7, <1>8, <2>2
  <2> QED BY <2>1, <2>2
<1>10. ValidIsCurrent'
  <2> SUFFICES ASSUME NEW v \in Versions
               PROVE  bound'[v].valid <=> \E t \in Scopes : current'[t] = v
      BY DEF ValidIsCurrent
  <2>0. v # 0 /\ (bound[v].valid <=> \E t \in Scopes : current[t] = v)
      BY <1>1 DEF Versions, BindInv, ValidIsCurrent
  <2>1. CASE i # Nil /\ v = version + 1
    <3>1. bound'[v] = [scope |-> s, session |-> i, valid |-> TRUE]
        BY <1>6, <2>1
    <3>2. current'[s] = v
        BY <1>7, <2>1
    <3> QED BY <3>1, <3>2
  <2>2. CASE v = old /\ ~(i # Nil /\ v = version + 1)
    <3>1. ~bound'[v].valid
        BY <1>1, <1>6, <2>2
    <3>2. \A t \in Scopes : current'[t] # v
        BY <1>3, <1>7, <2>0, <2>2
    <3> QED BY <3>1, <3>2
  <2>3. CASE v # old /\ ~(i # Nil /\ v = version + 1)
    <3>1. bound'[v] = bound[v]
        BY <1>6, <2>3
    <3>2. \A t \in Scopes : current'[t] = v <=> current[t] = v
        BY <1>7, <2>0, <2>3 DEF old
    <3> QED BY <2>0, <3>1, <3>2
  <2> QED BY <2>1, <2>2, <2>3
<1> QED BY <1>2, <1>3, <1>6, <1>7, <1>8, <1>9, <1>10

\* ClearSessionBindings takes down the handles of one session, in every scope.
LEMMA ClearBinds ==
    ASSUME IndInv, BindInv, NEW c \in Clients, NEW i \in Sessions, ClearSessionBindings(c, i)
    PROVE  /\ ScopeOwns' /\ ValidIsCurrent'
           /\ \A t \in Scopes : current[t] # 0 /\ bound[current[t]].session # i =>
                current'[t] = current[t] /\ bound'[current[t]] = bound[current[t]]
<1> DEFINE hit == {s \in Scopes : CurrentIds(s) = {i}}
<1>1. /\ current \in [Scopes -> Versions \cup {0}]
      /\ bound \in [Versions -> [scope : Scopes \cup {Nil},
                                 session : Sessions \cup {Nil}, valid : BOOLEAN]]
      /\ MaxVersion \in Nat
    BY EntersAssumption DEF IndInv, TypeOK
<1>2. \A t \in Scopes : t \in hit <=> current[t] # 0 /\ bound[current[t]].session = i
    BY DEF CurrentIds
<1>3. \A t \in Scopes : current'[t] = IF t \in hit THEN 0 ELSE current[t]
    BY DEF ClearSessionBindings
<1>4. \A v \in Versions : bound'[v] = IF \E s \in hit : current[s] = v
                                      THEN [bound[v] EXCEPT !.valid = FALSE] ELSE bound[v]
    BY DEF ClearSessionBindings
<1> HIDE DEF hit
<1>5. \A t \in Scopes \ hit : current[t] # 0 => bound'[current[t]] = bound[current[t]]
  <2> TAKE t \in Scopes \ hit
  <2> HAVE current[t] # 0
  <2>1. current[t] \in Versions /\ bound[current[t]].session # i
      BY <1>1, <1>2
  <2>2. \A s \in hit : current[s] # current[t]
      BY <1>2, <2>1 DEF hit
  <2> QED BY <1>4, <2>1, <2>2
<1>6. ScopeOwns'
    BY <1>3, <1>5 DEF ScopeOwns, BindInv
<1>7. ValidIsCurrent'
  <2> SUFFICES ASSUME NEW v \in Versions
               PROVE  bound'[v].valid <=> \E t \in Scopes : current'[t] = v
      BY DEF ValidIsCurrent
  <2>0. v # 0 /\ (bound[v].valid <=> \E t \in Scopes : current[t] = v)
      BY <1>1 DEF Versions, BindInv, ValidIsCurrent
  <2>1. CASE \E s \in hit : current[s] = v
    <3>1. bound'[v] = [bound[v] EXCEPT !.valid = FALSE]
        BY <1>4, <2>1
    <3>3. ~bound'[v].valid
        BY <1>1, <3>1
    <3>2. \A t \in Scopes : current[t] = v => t \in hit
        BY <1>2, <2>0, <2>1 DEF hit
    <3> QED BY <1>3, <2>0, <3>2, <3>3
  <2>2. CASE ~\E s \in hit : current[s] = v
    <3>1. bound'[v] = bound[v]
        BY <1>4, <2>2
    <3>2. \A t \in Scopes : current'[t] = v <=> current[t] = v
        BY <1>3, <2>0, <2>2
    <3> QED BY <2>0, <3>1, <3>2
  <2> QED BY <2>1, <2>2
<1> QED BY <1>2, <1>3, <1>5, <1>6, <1>7

\* Close drops every binding, when nobody is inside.
LEMMA CloseBinds ==
    ASSUME IndInv, BindInv, Close
    PROVE  ScopeOwns' /\ ValidIsCurrent' /\ Accounted' /\ BindingStable'
<1>1. /\ bound' = [v \in Versions |-> IF \E s \in Scopes : current[s] = v
                                      THEN [bound[v] EXCEPT !.valid = FALSE] ELSE bound[v]]
      /\ current' = [s \in Scopes |-> 0]
      /\ UNCHANGED <<version, delivered, pc, job, level, queued>>
    BY DEF Close
<1>2. active = 0
    BY DEF Close, IndInv, Counted
<1>3. ScopeOwns'
    BY <1>1 DEF ScopeOwns
<1>4. ValidIsCurrent'
  <2> SUFFICES ASSUME NEW v \in Versions PROVE ~bound'[v].valid /\ v # 0
      BY <1>1 DEF ValidIsCurrent
  <2>1. v # 0 /\ bound[v] \in [scope : Scopes \cup {Nil}, session : Sessions \cup {Nil},
                               valid : BOOLEAN]
      BY EntersAssumption DEF Versions, IndInv, TypeOK
  <2>2. CASE \E s \in Scopes : current[s] = v
    <3>1. bound'[v] = [bound[v] EXCEPT !.valid = FALSE]
        BY <1>1, <2>2
    <3> QED BY <2>1, <3>1
  <2>3. CASE ~\E s \in Scopes : current[s] = v
    <3>1. bound'[v] = bound[v]
        BY <1>1, <2>3
    <3> QED BY <2>1, <2>3, <3>1 DEF BindInv, ValidIsCurrent
  <2> QED BY <2>2, <2>3
<1>5. Accounted'
    BY <1>1 DEF Accounted, BindInv
<1>6. BindingStable'
  <2>1. \A c \in Clients : pc[c] # "inside"
    <3> SUFFICES ASSUME NEW c \in Clients, pc[c] = "inside" PROVE FALSE
        OBVIOUS
    <3>1. level[c] = 0
        BY <1>2, IdleMeansEmpty
    <3> QED BY <3>1 DEF IndInv, Nesting
  <2> QED BY <1>1, <2>1 DEF BindingStable
<1> QED BY <1>3, <1>4, <1>5, <1>6

\* Inside EnterBinding nobody else may change the binding: the scope's key keeps
\* SetCurrent out, the session's key ClearSessionBindings.
LEMMA InsideStays ==
    ASSUME IndInv, BindInv, NEW c \in Clients, Commit(c), NEW d \in Clients, d # c,
           pc[d] = "inside", job[d].enter = "binding"
    PROVE  /\ bound'[job[d].binding] = bound[job[d].binding]
           /\ current'[job[d].scope] = job[d].binding
<1> DEFINE b == job[d].binding
           s == job[d].scope
<1>1. s \in Scopes /\ b \in 1 .. version /\ current[s] = b /\ bound[b].session \in Sessions
    BY DEF IndInv, Named, BindInv, BindingStable
<1>2. at[d][ScopeKey(s)] # 0 /\ at[d][SessionKey(bound[b].session)] # 0
  <2>1. todo[d] = {} /\ Innermost(d) /\ KeysTaken(d)
      BY DEF BindInv, KeysTaken, Innermost
  <2> QED BY <2>1 DEF KeysTaken, Wants
<1>3. ScopeKey(s) \in Keys /\ SessionKey(bound[b].session) \in Keys
    BY <1>1 DEF ScopeKey, SessionKey, Keys, Locks!Keys
<1>4. at[c][ScopeKey(s)] = 0 /\ at[c][SessionKey(bound[b].session)] = 0
    BY <1>2, <1>3 DEF IndInv, MutualExclusion, Held
<1>5. job[c].scope \in Scopes
    BY DEF Commit, IndInv, Named
<1>6. b # 0 /\ version \in Nat
    BY <1>1 DEF IndInv, TypeOK
<1>7. CASE \E i \in Sessions \cup {Nil} :
             SetCurrent(c, job[c].scope, i) /\ at[c][ScopeKey(job[c].scope)] # 0
    BY <1>1, <1>4, <1>5, <1>6, <1>7, SetCurrentBinds
<1>8. CASE \E i \in Sessions : ClearSessionBindings(c, i) /\ at[c][SessionKey(i)] # 0
    BY <1>1, <1>4, <1>6, <1>8, ClearBinds
<1>9. CASE UNCHANGED <<version, current, bound, queued>>
    BY <1>1, <1>9
<1> QED BY <1>7, <1>8, <1>9, CommitCases

\* Commit accounts for the versions it makes: they wait in its lease.
LEMMA CommitAccounts ==
    ASSUME IndInv, BindInv, NEW c \in Clients, Commit(c)
    PROVE  Accounted'
<1>1. /\ pc[c] = "inside" /\ level[c] >= 1 /\ pc' = [pc EXCEPT ![c] = "leave"]
      /\ UNCHANGED <<level, delivered>>
    BY DEF Commit, Goto, IndInv, Nesting
<1>2. /\ version \in 0 .. MaxVersion /\ version' \in 0 .. MaxVersion /\ MaxVersion \in Nat
      /\ queued \in [Clients -> SUBSET Versions] /\ pc \in [Clients -> Pcs]
    BY EntersAssumption, CommitKeeps DEF IndInv, TypeOK
<1>3. /\ version' >= version
      /\ queued' = [queued EXCEPT ![c] = @ \cup (version + 1 .. version')]
  <2>1. CASE \E s \in Scopes, i \in Sessions \cup {Nil} : SetCurrent(c, s, i)
    <3>1. version' = version + 1 /\ queued' = [queued EXCEPT ![c] = @ \cup {version + 1}]
        BY <2>1 DEF SetCurrent
    <3>2. version + 1 .. version' = {version + 1}
        BY <1>2, <3>1
    <3> QED BY <1>2, <3>1, <3>2
  <2>2. CASE \E i \in Sessions : ClearSessionBindings(c, i)
      BY <1>2, <2>2, SessionsStay DEF ClearSessionBindings, Next, Step
  <2>3. CASE UNCHANGED <<version, queued>>
    <3>1. version + 1 .. version' = {}
        BY <1>2, <2>3
    <3> QED BY <1>2, <2>3, <3>1
  <2>4. job[c].scope \in Scopes
      BY DEF Commit, IndInv, Named
  <2> QED BY <2>1, <2>2, <2>3, <2>4, CommitCases
<1>4. \A d \in Clients : queued'[d] = IF d = c THEN queued[c] \cup (version + 1 .. version')
                                              ELSE queued[d]
    BY <1>2, <1>3
<1>5. queued[c] = {}
    BY <1>1 DEF BindInv, Accounted
<1>6. \A v \in Versions : v <= version' <=> v <= version \/ v \in version + 1 .. version'
    BY <1>2, <1>3 DEF Versions
<1>7. \A v \in Versions : v <= version' <=>
        v \in delivered' \/ \E d \in Clients : v \in queued'[d]
  <2> SUFFICES ASSUME NEW v \in Versions
               PROVE  v <= version' <=> v \in delivered \/ \E d \in Clients : v \in queued'[d]
      BY <1>1
  <2>1. v <= version <=> v \in delivered \/ \E d \in Clients : v \in queued[d]
      BY DEF BindInv, Accounted
  <2>2. (\E d \in Clients : v \in queued'[d]) <=>
          v \in version + 1 .. version' \/ \E d \in Clients : v \in queued[d]
      BY <1>4
  <2> QED BY <1>6, <2>1, <2>2
<1>8. \A d \in Clients : queued'[d] # {} =>
        /\ pc'[d] \in {"leave", "finish"} /\ level'[d] >= 1
        /\ pc'[d] = "finish" => level'[d] >= 2
    BY <1>1, <1>2, <1>4 DEF BindInv, Accounted
<1> QED BY <1>7, <1>8 DEF Accounted

\* Who publishes is in its outermost lease, which has released its gates.
LEMMA PublishClears ==
    ASSUME IndInv, NEW c \in Clients, Publish(c), level[c] = 1
    PROVE  Held(c) = {}
<1> SUFFICES ASSUME NEW k \in Keys PROVE at[c][k] = 0
    BY DEF Held
<1>1. at[c][k] # level[c]
    BY DEF Publish
<1> QED BY <1>1, AtBound

\* Events wait in their lease until the outermost one sends them.
LEMMA AccountedKept ==
    ASSUME IndInv, BindInv, [Next]_vars
    PROVE  Accounted'
<1>0. queued \in [Clients -> SUBSET Versions] /\ pc \in [Clients -> Pcs]
      /\ level \in [Clients -> 0 .. 3]
    BY DEF IndInv, TypeOK
<1>1. ASSUME NEW c \in Clients, Commit(c) PROVE Accounted'
    BY <1>1, CommitAccounts
<1>2. ASSUME NEW c \in Clients, Publish(c) PROVE Accounted'
  <2>1. /\ pc[c] = "leave" /\ pc' = [pc EXCEPT ![c] = "finish"]
        /\ UNCHANGED <<version, level>> /\ level[c] \in 1 .. 3
      BY <1>0, <1>2 DEF Publish, Goto, bindVars, IndInv, Nesting
  <2>2. CASE level[c] = 1
    <3>1. delivered' = delivered \cup queued[c]
          /\ \A d \in Clients : queued'[d] = IF d = c THEN {} ELSE queued[d]
        BY <1>0, <1>2, <2>2 DEF Publish
    <3> QED BY <1>0, <2>1, <3>1 DEF BindInv, Accounted
  <2>3. CASE level[c] # 1
    <3>1. UNCHANGED <<delivered, queued>>
        BY <1>2, <2>3 DEF Publish
    <3> QED BY <1>0, <2>1, <2>3, <3>1 DEF BindInv, Accounted
  <2> QED BY <2>2, <2>3
<1>3. ASSUME NEW c \in Clients, FinishAdmission(c) PROVE Accounted'
  <2>1. /\ pc[c] = "finish" /\ level' = [level EXCEPT ![c] = @ - 1]
        /\ pc' = [pc EXCEPT ![c] = IF level[c] = 1 THEN "out" ELSE "leave"]
        /\ UNCHANGED <<version, delivered, queued>>
      BY <1>3 DEF FinishAdmission, Return, Stay, Goto, bindVars
  <2>2. queued[c] # {} => level[c] >= 2
      BY <2>1 DEF BindInv, Accounted
  <2> QED BY <1>0, <2>1, <2>2 DEF BindInv, Accounted
<1>4. ASSUME NEW c \in Clients,
             \/ Begin(c) \/ Cancel(c) \/ Admit(c) \/ Want(c) \/ Acquire(c) \/ GiveUp(c)
             \/ Check(c) \/ Release(c)
      PROVE  Accounted'
  <2>1. UNCHANGED <<version, delivered, queued>>
      BY <1>4, BindingsStay DEF Begin, Cancel, Admit, Want, Acquire, GiveUp, Check, Release
  <2>2. \A d \in Clients : pc[d] \in {"leave", "finish"} =>
          pc'[d] = pc[d] /\ level'[d] = level[d]
      BY <1>0, <1>4 DEF Begin, Cancel, Admit, Return, Stay, Want, Acquire, GiveUp, Check,
                        Release, Goto
  <2> QED BY <2>1, <2>2 DEF BindInv, Accounted
<1>5. CASE BeginClose \/ UNCHANGED vars
    BY <1>5 DEF BeginClose, bindVars, vars, BindInv, Accounted
<1>6. CASE Close
    BY <1>6, CloseBinds
<1> QED BY <1>1, <1>2, <1>3, <1>4, <1>5, <1>6 DEF Next, Step

\* A binding entered with is looked at again before anything is done, and kept since.
LEMMA StableKept ==
    ASSUME IndInv, BindInv, [Next]_vars
    PROVE  BindingStable'
<1>1. ASSUME NEW c \in Clients, Begin(c) \/ Cancel(c) \/ Step(c),
             NEW d \in Clients, pc'[d] = "inside", job'[d].enter = "binding"
      PROVE  bound'[job'[d].binding].valid /\ current'[job'[d].scope] = job'[d].binding
  <2>1. CASE d = c
    <3>1. Check(c)
        BY <1>1, <2>1 DEF Begin, Cancel, Step, Admit, Want, Acquire, GiveUp, Commit, Release,
                          Publish, FinishAdmission, Return, Stay, Goto, IndInv, TypeOK
    <3>2. /\ UNCHANGED <<job, bound, current>> /\ ~(level[c] < Depth(job[c]))
          /\ ~(/\ job[c].enter = "binding" /\ level[c] = Depth(job[c])
               /\ ~(/\ bound[job[c].binding].valid
                    /\ current[job[c].scope] = job[c].binding))
        BY <1>1, <2>1, <3>1 DEF Check, Goto, bindVars, IndInv, TypeOK
    <3>3. level[c] = Depth(job[c])
      <4>1. level[c] \in 0 .. 3 /\ level[c] <= Depth(job[c]) /\ Depth(job[c]) \in 1 .. 3
          BY DepthType DEF IndInv, TypeOK, Nesting
      <4> QED BY <3>2, <4>1
    <3> QED BY <1>1, <2>1, <3>2, <3>3
  <2>2. CASE d # c
    <3>1. pc[d] = "inside" /\ job'[d] = job[d] /\ job[d].enter = "binding"
        BY <1>1, <2>2, OthersStay
    <3>2. bound[job[d].binding].valid /\ current[job[d].scope] = job[d].binding
        BY <3>1 DEF BindInv, BindingStable
    <3>3. CASE Commit(c)
        BY <2>2, <3>1, <3>2, <3>3, InsideStays
    <3>4. CASE ~Commit(c)
        BY <1>1, <3>1, <3>2, <3>4, BindingsStay DEF Step
    <3> QED BY <3>3, <3>4
  <2> QED BY <2>1, <2>2
<1>2. CASE Close
    BY <1>2, CloseBinds
<1>3. CASE BeginClose \/ UNCHANGED vars
    BY <1>3 DEF BeginClose, bindVars, vars, BindInv, BindingStable
<1> QED BY <1>1, <1>2, <1>3 DEF Next, BindingStable

\* Handles are valid while current, and current ones are their scope's.
LEMMA HandlesKept ==
    ASSUME IndInv, BindInv, [Next]_vars
    PROVE  ScopeOwns' /\ ValidIsCurrent'
<1>1. ASSUME NEW c \in Clients, Commit(c) PROVE ScopeOwns' /\ ValidIsCurrent'
  <2>1. job[c].scope \in Scopes
      BY <1>1 DEF Commit, IndInv, Named
  <2>2. CASE UNCHANGED <<version, current, bound, queued>>
      BY <2>2 DEF BindInv, ScopeOwns, ValidIsCurrent
  <2> QED BY <1>1, <2>1, <2>2, CommitCases, SetCurrentBinds, ClearBinds
<1>2. CASE Close
    BY <1>2, CloseBinds
<1>3. CASE UNCHANGED <<version, current, bound>>
    BY <1>3 DEF BindInv, ScopeOwns, ValidIsCurrent
<1>4. \/ \E c \in Clients : Commit(c)
      \/ Close
      \/ UNCHANGED <<version, current, bound>>
    BY BindingsStay DEF Next, Step, BeginClose, bindVars, vars
<1> QED BY <1>1, <1>2, <1>3, <1>4

\* The bindings start unbound and keep what BindInv says of them.
THEOREM BindingInvariant == Spec => [](IndInv /\ BindInv)
<1>1. Init => BindInv
  <2> SUFFICES ASSUME Init PROVE BindInv
      OBVIOUS
  <2>1. /\ pc = [c \in Clients |-> "out"] /\ version = 0 /\ delivered = {}
        /\ queued = [c \in Clients |-> {}] /\ current = [s \in Scopes |-> 0]
        /\ bound = [v \in Versions |-> Unbound]
      BY DEF Init
  <2>2. \A v \in Versions : v # 0 /\ ~(v <= 0)
      BY EntersAssumption DEF Versions
  <2>3. \A c \in Clients : KeysTaken(c)
      BY <2>1 DEF KeysTaken, Innermost
  <2>4. ScopeOwns /\ BindingStable
      BY <2>1 DEF ScopeOwns, BindingStable
  <2>5. ValidIsCurrent
      BY <2>1, <2>2 DEF ValidIsCurrent, Unbound
  <2>6. Accounted
      BY <2>1, <2>2 DEF Accounted
  <2> QED BY <2>3, <2>4, <2>5, <2>6 DEF BindInv
<1>2. IndInv /\ IndInv' /\ BindInv /\ [Next]_vars => BindInv'
    BY KeysKept, AccountedKept, StableKept, HandlesKept DEF BindInv
<1> QED BY <1>1, <1>2, Invariant, PTL DEF Spec

\* EnterBinding's caller keeps the binding it found, a handle is valid exactly while it is
\* its scope's current one, and Close drops the maps when every change was published.
THEOREM BindingsSafe == Spec => []BindingsSound
<1>1. IndInv /\ BindInv => BindingsSound
  <2> SUFFICES ASSUME IndInv, BindInv, torn PROVE delivered = 1 .. version
      BY DEF BindInv, BindingsSound, ChangesPublished
  <2>1. \A c \in Clients : level[c] = 0
      BY IdleMeansEmpty DEF IndInv, Counted
  <2>2. \A c \in Clients : queued[c] = {}
      BY <2>1 DEF BindInv, Accounted
  <2>3. delivered \subseteq Versions /\ version \in 0 .. MaxVersion /\ MaxVersion \in Nat
      BY EntersAssumption DEF IndInv, TypeOK
  <2>4. \A v \in Versions : v <= version <=> v \in delivered
      BY <2>2 DEF BindInv, Accounted
  <2>5. \A v \in 1 .. MaxVersion : v \in 1 .. version <=> v \in delivered
      BY <2>3, <2>4 DEF Versions
  <2>6. \A v : v \in 1 .. version => v \in 1 .. MaxVersion
      BY <2>3
  <2>7. \A v : v \in delivered => v \in 1 .. MaxVersion
      BY <2>3 DEF Versions
  <2> QED BY <2>5, <2>6, <2>7
<1> QED BY <1>1, BindingInvariant, PTL

\* publishEvents runs when the outermost lease has given its gates back: a listener may
\* enter any scope or session again.
THEOREM PublishedOutside == Spec => PublishedUnlocked
<1> DEFINE A == \A c \in Clients : queued[c] # {} /\ queued'[c] = {} => Held(c) = {}
<1>1. IndInv /\ [Next]_vars => A
  <2> SUFFICES ASSUME IndInv, [Next]_vars, NEW c \in Clients, queued[c] # {},
                      queued'[c] = {}
               PROVE  Held(c) = {}
      OBVIOUS
  <2>0. queued \in [Clients -> SUBSET Versions]
      BY DEF IndInv, TypeOK
  <2>1. ASSUME NEW d \in Clients, Publish(d) PROVE d = c /\ level[d] = 1
      BY <2>0, <2>1 DEF Publish
  <2>2. ASSUME NEW d \in Clients, Commit(d) PROVE FALSE
    <3>1. \A e \in Clients : queued[e] \subseteq queued'[e]
      <4>1. CASE \E s \in Scopes, i \in Sessions \cup {Nil} : SetCurrent(d, s, i)
          BY <2>0, <4>1 DEF SetCurrent
      <4>2. CASE \E i \in Sessions : ClearSessionBindings(d, i)
        <5>1. PICK m : queued' = [queued EXCEPT ![d] = @ \cup (version + 1 .. m)]
            BY <4>2 DEF ClearSessionBindings
        <5> QED BY <2>0, <5>1
      <4>3. CASE UNCHANGED queued
          BY <4>3
      <4>4. job[d].scope \in Scopes /\ job[d].ids \subseteq Sessions
          BY <2>2 DEF Commit, IndInv, Named, TypeOK, Job
      <4> QED BY <2>2, <4>1, <4>2, <4>3, <4>4 DEF Commit
    <3> QED BY <3>1
  <2>3. \/ \E d \in Clients : Publish(d) \/ Commit(d)
        \/ UNCHANGED queued
      BY DEF Next, Step, Begin, Cancel, Admit, Want, Acquire, GiveUp, Check, Release,
             FinishAdmission, BeginClose, Close, vars
  <2> QED BY <2>1, <2>2, <2>3, PublishClears
<1> QED BY <1>1, Invariant, PTL DEF Spec, PublishedUnlocked

-----------------------------------------------------------------------------
(* The gates implement AdmissionLocks.                                      *)

\* What AdmissionLocks calls held.
Holds == [c \in Clients |-> {k \in DOMAIN at[c] : at[c][k] # 0}]

\* Holds collects the keys that Held names.
LEMMA HoldsHeld ==
    ASSUME TypeOK, NEW c \in Clients
    PROVE  Holds[c] = Held(c)
BY DEF TypeOK, Holds, Held

\* Taking a gate's token takes the key: it is free and comes after those held.
LEMMA AcquireImplements ==
    ASSUME IndInv, IndInv', NEW c \in Clients, Acquire(c)
    PROVE  \E k \in Keys : Locks!Acquire(c, k)
<1>1. PICK k \in Keys :
        /\ IsNext(c, k) /\ ~token[ref[c][k]]
        /\ at' = [at EXCEPT ![c][k] = level[c]]
    BY DEF Acquire
<1>2. pc[c] = "acquire" /\ level[c] >= 1
    BY DEF Acquire, IndInv, Nesting
<1>3. at[c][k] = 0 /\ ref[c][k] # Nil /\ gates[k] = ref[c][k]
    BY <1>1, <1>2 DEF IndInv, GateMap, Holding, HoldsKey, IsNext
<1>4. \A d \in Clients : k \notin Holds[d]
  <2>1. \A d \in Clients : at[d][k] = 0
      BY <1>1, <1>3 DEF IndInv, GateMap, Holding, HoldsKey
  <2> QED BY <2>1 DEF Holds
<1>5. \A l \in Holds[c] : Before(l, k)
    BY <1>1, <1>2, HoldsHeld DEF IndInv, Ordered, KeyOrder, Held, IsNext
<1>6. Holds' = [Holds EXCEPT ![c] = @ \cup {k}]
  <2>1. \A d \in Clients : Holds'[d] = IF d = c THEN Holds[c] \cup {k} ELSE Holds[d]
      BY <1>1, <1>2 DEF Holds, IndInv, TypeOK
  <2> QED BY <2>1 DEF Holds
<1> QED BY <1>4, <1>5, <1>6 DEF Locks!Acquire, Holds, Before

\* Giving a token back releases the key, the last of those held.
LEMMA ReleaseImplements ==
    ASSUME IndInv, IndInv', NEW c \in Clients, Release(c)
    PROVE  \E k \in Keys : Locks!Release(c, k)
<1>1. PICK k \in Keys : IsLast(c, k) /\ at' = [at EXCEPT ![c][k] = 0]
    BY DEF Release
<1>2. at[c][k] = level[c] /\ level[c] >= 1
    BY <1>1 DEF Release, IndInv, Nesting, IsLast
<1>3. k \in Holds[c]
    BY <1>2, HoldsHeld DEF IndInv, Held
<1>4. \A l \in Holds[c] \ {k} : Before(l, k)
  <2> SUFFICES ASSUME NEW l \in Keys, l # k, at[c][l] # 0 PROVE Before(l, k)
      BY HoldsHeld DEF IndInv, Held
  <2>1. at[c][l] \in 0 .. 3 /\ level[c] \in 0 .. 3 /\ at[c][l] <= level[c]
      BY AtBound
  <2>2. CASE at[c][l] = level[c]
      BY <1>1, <2>2 DEF IsLast
  <2>3. CASE at[c][l] < level[c]
      BY <1>2, <2>3 DEF IndInv, Ordered, KeyOrder
  <2> QED BY <2>1, <2>2, <2>3
<1>5. Holds' = [Holds EXCEPT ![c] = @ \ {k}]
  <2>1. \A d \in Clients : Holds'[d] = IF d = c THEN Holds[c] \ {k} ELSE Holds[d]
      BY <1>1 DEF Holds, IndInv, TypeOK
  <2> QED BY <2>1 DEF Holds
<1> QED BY <1>3, <1>4, <1>5 DEF Locks!Release, Holds, Before

\* enterKeys and its release implement exclusive locks that are taken in
\* ascending and released in descending order, so that no circle of waiting
\* goroutines can form, for any scopes, sessions and goroutines.
THEOREM Refinement == Spec => Implements
<1>1. Init => Locks!Init
  <2> SUFFICES ASSUME Init PROVE Locks!Init
      OBVIOUS
  <2>1. \A c \in Clients : {k \in DOMAIN at[c] : at[c][k] # 0} = {}
      BY DEF Init
  <2> QED BY <2>1 DEF Locks!Init
<1>2. IndInv /\ IndInv' /\ [Next]_vars => [Locks!Next]_Holds
  <2> SUFFICES ASSUME IndInv, IndInv', [Next]_vars PROVE [Locks!Next]_Holds
      OBVIOUS
  <2>1. CASE \E c \in Clients : Acquire(c)
      BY <2>1, AcquireImplements DEF Locks!Next, Keys
  <2>2. CASE \E c \in Clients : Release(c)
      BY <2>2, ReleaseImplements DEF Locks!Next, Keys
  <2>3. CASE UNCHANGED at
      BY <2>3 DEF Holds
  <2>4. \/ \E c \in Clients : Acquire(c)
        \/ \E c \in Clients : Release(c)
        \/ UNCHANGED at
      BY DEF Next, Step, Begin, Cancel, Admit, Want, GiveUp, Check, Commit, Publish,
             FinishAdmission, BeginClose, Close, vars
  <2> QED BY <2>1, <2>2, <2>3, <2>4
<1> QED BY <1>1, <1>2, Invariant, PTL DEF Spec, Implements, Locks!Spec, Holds
=============================================================================
