-------------------------- MODULE LifecycleProofs --------------------------
(***************************************************************************)
(* Proofs about hosts, their modules and their sessions, for every set of  *)
(* host configurations, sessions, slices and requests, and any number of   *)
(* boots, crashes and turns. The invariant is in three layers, each kept   *)
(* on the strength of those before it:                                     *)
(*                                                                         *)
(*   EngineOK   what the registry installs, starts and stops;              *)
(*   SessionsOK which sessions are stored, live and attached, and where    *)
(*              the requests for them are;                                 *)
(*   RecordsOK  what the stored slices and the journal say of each other.  *)
(***************************************************************************)
EXTENDS LifecycleProperties, SequenceTheorems, FiniteSetTheorems,
        WellFoundedInduction, TLAPS

Phases == {"off", "installing", "bound", "starting", "up", "stopping",
           "stopped", "failed"}

RegistryTypeOK ==
  /\ phase \in Phases
  /\ todo \in Seq(Installable) /\ loaded \in Seq(Installable)

\* What the graph check leaves of the modules to install.
NoTwins(ms) == \A i, j \in DOMAIN ms : IdOf(ms[i]) = IdOf(ms[j]) => i = j
InOrder(ms) ==
  \A i, j \in DOMAIN ms : i < j => PriorityOf(ms[i]) =< PriorityOf(ms[j])
SelfSufficient(ms) ==
  \A i \in DOMAIN ms : ms[i].manifest.requires \subseteq Provided(ms)
Fits(ms) ==
  NoTwins(ms) /\ InOrder(ms) /\ (~options.lenient => SelfSufficient(ms))

\* Those among the first k modules that have a start.
Started(k) == {IdOf(loaded[i]) : i \in {x \in 1..k : HasStart(loaded[x])}}

\* While modules are installed, the list that was checked is what is loaded and
\* what is still to do; what the check found holds from then on.
InstallOK ==
  /\ OneOwner /\ OwnersAreLoaded /\ LoadedOnce /\ StaysInManifest
  /\ phase = "off" => NothingLoaded
  /\ phase = "installing" =>
       /\ Fits(loaded \o todo)
       /\ caps = Provided(loaded)
  /\ phase \in {"bound", "starting", "up", "stopping", "stopped"} =>
       NothingDangles /\ Ordered

\* The modules that run are those before a place in the list that moves up
\* while they start and down while they stop.
RunningOK ==
  /\ \E k \in 0..Len(loaded) : running = Started(k)
  /\ phase \in {"off", "installing", "bound", "stopped"} => running = {}
  /\ phase = "starting" =>
       /\ Len(todo) =< Len(loaded)
       /\ \A i \in DOMAIN todo : todo[i] = loaded[Len(loaded) - Len(todo) + i]
       /\ running = Started(Len(loaded) - Len(todo))
  /\ phase = "up" => running = Started(Len(loaded))
  /\ phase = "stopping" =>
       /\ Len(todo) =< Len(loaded)
       /\ \A i \in DOMAIN todo : todo[i] = loaded[i]
       /\ running = Started(Len(todo))

\* What the host is doing agrees with what its registry does.
HostOK ==
  /\ hostPhase \in {"down", "resolving", "booting", "serving", "stopping"}
  /\ hostPhase = "resolving" => phase = "off" /\ host \in HostConfigs
  /\ hostPhase = "serving" => phase = "up"
  /\ hostPhase = "stopping" => phase \in {"stopping", "stopped"}
  /\ ended = "asked" => hostPhase = "down" /\ phase = "stopped" /\ ~db

-----------------------------------------------------------------------------
\* Entries of a journal, requests, and the types of what the sessions keep.
Entry == [prev : Nat, next : Nat, wrote : [Slices -> Nat]]
CallStates == [at : {"idle", "starting", "binding", "loading", "hydrating", "loaded"},
               sid : Sessions \cup {None}, got : Snapshots \cup {None}]
SessionsTypeOK ==
  /\ rows \subseteq used /\ used \subseteq Sessions /\ attached \subseteq Sessions
  /\ clashed \subseteq Sessions
  /\ live \in [Sessions -> Snapshots \cup {None}]
  /\ store \in [Sessions -> Snapshots \cup {None}]
  /\ call \in [Calls -> CallStates]
  /\ journal \in [Sessions -> Seq(Entry)]
  /\ seeded \in [Sessions -> [Slices -> Nat]]

\* A request that creates a session has its id for itself; a load that hydrates
\* is of a stored session; what a load made live stays so until it is attached,
\* unless the session is deleted.
NewId(r) == call[r].at \in {"starting", "binding"}
CallOK(r) ==
  /\ call[r].at # "idle" => call[r].sid \in used
  /\ NewId(r) => /\ call[r].sid \notin rows
                 /\ \A q \in Calls \ {r} :
                      call[q].at # "idle" => call[q].sid # call[r].sid
  /\ call[r].at = "starting" => store[call[r].sid] = None
  /\ call[r].at = "binding" => live[call[r].sid] # None
  /\ call[r].at = "hydrating" => call[r].got # None
                                 /\ store[call[r].sid] # None
  /\ call[r].at = "loaded" /\ call[r].sid \in rows => live[call[r].sid] # None

NothingServed ==
  /\ attached = {} /\ live = [s \in Sessions |-> None]
  /\ \A r \in Calls : call[r].at = "idle"

\* A session is stored before it is live, and before it has a journal.
CallsOK == \A r \in Calls : CallOK(r)
AttachedLive == \A s \in rows \cap attached : live[s] # None
SavedFirst ==
  \A s \in Sessions :
    /\ s \notin used => store[s] = None
    /\ store[s] = None => journal[s] = <<>> /\ live[s] = None
FlowOK == (~Serving => NothingServed) /\ CallsOK /\ AttachedLive /\ SavedFirst

-----------------------------------------------------------------------------
\* A copy of what is stored of a session: of its revision or an earlier one,
\* with the same commands in it if of its revision.
CountIn(snapshot, n) ==
  IF n \in DOMAIN snapshot.slices THEN snapshot.slices[n].n ELSE 0
Copies(s, snapshot) ==
  /\ OwnedSlices \subseteq DOMAIN snapshot.slices
  /\ snapshot.rev =< store[s].rev
  /\ snapshot.rev = store[s].rev =>
       \A n \in Slices : CountIn(snapshot, n) = CountIn(store[s], n)

\* The journal counts the revisions of the stored snapshot; the stored slices
\* hold the commands of seeds and journal; what is live is a copy of the stored
\* revision, and what a load is about to make live is some copy.
JournalOK(s) ==
  /\ Len(journal[s]) = store[s].rev
  /\ \A i \in DOMAIN journal[s] : journal[s][i].prev = i - 1 /\ journal[s][i].next = i
CountsOK(s) ==
  \A n \in Slices : CountIn(store[s], n) = seeded[s][n] + Replayed(s, n)
LiveOK(s) == live[s] # None => live[s].rev = store[s].rev /\ Copies(s, live[s])
HydratingOK(s) ==
  \A r \in Calls : call[r].at = "hydrating" /\ call[r].sid = s => Copies(s, call[r].got)
DataOK(s) == JournalOK(s) /\ CountsOK(s) /\ LiveOK(s) /\ HydratingOK(s)

\* Nothing is said of sessions that a load took back to an older snapshot.
JournalsFinite == \A s \in Sessions : \A n \in Slices : IsFiniteSet(Commands(s, n))
StoredOK == \A s \in Sessions \ clashed : store[s] # None => DataOK(s)

-----------------------------------------------------------------------------
(* Lists, and the order of the boot                                        *)

\* Sorting gives every module kept a place of its own, and the first of two
\* gets the smaller one (the comparison in registry.boot).
LEMMA PlacesApart ==
  ASSUME NEW ms, NEW kept, IsFiniteSet(kept), kept \subseteq Nat,
         \A i \in kept : PriorityOf(ms[i]) \in Int
  PROVE  \A i, j \in kept :
           /\ Place(ms, kept, i) \in 1..Cardinality(kept)
           /\ i = j \/ Precedes(ms, i, j) \/ Precedes(ms, j, i)
           /\ i # j /\ Precedes(ms, i, j) => Place(ms, kept, i) < Place(ms, kept, j)
<1> SUFFICES ASSUME NEW i \in kept, NEW j \in kept
             PROVE  /\ Place(ms, kept, i) \in 1..Cardinality(kept)
                    /\ i = j \/ Precedes(ms, i, j) \/ Precedes(ms, j, i)
                    /\ i # j /\ Precedes(ms, i, j)
                       => Place(ms, kept, i) < Place(ms, kept, j)
  OBVIOUS
<1> DEFINE Upto(x) == {y \in kept : Precedes(ms, y, x)}
<1>1. /\ IsFiniteSet(Upto(i)) /\ Cardinality(Upto(i)) \in Nat
      /\ Cardinality(Upto(i)) =< Cardinality(kept)
  BY FS_Subset, FS_CardinalityType
<1>2. /\ IsFiniteSet(Upto(j)) /\ Cardinality(Upto(j)) \in Nat
  BY FS_Subset, FS_CardinalityType
<1>3. Cardinality(kept) \in Nat
  BY FS_CardinalityType
<1>4. i \in Upto(i)
  BY DEF Precedes
<1>5. Cardinality(Upto(i)) # 0
  BY <1>1, <1>4, FS_EmptySet
<1>6. i = j \/ Precedes(ms, i, j) \/ Precedes(ms, j, i)
  BY DEF Precedes
<1>7. ASSUME i # j, Precedes(ms, i, j)
      PROVE  Cardinality(Upto(i)) < Cardinality(Upto(j))
  <2>1. ASSUME NEW y \in kept, Precedes(ms, y, i)
        PROVE  Precedes(ms, y, j)
    <3>1. y \in Nat /\ i \in Nat /\ j \in Nat
      OBVIOUS
    <3>2. /\ PriorityOf(ms[y]) \in Int /\ PriorityOf(ms[i]) \in Int
          /\ PriorityOf(ms[j]) \in Int
      OBVIOUS
    <3> QED BY <3>1, <3>2, <2>1, <1>7 DEF Precedes
  <2>1a. Upto(i) \subseteq Upto(j)
    BY <2>1
  <2>2. j \in Upto(j) /\ j \notin Upto(i)
    BY <1>7 DEF Precedes
  <2>3. Upto(i) # Upto(j)
    BY <2>2
  <2>4. /\ Cardinality(Upto(i)) =< Cardinality(Upto(j))
        /\ Cardinality(Upto(j)) = Cardinality(Upto(i)) => Upto(j) = Upto(i)
    BY <2>1a, <1>2, FS_Subset
  <2> QED BY <2>3, <2>4, <1>1, <1>2
<1>8. Place(ms, kept, i) = Cardinality(Upto(i)) /\ Place(ms, kept, j) = Cardinality(Upto(j))
  BY DEF Place
<1> HIDE DEF Upto
<1> QED BY <1>1, <1>2, <1>3, <1>5, <1>6, <1>7, <1>8

\* So every place is taken, and the sorted list holds each kept module once.
LEMMA EveryPlaceTaken ==
  ASSUME NEW ms, NEW kept, IsFiniteSet(kept), kept \subseteq Nat,
         \A i \in kept : PriorityOf(ms[i]) \in Int
  PROVE  \A k \in 1..Cardinality(kept) : \E i \in kept : Place(ms, kept, i) = k
<1> DEFINE n == Cardinality(kept)
           f == [i \in kept |-> Place(ms, kept, i)]
<1>1. n \in Nat
  BY FS_CardinalityType
<1>2. IsFiniteSet(1..n) /\ Cardinality(1..n) = n
  BY <1>1, FS_Interval
<1>3. f \in [kept -> 1..n]
  BY PlacesApart
<1>4. ASSUME NEW i \in kept, NEW j \in kept, f[i] = f[j]
      PROVE  i = j
  <2>1. /\ i = j \/ Precedes(ms, i, j) \/ Precedes(ms, j, i)
        /\ i # j /\ Precedes(ms, i, j) => Place(ms, kept, i) < Place(ms, kept, j)
        /\ j # i /\ Precedes(ms, j, i) => Place(ms, kept, j) < Place(ms, kept, i)
        /\ Place(ms, kept, i) \in 1..n /\ Place(ms, kept, j) \in 1..n
    BY PlacesApart
  <2>2. Place(ms, kept, i) = Place(ms, kept, j)
    BY <1>4
  <2> HIDE DEF f, n
  <2> QED BY <2>1, <2>2, <1>1
<1>5. f \in Injection(kept, 1..n)
  BY <1>3, <1>4 DEF Injection, IsInjective
<1>6. f \in Surjection(kept, 1..n)
  BY <1>5, <1>2, FS_Injection
<1> QED BY <1>6 DEF Surjection

LEMMA SortedByPriority ==
  ASSUME NEW S, NEW ms \in Seq(S), NEW kept \in SUBSET DOMAIN ms,
         \A m \in S : PriorityOf(m) \in Int
  PROVE  /\ ByPriority(ms, kept) \in Seq(S) /\ InOrder(ByPriority(ms, kept))
         /\ NoTwins(ms) => NoTwins(ByPriority(ms, kept))
<1> DEFINE n == Cardinality(kept)
           At1(k) == CHOOSE i \in kept : Place(ms, kept, i) = k
<1>1. DOMAIN ms = 1..Len(ms) /\ Len(ms) \in Nat
  OBVIOUS
<1>2. IsFiniteSet(kept) /\ kept \subseteq Nat
  <2>1. IsFiniteSet(1..Len(ms)) /\ kept \in SUBSET (1..Len(ms))
    BY <1>1, FS_Interval
  <2> QED BY <2>1, FS_Subset
<1>3. n \in Nat
  BY <1>2, FS_CardinalityType
<1>4. \A i \in kept : ms[i] \in S
  BY <1>1
<1>5. \A k \in 1..n : At1(k) \in kept /\ Place(ms, kept, At1(k)) = k
  BY <1>2, <1>4, EveryPlaceTaken
<1>6. \A i, j \in kept :
        /\ i = j \/ Precedes(ms, i, j) \/ Precedes(ms, j, i)
        /\ i # j /\ Precedes(ms, i, j) => Place(ms, kept, i) < Place(ms, kept, j)
  BY <1>2, <1>4, PlacesApart
<1>7. ByPriority(ms, kept) = [k \in 1..n |-> ms[At1(k)]]
  BY DEF ByPriority
<1> HIDE DEF At1, n
<1>8. ByPriority(ms, kept) \in Seq(S)
  BY <1>3, <1>4, <1>5, <1>7
<1>9. ASSUME NEW k \in 1..n, NEW l \in 1..n, k < l
      PROVE  PriorityOf(ms[At1(k)]) =< PriorityOf(ms[At1(l)])
  <2>1. At1(k) # At1(l) /\ ~Precedes(ms, At1(l), At1(k))
    BY <1>3, <1>5, <1>6, <1>9
  <2>2. Precedes(ms, At1(k), At1(l))
    BY <2>1, <1>5, <1>6
  <2> QED BY <2>2, <1>4, <1>5 DEF Precedes
<1>10. ASSUME NoTwins(ms), NEW k \in 1..n, NEW l \in 1..n,
              IdOf(ms[At1(k)]) = IdOf(ms[At1(l)])
       PROVE  k = l
  <2>1. At1(k) = At1(l)
    BY <1>5, <1>10 DEF NoTwins
  <2> QED BY <2>1, <1>5
<1> QED BY <1>7, <1>8, <1>9, <1>10, <1>3 DEF InOrder, NoTwins

\* The lists the host hands to a boot: what resolveHostModules returns is a
\* list of modules whose priorities are integers.
LEMMA ListsJoin ==
  ASSUME NEW A, NEW B, NEW a \in Seq(A), NEW b \in Seq(B)
  PROVE  /\ a \o b \in Seq(A \cup B)
         /\ Elems(a \o b) = Elems(a) \cup Elems(b)
<1>1. /\ Len(a) \in Nat /\ Len(b) \in Nat
      /\ DOMAIN a = 1..Len(a) /\ DOMAIN b = 1..Len(b)
  OBVIOUS
<1>2. a \in Seq(A \cup B) /\ b \in Seq(A \cup B)
  OBVIOUS
<1>3. /\ a \o b \in Seq(A \cup B) /\ Len(a \o b) = Len(a) + Len(b)
      /\ DOMAIN (a \o b) = 1..(Len(a) + Len(b))
  BY <1>2
<1>4. \A i \in 1..(Len(a) + Len(b)) :
        (a \o b)[i] = IF i <= Len(a) THEN a[i] ELSE b[i - Len(a)]
  BY <1>2
<1>5. Elems(a \o b) \subseteq Elems(a) \cup Elems(b)
  <2> SUFFICES ASSUME NEW i \in DOMAIN (a \o b)
               PROVE  (a \o b)[i] \in Elems(a) \cup Elems(b)
    BY DEF Elems
  <2>1. CASE i <= Len(a)
    BY <2>1, <1>1, <1>3, <1>4 DEF Elems
  <2>2. CASE ~(i <= Len(a))
    <3>1. i - Len(a) \in DOMAIN b /\ (a \o b)[i] = b[i - Len(a)]
      BY <2>2, <1>1, <1>3, <1>4
    <3> QED BY <3>1 DEF Elems
  <2> QED BY <2>1, <2>2
<1>6. \A i \in DOMAIN a : i \in DOMAIN (a \o b) /\ (a \o b)[i] = a[i]
  BY <1>1, <1>3, <1>4
<1>7. \A i \in DOMAIN b :
        i + Len(a) \in DOMAIN (a \o b) /\ (a \o b)[i + Len(a)] = b[i]
  BY <1>1, <1>3, <1>4
<1>8. Elems(a) \subseteq Elems(a \o b) /\ Elems(b) \subseteq Elems(a \o b)
  BY <1>6, <1>7 DEF Elems
<1> QED BY <1>3, <1>5, <1>8

LEMMA FinalIdsAreAList ==
  ASSUME NEW c \in HostConfigs
  PROVE  \E k \in Nat : DOMAIN FinalIds(c) = 1..k
<1>1. MergedIds(c) \in Seq(Elems(MergedIds(c)))
  <2>1. c.enabled \in Seq(Elems(c.enabled))
    BY HostAssumption DEF IsList
  <2>2. \E S : (IF c.envModules # None THEN c.envModules ELSE Profile(c.profile))
                 \in Seq(S)
    <3>1. CASE c.envModules # None
      BY <3>1, HostAssumption DEF IsList
    <3>2. CASE c.envModules = None
      <4> DEFINE Ids == {"working-memory", "world-canon", "character"}
      <4>1. <<"working-memory", "world-canon", "character">> \in Seq(Ids)
        OBVIOUS
      <4>2. <<"working-memory">> \in Seq(Ids) /\ <<>> \in Seq(Ids)
        OBVIOUS
      <4>3. \/ Profile(c.profile) = <<"working-memory", "world-canon", "character">>
            \/ Profile(c.profile) = <<"working-memory">>
            \/ Profile(c.profile) = <<>>
        BY DEF Profile
      <4> HIDE DEF Ids
      <4> QED BY <4>1, <4>2, <4>3, <3>2
    <3> QED BY <3>1, <3>2
  <2>3. PICK S : (IF c.envModules # None THEN c.envModules ELSE Profile(c.profile))
                   \in Seq(S)
    BY <2>2
  <2>4. MergedIds(c) \in Seq(S \cup Elems(c.enabled))
    BY <2>1, <2>3, ListsJoin DEF MergedIds
  <2> QED BY <2>4 DEF Elems
<1>2. Len(MergedIds(c)) \in Nat /\ DOMAIN MergedIds(c) = 1..Len(MergedIds(c))
  BY <1>1
<1> DEFINE Places == {i \in DOMAIN MergedIds(c) :
                        MergedIds(c)[i] \notin c.disabled \cup c.envDisabled}
<1>3. IsFiniteSet(1..Len(MergedIds(c)))
  BY <1>2, FS_Interval
<1>4. Places \in SUBSET (1..Len(MergedIds(c)))
  BY <1>2
<1>5. Cardinality(Places) \in Nat
  <2> HIDE DEF Places
  <2> QED BY <1>3, <1>4, FS_Subset, FS_CardinalityType
<1>6. FinalIds(c) = At(MergedIds(c), Places)
  BY DEF FinalIds
<1>7. DOMAIN At(MergedIds(c), Places) = 1..Cardinality(Places)
  BY DEF At
<1> HIDE DEF Places
<1> QED BY <1>5, <1>6, <1>7

LEMMA CompiledPriority == ASSUME NEW def
                          PROVE  PriorityOf(Compile(def)) = def.priority
BY DEF PriorityOf, Compile, Manifest

LEMMA ModuleListIsAList ==
  ASSUME NEW c \in HostConfigs, ~ResolveFails(c)
  PROVE  /\ ModuleList(c) \in Seq(Elems(ModuleList(c)))
         /\ \A m \in Elems(ModuleList(c)) : PriorityOf(m) \in Int
<1> DEFINE Named == [i \in DOMAIN FinalIds(c) |->
                       Compile(CHOOSE def \in Pool(c) : def.id = FinalIds(c)[i])]
           First == IF c.exclusive # None THEN c.exclusive ELSE Named
<1>1. c.extra \in Seq(Elems(c.extra)) /\ \A m \in Elems(c.extra) : PriorityOf(m) \in Int
  BY HostAssumption DEF IsList
<1>2. First \in Seq(Elems(First)) /\ \A m \in Elems(First) : PriorityOf(m) \in Int
  <2>1. CASE c.exclusive # None
    <3>1. First = c.exclusive
      BY <2>1
    <3>2. /\ c.exclusive \in Seq(Elems(c.exclusive))
          /\ \A m \in Elems(c.exclusive) : PriorityOf(m) \in Int
      BY <2>1, HostAssumption DEF IsList
    <3> QED BY <3>1, <3>2
  <2>2. CASE c.exclusive = None
    <3>1. First = Named
      BY <2>2
    <3>2. \A i \in DOMAIN FinalIds(c) : \E def \in Pool(c) : def.id = FinalIds(c)[i]
      BY <2>2 DEF ResolveFails, Elems
    <3>3. \A i \in DOMAIN FinalIds(c) :
            (CHOOSE def \in Pool(c) : def.id = FinalIds(c)[i]) \in Pool(c)
      BY <3>2
    <3>4. \A i \in DOMAIN Named : PriorityOf(Named[i]) \in Int
      <4> SUFFICES ASSUME NEW i \in DOMAIN FinalIds(c)
                   PROVE  PriorityOf(Named[i]) \in Int
        OBVIOUS
      <4> DEFINE d == CHOOSE def \in Pool(c) : def.id = FinalIds(c)[i]
      <4>1. d \in Pool(c) /\ Named[i] = Compile(d)
        BY <3>3
      <4> HIDE DEF d, Named
      <4> QED BY <4>1, CompiledPriority, HostAssumption
    <3>5. PICK k \in Nat : DOMAIN FinalIds(c) = 1..k
      BY FinalIdsAreAList
    <3>6. DOMAIN Named = 1..k
      BY <3>5
    <3> HIDE DEF Named
    <3>7. \A i \in 1..k : Named[i] \in Elems(Named)
      BY <3>6 DEF Elems
    <3>8. Named = [i \in 1..k |-> Named[i]]
      BY <3>6 DEF Named
    <3>9. Named \in Seq(Elems(Named))
      BY <3>7, <3>8
    <3>10. \A m \in Elems(Named) : PriorityOf(m) \in Int
      BY <3>4 DEF Elems
    <3> QED BY <3>1, <3>9, <3>10
  <2> QED BY <2>1, <2>2
<1>3. ModuleList(c) = First \o c.extra
  BY DEF ModuleList
<1> HIDE DEF First, Named
<1>4. /\ ModuleList(c) \in Seq(Elems(First) \cup Elems(c.extra))
      /\ Elems(ModuleList(c)) = Elems(First) \cup Elems(c.extra)
  <2> DEFINE A == Elems(First)
             B == Elems(c.extra)
  <2>1. First \in Seq(A) /\ c.extra \in Seq(B)
    BY <1>1, <1>2
  <2> HIDE DEF A, B
  <2>2. \A a \in Seq(A), b \in Seq(B) :
          a \o b \in Seq(A \cup B) /\ Elems(a \o b) = Elems(a) \cup Elems(b)
    BY ListsJoin
  <2> QED BY <2>1, <2>2, <1>3 DEF A, B
<1> QED BY <1>1, <1>2, <1>4

LEMMA InstallablePriorities == \A m \in Installable : PriorityOf(m) \in Int
BY ModuleListIsAList DEF Installable

LEMMA ListsAreInstallable ==
  ASSUME NEW c \in HostConfigs, ~ResolveFails(c)
  PROVE  ModuleList(c) \in Seq(Installable)
<1>1. Elems(ModuleList(c)) \subseteq Installable
  BY DEF Installable
<1> QED BY <1>1, ModuleListIsAList

LEMMA ActiveIsSorted ==
  ASSUME NEW ms \in Seq(Installable), NEW opts
  PROVE  /\ Active(ms, opts) \in Seq(Installable) /\ InOrder(Active(ms, opts))
         /\ NoTwins(ms) => NoTwins(Active(ms, opts))
<1> DEFINE kept == IF opts.lenient THEN WithProviders(ms) ELSE DOMAIN ms
<1>1. kept \in SUBSET DOMAIN ms
  BY DEF WithProviders
<1>2. Active(ms, opts) = ByPriority(ms, kept)
  BY DEF Active
<1> HIDE DEF kept
<1> QED BY <1>1, <1>2, InstallablePriorities, SortedByPriority

-----------------------------------------------------------------------------
(* Installing                                                              *)

LEMMA ShiftHead ==
  ASSUME NEW S, NEW a \in Seq(S), NEW b \in Seq(S), b # <<>>
  PROVE  /\ Head(b) \in S /\ Tail(b) \in Seq(S) /\ Append(a, Head(b)) \in Seq(S)
         /\ Append(a, Head(b)) \o Tail(b) = a \o b
         /\ Elems(Append(a, Head(b))) = Elems(a) \cup {Head(b)}
         /\ \A i \in DOMAIN Append(a, Head(b)) :
              i \in DOMAIN (a \o b) /\ Append(a, Head(b))[i] = (a \o b)[i]
         /\ \A i \in DOMAIN a : a[i] = (a \o b)[i] /\ i # Len(a) + 1
         /\ Len(a) + 1 \in DOMAIN (a \o b) /\ (a \o b)[Len(a) + 1] = Head(b)
<1>1. /\ Len(a) \in Nat /\ Len(b) \in Nat /\ Len(b) > 0
      /\ DOMAIN a = 1..Len(a) /\ DOMAIN b = 1..Len(b)
  OBVIOUS
<1>2. Head(b) \in S /\ Tail(b) \in Seq(S) /\ Head(b) = b[1]
  BY <1>1
<1>3. /\ Append(a, Head(b)) \in Seq(S) /\ Len(Append(a, Head(b))) = Len(a) + 1
      /\ \A i \in 1..Len(a) : Append(a, Head(b))[i] = a[i]
      /\ Append(a, Head(b))[Len(a) + 1] = Head(b)
  BY <1>1, <1>2
<1>4. /\ a \o b \in Seq(S) /\ Len(a \o b) = Len(a) + Len(b)
      /\ \A i \in 1..(Len(a) + Len(b)) :
           (a \o b)[i] = IF i <= Len(a) THEN a[i] ELSE b[i - Len(a)]
  BY <1>1
<1>5. Len(Tail(b)) = Len(b) - 1 /\ \A i \in 1..(Len(b) - 1) : Tail(b)[i] = b[i + 1]
  BY <1>1
<1>6. Append(a, Head(b)) \o Tail(b) = a \o b
  <2> DEFINE x == Append(a, Head(b))
             y == Tail(b)
  <2>1. /\ x \o y \in Seq(S) /\ Len(x \o y) = Len(a) + Len(b)
        /\ \A i \in 1..(Len(a) + Len(b)) :
             (x \o y)[i] = IF i <= Len(a) + 1 THEN x[i] ELSE y[i - (Len(a) + 1)]
    BY <1>1, <1>2, <1>3, <1>5
  <2> HIDE DEF x, y
  <2>2. \A i \in 1..(Len(a) + Len(b)) : (x \o y)[i] = (a \o b)[i]
    <3> SUFFICES ASSUME NEW i \in 1..(Len(a) + Len(b))
                 PROVE  (x \o y)[i] = (a \o b)[i]
      OBVIOUS
    <3>1. CASE i <= Len(a)
      BY <3>1, <2>1, <1>1, <1>3, <1>4 DEF x
    <3>2. CASE i = Len(a) + 1
      <4>1. (x \o y)[i] = Head(b)
        BY <3>2, <2>1, <1>1, <1>3 DEF x
      <4>2. (a \o b)[i] = b[1]
        BY <3>2, <1>1, <1>4
      <4> QED BY <4>1, <4>2, <1>2
    <3>3. CASE i > Len(a) + 1
      <4>1. i - (Len(a) + 1) \in 1..(Len(b) - 1)
        BY <3>3, <1>1
      <4>2. (x \o y)[i] = y[i - (Len(a) + 1)]
        BY <3>3, <2>1, <1>1
      <4>3. y[i - (Len(a) + 1)] = b[i - Len(a)]
        BY <4>1, <1>5, <1>1 DEF y
      <4>4. (a \o b)[i] = b[i - Len(a)]
        BY <3>3, <1>4, <1>1
      <4> QED BY <4>2, <4>3, <4>4
    <3>4. i <= Len(a) \/ i = Len(a) + 1 \/ i > Len(a) + 1
      BY <1>1
    <3> QED BY <3>1, <3>2, <3>3, <3>4
  <2> QED BY <2>1, <2>2, <1>4, SeqEqual DEF x, y
<1>7. Elems(Append(a, Head(b))) = Elems(a) \cup {Head(b)}
  BY <1>1, <1>3 DEF Elems
<1>8. \A i \in DOMAIN Append(a, Head(b)) :
        i \in DOMAIN (a \o b) /\ Append(a, Head(b))[i] = (a \o b)[i]
  <2> SUFFICES ASSUME NEW i \in 1..(Len(a) + 1)
               PROVE  i \in DOMAIN (a \o b) /\ Append(a, Head(b))[i] = (a \o b)[i]
    BY <1>3
  <2>1. i \in DOMAIN (a \o b)
    BY <1>1, <1>4
  <2>2. CASE i <= Len(a)
    BY <2>1, <2>2, <1>1, <1>3, <1>4
  <2>3. CASE i = Len(a) + 1
    BY <2>1, <2>3, <1>1, <1>2, <1>3, <1>4
  <2> QED BY <2>2, <2>3, <1>1
<1>9. /\ \A i \in DOMAIN a : a[i] = (a \o b)[i] /\ i # Len(a) + 1
      /\ Len(a) + 1 \in DOMAIN (a \o b) /\ (a \o b)[Len(a) + 1] = Head(b)
  BY <1>1, <1>2, <1>4
<1> QED BY <1>2, <1>3, <1>6, <1>7, <1>8, <1>9

RegistryOK == RegistryTypeOK /\ InstallOK /\ RunningOK

LEMMA InstallModuleStep ==
  ASSUME RegistryOK, InstallModule
  PROVE  RegistryOK'
<1>a. PICK m : m = Head(todo)
  OBVIOUS
<1>0. /\ phase = "installing" /\ todo # <<>> /\ ~InstallErrors(m)
      /\ puts' = puts \cup {[token |-> t, owner |-> IdOf(m)] : t \in UniqueTokens(m)}
      /\ ports' = ports \cup {[port |-> p, owner |-> IdOf(m)] : p \in AddsPorts(m)}
      /\ subs' = subs \cup {[name |-> h.name, does |-> h.does, owner |-> IdOf(m)]
                              : h \in m.bindings.hears}
      /\ caps' = caps \cup m.manifest.provides
      /\ loaded' = Append(loaded, m) /\ todo' = Tail(todo)
      /\ phase' = "installing" /\ options' = options /\ running' = running
  BY <1>a DEF InstallModule
<1>1. /\ todo \in Seq(Installable) /\ loaded \in Seq(Installable)
      /\ OneOwner /\ OwnersAreLoaded /\ LoadedOnce /\ StaysInManifest
      /\ Fits(loaded \o todo) /\ caps = Provided(loaded) /\ running = {}
  BY <1>0 DEF RegistryOK, RegistryTypeOK, InstallOK, RunningOK
<1>2. /\ m \in Installable /\ todo' \in Seq(Installable) /\ loaded' \in Seq(Installable)
      /\ loaded' \o todo' = loaded \o todo
      /\ Elems(loaded') = Elems(loaded) \cup {m}
      /\ \A i \in DOMAIN loaded' :
           i \in DOMAIN (loaded \o todo) /\ loaded'[i] = (loaded \o todo)[i]
      /\ \A i \in DOMAIN loaded :
           /\ loaded[i] = (loaded \o todo)[i] /\ i # Len(loaded) + 1
           /\ i \in DOMAIN (loaded \o todo)
      /\ Len(loaded) + 1 \in DOMAIN (loaded \o todo)
      /\ (loaded \o todo)[Len(loaded) + 1] = m
  <2>1. \A i \in DOMAIN loaded : i \in DOMAIN (loaded \o todo)
    BY <1>1
  <2> QED BY <2>1, <1>a, <1>0, <1>1, ShiftHead
<1>3. \A x \in Elems(loaded) : IdOf(x) # IdOf(m)
  BY <1>1, <1>2 DEF Elems, Fits, NoTwins
<1>4. RegistryTypeOK'
  BY <1>0, <1>2 DEF RegistryTypeOK, Phases
<1>5. LoadedOnce'
  BY <1>1, <1>2 DEF LoadedOnce, Fits, NoTwins
<1>6. OwnersAreLoaded'
  <2>1. \A id : LoadedId(id) => LoadedId(id)'
    BY <1>2 DEF LoadedId
  <2>2. LoadedId(IdOf(m))'
    BY <1>2 DEF LoadedId
  <2>3. \A p \in puts' : p \in puts \/ p.owner = IdOf(m)
    BY <1>0
  <2>4. \A p \in ports' : p \in ports \/ p.owner = IdOf(m)
    BY <1>0
  <2>5. \A sub \in subs' : sub \in subs \/ sub.owner = IdOf(m)
    BY <1>0
  <2> QED BY <2>1, <2>2, <2>3, <2>4, <2>5, <1>1 DEF OwnersAreLoaded
<1>7. OneOwner'
  <2>1. \A p \in puts' \ puts : p.owner = IdOf(m) /\ p.token \in UniqueTokens(m)
    BY <1>0
  <2>2. \A p \in puts : p.token \notin UniqueTokens(m)
    BY <1>0 DEF InstallErrors, TokenErrors, Taken
  <2>3. \A p \in puts' : p \in puts \/ p \in puts' \ puts
    OBVIOUS
  <2> QED BY <2>1, <2>2, <2>3, <1>1 DEF OneOwner
<1>8. StaysInManifest'
  <2> SUFFICES ASSUME options.strict, NEW x \in Elems(loaded')
               PROVE  /\ \A p \in puts' : p.owner = IdOf(x) => Declared(x, p.token)
                      /\ \A p \in ports' :
                           p.owner = IdOf(x) => p.port \in x.manifest.contributes
                      /\ \A sub \in subs' : sub.owner = IdOf(x) =>
                           Declared(x, <<"event-sub", sub.name>>)
    BY <1>0 DEF StaysInManifest
  <2>1. CASE x \in Elems(loaded)
    <3>1. IdOf(x) # IdOf(m)
      BY <2>1, <1>3
    <3>2. \A p \in puts' : p.owner = IdOf(x) => p \in puts
      BY <3>1, <1>0
    <3>3. \A p \in ports' : p.owner = IdOf(x) => p \in ports
      BY <3>1, <1>0
    <3>4. \A sub \in subs' : sub.owner = IdOf(x) => sub \in subs
      BY <3>1, <1>0
    <3> QED BY <2>1, <3>2, <3>3, <3>4, <1>1 DEF StaysInManifest
  <2>2. CASE x = m
    <3>1. /\ \A t \in UniqueTokens(m) \cup ListTokens(m) : Declared(m, t)
          /\ AddsPorts(m) \subseteq m.manifest.contributes
      BY <1>0 DEF InstallErrors, TokenErrors, PortErrors
    <3>2. /\ \A p \in puts : p.owner # IdOf(m)
          /\ \A p \in ports : p.owner # IdOf(m)
          /\ \A sub \in subs : sub.owner # IdOf(m)
      BY <1>1, <1>3 DEF OwnersAreLoaded, LoadedId
    <3>3. \A h \in m.bindings.hears : <<"event-sub", h.name>> \in ListTokens(m)
      BY DEF ListTokens
    <3>4. \A p \in puts' : p.owner = IdOf(m) => p.token \in UniqueTokens(m)
      BY <3>2, <1>0
    <3>5. \A p \in ports' : p.owner = IdOf(m) => p.port \in AddsPorts(m)
      BY <3>2, <1>0
    <3>6. \A sub \in subs' : sub.owner = IdOf(m) =>
            \E h \in m.bindings.hears : sub.name = h.name
      BY <3>2, <1>0
    <3> QED BY <2>2, <3>1, <3>3, <3>4, <3>5, <3>6
  <2> QED BY <2>1, <2>2, <1>2
<1>9. caps' = Provided(loaded')
  <2>1. \A ms : Provided(ms) = {Core} \cup UNION {x.manifest.provides : x \in Elems(ms)}
    BY DEF Provided, Elems
  <2> QED BY <2>1, <1>0, <1>1, <1>2
<1>10. InstallOK'
  BY <1>0, <1>1, <1>2, <1>5, <1>6, <1>7, <1>8, <1>9 DEF InstallOK, Fits
<1>11. RunningOK'
  <2>1. Started(0)' = {}
    BY DEF Started
  <2>2. Len(loaded') \in Nat
    BY <1>2
  <2> QED BY <2>1, <2>2, <1>0, <1>1 DEF RunningOK
<1> QED BY <1>4, <1>10, <1>11 DEF RegistryOK

\* The steps that fail a boot, at whatever module: what is in the index stays.
LEMMA BootFailsStep ==
  ASSUME RegistryOK, BootFails
  PROVE  RegistryOK'
<1>1. RegistryTypeOK'
  BY DEF RegistryOK, RegistryTypeOK, BootFails, Phases
<1>2. InstallOK'
  BY DEF RegistryOK, InstallOK, BootFails, OneOwner, OwnersAreLoaded, LoadedId,
         LoadedOnce, StaysInManifest
<1>3. RunningOK'
  BY DEF RegistryOK, RunningOK, BootFails, Started
<1> QED BY <1>1, <1>2, <1>3 DEF RegistryOK

LEMMA BindEventsStep ==
  ASSUME RegistryOK, BindEvents
  PROVE  RegistryOK'
<1>0. /\ phase = "installing" /\ todo = <<>> /\ phase' = "bound"
      /\ subs' = {sub \in subs : Published(sub.name)}
      /\ UNCHANGED <<options, todo, loaded, puts, ports, caps, running>>
  BY DEF BindEvents
<1>1. /\ loaded \in Seq(Installable) /\ todo \in Seq(Installable)
      /\ OneOwner /\ OwnersAreLoaded /\ LoadedOnce /\ StaysInManifest
      /\ Fits(loaded \o todo) /\ caps = Provided(loaded) /\ running = {}
  BY <1>0 DEF RegistryOK, RegistryTypeOK, InstallOK, RunningOK
<1>2. loaded \o todo = loaded
  <2> QED BY <1>0, <1>1
<1>3. RegistryTypeOK'
  BY <1>0, <1>1 DEF RegistryTypeOK, Phases
<1>4. NothingDangles'
  <2>1. \A sub \in subs' : Published(sub.name)'
    BY <1>0 DEF Published
  <2>2. ~options.lenient => \A m \in Elems(loaded) : m.manifest.requires \subseteq caps
    BY <1>1, <1>2 DEF Fits, SelfSufficient, Elems
  <2> QED BY <2>1, <2>2, <1>0 DEF NothingDangles
<1>5. Ordered'
  BY <1>0, <1>1, <1>2 DEF Ordered, Fits, InOrder
<1>6. OneOwner' /\ OwnersAreLoaded' /\ LoadedOnce' /\ StaysInManifest'
  <2>1. subs' \subseteq subs
    BY <1>0
  <2> QED BY <2>1, <1>0, <1>1 DEF OneOwner, OwnersAreLoaded, LoadedId, LoadedOnce,
                                 StaysInManifest
<1>7. InstallOK'
  BY <1>0, <1>4, <1>5, <1>6 DEF InstallOK
<1>8. RunningOK'
  BY <1>0, <1>1 DEF RegistryOK, RunningOK, Started
<1> QED BY <1>3, <1>7, <1>8 DEF RegistryOK

\* What StartModule, StopModule and the rest leave alone.
LEMMA IndexKept ==
  ASSUME InstallOK, UNCHANGED <<options, loaded, puts, ports, subs, caps>>,
         phase \in {"bound", "starting", "up", "stopping", "stopped"},
         phase' \in {"starting", "up", "stopping", "stopped", "failed"}
  PROVE  InstallOK'
BY DEF InstallOK, OneOwner, OwnersAreLoaded, LoadedId, LoadedOnce, StaysInManifest,
       NothingDangles, Published, Ordered

LEMMA CheckConfigsStep ==
  ASSUME RegistryOK, CheckConfigs
  PROVE  RegistryOK'
<1>1. CASE ConfigRefused
  <2>1. BootFails
    BY <1>1 DEF CheckConfigs
  <2> QED BY <2>1, BootFailsStep
<1>2. CASE ~ConfigRefused
  <2>0. /\ phase = "bound" /\ phase' = "starting" /\ todo' = loaded
        /\ UNCHANGED <<options, loaded, puts, ports, subs, caps, running>>
    BY <1>2 DEF CheckConfigs
  <2>1. loaded \in Seq(Installable) /\ InstallOK /\ running = {}
    BY <2>0 DEF RegistryOK, RegistryTypeOK, RunningOK
  <2>2. RegistryTypeOK'
    BY <2>0, <2>1 DEF RegistryTypeOK, Phases
  <2>3. InstallOK'
    BY <2>0, <2>1, IndexKept
  <2>4. Len(loaded) \in Nat
    <3> QED BY <2>1
  <2>5. Started(0)' = {}
    BY DEF Started
  <2>6. /\ Len(todo') =< Len(loaded') /\ Len(loaded') - Len(todo') = 0
        /\ \A i \in DOMAIN todo' : todo'[i] = loaded'[Len(loaded') - Len(todo') + i]
    BY <2>0, <2>1, <2>4
  <2>7. running' = Started(0)' /\ running' = Started(Len(loaded) - Len(todo))'
    BY <2>0, <2>1, <2>5, <2>6 DEF Started
  <2>8. RunningOK'
    BY <2>0, <2>4, <2>6, <2>7 DEF RunningOK
  <2> QED BY <2>2, <2>3, <2>8 DEF RegistryOK
<1> QED BY <1>1, <1>2

\* The modules started, when one more of the list is.
LEMMA StartedOneMore ==
  ASSUME NEW k \in Nat
  PROVE  Started(k + 1) = IF HasStart(loaded[k + 1])
                          THEN Started(k) \cup {IdOf(loaded[k + 1])} ELSE Started(k)
<1>1. \A x : x \in 1..(k + 1) <=> x \in 1..k \/ x = k + 1
  OBVIOUS
<1> QED BY <1>1 DEF Started

LEMMA StartModuleStep ==
  ASSUME RegistryOK, StartModule
  PROVE  RegistryOK'
<1>0. /\ phase = "starting" /\ todo # <<>>
      /\ running' = IF Head(todo).start = "none" THEN running
                    ELSE running \cup {IdOf(Head(todo))}
      /\ \/ phase' = "failed" /\ todo' = <<>>
         \/ phase' = "starting" /\ todo' = Tail(todo)
      /\ UNCHANGED <<options, loaded, puts, ports, subs, caps>>
  BY DEF StartModule
<1>a. PICK k : k = Len(loaded) - Len(todo)
  OBVIOUS
<1>1. /\ todo \in Seq(Installable) /\ loaded \in Seq(Installable)
      /\ Len(todo) =< Len(loaded) /\ running = Started(k)
      /\ \A i \in DOMAIN todo : todo[i] = loaded[k + i]
  BY <1>a, <1>0 DEF RegistryOK, RegistryTypeOK, RunningOK
<1>2. /\ Len(todo) \in Nat /\ Len(loaded) \in Nat /\ Len(todo) > 0
      /\ DOMAIN todo = 1..Len(todo) /\ Head(todo) = todo[1]
      /\ Tail(todo) \in Seq(Installable) /\ Len(Tail(todo)) = Len(todo) - 1
      /\ \A i \in 1..(Len(todo) - 1) : Tail(todo)[i] = todo[i + 1]
      /\ DOMAIN Tail(todo) = 1..(Len(todo) - 1)
  <2> QED BY <1>0, <1>1
<1>3. k \in Nat /\ k + 1 =< Len(loaded) /\ Head(todo) = loaded[k + 1]
  <2>1. 1 \in DOMAIN todo
    BY <1>2
  <2> QED BY <2>1, <1>a, <1>1, <1>2
<1>4. running' = Started(k + 1)
  BY <1>0, <1>1, <1>3, StartedOneMore DEF HasStart
<1>5. Started(k + 1) = {IdOf(loaded'[i]) : i \in {x \in 1..(k + 1) : HasStart(loaded'[x])}}
  BY <1>0 DEF Started
<1>6. RegistryTypeOK'
  <2>1. todo' \in Seq(Installable) /\ loaded' \in Seq(Installable)
    <3>1. todo' = <<>> \/ todo' = Tail(todo)
      BY <1>0
    <3>2. CASE todo' = <<>>
      BY <3>2, <1>0, <1>1
    <3>3. CASE todo' = Tail(todo)
      BY <3>3, <1>0, <1>1, <1>2
    <3> QED BY <3>1, <3>2, <3>3
  <2> QED BY <2>1, <1>0 DEF RegistryTypeOK, Phases
<1>7. InstallOK'
  BY <1>0, IndexKept DEF RegistryOK
<1>8. RunningOK'
  <2>1. k + 1 \in 0..Len(loaded')
    BY <1>0, <1>2, <1>3
  <2>2. \E j \in 0..Len(loaded') : running' = Started(j)'
    BY <2>1, <1>4, <1>5 DEF Started
  <2>3. ASSUME phase' = "starting"
        PROVE  /\ Len(todo') =< Len(loaded') /\ Len(loaded') - Len(todo') = k + 1
               /\ \A i \in DOMAIN todo' : todo'[i] = loaded'[k + 1 + i]
    <3>1. todo' = Tail(todo) /\ loaded' = loaded
      BY <2>3, <1>0
    <3>2. \A i \in 1..(Len(todo) - 1) : Tail(todo)[i] = loaded[k + (i + 1)]
      BY <1>1, <1>2
    <3>3. \A i \in 1..(Len(todo) - 1) : k + (i + 1) = k + 1 + i
      BY <1>a, <1>2
    <3>4. \A i \in 1..(Len(todo) - 1) : Tail(todo)[i] = loaded[k + 1 + i]
      BY <3>2, <3>3
    <3>5. Len(todo') =< Len(loaded') /\ Len(loaded') - Len(todo') = k + 1
      BY <3>1, <1>a, <1>1, <1>2
    <3> QED BY <3>1, <3>4, <3>5, <1>2
  <2>4. phase' = "starting" => running' = Started(Len(loaded) - Len(todo))'
    BY <2>3, <1>4, <1>5 DEF Started
  <2> QED BY <2>2, <2>3, <2>4, <1>0 DEF RunningOK
<1> QED BY <1>6, <1>7, <1>8 DEF RegistryOK

LEMMA EngineReadyStep ==
  ASSUME RegistryOK, EngineReady
  PROVE  RegistryOK'
<1>0. /\ phase = "starting" /\ todo = <<>> /\ phase' \in {"up", "failed"}
      /\ UNCHANGED <<options, todo, loaded, puts, ports, subs, caps, running>>
  BY DEF EngineReady
<1>1. Len(loaded) \in Nat /\ Len(loaded) - Len(todo) = Len(loaded)
  <2> QED BY <1>0 DEF RegistryOK, RegistryTypeOK
<1>2. RegistryTypeOK'
  BY <1>0 DEF RegistryOK, RegistryTypeOK, Phases
<1>3. InstallOK'
  BY <1>0, IndexKept DEF RegistryOK
<1>4. RunningOK'
  BY <1>0, <1>1 DEF RegistryOK, RunningOK, Started
<1> QED BY <1>2, <1>3, <1>4 DEF RegistryOK

LEMMA StopAllStep ==
  ASSUME RegistryOK, StopAll
  PROVE  RegistryOK'
<1>0. /\ phase = "up" /\ phase' = "stopping" /\ todo' = loaded
      /\ UNCHANGED <<options, loaded, puts, ports, subs, caps, running>>
  BY DEF StopAll
<1>1. Len(loaded) \in Nat
  <2> QED BY DEF RegistryOK, RegistryTypeOK
<1>2. RegistryTypeOK'
  BY <1>0 DEF RegistryOK, RegistryTypeOK, Phases
<1>3. InstallOK'
  BY <1>0, IndexKept DEF RegistryOK
<1>4. RunningOK'
  BY <1>0, <1>1 DEF RegistryOK, RunningOK, Started
<1> QED BY <1>2, <1>3, <1>4 DEF RegistryOK

\* The last of the modules that are still to stop.
LEMMA WithoutLast ==
  ASSUME NEW S, NEW s \in Seq(S), s # <<>>
  PROVE  /\ Without(s, StopsNext(s)) \in Seq(S)
         /\ Len(Without(s, StopsNext(s))) = Len(s) - 1
         /\ \A i \in 1..(Len(s) - 1) : Without(s, StopsNext(s))[i] = s[i]
<1>1. Len(s) \in Nat /\ Len(s) > 0
  OBVIOUS
<1>2. SubSeq(s, Len(s) + 1, Len(s)) = <<>>
  BY <1>1, SubSeqEmpty
<1>3. /\ SubSeq(s, 1, Len(s) - 1) \in Seq(S)
      /\ Len(SubSeq(s, 1, Len(s) - 1)) = Len(s) - 1
      /\ \A i \in 1..(Len(s) - 1) : SubSeq(s, 1, Len(s) - 1)[i] = s[i]
  <2> DEFINE n == Len(s) - 1
  <2>1. n \in Int /\ n - 1 + 1 = n /\ (1 =< n \/ n = 0) /\ 1 \in Int
        /\ \A i \in 1..n : s[i] \in S /\ 1 + i - 1 = i
    BY <1>1
  <2> HIDE DEF n
  <2>2. /\ SubSeq(s, 1, n) \in Seq(S)
        /\ Len(SubSeq(s, 1, n)) = IF 1 <= n THEN n - 1 + 1 ELSE 0
        /\ \A i \in 1..(n - 1 + 1) : SubSeq(s, 1, n)[i] = s[1 + i - 1]
    BY <2>1, SubSeqProperties
  <2>3. Len(SubSeq(s, 1, n)) = n /\ \A i \in 1..n : SubSeq(s, 1, n)[i] = s[i]
    BY <2>1, <2>2
  <2> QED BY <2>2, <2>3 DEF n
<1>4. Without(s, StopsNext(s)) = SubSeq(s, 1, Len(s) - 1)
  BY <1>1, <1>2 DEF Without, StopsNext
<1> QED BY <1>2, <1>3, <1>4

LEMMA StopModuleStep ==
  ASSUME RegistryOK, StopModule
  PROVE  RegistryOK'
<1>0. /\ phase = "stopping" /\ todo # <<>> /\ phase' = "stopping"
      /\ running' = running \ {IdOf(todo[StopsNext(todo)])}
      /\ todo' = Without(todo, StopsNext(todo))
      /\ UNCHANGED <<options, loaded, puts, ports, subs, caps>>
  BY DEF StopModule
<1>a. PICK k : k = Len(todo) - 1
  OBVIOUS
<1>1. /\ todo \in Seq(Installable) /\ loaded \in Seq(Installable)
      /\ Len(todo) =< Len(loaded) /\ running = Started(Len(todo)) /\ LoadedOnce
      /\ \A i \in DOMAIN todo : todo[i] = loaded[i]
  BY <1>0 DEF RegistryOK, RegistryTypeOK, RunningOK, InstallOK
<1>2. /\ Len(todo) \in Nat /\ Len(loaded) \in Nat /\ Len(todo) > 0
      /\ DOMAIN todo = 1..Len(todo) /\ DOMAIN loaded = 1..Len(loaded)
  <2> QED BY <1>0, <1>1
<1>3. /\ todo' \in Seq(Installable) /\ Len(todo') = k
      /\ \A i \in 1..k : todo'[i] = loaded[i]
      /\ DOMAIN todo' = 1..k
  <2>1. /\ todo' \in Seq(Installable) /\ Len(todo') = Len(todo) - 1
        /\ \A i \in 1..(Len(todo) - 1) : todo'[i] = todo[i]
    BY <1>0, <1>1, WithoutLast
  <2>2. \A i \in 1..k : i \in DOMAIN todo /\ i \in 1..(Len(todo) - 1)
    BY <1>a, <1>2
  <2>3. \A i \in 1..k : todo'[i] = loaded[i]
    BY <2>1, <2>2, <1>1
  <2> QED BY <2>1, <2>3, <1>a
<1>4. k \in Nat /\ k + 1 = Len(todo) /\ k + 1 \in DOMAIN loaded
      /\ todo[StopsNext(todo)] = loaded[k + 1]
  BY <1>a, <1>1, <1>2 DEF StopsNext
<1>5. running = IF HasStart(loaded[k + 1])
                THEN Started(k) \cup {IdOf(loaded[k + 1])} ELSE Started(k)
  BY <1>1, <1>4, StartedOneMore
<1>6. IdOf(loaded[k + 1]) \notin Started(k)
  <2>1. \A i \in 1..k : i \in DOMAIN loaded /\ i # k + 1
    BY <1>1, <1>2, <1>4
  <2> QED BY <2>1, <1>1, <1>4 DEF Started, LoadedOnce
<1>7. running' = Started(k)
  BY <1>0, <1>4, <1>5, <1>6
<1>8. RegistryTypeOK'
  BY <1>0, <1>1, <1>3 DEF RegistryTypeOK, Phases
<1>9. InstallOK'
  BY <1>0, IndexKept DEF RegistryOK
<1>10. RunningOK'
  <2>1. k \in 0..Len(loaded') /\ k =< Len(loaded')
    BY <1>0, <1>1, <1>2, <1>4
  <2>2. running' = Started(k)' /\ running' = Started(Len(todo))'
    BY <1>0, <1>3, <1>7 DEF Started
  <2>3. \E j \in 0..Len(loaded') : running' = Started(j)'
    BY <2>1, <2>2, <1>3 DEF Started
  <2>4. \A i \in DOMAIN todo' : todo'[i] = loaded'[i]
    BY <1>0, <1>3
  <2> QED BY <2>1, <2>2, <2>3, <2>4, <1>0, <1>3 DEF RunningOK
<1> QED BY <1>8, <1>9, <1>10 DEF RegistryOK

LEMMA StoppedStep ==
  ASSUME RegistryOK, Stopped
  PROVE  RegistryOK'
<1>0. /\ phase = "stopping" /\ todo = <<>> /\ phase' = "stopped"
      /\ UNCHANGED <<options, todo, loaded, puts, ports, subs, caps, running>>
  BY DEF Stopped
<1>1. Started(Len(todo)) = {} /\ running = Started(Len(todo))
  BY <1>0 DEF RegistryOK, RunningOK, Started
<1>2. RegistryTypeOK'
  BY <1>0 DEF RegistryOK, RegistryTypeOK, Phases
<1>3. InstallOK'
  BY <1>0, IndexKept DEF RegistryOK
<1>4. RunningOK'
  BY <1>0, <1>1 DEF RegistryOK, RunningOK, Started
<1> QED BY <1>2, <1>3, <1>4 DEF RegistryOK

\* What createEngine's steps keep.
LEMMA RegistrySteps ==
  ASSUME RegistryOK, RegistryNext
  PROVE  RegistryOK'
<1>1. CASE InstallModule BY <1>1, InstallModuleStep
<1>2. CASE InstallFails BY <1>2, BootFailsStep DEF InstallFails
<1>3. CASE BindEvents BY <1>3, BindEventsStep
<1>4. CASE BindEventsFails BY <1>4, BootFailsStep DEF BindEventsFails
<1>5. CASE CheckConfigs BY <1>5, CheckConfigsStep
<1>6. CASE StartModule BY <1>6, StartModuleStep
<1>7. CASE EngineReady BY <1>7, EngineReadyStep
<1>8. CASE StopModule BY <1>8, StopModuleStep
<1>9. CASE Stopped BY <1>9, StoppedStep
<1> QED BY <1>1, <1>2, <1>3, <1>4, <1>5, <1>6, <1>7, <1>8, <1>9 DEF RegistryNext

LEMMA BootStep ==
  ASSUME RegistryOK, NEW ms \in Seq(Installable), NEW opts, Boot(ms, opts)
  PROVE  RegistryOK'
<1>0. /\ phase = "off" /\ options' = opts /\ caps' = {Core}
      /\ UNCHANGED <<loaded, puts, ports, subs, running>>
      /\ \/ phase' = "failed" /\ todo' = <<>>
         \/ /\ phase' = "installing" /\ todo' = Active(ms, opts)
            /\ ~ManifestsClash(ms) /\ ~GraphRefused(Active(ms, opts), opts)
  BY DEF Boot
<1>1. loaded = <<>> /\ puts = {} /\ ports = {} /\ subs = {} /\ running = {}
  BY <1>0 DEF RegistryOK, InstallOK, NothingLoaded
<1>2. OneOwner' /\ OwnersAreLoaded' /\ LoadedOnce' /\ StaysInManifest'
  BY <1>0, <1>1 DEF OneOwner, OwnersAreLoaded, LoadedOnce, StaysInManifest, Elems
<1>3. Active(ms, opts) \in Seq(Installable)
  BY ActiveIsSorted
<1>4. RegistryTypeOK'
  <2>1. todo' \in Seq(Installable)
    <3>1. CASE todo' = <<>> BY <3>1
    <3>2. CASE todo' = Active(ms, opts) BY <3>2, <1>3
    <3> QED BY <3>1, <3>2, <1>0
  <2> QED BY <2>1, <1>0 DEF RegistryOK, RegistryTypeOK, Phases
<1>5. ASSUME phase' = "installing"
      PROVE  Fits(loaded \o todo)' /\ caps' = Provided(loaded')
  <2>0. /\ todo' = Active(ms, opts) /\ loaded' = <<>>
        /\ ~ManifestsClash(ms) /\ ~GraphRefused(Active(ms, opts), opts)
    BY <1>0, <1>1, <1>5
  <2>1. loaded' \o todo' = Active(ms, opts)
    BY <2>0, <1>3
  <2>2. NoTwins(ms)
    BY <2>0 DEF ManifestsClash, NoTwins
  <2>3. NoTwins(Active(ms, opts)) /\ InOrder(Active(ms, opts))
    BY <2>2, ActiveIsSorted
  <2>4. ~opts.lenient => SelfSufficient(Active(ms, opts))
    BY <2>0 DEF GraphRefused, RequirementMissing, SelfSufficient
  <2>5. Provided(<<>>) = {Core}
    BY DEF Provided
  <2> QED BY <2>0, <2>1, <2>3, <2>4, <2>5, <1>0 DEF Fits
<1>6. InstallOK'
  BY <1>0, <1>2, <1>5 DEF InstallOK
<1>7. RunningOK'
  <2>1. Started(0)' = {} /\ Len(loaded') = 0
    BY <1>0, <1>1 DEF Started
  <2> QED BY <2>1, <1>0, <1>1 DEF RunningOK
<1> QED BY <1>4, <1>6, <1>7 DEF RegistryOK

LEMMA DiscardStep ==
  ASSUME RegistryOK, Discard
  PROVE  RegistryOK' /\ phase' = "off"
<1>0. /\ phase' = "off" /\ todo' = <<>> /\ loaded' = <<>> /\ puts' = {}
      /\ ports' = {} /\ subs' = {} /\ caps' = {} /\ running' = {}
  BY DEF Discard
<1>1. InstallOK'
  BY <1>0 DEF InstallOK, NothingLoaded, OneOwner, OwnersAreLoaded, LoadedOnce,
              StaysInManifest, Elems
<1>2. RunningOK'
  <2>1. Started(0)' = {} /\ Len(loaded') = 0
    BY <1>0 DEF Started
  <2> QED BY <2>1, <1>0 DEF RunningOK
<1>3. RegistryTypeOK'
  BY <1>0 DEF RegistryTypeOK, Phases
<1> QED BY <1>0, <1>1, <1>2, <1>3 DEF RegistryOK

LEMMA RegistryIdle ==
  ASSUME RegistryOK, UNCHANGED registryVars
  PROVE  RegistryOK'
<1>0. /\ UNCHANGED <<phase, options, todo, loaded, puts, ports, subs, caps, running>>
      /\ RegistryTypeOK /\ InstallOK /\ RunningOK
  BY DEF registryVars, RegistryOK
<1>1. RegistryTypeOK'
  BY <1>0 DEF RegistryTypeOK
<1>2. OneOwner' /\ OwnersAreLoaded' /\ LoadedOnce' /\ StaysInManifest'
  BY <1>0 DEF InstallOK, OneOwner, OwnersAreLoaded, LoadedId, LoadedOnce,
              StaysInManifest
<1>3. InstallOK'
  BY <1>0, <1>2 DEF InstallOK, NothingLoaded, NothingDangles, Published, Ordered, Fits
<1>4. RunningOK'
  <2>1. \A k : Started(k)' = Started(k)
    BY <1>0 DEF Started
  <2>2. \E k \in 0..Len(loaded') : running' = Started(k)'
    BY <2>1, <1>0 DEF RunningOK
  <2>3. /\ Started(Len(loaded))' = Started(Len(loaded))
        /\ Started(Len(todo))' = Started(Len(todo))
        /\ Started(Len(loaded) - Len(todo))' = Started(Len(loaded) - Len(todo))
    BY <1>0 DEF Started
  <2> QED BY <2>2, <2>3, <1>0 DEF RunningOK
<1> QED BY <1>1, <1>3, <1>4 DEF RegistryOK

-----------------------------------------------------------------------------
(* The host around it                                                      *)

EngineOK == RegistryOK /\ HostOK

LEMMA EngineInit == ASSUME LifecycleInit PROVE EngineOK
<1>0. /\ phase = "off" /\ todo = <<>> /\ NothingLoaded /\ hostPhase = "down"
      /\ ended = "none"
  BY DEF LifecycleInit, HostInit, RegistryInit
<1>1. RegistryTypeOK /\ HostOK
  BY <1>0 DEF NothingLoaded, RegistryTypeOK, Phases, HostOK
<1>2. InstallOK
  BY <1>0 DEF InstallOK, NothingLoaded, OneOwner, OwnersAreLoaded, LoadedOnce,
              StaysInManifest, Elems
<1>3. RunningOK
  <2>1. Started(0) = {} /\ Len(loaded) = 0 /\ running = {}
    BY <1>0 DEF Started, NothingLoaded
  <2> QED BY <2>1, <1>0 DEF RunningOK
<1> QED BY <1>1, <1>2, <1>3 DEF EngineOK, RegistryOK

LEMMA HostBootSteps ==
  ASSUME EngineOK, HostBootNext
  PROVE  EngineOK'
<1>1. ASSUME NEW c \in HostConfigs, HostStart(c)
      PROVE  EngineOK'
  <2>1. RegistryOK' /\ phase' = "off"
    BY <1>1, DiscardStep DEF EngineOK, HostStart
  <2>2. HostOK'
    BY <1>1, <2>1 DEF HostStart, HostOK
  <2> QED BY <2>1, <2>2 DEF EngineOK
<1>2. CASE HostResolves
  <2>1. hostPhase = "resolving" /\ phase = "off" /\ host \in HostConfigs
    BY <1>2 DEF HostResolves, EngineOK, HostOK
  <2>2. CASE HostFails /\ UNCHANGED registryVars
    <3>1. RegistryOK' /\ phase' = "off"
      BY <2>1, <2>2, RegistryIdle DEF EngineOK, registryVars
    <3> QED BY <3>1, <2>2 DEF EngineOK, HostOK, HostFails
  <2>3. CASE /\ hostPhase' = "booting" /\ Boot(ModuleList(host), host.options)
             /\ UNCHANGED ended /\ ~ResolveFails(host)
    <3>1. ModuleList(host) \in Seq(Installable)
      BY <2>1, <2>3, ListsAreInstallable
    <3>2. RegistryOK'
      BY <2>3, <3>1, BootStep DEF EngineOK
    <3>3. ended # "asked"
      BY <2>1 DEF EngineOK, HostOK
    <3> QED BY <3>2, <3>3, <2>3 DEF EngineOK, HostOK
  <2> QED BY <1>2, <2>2, <2>3 DEF HostResolves
<1>3. CASE HostBootFailed
  <2>1. RegistryOK'
    BY <1>3, RegistryIdle DEF EngineOK, HostBootFailed
  <2> QED BY <1>3, <2>1 DEF EngineOK, HostBootFailed, HostOK, HostFails
<1>4. CASE HostReady
  <2>1. RegistryOK'
    BY <1>4, RegistryIdle DEF EngineOK, HostReady
  <2> QED BY <1>4, <2>1 DEF EngineOK, HostReady, HostOK, registryVars
<1>5. CASE HostStopped
  <2>1. RegistryOK'
    BY <1>5, RegistryIdle DEF EngineOK, HostStopped
  <2> QED BY <1>5, <2>1 DEF EngineOK, HostStopped, HostOK, registryVars
<1>6. CASE RegistryNext /\ UNCHANGED hostVars
  <2>1. RegistryOK'
    BY <1>6, RegistrySteps DEF EngineOK
  <2>2. phase \notin {"off", "up", "stopped"} /\ (phase = "stopping" => phase' \in {"stopping", "stopped"})
    BY <1>6 DEF RegistryNext, InstallModule, InstallFails, BindEvents,
                BindEventsFails, CheckConfigs, StartModule, EngineReady, StopModule,
                Stopped
  <2>3. HostOK'
    BY <1>6, <2>2 DEF EngineOK, HostOK, hostVars
  <2> QED BY <2>1, <2>3 DEF EngineOK
<1> QED BY <1>1, <1>2, <1>3, <1>4, <1>5, <1>6 DEF HostBootNext

LEMMA HostEndSteps ==
  ASSUME EngineOK, HostStops \/ HostCrashes
  PROVE  EngineOK'
<1>1. CASE HostStops
  <2>1. RegistryOK' /\ phase' = "stopping"
    BY <1>1, StopAllStep DEF EngineOK, HostStops, StopAll
  <2> QED BY <1>1, <2>1 DEF EngineOK, HostOK, HostStops
<1>2. CASE HostCrashes
  <2>1. RegistryOK' /\ phase' = "off"
    BY <1>2, DiscardStep DEF EngineOK, HostCrashes
  <2> QED BY <1>2, <2>1 DEF EngineOK, HostOK, HostCrashes
<1> QED BY <1>1, <1>2

LEMMA HostIdle ==
  ASSUME EngineOK, UNCHANGED <<registryVars, hostVars>>
  PROVE  EngineOK'
<1>1. RegistryOK'
  BY RegistryIdle DEF EngineOK
<1> QED BY <1>1 DEF EngineOK, HostOK, hostVars, registryVars

\* What the requests and turns of the sessions do leaves modules and host alone.
LEMMA SessionsKeepHost ==
  ASSUME SessionNext
  PROVE  UNCHANGED <<registryVars, hostVars>>
<1>1. ASSUME NEW r \in Calls,
             CreateCall(r) \/ StartSession(r) \/ StartFails(r) \/ BindSession(r)
             \/ BindFails(r) \/ ReadSession(r) \/ SetLive(r) \/ LoadFails(r)
             \/ AttachSession(r) \/ \E s \in Sessions : LoadCall(r, s)
      PROVE  UNCHANGED <<registryVars, hostVars>>
  BY <1>1 DEF CreateCall, StartSession, StartFails, BindSession, BindFails,
              ReadSession, SetLive, LoadFails, AttachSession, LoadCall
<1>2. ASSUME NEW s, NEW acts, PlayerTurn(s, acts) \/ SystemTurn(s, acts)
      PROVE  UNCHANGED <<registryVars, hostVars>>
  BY <1>2 DEF PlayerTurn, SystemTurn, Turn
<1>3. ASSUME NEW s, SaveSession(s) \/ DeleteSession(s)
      PROVE  UNCHANGED <<registryVars, hostVars>>
  BY <1>3 DEF SaveSession, DeleteSession
<1> QED BY <1>1, <1>2, <1>3 DEF SessionNext

LEMMA EngineSteps ==
  ASSUME EngineOK, [LifecycleNext]_lifecycleVars
  PROVE  EngineOK'
<1>1. CASE SessionNext
  BY <1>1, SessionsKeepHost, HostIdle
<1>2. CASE HostBootNext
  BY <1>2, HostBootSteps
<1>3. CASE HostStops \/ HostCrashes
  BY <1>3, HostEndSteps
<1>4. CASE UNCHANGED lifecycleVars
  BY <1>4, HostIdle DEF lifecycleVars
<1> QED BY <1>1, <1>2, <1>3, <1>4 DEF LifecycleNext

LEMMA EngineAlwaysOK == LifecycleSpec => []EngineOK
<1>1. LifecycleInit => EngineOK
  BY EngineInit
<1>2. EngineOK /\ [LifecycleNext]_lifecycleVars => EngineOK'
  BY EngineSteps
<1> QED BY <1>1, <1>2, PTL DEF LifecycleSpec

\* Whatever configurations hosts are started with, and however often they
\* fail, crash or stop: an engine that is up has no two owners of one token,
\* no subscription without its publisher, no requirement without its
\* provider, and its modules in the order of their priorities (registry.boot,
\* register-context, validateEventBindings).
THEOREM EnginesAreSound == LifecycleSpec => []BootIsSound
<1>1. EngineOK => BootIsSound
  BY DEF EngineOK, RegistryOK, InstallOK, BootIsSound
<1> QED BY <1>1, EngineAlwaysOK, PTL

\* Modules start in their order and stop in the reverse of it, one whose stop
\* throws not excepted; a host that was asked to stop leaves no module
\* running and no database open (startAll, stopAll, main's shutdown).
THEOREM EnginesStopWhole == LifecycleSpec => []StopsWhatItStarted
<1>1. ASSUME EngineOK
      PROVE  StopsWhatItStarted
  <2>1. /\ loaded \in Seq(Installable) /\ LoadedOnce
        /\ DOMAIN loaded = 1..Len(loaded) /\ Len(loaded) \in Nat
    BY <1>1 DEF EngineOK, RegistryOK, RegistryTypeOK, InstallOK
  <2>2. PICK k \in 0..Len(loaded) : running = Started(k)
    BY <1>1 DEF EngineOK, RegistryOK, RunningOK
  <2>3. ASSUME NEW i \in DOMAIN loaded, NEW j \in DOMAIN loaded, i < j,
               HasStart(loaded[i]), IdOf(loaded[j]) \in running
        PROVE  IdOf(loaded[i]) \in running
    <3>1. PICK x \in 1..k : IdOf(loaded[x]) = IdOf(loaded[j])
      BY <2>2, <2>3 DEF Started
    <3>2. x \in DOMAIN loaded
      BY <2>1, <2>2
    <3>3. x = j
      BY <3>1, <3>2, <2>1 DEF LoadedOnce
    <3>4. i \in 1..k
      BY <3>3, <2>1, <2>2, <2>3
    <3> QED BY <3>4, <2>2, <2>3 DEF Started
  <2>4. phase = "up" =>
          running = {IdOf(m) : m \in {x \in Elems(loaded) : HasStart(x)}}
    <3>1. Started(Len(loaded)) = {IdOf(m) : m \in {x \in Elems(loaded) : HasStart(x)}}
      BY <2>1 DEF Started, Elems
    <3> QED BY <3>1, <1>1 DEF EngineOK, RegistryOK, RunningOK
  <2>5. ended = "asked" => running = {} /\ ~db
    BY <1>1 DEF EngineOK, RegistryOK, RunningOK, HostOK
  <2> QED BY <2>3, <2>4, <2>5 DEF StopsWhatItStarted
<1> QED BY <1>1, EngineAlwaysOK, PTL

-----------------------------------------------------------------------------
(* Snapshots: what the session actions put together is one                 *)

LEMMA OwnedTyped ==
  ASSUME loaded \in Seq(Installable), NEW n \in OwnedSlices
  PROVE  /\ OwnerOf(n) \in WithSlice /\ OwnerOf(n).ir.slice = n
         /\ n \in SliceNames /\ Fresh(n) \in SliceStates /\ Fresh(n).n = 0
         /\ SaysVersion(n) \in {1} \cup {m.ir.schema : m \in Installable}
<1>1. \E m \in WithSlice : m.ir.slice = n
  BY DEF OwnedSlices
<1>2. OwnerOf(n) \in WithSlice /\ OwnerOf(n).ir.slice = n
  BY <1>1 DEF OwnerOf
<1>3. OwnerOf(n) \in Installable
  BY <1>2 DEF WithSlice, LoadedModules, Elems
<1>4. n \in SliceNames
  BY <1>2, <1>3 DEF SliceNames
<1>5. SaysVersion(n) \in {1} \cup {m.ir.schema : m \in Installable}
  BY <1>3 DEF SaysVersion
<1>6. Fresh(n) \in SliceStates /\ Fresh(n).n = 0
  BY <1>5 DEF Fresh, SliceStates
<1> QED BY <1>2, <1>4, <1>5, <1>6

LEMMA SnapshotFields ==
  ASSUME NEW x \in Snapshots
  PROVE  /\ x.rev \in Nat /\ x.pending \in SUBSET Reasons
         /\ DOMAIN x.slices \in SUBSET SliceNames
         /\ x.slices \in [DOMAIN x.slices -> SliceStates]
         /\ x = [rev |-> x.rev, pending |-> x.pending, slices |-> x.slices]
<1>1. /\ x.rev \in Nat /\ x.pending \in SUBSET Reasons
      /\ x.slices \in UNION {[D -> SliceStates] : D \in SUBSET SliceNames}
      /\ x = [rev |-> x.rev, pending |-> x.pending, slices |-> x.slices]
  BY DEF Snapshots
<1>2. PICK D \in SUBSET SliceNames : x.slices \in [D -> SliceStates]
  BY <1>1
<1> QED BY <1>1, <1>2

LEMMA SnapshotMade ==
  ASSUME NEW rev \in Nat, NEW pending \in SUBSET Reasons,
         NEW D \in SUBSET SliceNames, NEW slices \in [D -> SliceStates]
  PROVE  [rev |-> rev, pending |-> pending, slices |-> slices] \in Snapshots
BY DEF Snapshots

\* Migrations change versions, never what was applied, and no slice is lost.
LEMMA MigratedTyped ==
  ASSUME loaded \in Seq(Installable), NEW D \in SUBSET SliceNames,
         NEW slices \in [D -> SliceStates]
  PROVE  /\ Migrated(slices) \in [D \cup OwnedSlices -> SliceStates]
         /\ \A n \in D : Migrated(slices)[n].n = slices[n].n
         /\ \A n \in OwnedSlices \ D : Migrated(slices)[n].n = 0
         /\ D \cup OwnedSlices \in SUBSET SliceNames
<1>0. DOMAIN slices = D /\ KeepsUnknown(slices) = D \cup OwnedSlices
  BY DEF KeepsUnknown
<1>1. \A n \in D \cup OwnedSlices :
        Migrated(slices)[n] = IF n \notin D THEN Fresh(n)
                              ELSE IF n \in OwnedSlices
                                   THEN [slices[n] EXCEPT !.v = SaysVersion(n)]
                                   ELSE slices[n]
  BY <1>0 DEF Migrated
<1>2. DOMAIN Migrated(slices) = D \cup OwnedSlices
  BY <1>0 DEF Migrated
<1>3. \A n \in D : slices[n] \in SliceStates
  OBVIOUS
<1>4. ASSUME NEW n \in D
      PROVE  Migrated(slices)[n] \in SliceStates /\ Migrated(slices)[n].n = slices[n].n
  <2>1. CASE n \in OwnedSlices
    <3>1. /\ Migrated(slices)[n] = [slices[n] EXCEPT !.v = SaysVersion(n)]
          /\ SaysVersion(n) \in {1} \cup {m.ir.schema : m \in Installable}
      BY <2>1, <1>1, OwnedTyped
    <3>2. slices[n] \in SliceStates
      OBVIOUS
    <3> QED BY <3>1, <3>2 DEF SliceStates
  <2>2. CASE n \notin OwnedSlices
    BY <2>2, <1>1, <1>3
  <2> QED BY <2>1, <2>2
<1>5. ASSUME NEW n \in OwnedSlices \ D
      PROVE  Migrated(slices)[n] \in SliceStates /\ Migrated(slices)[n].n = 0
  BY <1>1, OwnedTyped
<1>6. Migrated(slices) = [n \in D \cup OwnedSlices |-> Migrated(slices)[n]]
  BY <1>0 DEF Migrated
<1>7. D \cup OwnedSlices \in SUBSET SliceNames
  BY OwnedTyped
<1> QED BY <1>4, <1>5, <1>6, <1>7

\* The deeds of a turn are finitely many, and so are the commands among them.
LEMMA ActsFinite ==
  ASSUME NEW ms, NEW acts \in ActSets(ms)
  PROVE  IsFiniteSet(acts)
<1> DEFINE ends == {d \in Telling(ms) : TurnRefused(ms, {d})}
           end == IF ends = {} THEN {} ELSE {CHOOSE d \in ends : TRUE}
<1>1. acts \in UNION {{{d}, {d} \cup end} : d \in Telling(ms) \ ends} \cup {{}}
  BY DEF ActSets
<1>2. IsFiniteSet(end)
  BY FS_EmptySet, FS_Singleton
<1> HIDE DEF end, ends
<1>3. \/ acts = {}
      \/ \E d \in Telling(ms) : acts = {d} \/ acts = {d} \cup end
  BY <1>1
<1>4. \A d : IsFiniteSet({d})
  BY FS_Singleton
<1>5. \A d : IsFiniteSet({d} \cup end)
  BY <1>2, <1>4, FS_Union
<1> QED BY <1>3, <1>4, <1>5, FS_EmptySet

LEMMA WrittenNat ==
  ASSUME NEW n, NEW acts, IsFiniteSet(acts)
  PROVE  WrittenTo(n, acts) \in Nat /\ (n \notin OwnedSlices => WrittenTo(n, acts) = 0)
<1> DEFINE W == Writes(LoadedModules, acts, IdOf(OwnerOf(n)))
<1>1. W \in SUBSET acts
  BY DEF Writes, TransitionOps, AfterProseOps, Of
<1>2. Cardinality(W) \in Nat
  <2> HIDE DEF W
  <2> QED BY <1>1, FS_Subset, FS_CardinalityType
<1> QED BY <1>2 DEF WrittenTo

LEMMA AppliedTyped ==
  ASSUME NEW D, NEW slices \in [D -> SliceStates], NEW acts, IsFiniteSet(acts)
  PROVE  /\ Applied(slices, acts) \in [D -> SliceStates]
         /\ \A n \in D : Applied(slices, acts)[n].n = slices[n].n + WrittenTo(n, acts)
<1>1. DOMAIN slices = D
  OBVIOUS
<1>2. \A n \in D : slices[n] \in SliceStates /\ WrittenTo(n, acts) \in Nat
  BY WrittenNat
<1>3. \A n \in D : [slices[n] EXCEPT !.n = @ + WrittenTo(n, acts)] \in SliceStates
  BY <1>2 DEF SliceStates
<1>4. \A n \in D : [slices[n] EXCEPT !.n = @ + WrittenTo(n, acts)].n
                   = slices[n].n + WrittenTo(n, acts)
  BY <1>2 DEF SliceStates
<1> QED BY <1>1, <1>3, <1>4 DEF Applied

LEMMA ScheduledTyped ==
  ASSUME loaded \in Seq(Installable), NEW acts, NEW kind
  PROVE  Scheduled(LoadedModules, subs, acts, kind) \in SUBSET Reasons
<1>1. LoadedModules \subseteq Installable
  BY DEF LoadedModules, Elems
<1> QED BY <1>1 DEF Scheduled, HookSchedules, HandlerSchedules, Reasons

LEMMA PendingReplaced ==
  ASSUME NEW x \in Snapshots, NEW p
  PROVE  [x EXCEPT !.pending = p] = [rev |-> x.rev, slices |-> x.slices, pending |-> p]
BY DEF Snapshots

\* What one turn leaves in memory and on disk: a rejected one only a queue, a
\* committed one the next revision in both, with its entry.
Rejected(s, x) ==
  /\ x.rev = live[s].rev /\ x.slices = live[s].slices
  /\ UNCHANGED <<store, journal>>
Committed(s, acts, x, y, e) ==
  /\ x.rev = live[s].rev + 1 /\ x.slices = Applied(live[s].slices, acts)
  /\ y.rev = x.rev /\ y.slices = x.slices
  /\ e.prev = live[s].rev /\ e.next = live[s].rev + 1
  /\ e.wrote = [n \in Slices |-> WrittenTo(n, acts)]
  /\ store' = [store EXCEPT ![s] = y]
  /\ journal' = [journal EXCEPT ![s] = Append(@, e)]

LEMMA TurnEffect ==
  ASSUME loaded \in Seq(Installable), SessionsTypeOK, NEW s \in Sessions,
         live[s] # None, NEW acts, IsFiniteSet(acts), NEW kind,
         NEW rest \in SUBSET Reasons, Turn(s, acts, kind, rest)
  PROVE  /\ UNCHANGED <<rows, attached, call, used, seeded, clashed>>
         /\ \E x \in Snapshots :
              /\ live' = [live EXCEPT ![s] = x]
              /\ \/ Rejected(s, x)
                 \/ \E y \in Snapshots, e \in Entry : Committed(s, acts, x, y, e)
<1> DEFINE asks == Scheduled(LoadedModules, subs, acts, kind)
           slices == Applied(live[s].slices, acts)
           entry == [prev |-> live[s].rev, next |-> live[s].rev + 1,
                     wrote |-> [n \in Slices |-> WrittenTo(n, acts)]]
           y == [rev |-> live[s].rev + 1, slices |-> slices, pending |-> rest]
           x == [rev |-> live[s].rev + 1, slices |-> slices, pending |-> rest \cup asks]
           z == [live[s] EXCEPT !.pending = rest \cup asks]
<1>1. live[s] \in Snapshots
  BY DEF SessionsTypeOK
<1>2. /\ live[s].rev \in Nat /\ live[s].pending \in SUBSET Reasons
      /\ DOMAIN live[s].slices \in SUBSET SliceNames
      /\ live[s].slices \in [DOMAIN live[s].slices -> SliceStates]
      /\ live[s] = [rev |-> live[s].rev, pending |-> live[s].pending,
                    slices |-> live[s].slices]
  BY <1>1, SnapshotFields
<1>3. rest \cup asks \in SUBSET Reasons
  BY ScheduledTyped
<1>4. slices \in [DOMAIN live[s].slices -> SliceStates]
  BY <1>2, AppliedTyped
<1>5. z = [rev |-> live[s].rev, pending |-> rest \cup asks, slices |-> live[s].slices]
  BY <1>1, PendingReplaced
<1>6. y \in Snapshots /\ x \in Snapshots
  <2> HIDE DEF slices, asks
  <2>1. live[s].rev + 1 \in Nat
    BY <1>2
  <2> QED BY <2>1, <1>2, <1>3, <1>4, SnapshotMade
<1>7. z \in Snapshots
  <2> HIDE DEF z, asks
  <2> QED BY <1>2, <1>3, <1>5, SnapshotMade
<1>8. entry \in Entry
  BY <1>2, WrittenNat DEF Entry
<1>9. UNCHANGED <<rows, attached, call, used, seeded, clashed>>
  BY DEF Turn
<1>10. CASE TurnRefused(LoadedModules, acts)
  <2>1. live' = [live EXCEPT ![s] = z] /\ UNCHANGED <<store, journal>>
    BY <1>10 DEF Turn, onDisk
  <2>2. z.rev = live[s].rev /\ z.slices = live[s].slices
    BY <1>5
  <2> HIDE DEF z, x, y, entry, slices, asks
  <2> QED BY <2>1, <2>2, <1>7, <1>9 DEF Rejected
<1>11. CASE ~TurnRefused(LoadedModules, acts)
  <2>1. live' = [live EXCEPT ![s] = [y EXCEPT !.pending = rest \cup asks]]
    BY <1>11 DEF Turn
  <2>2. store' = [store EXCEPT ![s] = y]
        /\ journal' = [journal EXCEPT ![s] = Append(@, entry)]
    BY <1>11 DEF Turn, CommitUnit, Upsert
  <2>3. [y EXCEPT !.pending = rest \cup asks] = x
    <3> HIDE DEF y, asks
    <3>1. [y EXCEPT !.pending = rest \cup asks]
          = [rev |-> y.rev, slices |-> y.slices, pending |-> rest \cup asks]
      BY <1>6, PendingReplaced
    <3>2. y.rev = live[s].rev + 1 /\ y.slices = slices
      BY DEF y
    <3> QED BY <3>1, <3>2
  <2>4. x.rev = live[s].rev + 1 /\ x.slices = slices /\ y.rev = x.rev /\ y.slices = x.slices
    OBVIOUS
  <2>5. /\ entry.prev = live[s].rev /\ entry.next = live[s].rev + 1
        /\ entry.wrote = [n \in Slices |-> WrittenTo(n, acts)]
    OBVIOUS
  <2>6. x \in Snapshots /\ y \in Snapshots /\ entry \in Entry
        /\ live' = [live EXCEPT ![s] = x]
    BY <2>1, <2>3, <1>6, <1>8
  <2> HIDE DEF x, y, entry, z
  <2>7. Committed(s, acts, x, y, entry)
    BY <2>2, <2>4, <2>5 DEF Committed, x, slices
  <2> QED BY <2>6, <2>7, <1>9
<1> QED BY <1>10, <1>11

-----------------------------------------------------------------------------
(* Requests: where each is, and which sessions are live                    *)

SessionsOK == SessionsTypeOK /\ FlowOK

LEMMA IdleTyped == Idle \in CallStates /\ Idle.at = "idle"
BY DEF Idle, CallStates

LEMMA NoneIsNoSnapshot == \A x \in Snapshots : x # None
BY SessionsAssumption

LEMMA CreateCallStep ==
  ASSUME SessionsOK, loaded \in Seq(Installable), NEW r \in Calls, CreateCall(r)
  PROVE  SessionsOK'
<1>1. SessionsTypeOK /\ FlowOK /\ Serving /\ Serving'
  BY DEF SessionsOK, Serving, hostVars, CreateCall
<1>2. SessionsTypeOK'
  <2>1. PICK s \in Sessions :
          /\ used' = used \cup {s}
          /\ call' = [call EXCEPT ![r] = [Idle EXCEPT !.at = "starting", !.sid = s]]
    BY DEF CreateCall
  <2>2. [Idle EXCEPT !.at = "starting", !.sid = s] \in CallStates
    BY DEF Idle, CallStates
  <2>3. call' \in [Calls -> CallStates]
    BY <2>1, <2>2, <1>1 DEF SessionsTypeOK
  <2> QED BY <2>1, <2>3, <1>1 DEF SessionsTypeOK, CreateCall, onDisk, ghosts
<1>3. CallsOK'
  BY <1>1 DEF SessionsTypeOK, FlowOK, CallsOK, CallOK, NewId, AttachedLive, SavedFirst,
              CreateCall, Idle, onDisk, ghosts
<1>4. AttachedLive'
  BY <1>1 DEF SessionsTypeOK, FlowOK, CallsOK, CallOK, NewId, AttachedLive, SavedFirst,
              CreateCall, onDisk
<1>5. SavedFirst'
  BY <1>1 DEF SessionsTypeOK, FlowOK, CallsOK, CallOK, NewId, AttachedLive, SavedFirst,
              CreateCall, onDisk
<1> QED BY <1>1, <1>2, <1>3, <1>4, <1>5 DEF SessionsOK, FlowOK

LEMMA StartFailsStep ==
  ASSUME SessionsOK, loaded \in Seq(Installable), NEW r \in Calls, StartFails(r)
  PROVE  SessionsOK'
<1>1. SessionsTypeOK /\ FlowOK /\ Serving /\ Serving'
  BY DEF SessionsOK, Serving, hostVars, StartFails
<1>2. SessionsTypeOK'
  BY <1>1, IdleTyped DEF SessionsTypeOK, StartFails, CallStates, onDisk, ghosts
<1>3. CallsOK'
  BY <1>1 DEF SessionsTypeOK, FlowOK, CallsOK, CallOK, NewId, AttachedLive, SavedFirst,
              StartFails, Idle, onDisk, ghosts
<1>4. AttachedLive'
  BY <1>1 DEF SessionsTypeOK, FlowOK, CallsOK, CallOK, NewId, AttachedLive, SavedFirst,
              StartFails, onDisk
<1>5. SavedFirst'
  BY <1>1 DEF SessionsTypeOK, FlowOK, CallsOK, CallOK, NewId, AttachedLive, SavedFirst,
              StartFails, onDisk
<1> QED BY <1>1, <1>2, <1>3, <1>4, <1>5 DEF SessionsOK, FlowOK

LEMMA BindSessionStep ==
  ASSUME SessionsOK, loaded \in Seq(Installable), NEW r \in Calls, BindSession(r)
  PROVE  SessionsOK'
<1>1. SessionsTypeOK /\ FlowOK /\ Serving /\ Serving'
  BY DEF SessionsOK, Serving, hostVars, BindSession
<1>2. SessionsTypeOK'
  BY <1>1, IdleTyped DEF SessionsTypeOK, BindSession, CallStates, onDisk, ghosts,
                         FlowOK, CallsOK,
         CallOK, NewId
<1>3. CallsOK'
  BY <1>1 DEF SessionsTypeOK, FlowOK, CallsOK, CallOK, NewId, AttachedLive, SavedFirst,
              BindSession, Idle, onDisk, ghosts
<1>4. AttachedLive'
  BY <1>1 DEF SessionsTypeOK, FlowOK, CallsOK, CallOK, NewId, AttachedLive, SavedFirst,
              BindSession, onDisk
<1>5. SavedFirst'
  BY <1>1 DEF SessionsTypeOK, FlowOK, CallsOK, CallOK, NewId, AttachedLive, SavedFirst,
              BindSession, onDisk
<1> QED BY <1>1, <1>2, <1>3, <1>4, <1>5 DEF SessionsOK, FlowOK

LEMMA BindFailsStep ==
  ASSUME SessionsOK, loaded \in Seq(Installable), NEW r \in Calls, BindFails(r)
  PROVE  SessionsOK'
<1>1. SessionsTypeOK /\ FlowOK /\ Serving /\ Serving'
  BY DEF SessionsOK, Serving, hostVars, BindFails
<1>2. SessionsTypeOK'
  BY <1>1, IdleTyped DEF SessionsTypeOK, BindFails, CallStates, onDisk, ghosts
<1>3. CallsOK'
  BY <1>1 DEF SessionsTypeOK, FlowOK, CallsOK, CallOK, NewId, AttachedLive, SavedFirst,
              BindFails, Idle, onDisk, ghosts
<1>4. AttachedLive'
  BY <1>1 DEF SessionsTypeOK, FlowOK, CallsOK, CallOK, NewId, AttachedLive, SavedFirst,
              BindFails, onDisk
<1>5. SavedFirst'
  BY <1>1 DEF SessionsTypeOK, FlowOK, CallsOK, CallOK, NewId, AttachedLive, SavedFirst,
              BindFails, onDisk
<1> QED BY <1>1, <1>2, <1>3, <1>4, <1>5 DEF SessionsOK, FlowOK

LEMMA ReadEffect ==
  ASSUME SessionsTypeOK, loaded \in Seq(Installable), NEW r \in Calls,
         call[r].sid \in Sessions, ReadSession(r)
  PROVE  \E x \in Snapshots :
           /\ call' = [call EXCEPT ![r] = [call[r] EXCEPT !.at = "hydrating", !.got = x]]
           /\ [call[r] EXCEPT !.at = "hydrating", !.got = x] \in CallStates
           /\ store[call[r].sid] \in Snapshots
           /\ x.rev = store[call[r].sid].rev
           /\ x.slices = Migrated(store[call[r].sid].slices)
<1> DEFINE snapshot == store[call[r].sid]
           x == [snapshot EXCEPT !.slices = Migrated(snapshot.slices)]
<1>1. snapshot \in Snapshots
  BY DEF SessionsTypeOK, ReadSession, Loadable, Stored
<1>2. call' = [call EXCEPT ![r] = [call[r] EXCEPT !.at = "hydrating", !.got = x]]
  BY DEF SessionsTypeOK, ReadSession, Stored
<1> HIDE DEF snapshot
<1>3. x = [rev |-> snapshot.rev, pending |-> snapshot.pending,
           slices |-> Migrated(snapshot.slices)]
  BY <1>1 DEF Snapshots
<1>4. x \in Snapshots
  <2>1. /\ snapshot.rev \in Nat /\ snapshot.pending \in SUBSET Reasons
        /\ DOMAIN snapshot.slices \in SUBSET SliceNames
        /\ snapshot.slices \in [DOMAIN snapshot.slices -> SliceStates]
    BY <1>1, SnapshotFields
  <2>2. /\ Migrated(snapshot.slices) \in
             [DOMAIN snapshot.slices \cup OwnedSlices -> SliceStates]
        /\ DOMAIN snapshot.slices \cup OwnedSlices \in SUBSET SliceNames
    BY <2>1, MigratedTyped
  <2> HIDE DEF x
  <2> QED BY <2>1, <2>2, <1>3, SnapshotMade
<1>5. x.rev = snapshot.rev /\ x.slices = Migrated(snapshot.slices)
  BY <1>3
<1>6. call[r] \in CallStates
  BY DEF SessionsTypeOK
<1> HIDE DEF x
<1>7. [call[r] EXCEPT !.at = "hydrating", !.got = x] \in CallStates
  BY <1>4, <1>6 DEF CallStates
<1> QED BY <1>1, <1>2, <1>4, <1>5, <1>7 DEF snapshot

LEMMA ReadSessionStep ==
  ASSUME SessionsOK, loaded \in Seq(Installable), NEW r \in Calls, ReadSession(r)
  PROVE  SessionsOK'
<1>1. SessionsTypeOK /\ FlowOK /\ Serving /\ Serving'
  BY DEF SessionsOK, Serving, hostVars, ReadSession
<1>2. call[r].at = "loading" /\ call[r].sid \in Sessions
  BY <1>1 DEF ReadSession, FlowOK, CallsOK, CallOK, SessionsTypeOK
<1>3. PICK x \in Snapshots :
        /\ call' = [call EXCEPT ![r] = [call[r] EXCEPT !.at = "hydrating", !.got = x]]
        /\ [call[r] EXCEPT !.at = "hydrating", !.got = x] \in CallStates
        /\ store[call[r].sid] \in Snapshots
  BY <1>1, <1>2, ReadEffect
<1>4. UNCHANGED <<rows, attached, live, store, journal, used, turns, seeded, clashed>>
  BY DEF ReadSession, onDisk, ghosts
<1>5. SessionsTypeOK'
  <2>1. call' \in [Calls -> CallStates]
    BY <1>1, <1>3 DEF SessionsTypeOK
  <2> QED BY <2>1, <1>1, <1>4 DEF SessionsTypeOK
<1>6. CallsOK'
  <2>1. /\ call'[r].at = "hydrating" /\ call'[r].sid = call[r].sid /\ call'[r].got = x
        /\ \A q \in Calls \ {r} : call'[q] = call[q]
    BY <1>1, <1>3 DEF SessionsTypeOK, CallStates
  <2>2. x # None /\ store[call[r].sid] # None
    BY <1>3, NoneIsNoSnapshot
  <2> QED BY <2>1, <2>2, <1>1, <1>2, <1>4 DEF FlowOK, CallsOK, CallOK, NewId
<1>7. AttachedLive' /\ SavedFirst'
  BY <1>1, <1>4 DEF FlowOK, AttachedLive, SavedFirst
<1> QED BY <1>1, <1>5, <1>6, <1>7 DEF SessionsOK, FlowOK

LEMMA SetLiveStep ==
  ASSUME SessionsOK, loaded \in Seq(Installable), NEW r \in Calls, SetLive(r)
  PROVE  SessionsOK'
<1>1. SessionsTypeOK /\ FlowOK /\ Serving /\ Serving'
  BY DEF SessionsOK, Serving, hostVars, SetLive
<1>2. /\ call[r].at = "hydrating" /\ call[r].sid \in Sessions
      /\ call[r].got \in Snapshots /\ call[r].got # None
      /\ call[r] \in CallStates
  BY <1>1 DEF SetLive, FlowOK, CallsOK, CallOK, SessionsTypeOK, CallStates
<1>3. /\ live' = [live EXCEPT ![call[r].sid] = call[r].got]
      /\ call' = [call EXCEPT ![r] = [call[r] EXCEPT !.at = "loaded", !.got = None]]
      /\ clashed' \subseteq clashed \cup {call[r].sid}
      /\ UNCHANGED <<rows, attached, store, journal, used, turns, seeded>>
  BY <1>1 DEF SetLive, onDisk, SessionsTypeOK
<1>4. /\ call'[r].at = "loaded" /\ call'[r].sid = call[r].sid
      /\ \A q \in Calls \ {r} : call'[q] = call[q]
      /\ [call[r] EXCEPT !.at = "loaded", !.got = None] \in CallStates
  BY <1>1, <1>2, <1>3 DEF SessionsTypeOK, CallStates
<1>5. SessionsTypeOK'
  <2>1. call' \in [Calls -> CallStates]
    BY <1>1, <1>3, <1>4 DEF SessionsTypeOK
  <2>2. live' \in [Sessions -> Snapshots \cup {None}] /\ clashed' \subseteq Sessions
    BY <1>1, <1>2, <1>3 DEF SessionsTypeOK
  <2> QED BY <2>1, <2>2, <1>1, <1>3 DEF SessionsTypeOK
<1>6. live'[call[r].sid] # None
      /\ \A s \in Sessions \ {call[r].sid} : live'[s] = live[s]
  BY <1>1, <1>2, <1>3 DEF SessionsTypeOK
<1>7. CallsOK'
  BY <1>1, <1>2, <1>3, <1>4, <1>6 DEF FlowOK, CallsOK, CallOK, NewId, SessionsTypeOK
<1>8. AttachedLive' /\ SavedFirst'
  BY <1>1, <1>2, <1>3, <1>6 DEF FlowOK, AttachedLive, SavedFirst, CallsOK, CallOK,
                               SessionsTypeOK
<1> QED BY <1>1, <1>5, <1>7, <1>8 DEF SessionsOK, FlowOK

LEMMA LoadFailsStep ==
  ASSUME SessionsOK, loaded \in Seq(Installable), NEW r \in Calls, LoadFails(r)
  PROVE  SessionsOK'
<1>1. SessionsTypeOK /\ FlowOK /\ Serving /\ Serving'
  BY DEF SessionsOK, Serving, hostVars, LoadFails
<1>2. SessionsTypeOK'
  BY <1>1, IdleTyped DEF SessionsTypeOK, LoadFails, CallStates, onDisk, ghosts,
                         AfterFailedLoad
<1>3. CallsOK'
  BY <1>1 DEF SessionsTypeOK, FlowOK, CallsOK, CallOK, NewId, AttachedLive, SavedFirst,
              LoadFails, Idle, onDisk, ghosts, AfterFailedLoad
<1>4. AttachedLive'
  BY <1>1 DEF SessionsTypeOK, FlowOK, CallsOK, CallOK, NewId, AttachedLive, SavedFirst,
              LoadFails, onDisk, AfterFailedLoad
<1>5. SavedFirst'
  BY <1>1 DEF SessionsTypeOK, FlowOK, CallsOK, CallOK, NewId, AttachedLive, SavedFirst,
              LoadFails, onDisk, AfterFailedLoad
<1> QED BY <1>1, <1>2, <1>3, <1>4, <1>5 DEF SessionsOK, FlowOK

LEMMA AttachSessionStep ==
  ASSUME SessionsOK, loaded \in Seq(Installable), NEW r \in Calls, AttachSession(r)
  PROVE  SessionsOK'
<1>1. SessionsTypeOK /\ FlowOK /\ Serving /\ Serving'
  BY DEF SessionsOK, Serving, hostVars, AttachSession
<1>2. SessionsTypeOK'
  BY <1>1, IdleTyped DEF SessionsTypeOK, AttachSession, CallStates, onDisk, ghosts,
                         FlowOK, CallsOK,
         CallOK, NewId
<1>3. CallsOK'
  BY <1>1 DEF SessionsTypeOK, FlowOK, CallsOK, CallOK, NewId, AttachedLive, SavedFirst,
              AttachSession, Idle, onDisk, ghosts
<1>4. AttachedLive'
  BY <1>1 DEF SessionsTypeOK, FlowOK, CallsOK, CallOK, NewId, AttachedLive, SavedFirst,
              AttachSession, onDisk
<1>5. SavedFirst'
  BY <1>1 DEF SessionsTypeOK, FlowOK, CallsOK, CallOK, NewId, AttachedLive, SavedFirst,
              AttachSession, onDisk
<1> QED BY <1>1, <1>2, <1>3, <1>4, <1>5 DEF SessionsOK, FlowOK

LEMMA LoadCallStep ==
  ASSUME SessionsOK, loaded \in Seq(Installable), NEW r \in Calls, NEW s1 \in Sessions, LoadCall(r, s1)
  PROVE  SessionsOK'
<1>1. SessionsTypeOK /\ FlowOK /\ Serving /\ Serving'
  BY DEF SessionsOK, Serving, hostVars, LoadCall
<1>2. SessionsTypeOK'
  BY <1>1, IdleTyped DEF SessionsTypeOK, LoadCall, CallStates, onDisk, ghosts
<1>3. CallsOK'
  BY <1>1 DEF SessionsTypeOK, FlowOK, CallsOK, CallOK, NewId, AttachedLive, SavedFirst,
              LoadCall, Idle, onDisk, ghosts
<1>4. AttachedLive'
  BY <1>1 DEF SessionsTypeOK, FlowOK, CallsOK, CallOK, NewId, AttachedLive, SavedFirst,
              LoadCall, onDisk
<1>5. SavedFirst'
  BY <1>1 DEF SessionsTypeOK, FlowOK, CallsOK, CallOK, NewId, AttachedLive, SavedFirst,
              LoadCall, onDisk
<1> QED BY <1>1, <1>2, <1>3, <1>4, <1>5 DEF SessionsOK, FlowOK

\* The first snapshot holds what the seeds wrote, slice by slice.
LEMMA StartEffect ==
  ASSUME SessionsTypeOK, loaded \in Seq(Installable), NEW r \in Calls,
         call[r].sid \in Sessions, StartSession(r)
  PROVE  \E first \in Snapshots, counts \in [Slices -> Nat] :
           /\ live' = [live EXCEPT ![call[r].sid] = first]
           /\ store' = [store EXCEPT ![call[r].sid] = first]
           /\ seeded' = [seeded EXCEPT ![call[r].sid] = counts]
           /\ first.rev = 0 /\ OwnedSlices \subseteq DOMAIN first.slices
           /\ \A n \in Slices : CountIn(first, n) = counts[n]
<1>1. PICK seeds \in SUBSET Seeders :
        LET first == [rev |-> 0, pending |-> {}, slices |-> [n \in OwnedSlices |->
                        [Fresh(n) EXCEPT !.n = SeededBy(seeds, n)]]]
        IN /\ live' = [live EXCEPT ![call[r].sid] = first]
           /\ store' = [store EXCEPT ![call[r].sid] = first]
           /\ seeded' = [seeded EXCEPT ![call[r].sid] =
                           [n \in Slices |-> SeededBy(seeds, n)]]
  BY DEF StartSession, Upsert
<1> DEFINE slices == [n \in OwnedSlices |-> [Fresh(n) EXCEPT !.n = SeededBy(seeds, n)]]
           first == [rev |-> 0, pending |-> {}, slices |-> slices]
           counts == [n \in Slices |-> SeededBy(seeds, n)]
<1>2. \A n : SeededBy(seeds, n) \in Nat /\ (n \notin OwnedSlices => SeededBy(seeds, n) = 0)
  BY DEF SeededBy
<1>3. \A n \in OwnedSlices :
        /\ [Fresh(n) EXCEPT !.n = SeededBy(seeds, n)] \in SliceStates
        /\ [Fresh(n) EXCEPT !.n = SeededBy(seeds, n)].n = SeededBy(seeds, n)
  BY <1>2, OwnedTyped DEF SliceStates
<1>4. OwnedSlices \in SUBSET SliceNames
  BY OwnedTyped
<1>5. slices \in [OwnedSlices -> SliceStates]
  BY <1>3
<1>6. \A n \in OwnedSlices : slices[n].n = SeededBy(seeds, n)
  BY <1>3
<1>7. counts \in [Slices -> Nat] /\ \A n \in Slices : counts[n] = SeededBy(seeds, n)
  BY <1>2
<1>8. /\ live' = [live EXCEPT ![call[r].sid] = first]
      /\ store' = [store EXCEPT ![call[r].sid] = first]
      /\ seeded' = [seeded EXCEPT ![call[r].sid] = counts]
  BY <1>1
<1> HIDE DEF slices, counts
<1>9. first \in Snapshots
  BY <1>4, <1>5, SnapshotMade
<1>10. first.rev = 0 /\ first.slices = slices
  OBVIOUS
<1> HIDE DEF first
<1>11. OwnedSlices \subseteq DOMAIN first.slices
       /\ \A n \in Slices : CountIn(first, n) = counts[n]
  BY <1>2, <1>5, <1>6, <1>7, <1>10 DEF CountIn
<1> QED BY <1>7, <1>8, <1>9, <1>10, <1>11

LEMMA StartSessionStep ==
  ASSUME SessionsOK, loaded \in Seq(Installable), NEW r \in Calls, StartSession(r)
  PROVE  SessionsOK'
<1>1. SessionsTypeOK /\ FlowOK /\ Serving /\ Serving'
  BY DEF SessionsOK, Serving, hostVars, StartSession
<1>2. /\ call[r].at = "starting" /\ call[r].sid \in Sessions /\ call[r] \in CallStates
      /\ call[r].sid \in used
  BY <1>1 DEF StartSession, FlowOK, CallsOK, CallOK, SessionsTypeOK, CallStates
<1>3. PICK first \in Snapshots, counts \in [Slices -> Nat] :
        /\ live' = [live EXCEPT ![call[r].sid] = first]
        /\ store' = [store EXCEPT ![call[r].sid] = first]
        /\ seeded' = [seeded EXCEPT ![call[r].sid] = counts]
  BY <1>1, <1>2, StartEffect
<1>4. /\ call' = [call EXCEPT ![r] = [call[r] EXCEPT !.at = "binding"]]
      /\ UNCHANGED <<rows, attached, journal, used, turns, clashed>>
  BY <1>1 DEF StartSession, SessionsTypeOK
<1>5. /\ call'[r].at = "binding" /\ call'[r].sid = call[r].sid
      /\ \A q \in Calls \ {r} : call'[q] = call[q]
      /\ [call[r] EXCEPT !.at = "binding"] \in CallStates
  BY <1>1, <1>2, <1>4 DEF SessionsTypeOK, CallStates
<1>6. /\ live'[call[r].sid] # None /\ store'[call[r].sid] # None
      /\ \A s \in Sessions \ {call[r].sid} :
           live'[s] = live[s] /\ store'[s] = store[s]
  BY <1>1, <1>2, <1>3, NoneIsNoSnapshot DEF SessionsTypeOK
<1>7. SessionsTypeOK'
  <2>1. call' \in [Calls -> CallStates]
    BY <1>1, <1>4, <1>5 DEF SessionsTypeOK
  <2>2. /\ live' \in [Sessions -> Snapshots \cup {None}]
        /\ store' \in [Sessions -> Snapshots \cup {None}]
        /\ seeded' \in [Sessions -> [Slices -> Nat]]
    BY <1>1, <1>2, <1>3 DEF SessionsTypeOK
  <2> QED BY <2>1, <2>2, <1>1, <1>4 DEF SessionsTypeOK
<1>8. CallsOK'
  BY <1>1, <1>2, <1>4, <1>5, <1>6 DEF FlowOK, CallsOK, CallOK, NewId, SessionsTypeOK
<1>9. AttachedLive' /\ SavedFirst'
  BY <1>1, <1>2, <1>4, <1>6 DEF FlowOK, AttachedLive, SavedFirst, SessionsTypeOK
<1> QED BY <1>1, <1>7, <1>8, <1>9 DEF SessionsOK, FlowOK

LEMMA TurnStep ==
  ASSUME SessionsOK, loaded \in Seq(Installable), Serving, NEW s \in Sessions,
         live[s] # None, NEW acts, IsFiniteSet(acts), NEW kind,
         NEW rest \in SUBSET Reasons, Turn(s, acts, kind, rest)
  PROVE  SessionsOK'
<1>1. SessionsTypeOK /\ FlowOK /\ Serving'
  BY DEF SessionsOK, Serving, hostVars, Turn
<1>2. UNCHANGED <<rows, attached, call, used, seeded, clashed>>
  BY DEF Turn
<1>3. PICK x \in Snapshots :
        /\ live' = [live EXCEPT ![s] = x]
        /\ \/ Rejected(s, x)
           \/ \E y \in Snapshots, e \in Entry : Committed(s, acts, x, y, e)
  BY <1>1, TurnEffect
<1>4. /\ live'[s] # None /\ \A z \in Sessions \ {s} : live'[z] = live[z]
      /\ live' \in [Sessions -> Snapshots \cup {None}]
  BY <1>1, <1>3, NoneIsNoSnapshot DEF SessionsTypeOK
<1>5. /\ store' \in [Sessions -> Snapshots \cup {None}]
      /\ journal' \in [Sessions -> Seq(Entry)]
      /\ \A z \in Sessions \ {s} : store'[z] = store[z] /\ journal'[z] = journal[z]
      /\ store'[s] # None
  <2>1. store[s] # None
    BY <1>1 DEF FlowOK, SavedFirst
  <2>2. CASE Rejected(s, x)
    BY <2>1, <2>2, <1>1 DEF SessionsTypeOK, Rejected
  <2>3. ASSUME NEW y \in Snapshots, NEW e \in Entry, Committed(s, acts, x, y, e)
        PROVE  /\ store' \in [Sessions -> Snapshots \cup {None}]
               /\ journal' \in [Sessions -> Seq(Entry)]
               /\ \A z \in Sessions \ {s} :
                    store'[z] = store[z] /\ journal'[z] = journal[z]
               /\ store'[s] # None
    <3>1. Append(journal[s], e) \in Seq(Entry)
      BY <1>1 DEF SessionsTypeOK
    <3> QED BY <3>1, <2>3, <1>1, NoneIsNoSnapshot DEF SessionsTypeOK, Committed
  <2> QED BY <1>3, <2>2, <2>3
<1>6. SessionsTypeOK'
  BY <1>1, <1>2, <1>4, <1>5 DEF SessionsTypeOK
<1>7. CallsOK'
  <2>1. store[s] # None
    BY <1>1 DEF FlowOK, SavedFirst
  <2>2. \A z \in Sessions :
          /\ store[z] = None => store'[z] = None
          /\ store[z] # None => store'[z] # None
          /\ live[z] # None => live'[z] # None
    BY <2>1, <1>4, <1>5
  <2>3. \A r \in Calls : call[r].at # "idle" => call[r].sid \in Sessions
    BY <1>1 DEF FlowOK, CallsOK, CallOK, SessionsTypeOK
  <2>4. UNCHANGED <<rows, call, used>> /\ CallsOK
    BY <1>1, <1>2 DEF FlowOK
  <2> SUFFICES ASSUME NEW r \in Calls PROVE CallOK(r)'
    BY DEF CallsOK
  <2>5. CallOK(r) /\ (call[r].at # "idle" => call[r].sid \in Sessions)
    BY <2>3, <2>4 DEF CallsOK
  <2>6. rows' = rows /\ call' = call /\ used' = used
    BY <2>4
  <2> DEFINE c == call[r].sid
  <2>7. call[r].at # "idle" =>
          /\ store[c] = None => store'[c] = None
          /\ store[c] # None => store'[c] # None
          /\ live[c] # None => live'[c] # None
    BY <2>2, <2>5
  <2> QED BY <2>5, <2>6, <2>7 DEF CallOK, NewId
<1>8. s \in used
  BY <1>1 DEF FlowOK, SavedFirst
<1>9. AttachedLive' /\ SavedFirst'
  BY <1>1, <1>2, <1>4, <1>5, <1>8 DEF FlowOK, AttachedLive, SavedFirst, SessionsTypeOK
<1> QED BY <1>1, <1>6, <1>7, <1>9 DEF SessionsOK, FlowOK

LEMMA AnyTurnStep ==
  ASSUME SessionsOK, loaded \in Seq(Installable), NEW s \in Sessions,
         NEW acts \in ActSets(LoadedModules), PlayerTurn(s, acts) \/ SystemTurn(s, acts)
  PROVE  SessionsOK'
<1>1. IsFiniteSet(acts) /\ Serving /\ live[s] # None /\ SessionsTypeOK
  BY ActsFinite DEF PlayerTurn, SystemTurn, Served, SessionsOK
<1>2. live[s].pending \in SUBSET Reasons
  BY <1>1, SnapshotFields DEF SessionsTypeOK
<1>3. CASE PlayerTurn(s, acts)
  BY <1>1, <1>2, <1>3, TurnStep DEF PlayerTurn
<1>4. CASE SystemTurn(s, acts)
  <2>1. PICK reason : Turn(s, acts, "system", live[s].pending \ {reason})
    BY <1>4 DEF SystemTurn
  <2>2. live[s].pending \ {reason} \in SUBSET Reasons
    BY <1>2
  <2> QED BY <2>1, <2>2, <1>1, TurnStep
<1> QED BY <1>3, <1>4

LEMMA SaveSessionStep ==
  ASSUME SessionsOK, NEW s \in Sessions, SaveSession(s)
  PROVE  SessionsOK'
<1>1. SessionsTypeOK /\ FlowOK /\ Serving' /\ s \in rows /\ live[s] # None
  BY DEF SessionsOK, Serving, hostVars, SaveSession, Served
<1>2. /\ store' = [store EXCEPT ![s] = live[s]]
      /\ UNCHANGED <<rows, attached, live, journal, call, used, turns, seeded, clashed>>
  BY DEF SaveSession, Upsert, ghosts
<1>3. SessionsTypeOK'
  BY <1>1, <1>2 DEF SessionsTypeOK
<1>4. CallsOK'
  BY <1>1, <1>2 DEF FlowOK, CallsOK, CallOK, NewId, SessionsTypeOK
<1>5. AttachedLive' /\ SavedFirst'
  BY <1>1, <1>2 DEF FlowOK, AttachedLive, SavedFirst, SessionsTypeOK
<1> QED BY <1>1, <1>3, <1>4, <1>5 DEF SessionsOK, FlowOK

LEMMA DeleteSessionStep ==
  ASSUME SessionsOK, NEW s \in Sessions, DeleteSession(s)
  PROVE  SessionsOK'
<1>1. SessionsTypeOK /\ FlowOK /\ Serving' /\ s \in rows
  BY DEF SessionsOK, Serving, hostVars, DeleteSession
<1>2. /\ rows' = rows \ {s} /\ attached' = attached \ {s}
      /\ live' = [live EXCEPT ![s] = None]
      /\ UNCHANGED <<store, journal, call, used, turns, seeded, clashed>>
  BY DEF DeleteSession, onDisk, ghosts
<1>3. SessionsTypeOK'
  BY <1>1, <1>2 DEF SessionsTypeOK
<1>4. CallsOK'
  BY <1>1, <1>2 DEF FlowOK, CallsOK, CallOK, NewId, SessionsTypeOK
<1>5. AttachedLive' /\ SavedFirst'
  BY <1>1, <1>2 DEF FlowOK, AttachedLive, SavedFirst, SessionsTypeOK
<1> QED BY <1>1, <1>3, <1>4, <1>5 DEF SessionsOK, FlowOK

LEMMA RequestSteps ==
  ASSUME SessionsOK, loaded \in Seq(Installable), SessionNext
  PROVE  SessionsOK'
<1>1. ASSUME NEW r \in Calls,
             CreateCall(r) \/ StartSession(r) \/ StartFails(r) \/ BindSession(r)
             \/ BindFails(r) \/ ReadSession(r) \/ SetLive(r) \/ LoadFails(r)
             \/ AttachSession(r) \/ \E s \in Sessions : LoadCall(r, s)
      PROVE  SessionsOK'
  BY <1>1, CreateCallStep, StartSessionStep, StartFailsStep, BindSessionStep,
     BindFailsStep, ReadSessionStep, SetLiveStep, LoadFailsStep, AttachSessionStep,
     LoadCallStep
<1>2. ASSUME NEW s \in Sessions, NEW acts \in ActSets(LoadedModules),
             PlayerTurn(s, acts) \/ SystemTurn(s, acts)
      PROVE  SessionsOK'
  BY <1>2, AnyTurnStep
<1>3. ASSUME NEW s \in Sessions, SaveSession(s) \/ DeleteSession(s)
      PROVE  SessionsOK'
  BY <1>3, SaveSessionStep, DeleteSessionStep
<1> QED BY <1>1, <1>2, <1>3 DEF SessionNext

\* A process that ends forgets its requests and its live sessions.
LEMMA ForgetStep ==
  ASSUME SessionsOK, Forget
  PROVE  SessionsOK' /\ NothingServed'
<1>1. SessionsTypeOK'
  BY IdleTyped DEF SessionsOK, SessionsTypeOK, Forget, onDisk, ghosts
<1>2. NothingServed'
  BY IdleTyped DEF NothingServed, Forget
<1>3. CallsOK' /\ AttachedLive' /\ SavedFirst'
  BY IdleTyped DEF SessionsOK, FlowOK, CallsOK, CallOK, NewId, AttachedLive, SavedFirst,
                   Forget, onDisk
<1> QED BY <1>1, <1>2, <1>3 DEF SessionsOK, FlowOK

LEMMA SessionsIdle ==
  ASSUME SessionsOK, UNCHANGED sessionVars, ~Serving \/ Serving'
  PROVE  SessionsOK'
<1>1. SessionsTypeOK'
  BY DEF SessionsOK, SessionsTypeOK, sessionVars
<1>2. CallsOK' /\ AttachedLive' /\ SavedFirst'
  BY DEF SessionsOK, FlowOK, CallsOK, CallOK, NewId, AttachedLive, SavedFirst, sessionVars
<1>3. NothingServed => NothingServed'
  BY DEF NothingServed, sessionVars
<1> QED BY <1>1, <1>2, <1>3 DEF SessionsOK, FlowOK

\* A host that serves neither boots nor fails to.
LEMMA NoBootWhileServing ==
  ASSUME EngineOK, HostBootNext
  PROVE  ~Serving
<1>1. Serving => phase = "up"
  BY DEF EngineOK, HostOK, Serving
<1>2. ASSUME RegistryNext
      PROVE  phase # "up"
  BY <1>2 DEF RegistryNext, InstallModule, InstallFails, BindEvents, BindEventsFails,
              CheckConfigs, StartModule, EngineReady, StopModule, Stopped
<1> QED BY <1>1, <1>2 DEF HostBootNext, HostStart, HostResolves, HostBootFailed,
                          HostReady, HostStopped, Serving

LoadsOK == EngineOK /\ SessionsOK

LEMMA LoadsSteps ==
  ASSUME LoadsOK, [LifecycleNext]_lifecycleVars
  PROVE  LoadsOK'
<1>1. EngineOK'
  BY EngineSteps DEF LoadsOK
<1>2. loaded \in Seq(Installable)
  BY DEF LoadsOK, EngineOK, RegistryOK, RegistryTypeOK
<1>3. CASE SessionNext
  BY <1>1, <1>2, <1>3, RequestSteps DEF LoadsOK
<1>4. CASE HostBootNext /\ UNCHANGED sessionVars
  <2>1. ~Serving
    BY <1>4, NoBootWhileServing DEF LoadsOK
  <2> QED BY <2>1, <1>1, <1>4, SessionsIdle DEF LoadsOK
<1>5. CASE Forget
  BY <1>1, <1>5, ForgetStep DEF LoadsOK
<1>6. CASE UNCHANGED lifecycleVars
  <2>1. UNCHANGED sessionVars /\ (~Serving \/ Serving')
    BY <1>6 DEF lifecycleVars, hostVars, Serving
  <2> QED BY <2>1, <1>1, SessionsIdle DEF LoadsOK
<1> QED BY <1>3, <1>4, <1>5, <1>6 DEF LifecycleNext

LEMMA LoadsInit == ASSUME LifecycleInit PROVE LoadsOK
<1>1. SessionsInit /\ ~Serving
  BY DEF LifecycleInit, HostInit, Serving
<1>2. SessionsTypeOK
  BY <1>1, IdleTyped DEF SessionsInit, SessionsTypeOK
<1>3. NothingServed /\ CallsOK /\ AttachedLive /\ SavedFirst
  BY <1>1, IdleTyped DEF SessionsInit, NothingServed, CallsOK, CallOK, NewId,
                         AttachedLive, SavedFirst
<1> QED BY <1>2, <1>3, EngineInit DEF LoadsOK, SessionsOK, FlowOK

\* Whichever requests create, load, save and delete sessions at once, and
\* whatever fails under way: a session the service has attached, and whose row
\* it finds, is live in the engine (ensureAttached, delete, createFromTemplate).
THEOREM AttachedAreLive == LifecycleSpec => []ServedSessionsAreLive
<1>1. LifecycleInit => LoadsOK
  BY LoadsInit
<1>2. LoadsOK /\ [LifecycleNext]_lifecycleVars => LoadsOK'
  BY LoadsSteps
<1>3. LoadsOK => ServedSessionsAreLive
  BY DEF LoadsOK, SessionsOK, FlowOK, AttachedLive, ServedSessionsAreLive
<1> QED BY <1>1, <1>2, <1>3, PTL DEF LifecycleSpec

-----------------------------------------------------------------------------
(* Data: what the slices hold, and what the journal says of it             *)

CommandsIn(entries, n) ==
  UNION {{i} \X (1..entries[i].wrote[n]) : i \in DOMAIN entries}

\* An entry adds its commands to those before it.
LEMMA EntryAppended ==
  ASSUME NEW entries \in Seq(Entry), NEW e \in Entry, NEW n \in Slices,
         IsFiniteSet(CommandsIn(entries, n))
  PROVE  /\ IsFiniteSet(CommandsIn(Append(entries, e), n))
         /\ Cardinality(CommandsIn(Append(entries, e), n))
              = Cardinality(CommandsIn(entries, n)) + e.wrote[n]
<1> DEFINE k == Len(entries) + 1
           old == CommandsIn(entries, n)
           new == {k} \X (1..e.wrote[n])
<1>1. e.wrote[n] \in Nat
  BY DEF Entry
<1>2. /\ Len(entries) \in Nat /\ DOMAIN entries = 1..Len(entries)
      /\ DOMAIN Append(entries, e) = 1..k
      /\ \A i \in 1..Len(entries) : Append(entries, e)[i] = entries[i]
      /\ Append(entries, e)[k] = e
  OBVIOUS
<1>3. CommandsIn(Append(entries, e), n) = old \cup new
  <2>1. \A i \in 1..k : i \in 1..Len(entries) \/ i = k
    BY <1>2
  <2>2. \A i \in 1..Len(entries) : i \in 1..k
    BY <1>2
  <2>3. k \in 1..k
    BY <1>2
  <2>4. \A c : c \in CommandsIn(Append(entries, e), n)
               <=> \E i \in 1..k : c \in {i} \X (1..Append(entries, e)[i].wrote[n])
    BY <1>2 DEF CommandsIn
  <2>5. \A c : c \in old <=> \E i \in 1..Len(entries) : c \in {i} \X (1..entries[i].wrote[n])
    BY <1>2 DEF CommandsIn
  <2>6. \A c : c \in new <=> c \in {k} \X (1..Append(entries, e)[k].wrote[n])
    BY <1>2
  <2>7. \A i \in 1..Len(entries) : {i} \X (1..Append(entries, e)[i].wrote[n])
                                   = {i} \X (1..entries[i].wrote[n])
    BY <1>2
  <2> HIDE DEF old, new, k
  <2> QED BY <2>1, <2>2, <2>3, <2>4, <2>5, <2>6, <2>7
<1>4. old \cap new = {}
  <2>1. \A c \in old : c[1] \in 1..Len(entries)
    BY <1>2 DEF CommandsIn
  <2>2. \A c \in new : c[1] = k
    OBVIOUS
  <2>3. k \notin 1..Len(entries)
    BY <1>2
  <2> HIDE DEF old, new, k
  <2> QED BY <2>1, <2>2, <2>3
<1>5. IsFiniteSet(new) /\ Cardinality(new) = e.wrote[n]
  <2> DEFINE w == 1..e.wrote[n]
  <2>1. IsFiniteSet(w) /\ Cardinality(w) = e.wrote[n]
    <3> DEFINE m == e.wrote[n]
    <3>1. m \in Nat
      BY <1>1
    <3> HIDE DEF m
    <3>2. /\ IsFiniteSet(1..m)
          /\ Cardinality(1..m) = IF 1 > m THEN 0 ELSE m - 1 + 1
      BY <3>1, FS_Interval
    <3>3. Cardinality(1..m) = m
      BY <3>1, <3>2
    <3> QED BY <3>2, <3>3 DEF m
  <2>2. IsFiniteSet({k}) /\ Cardinality({k}) = 1
    BY FS_Singleton
  <2> HIDE DEF w, k
  <2>3. IsFiniteSet({k} \X w) /\ Cardinality({k} \X w) = 1 * e.wrote[n]
    BY <2>1, <2>2, FS_Product
  <2> QED BY <2>3, <1>1 DEF w, k
<1>6. IsFiniteSet(old) /\ Cardinality(old) \in Nat
  BY FS_CardinalityType
<1> HIDE DEF old, new
<1>7. /\ IsFiniteSet(old \cup new)
      /\ Cardinality(old \cup new)
           = Cardinality(old) + Cardinality(new) - Cardinality(old \cap new)
  BY <1>5, <1>6, FS_Union
<1>8. Cardinality({}) = 0
  BY FS_EmptySet
<1>9. Cardinality(old \cup new) = Cardinality(old) + e.wrote[n]
  <2>1. Cardinality(old \cap new) = 0
    BY <1>4, <1>8
  <2>2. Cardinality(old \cup new) = Cardinality(old) + Cardinality(new) - 0
    BY <2>1, <1>7
  <2>3. Cardinality(new) = e.wrote[n]
    BY <1>5
  <2> QED BY <2>2, <2>3, <1>1, <1>6
<1> QED BY <1>3, <1>7, <1>9 DEF old

\* What any one entry holds is among what is replayed.
LEMMA EntryReplayed ==
  ASSUME NEW entries, NEW i \in DOMAIN entries, NEW n, entries[i].wrote[n] \in Nat,
         entries[i].wrote[n] > 0, IsFiniteSet(CommandsIn(entries, n))
  PROVE  Cardinality(CommandsIn(entries, n)) \in Nat \ {0}
<1>1. <<i, 1>> \in CommandsIn(entries, n)
  BY DEF CommandsIn
<1> QED BY <1>1, FS_EmptySet, FS_CardinalityType

\* A step that leaves what is stored of a session alone, and loads nothing more.
LEMMA DataKept ==
  ASSUME NEW s \in Sessions, DataOK(s),
         store'[s] = store[s], journal'[s] = journal[s], seeded'[s] = seeded[s],
         live'[s] = None \/ (live'[s] = live[s] /\ loaded' = loaded),
         \A r \in Calls : call'[r].at = "hydrating" /\ call'[r].sid = s =>
           /\ loaded' = loaded
           /\ call[r].at = "hydrating" /\ call[r].sid = s /\ call'[r].got = call[r].got
  PROVE  DataOK(s)'
<1>1. JournalOK(s)'
  BY DEF DataOK, JournalOK
<1>2. CountsOK(s)'
  <2>1. \A n : Replayed(s, n)' = Replayed(s, n) /\ CountIn(store[s], n)' = CountIn(store[s], n)
    BY DEF Replayed, Commands, Entries, CountIn
  <2> QED BY <2>1 DEF DataOK, CountsOK, CountIn, Replayed, Commands, Entries
<1>3. ASSUME loaded' = loaded
      PROVE  OwnedSlices' = OwnedSlices
  BY <1>3 DEF OwnedSlices, WithSlice, LoadedModules
<1>4. LiveOK(s)'
  BY <1>3 DEF DataOK, LiveOK, Copies, CountIn
<1>5. HydratingOK(s)'
  <2> SUFFICES ASSUME NEW r \in Calls, call'[r].at = "hydrating", call'[r].sid = s
               PROVE  Copies(s, call[r].got)'
    BY DEF HydratingOK
  <2>1. /\ call[r].at = "hydrating" /\ call[r].sid = s /\ call'[r].got = call[r].got
        /\ OwnedSlices' = OwnedSlices
    BY <1>3
  <2>2. Copies(s, call[r].got)
    BY <2>1 DEF DataOK, HydratingOK
  <2> QED BY <2>1, <2>2 DEF Copies, CountIn
<1> QED BY <1>1, <1>2, <1>4, <1>5 DEF DataOK

RecordsOK == JournalsFinite /\ StoredOK

LEMMA QuietStep ==
  ASSUME RecordsOK, UNCHANGED <<store, journal, seeded, clashed>>,
         \A s \in Sessions :
           live'[s] = None \/ (live'[s] = live[s] /\ loaded' = loaded),
         \A r \in Calls : call'[r].at = "hydrating" =>
           loaded' = loaded /\ call'[r] = call[r]
  PROVE  RecordsOK'
<1>1. JournalsFinite'
  BY DEF RecordsOK, JournalsFinite, Commands, Entries
<1>2. ASSUME NEW s \in Sessions \ clashed, store[s] # None
      PROVE  DataOK(s)'
  <2>1. DataOK(s)
    BY <1>2 DEF RecordsOK, StoredOK
  <2> QED BY <2>1, <1>2, DataKept
<1>3. StoredOK'
  BY <1>2 DEF StoredOK
<1> QED BY <1>1, <1>3 DEF RecordsOK

\* The steps of requests that neither read nor write a snapshot.
LEMMA QuietRequests ==
  ASSUME RecordsOK, SessionsOK, NEW r \in Calls,
         \/ CreateCall(r) \/ StartFails(r) \/ BindSession(r) \/ BindFails(r)
         \/ LoadFails(r) \/ AttachSession(r) \/ \E s \in Sessions : LoadCall(r, s)
  PROVE  RecordsOK'
<1>1. SessionsTypeOK
  BY DEF SessionsOK
<1>2. /\ UNCHANGED <<store, journal, seeded, clashed>> /\ loaded' = loaded
      /\ \E c \in CallStates : c.at # "hydrating" /\ call' = [call EXCEPT ![r] = c]
  <2>1. ASSUME CreateCall(r)
        PROVE  \E c \in CallStates : c.at # "hydrating" /\ call' = [call EXCEPT ![r] = c]
    <3>1. PICK s \in Sessions :
            call' = [call EXCEPT ![r] = [Idle EXCEPT !.at = "starting", !.sid = s]]
      BY <2>1 DEF CreateCall
    <3>2. /\ [Idle EXCEPT !.at = "starting", !.sid = s] \in CallStates
          /\ [Idle EXCEPT !.at = "starting", !.sid = s].at # "hydrating"
      BY DEF Idle, CallStates
    <3> QED BY <3>1, <3>2
  <2>2. ASSUME AttachSession(r) \/ StartFails(r) \/ BindSession(r) \/ BindFails(r)
               \/ LoadFails(r)
        PROVE  \E c \in CallStates : c.at # "hydrating" /\ call' = [call EXCEPT ![r] = c]
    BY <2>2, IdleTyped DEF AttachSession, StartFails, BindSession, BindFails, LoadFails
  <2>3. ASSUME NEW s \in Sessions, LoadCall(r, s)
        PROVE  \E c \in CallStates : c.at # "hydrating" /\ call' = [call EXCEPT ![r] = c]
    <3>1. /\ [Idle EXCEPT !.at = "loading", !.sid = s] \in CallStates
          /\ [Idle EXCEPT !.at = "loading", !.sid = s].at # "hydrating"
      BY DEF Idle, CallStates
    <3> QED BY <2>3, <3>1 DEF LoadCall
  <2>4. UNCHANGED <<store, journal, seeded, clashed>> /\ loaded' = loaded
    BY DEF CreateCall, AttachSession, StartFails, BindSession, BindFails, LoadFails,
           LoadCall, onDisk, ghosts, registryVars
  <2> QED BY <2>1, <2>2, <2>3, <2>4
<1>3. \A s \in Sessions : live'[s] = None \/ live'[s] = live[s]
  BY <1>1 DEF CreateCall, AttachSession, StartFails, BindSession, BindFails, LoadFails,
              LoadCall, SessionsTypeOK
<1>4. \A q \in Calls : call'[q].at = "hydrating" => call'[q] = call[q]
  BY <1>1, <1>2 DEF SessionsTypeOK
<1> QED BY <1>2, <1>3, <1>4, QuietStep

LEMMA StartRecords ==
  ASSUME RecordsOK, SessionsOK, loaded \in Seq(Installable), NEW r \in Calls,
         StartSession(r)
  PROVE  RecordsOK'
<1>1. SessionsTypeOK /\ FlowOK
  BY DEF SessionsOK
<1>2. /\ call[r].at = "starting" /\ call[r].sid \in Sessions
      /\ store[call[r].sid] = None
      /\ \A q \in Calls \ {r} : call[q].at # "idle" => call[q].sid # call[r].sid
  BY <1>1 DEF StartSession, FlowOK, CallsOK, CallOK, NewId, SessionsTypeOK
<1>a. PICK z \in Sessions : z = call[r].sid
  BY <1>2
<1>3. PICK first \in Snapshots, counts \in [Slices -> Nat] :
        /\ live' = [live EXCEPT ![call[r].sid] = first]
        /\ store' = [store EXCEPT ![call[r].sid] = first]
        /\ seeded' = [seeded EXCEPT ![call[r].sid] = counts]
        /\ first.rev = 0 /\ OwnedSlices \subseteq DOMAIN first.slices
        /\ \A n \in Slices : CountIn(first, n) = counts[n]
  BY <1>1, <1>2, StartEffect
<1>4. /\ call' = [call EXCEPT ![r].at = "binding"]
      /\ UNCHANGED <<journal, clashed, loaded>>
  BY DEF StartSession, registryVars
<1>5. call'[r].at = "binding" /\ \A q \in Calls \ {r} : call'[q] = call[q]
  BY <1>1, <1>4 DEF SessionsTypeOK, CallStates
<1>6. JournalsFinite'
  BY <1>4 DEF RecordsOK, JournalsFinite, Commands, Entries
<1>7. ASSUME NEW s \in Sessions \ clashed, s # z, store'[s] # None
      PROVE  DataOK(s)'
  <2>1. /\ store'[s] = store[s] /\ journal'[s] = journal[s] /\ seeded'[s] = seeded[s]
        /\ live'[s] = live[s] /\ loaded' = loaded
    BY <1>a, <1>1, <1>3, <1>4, <1>7 DEF SessionsTypeOK
  <2>2. \A q \in Calls : call'[q].at = "hydrating" => call'[q] = call[q]
    BY <1>5
  <2>3. DataOK(s)
    BY <2>1, <1>7 DEF RecordsOK, StoredOK
  <2> QED BY <2>1, <2>2, <2>3, DataKept
<1>8. DataOK(z)'
  <2>1. /\ store'[z] = first /\ live'[z] = first /\ seeded'[z] = counts
        /\ journal'[z] = <<>>
    BY <1>a, <1>1, <1>2, <1>3, <1>4 DEF SessionsTypeOK, FlowOK, SavedFirst
  <2>2. \A n : Commands(z, n)' = {}
    BY <2>1 DEF Commands, Entries
  <2>3. \A n : Replayed(z, n)' = 0
    BY <2>2, FS_EmptySet DEF Replayed
  <2>4. JournalOK(z)'
    BY <2>1, <1>3 DEF JournalOK
  <2>5. CountsOK(z)'
    BY <2>1, <2>3, <1>3 DEF CountsOK, CountIn
  <2>6. OwnedSlices' = OwnedSlices
    BY <1>4 DEF OwnedSlices, WithSlice, LoadedModules
  <2>7. LiveOK(z)'
    BY <2>1, <2>6, <1>3 DEF LiveOK, Copies
  <2>8. HydratingOK(z)'
    BY <1>a, <1>2, <1>5 DEF HydratingOK
  <2> QED BY <2>4, <2>5, <2>7, <2>8 DEF DataOK
<1>9. StoredOK'
  BY <1>4, <1>7, <1>8 DEF StoredOK
<1> QED BY <1>6, <1>9 DEF RecordsOK

\* A load has a copy of what is stored, every slice of a module among it.
LEMMA ReadRecords ==
  ASSUME RecordsOK, SessionsOK, loaded \in Seq(Installable), NEW r \in Calls,
         ReadSession(r)
  PROVE  RecordsOK'
<1>1. SessionsTypeOK /\ FlowOK
  BY DEF SessionsOK
<1>2. call[r].at = "loading" /\ call[r].sid \in Sessions
  BY <1>1 DEF ReadSession, FlowOK, CallsOK, CallOK, SessionsTypeOK
<1>3. PICK x \in Snapshots :
        /\ call' = [call EXCEPT ![r] = [call[r] EXCEPT !.at = "hydrating", !.got = x]]
        /\ store[call[r].sid] \in Snapshots
        /\ x.rev = store[call[r].sid].rev
        /\ x.slices = Migrated(store[call[r].sid].slices)
  BY <1>1, <1>2, ReadEffect
<1>4. UNCHANGED <<live, store, journal, seeded, clashed, loaded>>
  BY DEF ReadSession, onDisk, ghosts, registryVars
<1>5. /\ call'[r].sid = call[r].sid /\ call'[r].got = x
      /\ \A q \in Calls \ {r} : call'[q] = call[q]
  BY <1>1, <1>3 DEF SessionsTypeOK, CallStates
<1>6. JournalsFinite'
  BY <1>4 DEF RecordsOK, JournalsFinite, Commands, Entries
<1>7. Copies(call[r].sid, x)
  <2> DEFINE y == store[call[r].sid]
  <2>1. /\ y.rev \in Nat /\ DOMAIN y.slices \in SUBSET SliceNames
        /\ y.slices \in [DOMAIN y.slices -> SliceStates]
    BY <1>3, SnapshotFields
  <2>3. x.rev = y.rev /\ x.slices = Migrated(y.slices)
    BY <1>3
  <2> HIDE DEF y
  <2>6. /\ Migrated(y.slices) \in [DOMAIN y.slices \cup OwnedSlices -> SliceStates]
        /\ \A n \in DOMAIN y.slices : Migrated(y.slices)[n].n = y.slices[n].n
        /\ \A n \in OwnedSlices \ DOMAIN y.slices : Migrated(y.slices)[n].n = 0
    BY <2>1, MigratedTyped
  <2>2. /\ x.slices \in [DOMAIN y.slices \cup OwnedSlices -> SliceStates]
        /\ \A n \in DOMAIN y.slices : x.slices[n].n = y.slices[n].n
        /\ \A n \in OwnedSlices \ DOMAIN y.slices : x.slices[n].n = 0
    BY <2>3, <2>6
  <2>4. DOMAIN x.slices = DOMAIN y.slices \cup OwnedSlices
    BY <2>2
  <2>5. \A n : CountIn(x, n) = CountIn(y, n)
    BY <2>2, <2>4 DEF CountIn
  <2> QED BY <2>1, <2>3, <2>4, <2>5 DEF Copies, y
<1>8. ASSUME NEW s \in Sessions \ clashed, store[s] # None
      PROVE  DataOK(s)'
  <2>1. DataOK(s)
    BY <1>8 DEF RecordsOK, StoredOK
  <2>2. JournalOK(s)' /\ CountsOK(s)' /\ LiveOK(s)'
    <3>1. OwnedSlices' = OwnedSlices
      BY <1>4 DEF OwnedSlices, WithSlice, LoadedModules
    <3> QED BY <2>1, <3>1, <1>4 DEF DataOK, JournalOK, CountsOK, LiveOK, Copies, CountIn,
                              Replayed, Commands, Entries
  <2>4. ASSUME NEW q \in Calls, call'[q].at = "hydrating", call'[q].sid = s
        PROVE  Copies(s, call'[q].got)
    <3>1. CASE q = r
      BY <3>1, <2>4, <1>5, <1>7
    <3>2. CASE q # r
      BY <3>2, <2>4, <2>1, <1>5 DEF DataOK, HydratingOK
    <3> QED BY <3>1, <3>2
  <2>5. HydratingOK(s)'
    <3>1. ASSUME NEW q \in Calls, call'[q].at = "hydrating", call'[q].sid = s
          PROVE  Copies(s, call[q].got)'
      <4>1. Copies(s, call'[q].got)
        BY <2>4, <3>1
      <4> QED BY <4>1, <1>4 DEF Copies, OwnedSlices, WithSlice, LoadedModules, CountIn
    <3> QED BY <3>1 DEF HydratingOK
  <2> QED BY <2>2, <2>5 DEF DataOK
<1>9. StoredOK'
  BY <1>4, <1>8 DEF StoredOK
<1> QED BY <1>6, <1>9 DEF RecordsOK

\* What a load makes live is what is stored, or else it is known to clash.
LEMMA SetLiveRecords ==
  ASSUME RecordsOK, SessionsOK, NEW r \in Calls, SetLive(r)
  PROVE  RecordsOK'
<1>1. SessionsTypeOK /\ FlowOK
  BY DEF SessionsOK
<1>2. /\ call[r].at = "hydrating" /\ call[r].sid \in Sessions
      /\ store[call[r].sid] # None /\ call[r].got \in Snapshots
  BY <1>1 DEF SetLive, FlowOK, CallsOK, CallOK, SessionsTypeOK, CallStates
<1>a. PICK z \in Sessions : z = call[r].sid
  BY <1>2
<1>3. /\ live' = [live EXCEPT ![z] = call[r].got]
      /\ call' = [call EXCEPT ![r].at = "loaded", ![r].got = None]
      /\ clashed' = IF call[r].got.rev < store[z].rev THEN clashed \cup {z} ELSE clashed
      /\ UNCHANGED <<store, journal, seeded, loaded>>
  BY <1>a DEF SetLive, onDisk, Stored, registryVars
<1>4. call'[r].at = "loaded" /\ \A q \in Calls \ {r} : call'[q] = call[q]
  BY <1>1, <1>3 DEF SessionsTypeOK, CallStates
<1>5. JournalsFinite'
  BY <1>3 DEF RecordsOK, JournalsFinite, Commands, Entries
<1>6. ASSUME NEW s \in Sessions \ clashed', store'[s] # None
      PROVE  DataOK(s)'
  <2>1. DataOK(s) /\ s \notin clashed
    BY <1>3, <1>6 DEF RecordsOK, StoredOK
  <2>2. \A q \in Calls : call'[q].at = "hydrating" => call'[q] = call[q]
    BY <1>4
  <2>3. CASE s # z
    <3>1. live'[s] = live[s]
      BY <2>3, <1>1, <1>3 DEF SessionsTypeOK
    <3> QED BY <3>1, <2>1, <2>2, <1>3, DataKept
  <2>4. CASE s = z
    <3>1. live'[z] = call[r].got
      BY <1>1, <1>3 DEF SessionsTypeOK
    <3>2. Copies(z, call[r].got)
      BY <2>1, <2>4, <1>a, <1>2 DEF DataOK, HydratingOK
    <3>3. call[r].got.rev \in Nat /\ store[z].rev \in Nat
      BY <1>1, <1>2, <1>a, SnapshotFields DEF SessionsTypeOK
    <3>4. call[r].got.rev = store[z].rev
      BY <2>4, <3>2, <3>3, <1>3, <1>6 DEF Copies
    <3>5. OwnedSlices' = OwnedSlices
      BY <1>3 DEF OwnedSlices, WithSlice, LoadedModules
    <3>6. LiveOK(z)'
      BY <3>1, <3>2, <3>4, <3>5, <1>3 DEF LiveOK, Copies, CountIn
    <3>7. JournalOK(z)' /\ CountsOK(z)'
      BY <2>1, <2>4, <1>3 DEF DataOK, JournalOK, CountsOK, CountIn, Replayed, Commands,
                              Entries
    <3>8. HydratingOK(z)'
      <4>1. ASSUME NEW q \in Calls, call'[q].at = "hydrating", call'[q].sid = z
            PROVE  Copies(z, call[q].got)'
        <5>1. Copies(z, call[q].got) /\ call'[q].got = call[q].got
          BY <4>1, <2>1, <2>2, <2>4 DEF DataOK, HydratingOK
        <5> QED BY <5>1, <3>5, <1>3 DEF Copies, CountIn
      <4> QED BY <4>1 DEF HydratingOK
    <3> QED BY <2>4, <3>6, <3>7, <3>8 DEF DataOK
  <2> QED BY <2>3, <2>4
<1>7. StoredOK'
  BY <1>6 DEF StoredOK
<1> QED BY <1>5, <1>7 DEF RecordsOK

\* A turn that is rejected leaves the slices, a committed one appends an entry
\* with exactly the commands that its slices gained (turn-pipeline commit).
LEMMA TurnRecords ==
  ASSUME RecordsOK, SessionsOK, loaded \in Seq(Installable), NEW z \in Sessions,
         live[z] # None, NEW acts, IsFiniteSet(acts), NEW kind,
         NEW rest \in SUBSET Reasons, Turn(z, acts, kind, rest)
  PROVE  RecordsOK'
<1>1. SessionsTypeOK /\ FlowOK
  BY DEF SessionsOK
<1>2. live[z] \in Snapshots /\ store[z] \in Snapshots /\ journal[z] \in Seq(Entry)
  BY <1>1 DEF SessionsTypeOK, FlowOK, SavedFirst
<1>3. /\ UNCHANGED <<call, seeded, clashed>>
      /\ loaded' = loaded
  BY DEF Turn, registryVars
<1>4. PICK x \in Snapshots :
        /\ live' = [live EXCEPT ![z] = x]
        /\ \/ Rejected(z, x)
           \/ \E y \in Snapshots, e \in Entry : Committed(z, acts, x, y, e)
  BY <1>1, TurnEffect
<1>5. live'[z] = x /\ \A s \in Sessions \ {z} : live'[s] = live[s]
  BY <1>1, <1>4 DEF SessionsTypeOK
<1>6. OwnedSlices' = OwnedSlices
  BY <1>3 DEF OwnedSlices, WithSlice, LoadedModules
<1>7. CASE Rejected(z, x)
  <2>1. JournalsFinite'
    BY <1>7 DEF Rejected, RecordsOK, JournalsFinite, Commands, Entries
  <2>2. ASSUME NEW s \in Sessions \ clashed, store[s] # None
        PROVE  DataOK(s)'
    <3>1. DataOK(s)
      BY <2>2 DEF RecordsOK, StoredOK
    <3>2. CASE s # z
      BY <3>1, <3>2, <1>3, <1>5, <1>7, DataKept DEF Rejected
    <3>3. CASE s = z
      <4>1. JournalOK(z)' /\ CountsOK(z)'
        BY <3>1, <3>3, <1>3, <1>7 DEF Rejected, DataOK, JournalOK, CountsOK, CountIn,
                                      Replayed, Commands, Entries
      <4>2. LiveOK(z)'
        BY <3>1, <3>3, <1>5, <1>6, <1>7 DEF Rejected, DataOK, LiveOK, Copies, CountIn
      <4>3. HydratingOK(z)'
        BY <3>1, <3>3, <1>3, <1>6, <1>7 DEF Rejected, DataOK, HydratingOK, Copies, CountIn
      <4> QED BY <4>1, <4>2, <4>3, <3>3 DEF DataOK
    <3> QED BY <3>2, <3>3
  <2>3. StoredOK'
    BY <1>3, <1>7, <2>2 DEF Rejected, StoredOK
  <2> QED BY <2>1, <2>3 DEF RecordsOK
<1>8. ASSUME NEW y \in Snapshots, NEW e \in Entry, Committed(z, acts, x, y, e)
      PROVE  RecordsOK'
  <2>1. /\ store' = [store EXCEPT ![z] = y]
        /\ journal' = [journal EXCEPT ![z] = Append(@, e)]
        /\ x.rev = live[z].rev + 1 /\ x.slices = Applied(live[z].slices, acts)
        /\ y.rev = x.rev /\ y.slices = x.slices
        /\ e.prev = live[z].rev /\ e.next = live[z].rev + 1
        /\ \A n \in Slices : e.wrote[n] = WrittenTo(n, acts)
    BY <1>8 DEF Committed
  <2>2. /\ store'[z] = y /\ journal'[z] = Append(journal[z], e)
        /\ \A s \in Sessions \ {z} : store'[s] = store[s] /\ journal'[s] = journal[s]
    BY <1>1, <2>1 DEF SessionsTypeOK
  <2>3. ASSUME NEW n \in Slices
        PROVE  /\ IsFiniteSet(Commands(z, n)')
               /\ Replayed(z, n)' = Replayed(z, n) + WrittenTo(n, acts)
    <3>1. Commands(z, n) = CommandsIn(journal[z], n)
      BY DEF Commands, CommandsIn, Entries
    <3>2. Commands(z, n)' = CommandsIn(Append(journal[z], e), n)
      BY <2>2 DEF Commands, CommandsIn, Entries
    <3>3. IsFiniteSet(CommandsIn(journal[z], n))
      BY <3>1 DEF RecordsOK, JournalsFinite
    <3> QED BY <3>1, <3>2, <3>3, <1>2, <2>1, EntryAppended DEF Replayed
  <2>4. ASSUME NEW s \in Sessions, NEW n \in Slices
        PROVE  IsFiniteSet(Commands(s, n)')
    <3>1. CASE s # z
      BY <3>1, <2>2 DEF RecordsOK, JournalsFinite, Commands, Entries
    <3> QED BY <3>1, <2>3
  <2>5. JournalsFinite'
    BY <2>4 DEF JournalsFinite
  <2>6. ASSUME NEW s \in Sessions \ clashed, s # z, store[s] # None
        PROVE  DataOK(s)'
    <3>1. DataOK(s)
      BY <2>6 DEF RecordsOK, StoredOK
    <3> QED BY <3>1, <2>6, <2>2, <1>3, <1>5, DataKept
  <2>7. ASSUME z \notin clashed
        PROVE  DataOK(z)'
    <3>1. /\ DataOK(z) /\ JournalOK(z) /\ CountsOK(z)
          /\ live[z].rev = store[z].rev /\ Copies(z, live[z])
      BY <2>7, <1>2, SessionsAssumption DEF RecordsOK, StoredOK, DataOK, LiveOK
    <3>2. /\ live[z].rev \in Nat /\ live[z].slices \in [DOMAIN live[z].slices -> SliceStates]
      BY <1>2, SnapshotFields
    <3>3. /\ x.slices \in [DOMAIN live[z].slices -> SliceStates]
          /\ \A n \in DOMAIN live[z].slices :
               x.slices[n].n = live[z].slices[n].n + WrittenTo(n, acts)
      <4> DEFINE D == DOMAIN live[z].slices
                 slices == live[z].slices
      <4>1. slices \in [D -> SliceStates]
        BY <3>2
      <4> HIDE DEF D, slices
      <4>2. /\ Applied(slices, acts) \in [D -> SliceStates]
            /\ \A n \in D : Applied(slices, acts)[n].n = slices[n].n + WrittenTo(n, acts)
        BY <4>1, AppliedTyped
      <4> QED BY <4>2, <2>1 DEF D, slices
    <3>4. DOMAIN x.slices = DOMAIN live[z].slices
      BY <3>3
    <3>5. OwnedSlices \subseteq DOMAIN x.slices
      BY <3>1, <3>4 DEF Copies
    <3>6. ASSUME NEW n \in Slices
          PROVE  CountIn(y, n) = CountIn(live[z], n) + WrittenTo(n, acts)
      <4>1. CASE n \in DOMAIN x.slices
        BY <4>1, <2>1, <3>3, <3>4 DEF CountIn
      <4>2. CASE n \notin DOMAIN x.slices
        <5>1. WrittenTo(n, acts) = 0
          BY <4>2, <3>5, WrittenNat
        <5> QED BY <4>2, <5>1, <2>1, <3>4 DEF CountIn
      <4> QED BY <4>1, <4>2
    <3>7. JournalOK(z)'
      <4>1. /\ Len(Append(journal[z], e)) = Len(journal[z]) + 1
            /\ DOMAIN Append(journal[z], e) = 1..(Len(journal[z]) + 1)
            /\ DOMAIN journal[z] = 1..Len(journal[z]) /\ Len(journal[z]) \in Nat
            /\ Append(journal[z], e)[Len(journal[z]) + 1] = e
            /\ \A i \in 1..Len(journal[z]) : Append(journal[z], e)[i] = journal[z][i]
        BY <1>2
      <4>2. Len(journal[z]) = live[z].rev
        BY <3>1 DEF JournalOK
      <4>3. ASSUME NEW i \in 1..(Len(journal[z]) + 1)
            PROVE  /\ Append(journal[z], e)[i].prev = i - 1
                   /\ Append(journal[z], e)[i].next = i
        <5>1. CASE i = Len(journal[z]) + 1
          BY <5>1, <4>1, <4>2, <2>1, <3>2
        <5>2. CASE i # Len(journal[z]) + 1
          <6>1. i \in 1..Len(journal[z])
            BY <5>2, <4>1
          <6> QED BY <6>1, <4>1, <3>1 DEF JournalOK
        <5> QED BY <5>1, <5>2
      <4> QED BY <4>1, <4>2, <4>3, <2>1, <2>2 DEF JournalOK
    <3>8. CountsOK(z)'
      <4>1. ASSUME NEW n \in Slices
            PROVE  CountIn(y, n) = seeded[z][n] + (Replayed(z, n)')
        <5>1. /\ CountIn(live[z], n) = CountIn(store[z], n)
              /\ CountIn(store[z], n) = seeded[z][n] + Replayed(z, n)
          BY <3>1 DEF Copies, CountsOK
        <5>2. seeded[z][n] \in Nat /\ WrittenTo(n, acts) \in Nat /\ Replayed(z, n) \in Nat
          BY <1>1, WrittenNat, FS_CardinalityType
             DEF SessionsTypeOK, Replayed, RecordsOK, JournalsFinite
        <5> QED BY <5>1, <5>2, <2>3, <3>6
      <4> QED BY <4>1, <1>3, <2>2 DEF CountsOK, CountIn
    <3>9. LiveOK(z)'
      BY <1>5, <1>6, <2>1, <2>2, <3>2, <3>5 DEF LiveOK, Copies, CountIn
    <3>10. HydratingOK(z)'
      <4>1. ASSUME NEW q \in Calls, call'[q].at = "hydrating", call'[q].sid = z
            PROVE  Copies(z, call[q].got)'
        <5>1. Copies(z, call[q].got)
          BY <4>1, <3>1, <1>3 DEF DataOK, HydratingOK
        <5>2. call[q].got.rev \in Nat
          BY <4>1, <1>1, <1>3, SnapshotFields
             DEF FlowOK, CallsOK, CallOK, SessionsTypeOK, CallStates
        <5>3. call[q].got.rev < y.rev
          BY <5>1, <5>2, <2>1, <3>1, <3>2 DEF Copies
        <5>4. y.rev \in Nat
          BY <2>1, <3>2
        <5> QED BY <5>1, <5>2, <5>3, <5>4, <1>3, <1>6, <2>2 DEF Copies
      <4> QED BY <4>1, <1>3 DEF HydratingOK
    <3> QED BY <3>7, <3>8, <3>9, <3>10 DEF DataOK
  <2>8. ASSUME NEW s \in Sessions \ clashed, store'[s] # None
        PROVE  DataOK(s)'
    <3>1. CASE s = z
      BY <3>1, <2>7, <2>8
    <3>2. CASE s # z
      BY <3>2, <2>6, <2>2, <2>8
    <3> QED BY <3>1, <3>2
  <2>9. StoredOK'
    BY <1>3, <2>8 DEF StoredOK
  <2> QED BY <2>5, <2>9 DEF RecordsOK
<1> QED BY <1>4, <1>7, <1>8

LEMMA AnyTurnRecords ==
  ASSUME RecordsOK, SessionsOK, loaded \in Seq(Installable), NEW s \in Sessions,
         NEW acts \in ActSets(LoadedModules), PlayerTurn(s, acts) \/ SystemTurn(s, acts)
  PROVE  RecordsOK'
<1>1. IsFiniteSet(acts) /\ live[s] # None /\ SessionsTypeOK
  BY ActsFinite DEF PlayerTurn, SystemTurn, Served, SessionsOK
<1>2. live[s].pending \in SUBSET Reasons
  BY <1>1, SnapshotFields DEF SessionsTypeOK
<1>3. CASE PlayerTurn(s, acts)
  BY <1>1, <1>2, <1>3, TurnRecords DEF PlayerTurn
<1>4. CASE SystemTurn(s, acts)
  <2>1. PICK reason : Turn(s, acts, "system", live[s].pending \ {reason})
    BY <1>4 DEF SystemTurn
  <2>2. live[s].pending \ {reason} \in SUBSET Reasons
    BY <1>2
  <2> QED BY <2>1, <2>2, <1>1, TurnRecords
<1> QED BY <1>3, <1>4

\* A save stores what is live, which is what is stored but for the queue.
LEMMA SaveRecords ==
  ASSUME RecordsOK, SessionsOK, NEW z \in Sessions, SaveSession(z)
  PROVE  RecordsOK'
<1>1. SessionsTypeOK /\ FlowOK /\ live[z] # None /\ store[z] # None
  BY DEF SessionsOK, SaveSession, Served, FlowOK, SavedFirst
<1>2. /\ store' = [store EXCEPT ![z] = live[z]]
      /\ UNCHANGED <<live, journal, call, seeded, clashed, loaded>>
  BY DEF SaveSession, Upsert, ghosts, registryVars
<1>3. store'[z] = live[z] /\ \A s \in Sessions \ {z} : store'[s] = store[s]
  BY <1>1, <1>2 DEF SessionsTypeOK
<1>4. JournalsFinite'
  BY <1>2 DEF RecordsOK, JournalsFinite, Commands, Entries
<1>5. ASSUME NEW s \in Sessions \ clashed, store[s] # None
      PROVE  DataOK(s)'
  <2>1. DataOK(s)
    BY <1>5 DEF RecordsOK, StoredOK
  <2>2. CASE s # z
    BY <2>1, <2>2, <1>2, <1>3, DataKept
  <2>3. CASE s = z
    <3>1. /\ live[z].rev = store[z].rev
          /\ \A n \in Slices : CountIn(live[z], n) = CountIn(store[z], n)
      BY <2>1, <2>3, <1>1 DEF DataOK, LiveOK, Copies
    <3>2. OwnedSlices' = OwnedSlices
      BY <1>2 DEF OwnedSlices, WithSlice, LoadedModules
    <3>3. JournalOK(z)'
      BY <2>1, <2>3, <1>2, <1>3, <3>1 DEF DataOK, JournalOK
    <3>4. CountsOK(z)'
      BY <2>1, <2>3, <1>2, <1>3, <3>1 DEF DataOK, CountsOK, CountIn, Replayed, Commands,
                                          Entries
    <3>5. LiveOK(z)'
      BY <2>1, <2>3, <1>2, <1>3, <3>1, <3>2 DEF DataOK, LiveOK, Copies, CountIn
    <3>6. HydratingOK(z)'
      <4>1. ASSUME NEW q \in Calls, call[q].at = "hydrating", call[q].sid = z
            PROVE  Copies(z, call[q].got)'
        <5>1. Copies(z, call[q].got)
          BY <4>1, <2>1, <2>3 DEF DataOK, HydratingOK
        <5> QED BY <5>1, <1>2, <1>3, <3>1, <3>2 DEF Copies, CountIn
      <4> QED BY <4>1, <1>2 DEF HydratingOK
    <3> QED BY <2>3, <3>3, <3>4, <3>5, <3>6 DEF DataOK
  <2> QED BY <2>2, <2>3
<1>6. ASSUME NEW s \in Sessions \ clashed, store'[s] # None
      PROVE  DataOK(s)'
  BY <1>5, <1>6, <1>1, <1>3
<1>7. StoredOK'
  BY <1>2, <1>6 DEF StoredOK
<1> QED BY <1>4, <1>7 DEF RecordsOK

\* The whole invariant.
LifecycleInvariant == LoadsOK /\ RecordsOK

LEMMA LifecycleSteps ==
  ASSUME LifecycleInvariant, [LifecycleNext]_lifecycleVars
  PROVE  LifecycleInvariant'
<1> SUFFICES RecordsOK'
  BY LoadsSteps DEF LifecycleInvariant
<1>2. /\ loaded \in Seq(Installable) /\ SessionsOK /\ RecordsOK /\ EngineOK
      /\ SessionsTypeOK /\ FlowOK
  BY DEF LifecycleInvariant, LoadsOK, EngineOK, RegistryOK, RegistryTypeOK, SessionsOK
<1>3. ASSUME NEW r \in Calls,
             CreateCall(r) \/ StartSession(r) \/ StartFails(r) \/ BindSession(r)
             \/ BindFails(r) \/ ReadSession(r) \/ SetLive(r) \/ LoadFails(r)
             \/ AttachSession(r) \/ \E s \in Sessions : LoadCall(r, s)
      PROVE  RecordsOK'
  BY <1>2, <1>3, QuietRequests, StartRecords, ReadRecords, SetLiveRecords
<1>4. ASSUME NEW s \in Sessions, NEW acts \in ActSets(LoadedModules),
             PlayerTurn(s, acts) \/ SystemTurn(s, acts)
      PROVE  RecordsOK'
  BY <1>2, <1>4, AnyTurnRecords
<1>5. ASSUME NEW z \in Sessions, DeleteSession(z)
      PROVE  RecordsOK'
  <2>1. UNCHANGED <<store, journal, seeded, clashed>> /\ UNCHANGED <<call, loaded>>
    BY <1>5 DEF DeleteSession, onDisk, ghosts, registryVars
  <2>2. \A s \in Sessions : live'[s] = None \/ live'[s] = live[s]
    BY <1>2, <1>5 DEF DeleteSession, SessionsTypeOK
  <2> QED BY <1>2, <2>1, <2>2, QuietStep
<1>6. CASE SessionNext
  <2>1. ASSUME NEW s \in Sessions, SaveSession(s) \/ DeleteSession(s)
        PROVE  RecordsOK'
    BY <2>1, <1>2, <1>5, SaveRecords
  <2> QED BY <1>3, <1>4, <1>6, <2>1 DEF SessionNext
<1>7. CASE HostBootNext /\ UNCHANGED sessionVars
  <2>1. NothingServed
    BY <1>2, <1>7, NoBootWhileServing DEF FlowOK
  <2>2. UNCHANGED <<store, journal, seeded, clashed>> /\ UNCHANGED <<live, call>>
    BY <1>7 DEF sessionVars
  <2>3. \A s \in Sessions : live'[s] = None
    BY <2>1, <2>2 DEF NothingServed
  <2>4. \A r \in Calls : call'[r].at # "hydrating"
    BY <2>1, <2>2 DEF NothingServed, Idle
  <2> QED BY <1>2, <2>2, <2>3, <2>4, QuietStep
<1>8. CASE Forget
  <2>1. UNCHANGED <<store, journal, seeded, clashed>>
    BY <1>8 DEF Forget, onDisk, ghosts
  <2>2. \A s \in Sessions : live'[s] = None
    BY <1>8 DEF Forget
  <2>3. \A r \in Calls : call'[r].at # "hydrating"
    BY <1>8 DEF Forget, Idle
  <2> QED BY <1>2, <2>1, <2>2, <2>3, QuietStep
<1>9. CASE UNCHANGED lifecycleVars
  <2>1. UNCHANGED <<store, journal, seeded, clashed>> /\ UNCHANGED <<live, call, loaded>>
    BY <1>9 DEF lifecycleVars, sessionVars, registryVars
  <2> QED BY <1>2, <2>1, QuietStep
<1> QED BY <1>6, <1>7, <1>8, <1>9 DEF LifecycleNext

LEMMA LifecycleStart == ASSUME LifecycleInit PROVE LifecycleInvariant
<1>1. \A s \in Sessions : journal[s] = <<>> /\ store[s] = None
  BY DEF LifecycleInit, SessionsInit
<1>2. \A s \in Sessions, n \in Slices : Commands(s, n) = {}
  BY <1>1 DEF Commands, Entries
<1>3. RecordsOK
  BY <1>1, <1>2, FS_EmptySet DEF RecordsOK, JournalsFinite, StoredOK
<1> QED BY <1>3, LoadsInit DEF LifecycleInvariant

\* What the invariant says of a stored session is what is promised of it.
LEMMA KeptData == ASSUME LifecycleInvariant PROVE SlicesKeepTheirData
<1>1. RecordsOK /\ SessionsTypeOK
  BY DEF LifecycleInvariant, LoadsOK, SessionsOK
<1> SUFFICES ASSUME NEW s \in Sessions \ clashed, store[s] # None
             PROVE  /\ \A n \in Slices : StoredCommands(s, n) = seeded[s][n] + Replayed(s, n)
                    /\ JournalReplays(s)
  BY DEF SlicesKeepTheirData
<1>2. JournalOK(s) /\ CountsOK(s)
  BY <1>1 DEF RecordsOK, StoredOK, DataOK
<1>3. \A n \in Slices : StoredCommands(s, n) = seeded[s][n] + Replayed(s, n)
  BY <1>2 DEF CountsOK, CountIn, StoredCommands
<1>4. MatchesLive(s)
  BY <1>2 DEF JournalOK, MatchesLive, Entries, Stored
<1>5. ASSUME \A n \in Slices : StoredCommands(s, n) > 0 => n \in OwnedSlices
      PROVE  Replays(s)
  <2>1. ASSUME NEW i \in DOMAIN journal[s], NEW n \in Slices, journal[s][i].wrote[n] > 0
        PROVE  n \in OwnedSlices
    <3>0. journal[s] \in Seq(Entry)
      BY <1>1 DEF SessionsTypeOK
    <3>7. journal[s][i] \in Entry
      BY <3>0, <2>1
    <3>1. journal[s][i].wrote[n] \in Nat
      BY <3>7 DEF Entry
    <3>6. seeded[s][n] \in Nat
      BY <1>1 DEF SessionsTypeOK
    <3>2. IsFiniteSet(CommandsIn(journal[s], n))
      BY <1>1 DEF RecordsOK, JournalsFinite, Commands, CommandsIn, Entries
    <3>3. Cardinality(CommandsIn(journal[s], n)) \in Nat \ {0}
      BY <2>1, <3>1, <3>2, EntryReplayed
    <3>4. Replayed(s, n) \in Nat \ {0}
      BY <3>3 DEF Replayed, Commands, CommandsIn, Entries
    <3>5. StoredCommands(s, n) > 0
      BY <1>3, <3>6, <3>4
    <3> QED BY <3>5, <1>5
  <2> QED BY <2>1, <1>2 DEF Replays, JournalOK, Entries
<1> QED BY <1>3, <1>4, <1>5 DEF JournalReplays

\* Over boots with other modules, crashes, failing requests, migrations and
\* saves: what a stored slice holds is what the seeds and the turns of the
\* journal wrote to it, and the journal replays to its revision, unless a load
\* made the session live from a snapshot that was no longer the stored one
\* (commitTurn, loadSession, save, replaySessionJournal).
THEOREM SlicesAreKept == LifecycleSpec => []SlicesKeepTheirData
<1>1. LifecycleInit => LifecycleInvariant
  BY LifecycleStart
<1>2. LifecycleInvariant /\ [LifecycleNext]_lifecycleVars => LifecycleInvariant'
  BY LifecycleSteps
<1>3. LifecycleInvariant => SlicesKeepTheirData
  BY KeptData
<1> QED BY <1>1, <1>2, <1>3, PTL DEF LifecycleSpec
=============================================================================
