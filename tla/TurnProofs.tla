----------------------------- MODULE TurnProofs -----------------------------
(***************************************************************************)
(* Proofs about one turn, for every configuration, kind of turn, set of    *)
(* commands, conflict keys, tasks and subscriptions, and every cap: first  *)
(* the dispatch of the events of modules (EventDispatch), then the stages  *)
(* (TurnStages).                                                           *)
(***************************************************************************)
EXTENDS TurnProperties, SequenceTheorems, FiniteSetTheorems,
        WellFoundedInduction, TLAPS

-----------------------------------------------------------------------------
(* The dispatch of events, however many a handler or the turn emits        *)

\* The queue holds at most two depths at a time, that of the event being
\* delivered and the next; the dispatch stops for good at a cap.
EventInvariant ==
  /\ EventsTypeOK
  /\ BreadthFirst
  /\ \A i, j \in DOMAIN evQueue : evQueue[i].depth <= evQueue[j].depth + 1
  /\ evStep = "deliver" =>
       /\ evDepth <= MaxDepth
       /\ \A i \in DOMAIN evQueue : evQueue[i].depth \in {evDepth, evDepth + 1}
  /\ breach # "none" => evStep = "done"
  /\ breach = "depth" => \A i \in DOMAIN evQueue : evQueue[i].depth > MaxDepth

-----------------------------------------------------------------------------
(* Lemmas about the queue                                                  *)

\* Events put at a depth are a queue of that depth.
LEMMA AtDepthType ==
  ASSUME NEW es \in Seq(Events), NEW d \in Nat
  PROVE  /\ AtDepth(es, d) \in Seq(Queued)
         /\ DOMAIN AtDepth(es, d) = 1..Len(es)
         /\ Len(AtDepth(es, d)) = Len(es)
         /\ \A i \in DOMAIN AtDepth(es, d) : AtDepth(es, d)[i].depth = d
PROOF
  <1>1. AtDepth(es, d) = [i \in 1..Len(es) |-> [name |-> es[i], depth |-> d]]
    BY DEF AtDepth
  <1>2. \A i \in 1..Len(es) : [name |-> es[i], depth |-> d] \in Queued
    BY DEF Queued
  <1>3. AtDepth(es, d) \in [1..Len(es) -> Queued]
    BY <1>1, <1>2
  <1>4. AtDepth(es, d) \in Seq(Queued) /\ Len(AtDepth(es, d)) = Len(es)
    BY <1>3, SeqDef, LenProperties
  <1> QED
    BY <1>1, <1>4

\* What an emission is made of.
LEMMA EmissionType == Emissions \subseteq Seq(Events)
PROOF
  <1> SUFFICES ASSUME NEW es \in Emissions
               PROVE  es \in Seq(Events)
    OBVIOUS
  <1>1. PICK n \in 0..MaxEmits : es \in [1..n -> Events]
    BY DEF Emissions
  <1>2. n \in Nat
    BY <1>1, EventAssumption
  <1> QED
    BY <1>1, <1>2

-----------------------------------------------------------------------------
(* The inductive invariant                                                 *)

LEMMA EventInitInvariant == EventsInit => EventInvariant
PROOF
  <1> SUFFICES ASSUME EventsInit
               PROVE  EventInvariant
    OBVIOUS
  <1>1. EventsTypeOK
    <2>1. /\ evQueue \in Seq(Queued) /\ extras \in Seq(Events)
          /\ waiting \in Seq(Modules)
      BY EmptySeq DEF EventsInit
    <2>2. burst \in 0..MaxBurst
      BY EventAssumption DEF EventsInit
    <2> QED
      BY <2>1, <2>2 DEF EventsInit, EventsTypeOK
  <1>2. evQueue = <<>> /\ DOMAIN evQueue = {}
    BY DEF EventsInit
  <1> QED
    BY <1>1, <1>2 DEF EventsInit, EventInvariant, BreadthFirst

LEMMA EventTypeStep ==
  ASSUME EventsTypeOK,
         \/ EventsNext
         \/ \E es \in Seq(Events), player \in BOOLEAN, asked \in SUBSET Modules :
              StartDispatch(es, player, asked)
         \/ UNCHANGED evVars
  PROVE  EventsTypeOK'
PROOF
  <1> USE EventAssumption DEF EventsTypeOK
  <1>1. CASE QueueEmpty \/ CutBurst
    BY <1>1 DEF QueueEmpty, CutBurst
  <1>2. CASE TakeEvent
    <2>1. Head(evQueue) \in Queued /\ Tail(evQueue) \in Seq(Queued)
      BY <1>2 DEF TakeEvent
    <2>2. Head(evQueue).depth \in Nat /\ Head(evQueue).name \in Events
      BY <2>1 DEF Queued
    <2>3. Subscribers[Head(evQueue).name] \in Seq(Modules)
      BY <2>2
    <2>4. burst + 1 \in 0..MaxBurst
      BY <1>2 DEF TakeEvent, BurstLeft
    <2> QED
      BY <1>2, <2>1, <2>2, <2>3, <2>4 DEF TakeEvent
  <1>3. CASE Cascade
    <2>1. AtDepth(extras, evDepth + 1) \in Seq(Queued)
      BY AtDepthType
    <2> QED
      BY <1>3, <2>1 DEF Cascade, CascadesLast
  <1>4. ASSUME NEW es \in Emissions, NEW schedules \in BOOLEAN,
               Deliver(es, schedules)
        PROVE  EventsTypeOK'
    <2>1. extras \o es \in Seq(Events)
      BY EmissionType
    <2>2. Head(waiting) \in Modules /\ Tail(waiting) \in Seq(Modules)
      BY <1>4 DEF Deliver
    <2>3. pending' \subseteq Modules
      BY <1>4, <2>2 DEF Deliver
    <2> QED
      BY <1>4, <2>1, <2>2, <2>3 DEF Deliver
  <1>5. ASSUME NEW es \in Seq(Events), NEW player \in BOOLEAN,
               NEW asked \in SUBSET Modules, StartDispatch(es, player, asked)
        PROVE  EventsTypeOK'
    <2>1. AtDepth(es, 0) \in Seq(Queued)
      BY AtDepthType
    <2> QED
      BY <1>5, <2>1 DEF StartDispatch
  <1>6. CASE UNCHANGED evVars
    BY <1>6 DEF evVars
  <1> QED
    BY <1>1, <1>2, <1>3, <1>4, <1>5, <1>6 DEF EventsNext

LEMMA EventInvariantStep ==
  ASSUME EventInvariant,
         \/ EventsNext
         \/ \E es \in Seq(Events), player \in BOOLEAN, asked \in SUBSET Modules :
              StartDispatch(es, player, asked)
         \/ UNCHANGED evVars
  PROVE  EventInvariant'
PROOF
  <1> USE EventAssumption
  <1>0. EventsTypeOK /\ EventsTypeOK'
    BY EventTypeStep DEF EventInvariant
  <1>d. \A i \in DOMAIN evQueue : evQueue[i] \in Queued /\ evQueue[i].depth \in Nat
    <2>1. \A q \in Queued : q.depth \in Nat
      BY DEF Queued
    <2>2. \A i \in DOMAIN evQueue : evQueue[i] \in Queued
      BY <1>0 DEF EventsTypeOK
    <2> QED
      BY <2>1, <2>2
  <1>1. CASE QueueEmpty \/ CutBurst
    BY <1>0, <1>1 DEF QueueEmpty, CutBurst, EventInvariant, BreadthFirst
  <1>2. CASE TakeEvent
    <2>1. /\ evQueue # <<>> /\ evQueue' = Tail(evQueue)
          /\ evDepth' = evQueue[1].depth /\ breach = "none"
          /\ 1 \in DOMAIN evQueue
      BY <1>0, <1>2 DEF TakeEvent, EventsTypeOK, EventInvariant
    <2>2. \A i \in DOMAIN evQueue' :
            i + 1 \in DOMAIN evQueue /\ evQueue'[i] = evQueue[i + 1] /\ i \in Nat
      BY <1>0, <2>1 DEF EventsTypeOK
    <2>3. BreadthFirst'
      BY <2>2 DEF BreadthFirst, EventInvariant
    <2>4. \A i, j \in DOMAIN evQueue' : evQueue'[i].depth <= evQueue'[j].depth + 1
      BY <2>2 DEF EventInvariant
    <2>5. \A i \in DOMAIN evQueue' :
            /\ evDepth' <= evQueue'[i].depth
            /\ evQueue'[i].depth <= evDepth' + 1
            /\ evQueue'[i].depth \in Nat
      <3> SUFFICES ASSUME NEW i \in DOMAIN evQueue'
                   PROVE  /\ evDepth' <= evQueue'[i].depth
                          /\ evQueue'[i].depth <= evDepth' + 1
                          /\ evQueue'[i].depth \in Nat
        OBVIOUS
      <3>0. i \in Nat /\ i >= 1
        BY <1>0 DEF EventsTypeOK
      <3>1. i + 1 \in DOMAIN evQueue /\ evQueue'[i] = evQueue[i + 1] /\ 1 < i + 1
        BY <2>2, <3>0
      <3> QED
        BY <1>d, <2>1, <3>1 DEF EventInvariant, BreadthFirst
    <2>6. evDepth' \in Nat
      BY <1>0 DEF EventsTypeOK
    <2>7. CASE evDepth' > MaxDepth
      <3>1. evStep' = "done" /\ breach' = "depth"
        BY <1>2, <2>7 DEF TakeEvent
      <3>2. \A i \in DOMAIN evQueue' : evQueue'[i].depth > MaxDepth
        BY <2>5, <2>6, <2>7
      <3> QED
        BY <1>0, <2>3, <2>4, <3>1, <3>2 DEF EventInvariant
    <2>8. CASE ~(evDepth' > MaxDepth)
      <3>1. evStep' = "deliver" /\ breach' = "none" /\ evDepth' <= MaxDepth
        BY <1>2, <2>1, <2>6, <2>8 DEF TakeEvent
      <3>2. \A i \in DOMAIN evQueue' : evQueue'[i].depth \in {evDepth', evDepth' + 1}
        BY <2>5, <2>6
      <3> QED
        BY <1>0, <2>3, <2>4, <3>1, <3>2 DEF EventInvariant
    <2> QED
      BY <2>7, <2>8
  <1>3. CASE Cascade
    <2> DEFINE new == AtDepth(extras, evDepth + 1)
    <2>1. /\ evQueue' = evQueue \o new /\ evStep = "deliver" /\ evStep' = "take"
          /\ breach' = breach /\ breach = "none"
      BY <1>3 DEF Cascade, CascadesLast, EventInvariant
    <2>2. /\ new \in Seq(Queued)
          /\ \A i \in 1..Len(new) : new[i].depth = evDepth + 1
      <3>1. extras \in Seq(Events) /\ evDepth + 1 \in Nat
        BY <1>0 DEF EventsTypeOK
      <3> QED
        BY <3>1, AtDepthType
    <2> HIDE DEF new
    <2>3. \A i \in DOMAIN evQueue' :
            /\ i \in Nat
            /\ i <= Len(evQueue) => evQueue'[i] = evQueue[i] /\ i \in DOMAIN evQueue
            /\ i > Len(evQueue) => /\ evQueue'[i] = new[i - Len(evQueue)]
                                   /\ i - Len(evQueue) \in 1..Len(new)
      BY <1>0, <2>1, <2>2 DEF EventsTypeOK
    <2>4. evDepth \in Nat /\ Len(evQueue) \in Nat
      BY <1>0 DEF EventsTypeOK
    <2>5. \A i \in DOMAIN evQueue' :
            /\ i <= Len(evQueue) => evQueue'[i].depth \in {evDepth, evDepth + 1}
            /\ i > Len(evQueue) => evQueue'[i].depth = evDepth + 1
      BY <2>1, <2>2, <2>3 DEF EventInvariant
    <2>6. BreadthFirst'
      <3> SUFFICES ASSUME NEW i \in DOMAIN evQueue', NEW j \in DOMAIN evQueue', i < j
                   PROVE  evQueue'[i].depth <= evQueue'[j].depth
        BY DEF BreadthFirst
      <3>1. CASE j <= Len(evQueue)
        BY <2>3, <2>4, <3>1 DEF EventInvariant, BreadthFirst
      <3>2. CASE j > Len(evQueue)
        BY <2>3, <2>4, <2>5, <3>2
      <3> QED
        BY <2>3, <2>4, <3>1, <3>2
    <2>7. \A i, j \in DOMAIN evQueue' : evQueue'[i].depth <= evQueue'[j].depth + 1
      BY <2>3, <2>4, <2>5
    <2> QED
      BY <1>0, <2>1, <2>6, <2>7 DEF EventInvariant
  <1>4. ASSUME NEW es \in Emissions, NEW schedules \in BOOLEAN,
               Deliver(es, schedules)
        PROVE  EventInvariant'
    BY <1>0, <1>4 DEF Deliver, EventInvariant, BreadthFirst
  <1>5. ASSUME NEW es \in Seq(Events), NEW player \in BOOLEAN,
               NEW asked \in SUBSET Modules, StartDispatch(es, player, asked)
        PROVE  EventInvariant'
    <2>1. \A i \in DOMAIN evQueue' : evQueue'[i].depth = 0
      BY <1>5, AtDepthType DEF StartDispatch
    <2>2. breach' = "none" /\ evStep' # "deliver"
      BY <1>5 DEF StartDispatch, EventInvariant
    <2> QED
      BY <1>0, <2>1, <2>2 DEF EventInvariant, BreadthFirst
  <1>6. CASE UNCHANGED evVars
    BY <1>0, <1>6 DEF evVars, EventInvariant, BreadthFirst
  <1> QED
    BY <1>1, <1>2, <1>3, <1>4, <1>5, <1>6 DEF EventsNext

-----------------------------------------------------------------------------
LEMMA EventsKeepInvariant == EventsSpec => []EventInvariant
PROOF
  <1>1. EventInvariant /\
        [\/ EventsNext
         \/ \E es \in Seq(Events), player \in BOOLEAN, asked \in SUBSET Modules :
              StartDispatch(es, player, asked)]_evVars => EventInvariant'
    BY EventInvariantStep
  <1> QED
    BY EventInitInvariant, <1>1, PTL DEF EventsSpec

\* Every variable of the dispatch keeps its type.
THEOREM EventsTyped == EventsSpec => []EventsTypeOK
PROOF
  <1>1. EventInvariant => EventsTypeOK
    BY DEF EventInvariant
  <1> QED
    BY EventsKeepInvariant, <1>1, PTL

\* Events are delivered breadth first: none waits behind a deeper one.
THEOREM EventsBreadthFirst == EventsSpec => []BreadthFirst
PROOF
  <1>1. EventInvariant => BreadthFirst
    BY DEF EventInvariant
  <1> QED
    BY EventsKeepInvariant, <1>1, PTL

\* The caps on the events of one turn (turn-pipeline.ts 2333-2358) hold, and
\* the depth cap drops only events that are too deep.
THEOREM EventCaps == EventsSpec => []EventCapsHold
PROOF
  <1>1. EventInvariant => EventCapsHold
    BY EventAssumption DEF EventInvariant, EventsTypeOK, EventCapsHold
  <1> QED
    BY EventsKeepInvariant, <1>1, PTL
-----------------------------------------------------------------------------
(* Conflicts between commands                                              *)

\* A set of natural numbers with a member has a least one.
LEMMA LeastNumber ==
  ASSUME NEW T, T \subseteq Nat, T # {}
  PROVE  \E m \in T : \A n \in T : m <= n
PROOF
  <1>1. \E x \in T : \A y \in T : ~(<<y, x>> \in OpToRel(<, Nat))
    BY NatLessThanWellFounded, WFMin
  <1>2. PICK x \in T : \A y \in T : ~(<<y, x>> \in OpToRel(<, Nat))
    BY <1>1
  <1>3. \A y \in T : ~(y < x)
    BY <1>2 DEF OpToRel
  <1> QED
    BY <1>3

\* Commands that do not clash are one at most.
LEMMA NoClashIsOne ==
  ASSUME NEW S, IsFiniteSet(S), ~Clash(S), NEW c \in S, NEW d \in S
  PROVE  c = d
PROOF
  <1> SUFFICES ASSUME c # d PROVE FALSE
    OBVIOUS
  <1>1. IsFiniteSet({c}) /\ Cardinality({c}) = 1
    BY FS_Singleton
  <1>2. Cardinality({c} \cup {d}) = 2
    <2>1. d \notin {c}
      OBVIOUS
    <2>2. Cardinality({c} \cup {d}) = Cardinality({c}) + 1
      BY <1>1, <2>1, FS_AddElement
    <2> QED
      BY <1>1, <2>2
  <1>3. {c} \cup {d} \in SUBSET S
    OBVIOUS
  <1>4. Cardinality({c} \cup {d}) <= Cardinality(S) /\ Cardinality(S) \in Nat
    BY <1>3, FS_Subset, FS_CardinalityType
  <1> QED
    BY <1>2, <1>4 DEF Clash

\* What is left of the commands cs once the keys up to the n-th are resolved: no
\* command but those of cs and of the resolvers' answers; no two of cs on a key,
\* but answers; and nothing has changed where nothing clashed.
Resolved(r, cs, n) ==
  /\ r = [cmds |-> r.cmds, own |-> r.own]
  /\ r.own \subseteq Commands /\ r.cmds \subseteq cs \cup r.own
  /\ \A i \in 1..n : \A c, d \in (r.cmds \ r.own) \cap ConflictKeys[i] : c = d
  /\ (\A i \in 1..n : ~Clash(cs \cap ConflictKeys[i])) => r = AsProposed(cs)

\* Resolving one key more.
LEMMA ResolvedForKey ==
  ASSUME NEW cs, IsFiniteSet(cs), IsFiniteSet(Commands), NEW n \in Nat, n # 0,
         NEW r, Resolved(r, cs, n - 1), NEW out \in ResolvedFor(ConflictKeys[n], r)
  PROVE  Resolved(out, cs, n)
PROOF
  <1> DEFINE key == ConflictKeys[n]
  <1>1. \A i \in 1..n : i \in 1..(n - 1) \/ i = n
    OBVIOUS
  <1>2. IsFiniteSet(r.cmds \cap key)
    <2>1. IsFiniteSet(cs \cup Commands)
      BY FS_Union
    <2>2. r.cmds \cap key \in SUBSET (cs \cup Commands)
      BY DEF Resolved
    <2> QED
      BY <2>1, <2>2, FS_Subset
  <1>3. n \in 1..n /\ 1..(n - 1) \subseteq 1..n
    OBVIOUS
  <1>4. CASE ~Clash(r.cmds \cap key)
    <2>1. out = r
      BY <1>4 DEF ResolvedFor
    <2>2. \A c, d \in (r.cmds \ r.own) \cap key : c = d
      BY <1>2, <1>4, NoClashIsOne
    <2> HIDE DEF key
    <2>3. \A i \in 1..n : \A c, d \in (r.cmds \ r.own) \cap ConflictKeys[i] : c = d
      BY <1>1, <2>2 DEF Resolved, key
    <2> QED
      BY <1>3, <2>1, <2>3 DEF Resolved
  <1>5. CASE Clash(r.cmds \cap key)
    <2>1. PICK kept \in SUBSET Commands :
            out = [cmds |-> (r.cmds \ key) \cup kept, own |-> r.own \cup kept]
      BY <1>5 DEF ResolvedFor
    <2>2. out.cmds = (r.cmds \ key) \cup kept /\ out.own = r.own \cup kept
      BY <2>1
    <2>3. ~(\A i \in 1..n : ~Clash(cs \cap ConflictKeys[i]))
      <3> SUFFICES ASSUME \A i \in 1..n : ~Clash(cs \cap ConflictKeys[i])
                   PROVE  FALSE
        OBVIOUS
      <3>1. r = AsProposed(cs)
        BY <1>3 DEF Resolved
      <3> QED
        BY <1>3, <1>5, <3>1 DEF AsProposed
    <2>4. /\ out.cmds \ out.own \subseteq r.cmds \ r.own
          /\ (out.cmds \ out.own) \cap key = {}
      BY <2>2
    <2> HIDE DEF key
    <2>5. \A i \in 1..n : \A c, d \in (out.cmds \ out.own) \cap ConflictKeys[i] : c = d
      BY <1>1, <2>4 DEF Resolved, key
    <2>6. out.own \subseteq Commands /\ out.cmds \subseteq cs \cup out.own
      BY <2>2 DEF Resolved
    <2>7. out = [cmds |-> out.cmds, own |-> out.own]
      BY <2>1
    <2> QED
      BY <2>3, <2>5, <2>6, <2>7 DEF Resolved
  <1> QED
    BY <1>4, <1>5

\* What resolving the n-th key makes of each result of the keys before it.
ResolvedNext(R, n) == UNION {ResolvedFor(ConflictKeys[n], r) : r \in R}

\* The recursion over the keys has a solution, whatever their number.
LEMMA KeysInOrder ==
  ASSUME NEW cs, NEW N \in Nat
  PROVE  \E f : f = [n \in 0..N |->
                      IF n = 0 THEN {AsProposed(cs)} ELSE ResolvedNext(f[n - 1], n)]
PROOF
  <1> DEFINE Solves(f, m) ==
               f = [n \in 0..m |->
                      IF n = 0 THEN {AsProposed(cs)} ELSE ResolvedNext(f[n - 1], n)]
             Bad == {m \in Nat : ~ \E f : Solves(f, m)}
  <1>1. Bad = {}
    <2> SUFFICES ASSUME Bad # {} PROVE FALSE
      OBVIOUS
    <2>1. PICK m \in Bad : \A n \in Bad : m <= n
      <3>1. Bad \subseteq Nat
        OBVIOUS
      <3> HIDE DEF Bad
      <3> QED
        BY <3>1, LeastNumber
    <2>2. m \in Nat /\ (~ \E f : Solves(f, m))
      BY <2>1
    <2>3. \A k \in Nat : k < m => \E f : Solves(f, k)
      <3> HIDE DEF Solves
      <3> QED
        BY <2>1, <2>2
    <2> HIDE DEF Bad
    <2>4. m # 0
      <3>1. Solves([n \in 0..0 |-> {AsProposed(cs)}], 0)
        OBVIOUS
      <3> QED
        BY <2>2, <3>1
    <2>5. PICK g : Solves(g, m - 1)
      <3>1. m - 1 \in Nat /\ m - 1 < m
        BY <2>2, <2>4
      <3> HIDE DEF Solves
      <3> QED
        BY <2>3, <3>1
    <2> DEFINE h == [n \in 0..m |->
                       IF n = m THEN ResolvedNext(g[m - 1], m) ELSE g[n]]
    <2>6. \A n \in 0..m :
            h[n] = IF n = 0 THEN {AsProposed(cs)} ELSE ResolvedNext(h[n - 1], n)
      <3> SUFFICES ASSUME NEW n \in 0..m
                   PROVE  h[n] = IF n = 0 THEN {AsProposed(cs)} ELSE ResolvedNext(h[n - 1], n)
        OBVIOUS
      <3>1. n # 0 => h[n - 1] = g[n - 1]
        BY <2>2
      <3>2. CASE n = m
        BY <2>2, <2>4, <3>1, <3>2
      <3>3. CASE n # m
        <4>1. n \in 0..(m - 1)
          BY <2>2, <3>3
        <4>2. g[n] = IF n = 0 THEN {AsProposed(cs)} ELSE ResolvedNext(g[n - 1], n)
          BY <2>5, <4>1
        <4> QED
          BY <3>1, <3>3, <4>2
      <3> QED
        BY <3>2, <3>3
    <2>7. h = [n \in 0..m |-> h[n]]
      OBVIOUS
    <2> HIDE DEF h
    <2>8. Solves(h, m)
      BY <2>6, <2>7
    <2> QED
      BY <2>2, <2>8
  <1> QED
    BY <1>1

\* Whatever the keys and the order they are resolved in.
LEMMA ResolutionsApart ==
  ASSUME NEW cs, IsFiniteSet(cs), NEW out \in Resolutions(cs)
  PROVE  Resolved(out, cs, Len(ConflictKeys))
PROOF
  <1> DEFINE upTo == CHOOSE f : f = [n \in 0..Len(ConflictKeys) |->
                       IF n = 0 THEN {AsProposed(cs)} ELSE ResolvedNext(f[n - 1], n)]
             Bad == {n \in 0..Len(ConflictKeys) : ~ \A o \in upTo[n] : Resolved(o, cs, n)}
  <1>0. /\ Len(ConflictKeys) \in Nat /\ DOMAIN ConflictKeys = 1..Len(ConflictKeys)
        /\ IsFiniteSet(Commands)
    BY TurnAssumption
  <1>1. upTo = [n \in 0..Len(ConflictKeys) |->
                  IF n = 0 THEN {AsProposed(cs)} ELSE ResolvedNext(upTo[n - 1], n)]
    <2>1. \E f : f = [n \in 0..Len(ConflictKeys) |->
                        IF n = 0 THEN {AsProposed(cs)} ELSE ResolvedNext(f[n - 1], n)]
      BY <1>0, KeysInOrder
    <2> QED
      BY <2>1
  <1>2. out \in upTo[Len(ConflictKeys)]
    BY DEF Resolutions, ResolvedNext
  <1> HIDE DEF upTo
  <1>3. Bad = {}
    <2> SUFFICES ASSUME Bad # {} PROVE FALSE
      OBVIOUS
    <2>1. PICK n \in Bad : \A k \in Bad : n <= k
      <3>1. Bad \subseteq Nat
        BY <1>0
      <3> HIDE DEF Bad
      <3> QED
        BY <3>1, LeastNumber
    <2>2. PICK o \in upTo[n] : ~Resolved(o, cs, n)
      BY <2>1
    <2>3. n # 0
      <3>1. Resolved(AsProposed(cs), cs, 0)
        BY DEF Resolved, AsProposed
      <3>2. upTo[0] = {AsProposed(cs)}
        BY <1>0, <1>1
      <3> QED
        BY <2>2, <3>1, <3>2
    <2>4. n \in Nat /\ n - 1 \in 0..Len(ConflictKeys) /\ n - 1 \notin Bad
      BY <1>0, <2>1, <2>3
    <2>5. PICK r \in upTo[n - 1] : o \in ResolvedFor(ConflictKeys[n], r)
      BY <1>0, <1>1, <2>1, <2>2, <2>3 DEF ResolvedNext
    <2>6. Resolved(r, cs, n - 1)
      BY <2>4, <2>5
    <2> QED
      BY <1>0, <2>2, <2>3, <2>4, <2>5, <2>6, ResolvedForKey
  <1> QED
    BY <1>0, <1>2, <1>3

-----------------------------------------------------------------------------
(* The turn through its stages: the inductive invariant                    *)

\* How far the turn has come.
PastPropose ==
  \/ stage \in {"validate_commands", "narrate", "present", "commit", "after"}
  \/ stage = "propose" /\ step \in {"after", "postdrain"}
PastValidate ==
  \/ stage \in {"narrate", "present", "commit", "after"}
  \/ stage = "validate_commands" /\ step = "after"
PastNarrate ==
  \/ stage \in {"present", "commit", "after"}
  \/ stage = "narrate" /\ step \in {"after", "postdrain"}
PastCommit == stage = "after" \/ (stage = "commit" /\ step = "after")

\* Each step belongs to its stages.
StepsFit ==
  /\ step = "start" => stage = "begin"
  /\ step = "predrain" => stage \in {"propose", "narrate"}
  /\ step = "plandrain" => stage = "plan"
  /\ step = "postdrain" => AgentQueueOpen
  /\ step \in {"voices", "brief", "writing"} =>
       stage = "narrate" /\ kind = "player"
  /\ step = "materialize" => stage = "present"

\* A turn is pending exactly until the stage "after", or until it fails in the
\* stage it has reached.
OutcomeFits ==
  /\ outcome = "pending" <=> (step = "start" \/ (InStage /\ stage # "after"))
  /\ outcome = "committed" => stage = "after"
  /\ outcome = "rejected" => ~InStage /\ failure = stage /\ stage # "after"
  /\ step = "rejecting" => outcome = "rejected"

\* The draft is open in the stages up to the commit and holds what was accepted.
DraftFits ==
  /\ draft.open <=> (InStage /\ ~PastCommit)
  /\ draft.open => draft.cmds = accepted
  /\ step = "start" => accepted = {}

\* State, journal entry and announcement come together, in the commit stage.
CommitFits ==
  /\ "committed" \in told => stage \in {"commit", "after"}
  /\ PastCommit => "committed" \in told
  /\ "committed" \notin told => published = {} /\ journal = {}
  /\ "committed" \in told =>
       published = accepted /\ (config.perTurn => journal = accepted)

\* A command is accepted, dropped or late, and bumpTurn is no exception.
CommandsFit ==
  /\ proposed \cup accepted \subseteq Permitted \cup {Bump} \cup brought
  /\ kind = "restore" => Bump \notin proposed \cup accepted
  /\ kind # "restore" /\ PastPropose => Bump \in proposed \cup dropped
  /\ kind # "restore" /\ PastValidate => Bump \in accepted \cup dropped
  /\ PastValidate => proposed \subseteq accepted \cup late
  /\ (step = "start" \/ InStage) /\ ~PastValidate => brought = {}

\* Each stage that queues tasks also drains them, and the critics decide before
\* the narrator's stage is left.
AgentsFit ==
  /\ outcome # "rejected" => failed = {} /\ (AgentQueueOpen \/ queued = {})
  /\ kind = "restore" => ran = {}
  /\ round <= config.retries
  /\ PastNarrate /\ kind = "player" =>
       \/ verdict = "ok"
       \/ verdict = "overruled" /\ ~config.strict /\ round = config.retries

\* Only a player turn schedules system turns.
SchedulesFit ==
  scheduled # {} \/ books \/ pending # {} => kind = "player"

FlowFits == StepsFit /\ OutcomeFits /\ DraftFits /\ CommitFits
WorkFits == CommandsFit /\ AgentsFit /\ SchedulesFit /\ NoClashUnseen
StagesInvariant == StagesTypeOK /\ FlowFits /\ WorkFits
TurnInvariant == StagesInvariant /\ EventInvariant

LEMMA StagesInOrder ==
  /\ StageNames = {"begin", "normalize", "intent", "guard", "plan", "propose",
                   "validate_commands", "narrate", "present", "commit", "after"}
  /\ StageAfter("begin") = "normalize" /\ StageAfter("normalize") = "intent"
  /\ StageAfter("intent") = "guard" /\ StageAfter("guard") = "plan"
  /\ StageAfter("plan") = "propose"
  /\ StageAfter("propose") = "validate_commands"
  /\ StageAfter("validate_commands") = "narrate"
  /\ StageAfter("narrate") = "present" /\ StageAfter("present") = "commit"
  /\ StageAfter("commit") = "after"
PROOF
  <1>0. DOMAIN StageIds = 1..11 /\ Len(StageIds) = 11
    BY DEF StageIds
  <1>1. StageNames = {"begin", "normalize", "intent", "guard", "plan", "propose",
                      "validate_commands", "narrate", "present", "commit", "after"}
    BY <1>0 DEF StageNames, StageIds
  <1>2. ASSUME NEW i \in 1..10 PROVE StageAfter(StageIds[i]) = StageIds[i + 1]
    <2> DEFINE at == CHOOSE j \in 1..(Len(StageIds) - 1) : StageIds[j] = StageIds[i]
    <2>1. \A j \in 1..10 : StageIds[j] = StageIds[i] => j = i
      BY DEF StageIds
    <2>2. at = i
      BY <1>0, <2>1
    <2>3. StageAfter(StageIds[i]) = StageIds[1 + at]
      BY DEF StageAfter
    <2> HIDE DEF at
    <2> QED
      BY <2>2, <2>3
  <1> QED
    BY <1>1, <1>2 DEF StageIds

LEMMA DraftForms ==
  /\ Closed \in [open : BOOLEAN, cmds : SUBSET AllCommands]
  /\ Closed.open = FALSE
  /\ [open |-> TRUE, cmds |-> {}] \in [open : BOOLEAN, cmds : SUBSET AllCommands]
BY DEF Closed

\* The start of the turn, and what surrounds the body of a stage: interceptors,
\* the tasks they queue, the drains, a timeout.
LEMMA AroundSteps ==
  ASSUME StagesInvariant,
         \/ Start \/ BeforeDone \/ AfterDone \/ InterceptorFails \/ StageTimeout
         \/ \E t \in Tasks : EnqueueAgentTask(t)
         \/ \E c \in Commands : EnqueueCommands(c)
         \/ \E p \in {"predrain", "plandrain", "voices", "postdrain"} : Drain(p)
  PROVE  StagesInvariant'
PROOF
  <1> USE StagesInOrder, DraftForms, TurnAssumption
      DEF StagesInvariant, StagesTypeOK, FlowFits, WorkFits, StepsFit,
          OutcomeFits, DraftFits, CommitFits, CommandsFit, AgentsFit,
          SchedulesFit, NoClashUnseen, PastPropose, PastValidate,
          PastNarrate, PastCommit, AllCommands, AllTasks, StageSteps, InStage,
          AtBody, AgentQueueOpen, ProposeOpen, AfterIsIgnored, StageFails,
          StageGoesOn, StageEnds, keepFlow, keepTurn, AtInterceptors, flowVars,
          commandVars, lookVars, agentVars, evVars
  <1>1. CASE Start
    BY <1>1 DEF Start
  <1>2. CASE BeforeDone
    BY <1>2 DEF BeforeDone
  <1>3. CASE AfterDone
    BY <1>3 DEF AfterDone, DrainsAfterBody
  <1>4. CASE InterceptorFails
    BY <1>4 DEF InterceptorFails
  <1>5. CASE StageTimeout
    BY <1>5 DEF StageTimeout
  <1>6. ASSUME NEW t \in Tasks, EnqueueAgentTask(t) PROVE StagesInvariant'
    BY <1>6 DEF EnqueueAgentTask
  <1>7. ASSUME NEW c \in Commands, EnqueueCommands(c) PROVE StagesInvariant'
    BY <1>7 DEF EnqueueCommands
  <1>8. ASSUME NEW p \in {"predrain", "plandrain", "voices", "postdrain"},
               Drain(p)
        PROVE  StagesInvariant'
    BY <1>8 DEF Drain, MayRunAgents, RequiredFailed, StepAfterDrain
  <1> QED
    BY <1>1, <1>2, <1>3, <1>4, <1>5, <1>6, <1>7, <1>8

\* The bodies that touch no command.
LEMMA BodySteps ==
  ASSUME StagesInvariant,
         \/ SetUp \/ Normalize \/ Intent \/ Guard \/ Plan \/ Narrate \/ Brief
         \/ Present \/ After
  PROVE  StagesInvariant'
PROOF
  <1> USE StagesInOrder, DraftForms, TurnAssumption
      DEF StagesInvariant, StagesTypeOK, FlowFits, WorkFits, StepsFit,
          OutcomeFits, DraftFits, CommitFits, CommandsFit, AgentsFit,
          SchedulesFit, NoClashUnseen, PastPropose, PastValidate,
          PastNarrate, PastCommit, AllCommands, AllTasks, StageSteps, InStage,
          AtBody, AgentQueueOpen, ProposeOpen, AfterIsIgnored, StageFails,
          StageGoesOn, StageEnds, keepFlow, keepTurn, AtInterceptors, flowVars,
          commandVars, lookVars, agentVars, evVars
  <1>1. CASE SetUp
    BY <1>1 DEF SetUp, PlainBody
  <1>2. CASE Normalize
    BY <1>2 DEF Normalize, MayRunAgents
  <1>3. CASE Intent
    BY <1>3 DEF Intent, PlainBody
  <1>4. CASE Guard
    BY <1>4 DEF Guard, PlainBody
  <1>5. CASE Plan
    BY <1>5 DEF Plan, MayRunAgents, FreshTasks
  <1>6. CASE Narrate
    BY <1>6 DEF Narrate, FreshTasks
  <1>7. CASE Brief
    BY <1>7 DEF Brief
  <1>8. CASE Present
    BY <1>8 DEF Present
  <1>9. CASE After
    BY <1>9 DEF After
  <1> QED
    BY <1>1, <1>2, <1>3, <1>4, <1>5, <1>6, <1>7, <1>8, <1>9

\* The window for commands that need the passage.
LEMMA MaterializeStep ==
  ASSUME StagesInvariant, Materialize
  PROVE  StagesInvariant'
PROOF
  <1> SUFFICES ASSUME NEW cs \in SUBSET FreshCommands,
                      NEW aside \in SUBSET (FreshCommands \cap Permitted),
                      proposed' = proposed \cup aside, late' = late \cup aside,
                      \/ /\ cs \subseteq Permitted /\ step' = "after"
                         /\ draft' = [draft EXCEPT !.cmds = @ \cup cs]
                         /\ accepted' = AcceptedWith(cs) /\ unseen' = unseen \cup cs
                         /\ UNCHANGED <<outcome, failure>>
                      \/ StageFails /\ UNCHANGED <<accepted, unseen>>
               PROVE  StagesInvariant'
    BY DEF Materialize
  <1> USE StagesInOrder, DraftForms, TurnAssumption
      DEF StagesInvariant, StagesTypeOK, FlowFits, WorkFits, StepsFit,
          OutcomeFits, DraftFits, CommitFits, CommandsFit, AgentsFit,
          SchedulesFit, NoClashUnseen, PastPropose, PastValidate,
          PastNarrate, PastCommit, AllCommands, AllTasks, StageSteps, InStage,
          AtBody, AgentQueueOpen, ProposeOpen, AfterIsIgnored, StageFails,
          StageGoesOn, StageEnds, keepFlow, keepTurn, AtInterceptors, flowVars,
          commandVars, lookVars, agentVars, evVars
  <1>1. cs \subseteq Commands /\ aside \subseteq Permitted
    BY DEF FreshCommands
  <1>2. CASE StageFails /\ UNCHANGED <<accepted, unseen>>
    <2>1. StagesTypeOK'
      BY <1>1, <1>2 DEF Materialize
    <2>2. FlowFits'
      BY <1>2 DEF Materialize
    <2>3. WorkFits'
      BY <1>1, <1>2 DEF Materialize
    <2> QED
      BY <2>1, <2>2, <2>3
  <1>3. CASE /\ cs \subseteq Permitted /\ step' = "after"
             /\ draft' = [draft EXCEPT !.cmds = @ \cup cs]
             /\ accepted' = AcceptedWith(cs) /\ unseen' = unseen \cup cs
             /\ UNCHANGED <<outcome, failure>>
    <2>1. /\ draft' \in [open : BOOLEAN, cmds : SUBSET AllCommands]
          /\ draft'.open = draft.open /\ draft'.cmds = draft.cmds \cup cs
      BY <1>1, <1>3
    <2>2. StagesTypeOK'
      <3>1. /\ proposed' \subseteq AllCommands /\ accepted' \subseteq AllCommands
            /\ late' \subseteq Commands /\ unseen' \subseteq Commands
        BY <1>1, <1>3 DEF AcceptedWith
      <3>2. step' \in StageSteps /\ UNCHANGED <<outcome, failure>>
        BY <1>3
      <3> QED
        BY <2>1, <3>1, <3>2 DEF Materialize
    <2>3. FlowFits'
      BY <1>3, <2>1 DEF Materialize, AcceptedWith
    <2>4. WorkFits'
      BY <1>1, <1>3 DEF Materialize, AcceptedWith
    <2> QED
      BY <2>2, <2>3, <2>4
  <1> QED
    BY <1>2, <1>3

\* The bodies that propose, resolve, apply and commit commands, and the critics.
LEMMA CommandSteps ==
  ASSUME StagesInvariant,
         Propose \/ Validate \/ Write \/ Commit
  PROVE  StagesInvariant'
PROOF
  <1> USE StagesInOrder, DraftForms, TurnAssumption
      DEF StagesInvariant, StagesTypeOK, FlowFits, WorkFits, StepsFit,
          OutcomeFits, DraftFits, CommitFits, CommandsFit, AgentsFit,
          SchedulesFit, NoClashUnseen, PastPropose, PastValidate,
          PastNarrate, PastCommit, AllCommands, AllTasks, StageSteps, InStage,
          AtBody, AgentQueueOpen, ProposeOpen, AfterIsIgnored, StageFails,
          StageGoesOn, StageEnds, keepFlow, keepTurn, AtInterceptors, flowVars,
          commandVars, lookVars, agentVars, evVars
  <1>1. CASE Propose
    BY <1>1 DEF Propose, FreshCommands
  <1>2. CASE Validate
    <2>1. IsFiniteSet(proposed)
      <3>1. IsFiniteSet(Commands \cup {Bump})
        BY FS_AddElement
      <3> QED
        BY <3>1, FS_Subset
    <2>2. CASE StageFails /\ UNCHANGED <<proposed, accepted, dropped, late, lookVars>>
      BY <1>2, <2>2 DEF Validate
    <2>3. ASSUME NEW r \in Resolutions(proposed), ~Unresolved(proposed),
                 NEW aside \in Proposable(r), NEW more \in Proposable(r),
                 NEW tail \in Proposable(r), DryApply(r, aside, more, tail),
                 step' = "after", UNCHANGED <<outcome, failure>>
          PROVE  StagesInvariant'
      <3> USE DEF DryApply
      <3>1. /\ r.own \subseteq Commands /\ r.cmds \subseteq proposed \cup r.own
            /\ \A i \in DOMAIN ConflictKeys :
                 \A c, d \in (r.cmds \ r.own) \cap ConflictKeys[i] : c = d
            /\ r.own # {} => config.resolver
        <4>1. Resolved(r, proposed, Len(ConflictKeys))
          BY <2>1, ResolutionsApart
        <4>2. DOMAIN ConflictKeys = 1..Len(ConflictKeys)
          OBVIOUS
        <4>3. ~config.resolver => r = AsProposed(proposed)
          BY <2>3, <4>1, <4>2 DEF Resolved, Unresolved
        <4> QED
          BY <4>1, <4>2, <4>3 DEF Resolved, AsProposed
      <3>2. /\ more \subseteq Commands /\ more \subseteq Permitted
            /\ tail \subseteq Commands /\ tail \subseteq Permitted
            /\ aside \subseteq Commands
        BY DEF FreshCommands, Proposable
      <3>3. /\ draft' \in [open : BOOLEAN, cmds : SUBSET AllCommands]
            /\ draft'.open = draft.open /\ draft'.cmds = r.cmds \cup more
        BY <2>3, <3>1, <3>2
      <3>4. StagesTypeOK'
        <4>1. {proposed, accepted, dropped, published, journal}' \subseteq
                SUBSET AllCommands
          <5>1. /\ proposed' \subseteq AllCommands /\ accepted' \subseteq AllCommands
                /\ dropped' \subseteq AllCommands
            BY <2>3, <3>1, <3>2
          <5>2. UNCHANGED <<published, journal>>
            BY <1>2 DEF Validate
          <5> QED
            BY <5>1, <5>2
        <4>2. {late, brought, unseen}' \subseteq SUBSET Commands
          BY <2>3, <3>1, <3>2
        <4> QED
          BY <1>2, <2>3, <3>3, <4>1, <4>2 DEF Validate
      <3>5. FlowFits'
        BY <1>2, <2>3, <3>3 DEF Validate
      <3>6. CommandsFit'
        BY <1>2, <2>3, <3>1, <3>2 DEF Validate
      <3>7. NoClashUnseen'
        <4>1. accepted' \ (brought' \cup unseen') \subseteq r.cmds \ r.own
          BY <2>3
        <4>2. config' = config
          BY <1>2 DEF Validate
        <4> QED
          BY <2>3, <3>1, <4>1, <4>2
      <3>8. AgentsFit' /\ SchedulesFit'
        BY <1>2, <2>3 DEF Validate
      <3> QED
        BY <3>4, <3>5, <3>6, <3>7, <3>8
    <2> HIDE DEF StagesInvariant, StageFails, FreshCommands, lookVars
    <2> QED
      BY <1>2, <2>2, <2>3 DEF Validate
  <1>3. CASE Write
    <2>1. StagesTypeOK'
      BY <1>3 DEF Write
    <2>2. FlowFits'
      BY <1>3 DEF Write
    <2>3. config.retries \in Nat /\ round \in Nat
      BY DEF Config
    <2>4. AgentsFit'
      BY <1>3, <2>3 DEF Write, RetriesLeft
    <2>5. CommandsFit' /\ SchedulesFit' /\ NoClashUnseen'
      BY <1>3 DEF Write
    <2> QED
      BY <2>1, <2>2, <2>4, <2>5
  <1>4. CASE Commit
    <2>1. StagesTypeOK'
      <3>1. published' \subseteq AllCommands /\ journal' \subseteq AllCommands
        BY <1>4 DEF Commit
      <3>2. draft' \in [open : BOOLEAN, cmds : SUBSET AllCommands]
        BY <1>4 DEF Commit
      <3>3. told' \subseteq {"committed", "rejected"}
        BY <1>4 DEF Commit
      <3>5. {proposed, accepted, dropped, published, journal}' \subseteq
              SUBSET AllCommands
        <4>1. UNCHANGED <<proposed, accepted, dropped>>
          BY <1>4 DEF Commit
        <4> QED
          BY <3>1, <4>1
      <3>4. /\ outcome' \in {"pending", "committed", "rejected"}
            /\ failure' \in StageNames \cup {"none"}
            /\ step' \in StageSteps \cup {"start", "rejecting", "end", "events",
                                         "done", "escaped"}
        BY <1>4 DEF Commit
      <3> QED
        BY <1>4, <3>2, <3>3, <3>4, <3>5 DEF Commit
    <2>2. FlowFits' /\ WorkFits'
      BY <1>4 DEF Commit
    <2> QED
      BY <2>1, <2>2
  <1> QED
    BY <1>1, <1>2, <1>3, <1>4

\* The end of the turn.
LEMMA EndSteps ==
  ASSUME StagesInvariant,
         OnRejected \/ EndInterceptorThrows \/ Finish \/ Return
  PROVE  StagesInvariant'
PROOF
  <1> USE StagesInOrder, DraftForms, TurnAssumption
      DEF StagesInvariant, StagesTypeOK, FlowFits, WorkFits, StepsFit,
          OutcomeFits, DraftFits, CommitFits, CommandsFit, AgentsFit,
          SchedulesFit, NoClashUnseen, PastPropose, PastValidate,
          PastNarrate, PastCommit, AllCommands, AllTasks, StageSteps, InStage,
          AtBody, AgentQueueOpen, ProposeOpen, AfterIsIgnored, StageFails,
          StageGoesOn, StageEnds, keepFlow, keepTurn, AtInterceptors, flowVars,
          commandVars, lookVars, agentVars, evVars
  <1>1. CASE OnRejected
    BY <1>1 DEF OnRejected
  <1>2. CASE EndInterceptorThrows
    BY <1>2 DEF EndInterceptorThrows
  <1>3. CASE Finish
    <2>1. StagesTypeOK' /\ FlowFits'
      BY <1>3 DEF Finish
    <2>2. CommandsFit' /\ AgentsFit' /\ NoClashUnseen'
      BY <1>3 DEF Finish
    <2>3. SchedulesFit'
      BY <1>3 DEF Finish, StartDispatch
    <2> QED
      BY <2>1, <2>2, <2>3
  <1>4. CASE Return
    BY <1>4 DEF Return
  <1> QED
    BY <1>1, <1>2, <1>3, <1>4

\* Events of modules are delivered between the steps of the turn's end.
LEMMA EventSteps ==
  ASSUME StagesInvariant, EventsNext, UNCHANGED turnVars
  PROVE  StagesInvariant'
PROOF
  <1> USE DEF turnVars, flowVars, commandVars, lookVars, agentVars
  <1>1. books' = books /\ (pending' = pending \/ books)
    BY DEF EventsNext, QueueEmpty, CutBurst, TakeEvent, Cascade, Deliver,
           BooksSchedules
  <1>2. StagesTypeOK'
    BY DEF StagesInvariant, StagesTypeOK
  <1>3. FlowFits'
    BY DEF StagesInvariant, FlowFits, StepsFit, OutcomeFits, DraftFits,
           CommitFits, InStage, AgentQueueOpen, PastCommit
  <1>4. CommandsFit' /\ AgentsFit' /\ NoClashUnseen'
    BY DEF StagesInvariant, WorkFits, CommandsFit, AgentsFit,
           NoClashUnseen, PastPropose, PastValidate, PastNarrate,
           AgentQueueOpen, InStage
  <1>5. SchedulesFit'
    BY <1>1 DEF StagesInvariant, WorkFits, SchedulesFit
  <1> QED
    BY <1>2, <1>3, <1>4, <1>5 DEF StagesInvariant, WorkFits

LEMMA TurnInitInvariant == TurnInit => StagesInvariant /\ EventInvariant
PROOF
  <1> SUFFICES ASSUME TurnInit
               PROVE  StagesInvariant /\ EventInvariant
    OBVIOUS
  <1>1. EventInvariant
    BY EventInitInvariant DEF TurnInit
  <1>2. StagesTypeOK
    BY StagesInOrder, DraftForms, TurnAssumption
    DEF TurnInit, StagesTypeOK, StageSteps
  <1>3. FlowFits
    BY DraftForms DEF TurnInit, FlowFits, StepsFit, OutcomeFits, DraftFits,
       CommitFits, InStage, StageSteps, PastCommit
  <1>4. WorkFits
    <2>1. config.retries \in Nat
      BY TurnAssumption DEF TurnInit, Config
    <2> QED
      BY <2>1 DEF TurnInit, EventsInit, WorkFits, CommandsFit, AgentsFit,
         SchedulesFit, NoClashUnseen, PastPropose, PastValidate, PastNarrate
  <1> QED
    BY <1>1, <1>2, <1>3, <1>4 DEF StagesInvariant

\* The turn hands its events over once, and leaves the dispatch alone otherwise.
LEMMA DispatchSteps ==
  ASSUME StagesInvariant, [TurnNext]_turnAndEvents
  PROVE  \/ EventsNext
         \/ \E es \in Seq(Events), player \in BOOLEAN, asked \in SUBSET Modules :
              StartDispatch(es, player, asked)
         \/ UNCHANGED evVars
PROOF
  <1>1. CASE Finish
    <2>1. PICK es \in Emissions :
            StartDispatch(es, kind = "player",
                          IF outcome = "committed" THEN scheduled ELSE {})
      BY <1>1 DEF Finish
    <2>2. es \in Seq(Events) /\ (kind = "player") \in BOOLEAN
      BY EmissionType
    <2>3. (IF outcome = "committed" THEN scheduled ELSE {}) \in SUBSET Modules
      BY DEF StagesInvariant, StagesTypeOK
    <2> QED
      BY <2>1, <2>2, <2>3
  <1>2. CASE UNCHANGED turnAndEvents
    BY <1>2 DEF turnAndEvents
  <1>3. CASE \/ Start \/ BeforeDone \/ AfterDone \/ InterceptorFails
             \/ StageTimeout \/ \E t \in Tasks : EnqueueAgentTask(t)
             \/ \E c \in Commands : EnqueueCommands(c)
             \/ \E p \in {"predrain", "plandrain", "voices", "postdrain"} : Drain(p)
    BY <1>3 DEF Start, BeforeDone, AfterDone, InterceptorFails, StageTimeout,
                EnqueueAgentTask, EnqueueCommands, Drain
  <1>4. CASE \/ SetUp \/ Normalize \/ Intent \/ Guard \/ Plan \/ Propose
             \/ Validate \/ Narrate \/ Brief \/ Write \/ Present \/ Materialize
             \/ Commit \/ After
    BY <1>4 DEF SetUp, Normalize, Intent, Guard, Plan, Propose, Validate,
                Narrate, Brief, Write, Present, Materialize, Commit, After,
                PlainBody, keepTurn
  <1>5. CASE OnRejected \/ EndInterceptorThrows \/ Return
    BY <1>5 DEF OnRejected, EndInterceptorThrows, Return
  <1> QED
    BY <1>1, <1>2, <1>3, <1>4, <1>5 DEF TurnNext

LEMMA TurnNextInvariant ==
  ASSUME TurnInvariant, [TurnNext]_turnAndEvents
  PROVE  TurnInvariant'
PROOF
  <1>1. EventInvariant'
    BY DispatchSteps, EventInvariantStep DEF TurnInvariant
  <1>2. StagesInvariant'
    <2>1. CASE UNCHANGED turnAndEvents
      BY <2>1
      DEF TurnInvariant, StagesInvariant, StagesTypeOK, FlowFits, WorkFits,
          StepsFit, OutcomeFits, DraftFits, CommitFits, CommandsFit, AgentsFit,
          SchedulesFit, NoClashUnseen, PastPropose, PastValidate,
          PastNarrate, PastCommit, InStage, AgentQueueOpen, turnAndEvents,
          turnVars, flowVars, commandVars, lookVars, agentVars, evVars
    <2>2. CASE TurnNext
      BY <2>2, AroundSteps, BodySteps, CommandSteps, MaterializeStep, EndSteps,
         EventSteps
      DEF TurnInvariant, TurnNext
    <2> QED
      BY <2>1, <2>2
  <1> QED
    BY <1>1, <1>2 DEF TurnInvariant

LEMMA TurnKeepsInvariant == TurnSpec => []TurnInvariant
PROOF
  <1>1. TurnInit => TurnInvariant
    BY TurnInitInvariant DEF TurnInvariant
  <1>2. TurnInvariant /\ [TurnNext]_turnAndEvents => TurnInvariant'
    BY TurnNextInvariant
  <1> QED
    BY <1>1, <1>2, PTL DEF TurnSpec

-----------------------------------------------------------------------------
(* What a turn guarantees                                                  *)

\* Every variable of the turn and of its dispatch keeps its type.
THEOREM TurnTyped == TurnSpec => []TurnTypeOK
PROOF
  <1>1. TurnInvariant => TurnTypeOK
    BY DEF TurnInvariant, StagesInvariant, EventInvariant, TurnTypeOK
  <1> QED
    BY TurnKeepsInvariant, <1>1, PTL

\* Each turn is a dispatch of events like EventsSpec describes it, started once
\* with what the turn emitted: what is proved of the dispatch holds of turns.
THEOREM TurnImplementsDispatch == TurnSpec => EventsSpec
PROOF
  <1>1. TurnInit => EventsInit
    BY DEF TurnInit
  <1>2. TurnInvariant /\ [TurnNext]_turnAndEvents =>
          [\/ EventsNext
           \/ \E es \in Seq(Events), player \in BOOLEAN, asked \in SUBSET Modules :
                StartDispatch(es, player, asked)]_evVars
    BY DispatchSteps DEF TurnInvariant
  <1> QED
    BY TurnKeepsInvariant, <1>1, <1>2, PTL DEF TurnSpec, EventsSpec

\* The caps hold for the events of a turn and all their handlers.
THEOREM TurnKeepsCaps == TurnSpec => []EventCapsHold
  BY TurnImplementsDispatch, EventCaps

\* A turn announced as committed (stageCommit) has published exactly the
\* commands its journal entry and its result name, those of the materialize
\* window too, and nothing a module may not propose, unless a resolver answered
\* with it; whatever the modules propose, decorate, resolve or add late, in every
\* configuration.
THEOREM CommitTellsAll == TurnSpec => []PublishedIsAccepted
PROOF
  <1>1. TurnInvariant => PublishedIsAccepted
    BY TurnAssumption
    DEF TurnInvariant, StagesInvariant, StagesTypeOK, FlowFits, WorkFits,
        CommitFits, CommandsFit, PublishedIsAccepted, PastValidate
  <1> QED
    BY TurnKeepsInvariant, <1>1, PTL

\* A turn that fails before the commit stage leaves no state, no journal entry,
\* no announcement and no draft, whichever stage, interceptor, agent or timeout
\* made it fail; and no error of the AFTER stage rejects a turn.
THEOREM RejectionIsAtomic == TurnSpec => []RejectedLeavesNothing
PROOF
  <1>1. TurnInvariant => RejectedLeavesNothing
    BY DEF TurnInvariant, StagesInvariant, FlowFits, OutcomeFits, DraftFits,
           CommitFits, RejectedLeavesNothing
  <1> QED
    BY TurnKeepsInvariant, <1>1, PTL

\* A committed turn has applied each proposed command unless a resolver or
\* decorator took it out or it came after the dry-apply; it has run each task
\* queued by an interceptor, planner or contributor, and no required one failed.
THEOREM WorkIsDone == TurnSpec => []OnlyLateWorkIsLost
PROOF
  <1>1. TurnInvariant => OnlyLateWorkIsLost
    BY DEF TurnInvariant, StagesInvariant, FlowFits, OutcomeFits, WorkFits,
           CommandsFit, AgentsFit, PastValidate, AgentQueueOpen,
           OnlyLateWorkIsLost
  <1> QED
    BY TurnKeepsInvariant, <1>1, PTL

\* Whatever the conflict keys and their order, no two commands on a key are both
\* applied (resolveConflicts, stageValidate), unless one of them is an answer of
\* a resolver, which replaces what it was asked about and is checked by nobody,
\* or came after the conflicts were looked at.
THEOREM NoConflictUnseen == TurnSpec => []NoClashUnseen
PROOF
  <1>1. TurnInvariant => NoClashUnseen
    BY DEF TurnInvariant, StagesInvariant, WorkFits
  <1> QED
    BY TurnKeepsInvariant, <1>1, PTL

\* The critics are asked at most once more than maxNarrativeCriticRetries, and
\* under criticPolicy "fail" no passage they rejected is committed.
THEOREM CriticsHaveTheirSay == TurnSpec => []CriticsDecide
PROOF
  <1>1. TurnInvariant => CriticsDecide
    BY DEF TurnInvariant, StagesInvariant, FlowFits, OutcomeFits, WorkFits,
           AgentsFit, PastNarrate, CriticsDecide
  <1> QED
    BY TurnKeepsInvariant, <1>1, PTL

\* No agent runs on a restore turn, and only a player turn leaves system turns
\* to be run, by the scheduler of afterCommit or by an event handler.
THEOREM KindsKept == TurnSpec => []KindsKeepTheirRights
PROOF
  <1>1. TurnInvariant => KindsKeepTheirRights
    BY DEF TurnInvariant, StagesInvariant, WorkFits, AgentsFit, SchedulesFit,
           KindsKeepTheirRights
  <1> QED
    BY TurnKeepsInvariant, <1>1, PTL
=============================================================================
