---------------------------- MODULE StoryProofs ----------------------------
(***************************************************************************)
(* Proofs about StoryMemory: for every window, interval, cap and threshold *)
(* the configuration allows, every set of verdicts, and stories of any     *)
(* length with any number of restarts.                                     *)
(***************************************************************************)
EXTENDS StoryProperties, SequenceTheorems, TLAPS

Scene == [id : Nat, beat : Nat]
PairRange == [from : Nat, to : Nat]
Seen == Nat \cup PairRange \cup [turn : Nat, current : Scene \cup {None}]
ChunkSet == [from : Nat, to : Nat, tells : Seen]

SceneFields == {"current", "loop", "stalls", "high", "verdict", "lastTurn",
                "history", "playerTurns", "probes", "resolved", "scenes"}
SceneTyped(s) ==
  /\ DOMAIN s = SceneFields
  /\ s.current \in Scene \cup {None} /\ s.lastTurn \in Nat /\ s.scenes \in Nat

WorldFields ==
  {"pairs", "summarized", "summaries", "outfit", "scene", "missed", "torn",
   "log"}
WorldTyped(w) ==
  /\ DOMAIN w = WorldFields
  /\ w.pairs \in Nat /\ w.summarized \in Nat /\ w.outfit \in Nat
  /\ w.missed \in BOOLEAN /\ w.torn \in BOOLEAN
  /\ w.summaries \in Seq(ChunkSet)
  /\ SceneTyped(w.scene)

Job == [reason : Reasons, seen : Seen]

Typed ==
  /\ WorldTyped(world) /\ WorldTyped(disk.world)
  /\ saving # None => WorldTyped(saving)
  /\ queue \in Seq(Job) /\ disk.queue \in Seq(Job)
  /\ running \in SUBSET Job /\ \A a, b \in running : a = b
  /\ pumping \in BOOLEAN /\ turns \in Nat /\ restarts \in Nat

\* The chunks of w are complete up to "summarized".
ChunksOf(w) ==
  /\ w.summarized <= w.pairs
  /\ w.summarized = IF w.summaries = <<>> THEN 0
                    ELSE w.summaries[Len(w.summaries)].to
  /\ \A i \in DOMAIN w.summaries :
       /\ w.summaries[i].tells =
            [from |-> w.summaries[i].from, to |-> w.summaries[i].to]
       /\ w.summaries[i].from = IF i = 1 THEN 1 ELSE w.summaries[i - 1].to + 1

Due(w) == w.pairs >= w.summarized + Interval

Chunks ==
  /\ ~world.torn => ChunksOf(world)
  /\ ~disk.world.torn => ChunksOf(disk.world)

\* A due summary has its job in the queue or with the pump, or was missed; one
\* that is due in the store and has no stored job, has its job in memory, or was
\* missed.
DueIsQueued ==
  /\ ~world.torn /\ Due(world) => world.missed \/ Waits("summary.make")
  /\ ~disk.world.torn /\ Due(disk.world) =>
       \/ disk.world.missed \/ Holds(disk.queue, "summary.make")
       \/ world.missed \/ Waits("summary.make")

SummaryInvariant == Typed /\ JobsAreFresh /\ Chunks /\ DueIsQueued

-----------------------------------------------------------------------------
(* Queues                                                                  *)

\* What the pump leaves of a queue is fresh, and has no job of the kind taken.
LEMMA HeadTaken ==
  ASSUME NEW q \in Seq(Job), q # <<>>
  PROVE  /\ Head(q) \in Job /\ Tail(q) \in Seq(Job)
         /\ \A r : Holds(q, r) => Head(q).reason = r \/ Holds(Tail(q), r)
         /\ \A w : Fresh(q, w) =>
              /\ IsFresh(Head(q), w) /\ Fresh(Tail(q), w)
              /\ ~Holds(Tail(q), Head(q).reason)
PROOF
  <1>1. /\ Head(q) \in Job /\ Head(q) = q[1] /\ Tail(q) \in Seq(Job)
        /\ 1 \in DOMAIN q
        /\ \A i \in DOMAIN Tail(q) :
             i \in Nat /\ i # 0 /\ i + 1 \in DOMAIN q /\ Tail(q)[i] = q[i + 1]
    OBVIOUS
  <1>2. ASSUME NEW r, NEW k \in DOMAIN q, q[k].reason = r
        PROVE  Head(q).reason = r \/ Holds(Tail(q), r)
    <2>1. CASE k = 1
      BY <1>1, <1>2, <2>1
    <2>2. CASE k # 1
      <3>1. k - 1 \in DOMAIN Tail(q) /\ Tail(q)[k - 1] = q[k]
        BY <1>1, <1>2, <2>2
      <3> QED
        BY <1>2, <3>1 DEF Holds
    <2> QED
      BY <2>1, <2>2
  <1>3. ASSUME NEW w, Fresh(q, w)
        PROVE  /\ IsFresh(Head(q), w) /\ Fresh(Tail(q), w)
               /\ ~Holds(Tail(q), Head(q).reason)
    <2>1. IsFresh(Head(q), w)
      BY <1>1, <1>3 DEF Fresh
    <2>2. \A i \in DOMAIN Tail(q) :
            IsFresh(Tail(q)[i], w) /\ Tail(q)[i].reason # Head(q).reason
      BY <1>1, <1>3 DEF Fresh
    <2>3. \A i, j \in DOMAIN Tail(q) :
            Tail(q)[i].reason = Tail(q)[j].reason => i = j
      <3> SUFFICES ASSUME NEW i \in DOMAIN Tail(q), NEW j \in DOMAIN Tail(q),
                          Tail(q)[i].reason = Tail(q)[j].reason
                   PROVE  i = j
        OBVIOUS
      <3>1. i + 1 = j + 1
        BY <1>1, <1>3 DEF Fresh
      <3> QED
        BY <1>1, <3>1
    <2> QED
      BY <2>1, <2>2, <2>3 DEF Fresh, Holds
  <1> QED
    BY <1>1, <1>2, <1>3 DEF Holds

\* The jobs that are left stay fresh when only what another kind of job was
\* given changes.
LEMMA FreshElsewhere ==
  ASSUME NEW q \in Seq(Job), NEW w, NEW w2, Fresh(q, w), NEW reason,
         ~Holds(q, reason),
         \A r \in Reasons \ {reason} : SeenNow(r, w2) = SeenNow(r, w)
  PROVE  Fresh(q, w2)
PROOF
  <1>0. \A i \in DOMAIN q : q[i] \in Job
    OBVIOUS
  <1>1. \A i \in DOMAIN q : q[i].reason \in Reasons \ {reason}
    BY <1>0 DEF Job, Holds
  <1> QED
    BY <1>1 DEF Fresh, IsFresh

\* A queue that may get one more job of another kind.
LEMMA OneMoreJob ==
  ASSUME NEW q \in Seq(Job), NEW w, Fresh(q, w), NEW job \in Job,
         IsFresh(job, w), ~Holds(q, job.reason), NEW p \in BOOLEAN
  PROVE  LET q2 == q \o (IF p THEN <<job>> ELSE <<>>) IN
         /\ q2 \in Seq(Job) /\ Fresh(q2, w)
         /\ \A r : Holds(q2, r) <=> (Holds(q, r) \/ (p /\ job.reason = r))
PROOF
  <1>1. CASE ~p
    BY <1>1, ConcatEmptySeq
  <1>2. CASE p
    <2> DEFINE q2 == q \o <<job>>
               n == Len(q)
    <2>1. /\ <<job>> \in Seq(Job) /\ Len(<<job>>) = 1 /\ <<job>>[1] = job
      OBVIOUS
    <2>2. /\ q2 \in Seq(Job) /\ Len(q2) = n + 1 /\ n \in Nat
          /\ DOMAIN q = 1..n /\ q2[n + 1] = job
          /\ \A i \in 1..n : q2[i] = q[i]
      BY <2>1, ConcatProperties
    <2> HIDE DEF q2, n
    <2>3. DOMAIN q2 = 1..(n + 1)
      BY <2>2
    <2>4. \A i \in 1..(n + 1) : i \in 1..n \/ i = n + 1
      BY <2>2
    <2>5. \A i \in 1..n : q[i].reason # job.reason
      BY <2>2 DEF Holds
    <2>6. Fresh(q2, w)
      <3>1. \A i \in 1..(n + 1) : IsFresh(q2[i], w)
        BY <2>2, <2>4 DEF Fresh
      <3>2. \A i, j \in 1..(n + 1) : q2[i].reason = q2[j].reason => i = j
        <4> SUFFICES ASSUME NEW i \in 1..(n + 1), NEW j \in 1..(n + 1),
                            q2[i].reason = q2[j].reason
                     PROVE  i = j
          OBVIOUS
        <4>1. CASE i \in 1..n /\ j \in 1..n
          BY <2>2, <4>1 DEF Fresh
        <4>2. CASE ~(i \in 1..n /\ j \in 1..n)
          BY <2>2, <2>4, <2>5, <4>2
        <4> QED
          BY <4>1, <4>2
      <3> QED
        BY <2>3, <3>1, <3>2 DEF Fresh
    <2>7. \A r : Holds(q2, r) <=> (Holds(q, r) \/ job.reason = r)
      <3>1. ASSUME NEW r, Holds(q2, r) PROVE Holds(q, r) \/ job.reason = r
        BY <2>2, <2>3, <2>4, <3>1 DEF Holds
      <3>2. ASSUME NEW r, Holds(q, r) PROVE Holds(q2, r)
        <4>1. PICK i \in 1..n : q[i].reason = r
          BY <2>2, <3>2 DEF Holds
        <4>2. i \in DOMAIN q2 /\ q2[i] = q[i]
          BY <2>2, <2>3
        <4> QED
          BY <4>1, <4>2 DEF Holds
      <3>3. n + 1 \in DOMAIN q2 /\ q2[n + 1] = job
        BY <2>2, <2>3
      <3>4. ASSUME NEW r, job.reason = r PROVE Holds(q2, r)
        BY <3>3, <3>4 DEF Holds
      <3> QED
        BY <3>1, <3>2, <3>4
    <2> QED
      BY <1>2, <2>2, <2>6, <2>7 DEF q2
  <1> QED
    BY <1>1, <1>2

\* The jobs a free text leaves are fresh for the slices it leaves, whichever of
\* its schedulers failed.
LEMMA JobsForFresh ==
  ASSUME NEW w, NEW w2, NEW t \in Nat, NEW paired \in BOOLEAN,
         NEW kept \in SUBSET Reasons, WorldTyped(w),
         w2.pairs = PairsSeen(w, paired), w2.summarized = w.summarized,
         w2.outfit = w.outfit, w2.scene.lastTurn = t,
         w2.scene.current = w.scene.current
  PROVE  /\ JobsFor(w, t, paired, kept) \in Seq(Job)
         /\ Fresh(JobsFor(w, t, paired, kept), w2)
         /\ Due(w2) => \/ Holds(JobsFor(w, t, paired, kept), "summary.make")
                        \/ SummaryLost(w, paired, kept)
PROOF
  <1> DEFINE outfit == [reason |-> "character.outfit_sync", seen |-> w.outfit]
             make == [reason |-> "summary.make",
                      seen |-> ChunkRange(w.summarized, PairsSeen(w, paired))]
             probe == [reason |-> "scene_controller.probe",
                       seen |-> [turn |-> t, current |-> w.scene.current]]
             due == ShouldSummarize(PairsSeen(w, paired), w.summarized)
             p1 == paired /\ "character.outfit_sync" \in kept
             p2 == due /\ "summary.make" \in kept
             p3 == paired /\ "scene_controller.probe" \in kept
             q1 == <<>> \o (IF p1 THEN <<outfit>> ELSE <<>>)
             q2 == q1 \o (IF p2 THEN <<make>> ELSE <<>>)
             q3 == q2 \o (IF p3 THEN <<probe>> ELSE <<>>)
  <1>1. w.pairs \in Nat /\ w.summarized \in Nat /\ w.outfit \in Nat
        /\ PairsSeen(w, paired) \in Nat
    BY DEF WorldTyped, PairsSeen
  <1>2. w.scene.current \in Scene \cup {None}
    BY DEF WorldTyped, SceneTyped
  <1>3. outfit \in Job
    BY <1>1 DEF Job, Reasons, Seen
  <1>4. make \in Job
    BY <1>1 DEF Job, Reasons, ChunkRange, PairRange, Seen
  <1>5. probe \in Job
    BY <1>2 DEF Job, Reasons, Seen
  <1>6. IsFresh(outfit, w2) /\ IsFresh(make, w2) /\ IsFresh(probe, w2)
    BY DEF SeenNow, IsFresh
  <1>7. Due(w2) <=> due
    BY <1>1 DEF Due, ShouldSummarize
  <1>8. /\ outfit.reason # make.reason /\ make.reason # probe.reason
        /\ outfit.reason # probe.reason /\ make.reason = "summary.make"
    OBVIOUS
  <1>9. SummaryJob(w, paired) = IF due THEN <<make>> ELSE <<>>
    BY DEF SummaryJob
  <1>10. <<make>> # <<>>
    OBVIOUS
  <1> HIDE DEF outfit, make, probe, due
  <1>11. JobsFor(w, t, paired, kept) = q3
    <2> DEFINE a == IF p1 THEN <<outfit>> ELSE <<>>
    <2>1. a \in Seq(Job)
      BY <1>3, EmptySeq
    <2>2. <<>> \o a = a
      BY <2>1, ConcatEmptySeq
    <2>3. JobsFor(w, t, paired, kept) =
            a \o (IF p2 THEN <<make>> ELSE <<>>) \o (IF p3 THEN <<probe>> ELSE <<>>)
      BY <1>9 DEF JobsFor, outfit, probe
    <2> QED
      BY <2>2, <2>3
  <1>12. /\ due \in BOOLEAN /\ p1 \in BOOLEAN /\ p2 \in BOOLEAN /\ p3 \in BOOLEAN
    BY DEF due, ShouldSummarize
  <1> HIDE DEF p1, p2, p3
  <1>13. <<>> \in Seq(Job) /\ Fresh(<<>>, w2) /\ \A r : ~Holds(<<>>, r)
    BY EmptySeq DEF Fresh, Holds
  <1>14. /\ q1 \in Seq(Job) /\ Fresh(q1, w2)
         /\ \A r : Holds(q1, r) <=> (p1 /\ outfit.reason = r)
    BY <1>3, <1>6, <1>12, <1>13, OneMoreJob
  <1> HIDE DEF q1
  <1>15. /\ q2 \in Seq(Job) /\ Fresh(q2, w2)
         /\ \A r : Holds(q2, r) <=>
                    ((p1 /\ outfit.reason = r) \/ (p2 /\ make.reason = r))
    <2>1. ~Holds(q1, make.reason)
      BY <1>8, <1>14
    <2>2. \A r : Holds(q2, r) <=> (Holds(q1, r) \/ (p2 /\ make.reason = r))
      BY <1>4, <1>6, <1>12, <1>14, <2>1, OneMoreJob
    <2>3. q2 \in Seq(Job) /\ Fresh(q2, w2)
      BY <1>4, <1>6, <1>12, <1>14, <2>1, OneMoreJob
    <2> QED
      BY <1>14, <2>2, <2>3
  <1> HIDE DEF q2
  <1>16. /\ q3 \in Seq(Job) /\ Fresh(q3, w2)
         /\ \A r : Holds(q3, r) <=> (Holds(q2, r) \/ (p3 /\ probe.reason = r))
    <2>1. ~Holds(q2, probe.reason)
      BY <1>8, <1>15
    <2> QED
      BY <1>5, <1>6, <1>12, <1>15, <2>1, OneMoreJob
  <1> HIDE DEF q3
  <1>17. Due(w2) => Holds(q3, "summary.make") \/ SummaryLost(w, paired, kept)
    <2>1. CASE "summary.make" \in kept
      BY <1>7, <1>8, <1>15, <1>16, <2>1 DEF p2
    <2>2. CASE "summary.make" \notin kept
      BY <1>7, <1>9, <1>10, <2>2 DEF SummaryLost
    <2> QED
      BY <2>1, <2>2
  <1> QED
    BY <1>11, <1>16, <1>17
-----------------------------------------------------------------------------
(* The tools                                                               *)

\* A report keeps the scene's type and the turn that it is about.
LEMMA ProbeType ==
  ASSUME NEW s, NEW v, SceneTyped(s)
  PROVE  /\ SceneTyped(ApplyProbeReport(s, v))
         /\ ApplyProbeReport(s, v).lastTurn = s.lastTurn
PROOF
  <1>1. /\ SceneTyped(SceneResolved(s, v))
        /\ SceneResolved(s, v).lastTurn = s.lastTurn
    BY DEF SceneResolved, SceneTyped, SceneFields
  <1>2. ASSUME s.current # None
        PROVE  /\ SceneTyped(SceneGoesOn(s, v))
               /\ SceneGoesOn(s, v).lastTurn = s.lastTurn
    <2>1. [s.current EXCEPT !.beat = @ + 1] \in Scene
      BY <1>2 DEF SceneTyped, Scene
    <2> QED
      BY <2>1 DEF SceneGoesOn, SceneTyped, SceneFields
  <1>3. /\ SceneTyped(SceneBegins(s, v))
        /\ SceneBegins(s, v).lastTurn = s.lastTurn
    <2>1. s.scenes + 1 \in Nat /\ [id |-> s.scenes + 1, beat |-> 1] \in Scene
      BY DEF SceneTyped, Scene
    <2> QED
      BY <2>1 DEF SceneBegins, SceneTyped, SceneFields
  <1> QED
    BY <1>1, <1>2, <1>3 DEF ApplyProbeReport

\* A report touches the scene and nothing else.
LEMMA ReportType ==
  ASSUME NEW w, NEW v, WorldTyped(w)
  PROVE  /\ WorldTyped(ReportScene(w, v))
         /\ ReportScene(w, v).pairs = w.pairs
         /\ ReportScene(w, v).summarized = w.summarized
         /\ ReportScene(w, v).summaries = w.summaries
         /\ ReportScene(w, v).outfit = w.outfit
         /\ ReportScene(w, v).missed = w.missed
         /\ ReportScene(w, v).torn = w.torn
PROOF
  <1> DEFINE after == ApplyProbeReport(w.scene, v)
             entry == [verdict |-> v, scene |-> after.scenes,
                       about |-> w.scene.lastTurn]
             log == Append(w.log, entry)
  <1>1. SceneTyped(after)
    BY ProbeType DEF WorldTyped
  <1>2. ReportScene(w, v) = [w EXCEPT !.scene = after, !.log = log]
    BY DEF ReportScene
  <1> HIDE DEF after, entry, log
  <1> QED
    BY <1>1, <1>2 DEF WorldTyped, WorldFields

\* A task without its tool only marks a summary as missed.
LEMMA WithoutToolType ==
  ASSUME NEW w, WorldTyped(w), NEW job \in Job
  PROVE  /\ WorldTyped(WithoutTool(job, w))
         /\ WithoutTool(job, w).pairs = w.pairs
         /\ WithoutTool(job, w).summarized = w.summarized
         /\ WithoutTool(job, w).summaries = w.summaries
         /\ WithoutTool(job, w).outfit = w.outfit
         /\ WithoutTool(job, w).scene = w.scene
         /\ WithoutTool(job, w).torn = w.torn
         /\ job.reason = "summary.make" => WithoutTool(job, w).missed
         /\ job.reason # "summary.make" => WithoutTool(job, w) = w
PROOF
  BY DEF WithoutTool, WorldTyped, WorldFields

\* A stored chunk leaves nothing due, and continues the chunks if its job was
\* fresh.
LEMMA StoreSummaryType ==
  ASSUME NEW w, WorldTyped(w), CanStore(w), NEW seen \in Seen
  PROVE  LET w2 == StoreSummary(w, seen) IN
         /\ WorldTyped(w2) /\ ~Due(w2) /\ w2.torn = w.torn
         /\ w2.outfit = w.outfit /\ w2.scene = w.scene /\ w2.pairs = w.pairs
         /\ ChunksOf(w) /\ seen = ChunkRange(w.summarized, w.pairs)
              => ChunksOf(w2)
PROOF
  <1> DEFINE chunk == Chunk(w, seen)
             w2 == StoreSummary(w, seen)
  <1>1. /\ w.pairs \in Nat /\ w.summarized \in Nat /\ w.summarized <= w.pairs
        /\ w.summaries \in Seq(ChunkSet)
    BY DEF WorldTyped, CanStore
  <1>3. chunk = [from |-> w.summarized + 1, to |-> w.pairs, tells |-> seen]
    BY DEF Chunk
  <1>4. chunk \in ChunkSet
    BY <1>1, <1>3 DEF ChunkSet
  <1>5. w.summarized + (w.pairs - w.summarized) = w.pairs
    BY <1>1
  <1>6. w2 = [w EXCEPT !.summarized = w.pairs,
                       !.summaries = Append(w.summaries, chunk), !.missed = FALSE]
    BY <1>5 DEF StoreSummary
  <1> DEFINE all == Append(w.summaries, chunk)
  <1> HIDE DEF chunk, w2
  <1>7. /\ all \in Seq(ChunkSet) /\ Len(all) = Len(w.summaries) + 1 /\ all # <<>>
        /\ Len(w.summaries) \in Nat
        /\ all[Len(all)] = chunk
        /\ \A i \in 1..Len(w.summaries) : all[i] = w.summaries[i]
    BY <1>1, <1>4
  <1>75. w2 = [w EXCEPT !.summarized = w.pairs, !.summaries = all, !.missed = FALSE]
    BY <1>6
  <1> HIDE DEF all
  <1>8. /\ WorldTyped(w2) /\ w2.pairs = w.pairs /\ w2.summarized = w.pairs
        /\ w2.summaries = all /\ w2.outfit = w.outfit /\ w2.scene = w.scene
        /\ w2.torn = w.torn
    BY <1>1, <1>75, <1>7 DEF WorldTyped, WorldFields
  <1>9. ~Due(w2)
    BY <1>1, <1>8, StoryAssumption DEF Due
  <1>10. ASSUME ChunksOf(w), seen = ChunkRange(w.summarized, w.pairs)
         PROVE  \A i \in DOMAIN all :
           /\ all[i].tells = [from |-> all[i].from, to |-> all[i].to]
           /\ all[i].from = IF i = 1 THEN 1 ELSE all[i - 1].to + 1
    <2>0. seen = [from |-> w.summarized + 1, to |-> w.pairs]
      BY <1>10 DEF ChunkRange
    <2> SUFFICES ASSUME NEW i \in DOMAIN all
                 PROVE  /\ all[i].tells = [from |-> all[i].from, to |-> all[i].to]
                        /\ all[i].from = IF i = 1 THEN 1 ELSE all[i - 1].to + 1
      OBVIOUS
    <2>1. i \in 1..(Len(w.summaries) + 1)
      BY <1>7
    <2>2. CASE i <= Len(w.summaries)
      <3>1. i \in DOMAIN w.summaries /\ all[i] = w.summaries[i]
        BY <1>1, <1>7, <2>1, <2>2
      <3>2. i # 1 => all[i - 1] = w.summaries[i - 1]
        BY <1>7, <2>1, <2>2
      <3> QED
        BY <1>10, <3>1, <3>2 DEF ChunksOf
    <2>3. CASE i = Len(w.summaries) + 1
      <3>1. all[i] = chunk
        BY <1>7, <2>3
      <3>2. all[i].tells = [from |-> all[i].from, to |-> all[i].to]
        BY <2>0, <1>3, <3>1
      <3>3. CASE w.summaries = <<>>
        <4>1. i = 1 /\ w.summarized = 0
          BY <1>10, <2>3, <3>3, EmptySeq DEF ChunksOf
        <4> QED
          BY <1>3, <3>1, <3>2, <4>1
      <3>4. CASE w.summaries # <<>>
        <4>1. i # 1 /\ i - 1 = Len(w.summaries) /\ i - 1 \in 1..Len(w.summaries)
          BY <1>1, <1>7, <2>3, <3>4, EmptySeq
        <4>2. all[i - 1].to = w.summarized
          BY <1>7, <1>10, <3>4, <4>1 DEF ChunksOf
        <4> QED
          BY <1>3, <3>1, <3>2, <4>1, <4>2
      <3> QED
        BY <3>3, <3>4
    <2> QED
      BY <1>7, <2>1, <2>2, <2>3
  <1>11. ChunksOf(w) /\ seen = ChunkRange(w.summarized, w.pairs)
           => ChunksOf(w2)
    <2> SUFFICES ASSUME ChunksOf(w), seen = ChunkRange(w.summarized, w.pairs)
                 PROVE  ChunksOf(w2)
      OBVIOUS
    <2>1. /\ w2.summarized <= w2.pairs
          /\ w2.summarized = w2.summaries[Len(w2.summaries)].to
          /\ w2.summaries # <<>>
      BY <1>1, <1>3, <1>7, <1>8
    <2>2. \A i \in DOMAIN w2.summaries :
            /\ w2.summaries[i].tells =
                 [from |-> w2.summaries[i].from, to |-> w2.summaries[i].to]
            /\ w2.summaries[i].from =
                 IF i = 1 THEN 1 ELSE w2.summaries[i - 1].to + 1
      BY <1>8, <1>10
    <2> QED
      BY <2>1, <2>2 DEF ChunksOf
  <1> QED
    BY <1>8, <1>9, <1>11 DEF w2

\* One job's turn: the slices stay typed and, if the job was fresh, their chunks
\* complete; what other jobs were given still holds, and a summary that was due
\* is made or missed.
LEMMA ToolStep ==
  ASSUME NEW w, WorldTyped(w), NEW job \in Job, turns \in Nat,
         NEW w2 \in ToolEffects(job, w) \cup {WithoutTool(job, w)}
  PROVE  /\ WorldTyped(w2) /\ w2.torn = w.torn
         /\ IsFresh(job, w) /\ ChunksOf(w) => ChunksOf(w2)
         /\ \A r \in Reasons \ {job.reason} : SeenNow(r, w2) = SeenNow(r, w)
         /\ job.reason # "summary.make" => (Due(w2) => Due(w))
                                           /\ w2.missed = w.missed
         /\ job.reason = "summary.make" => ~Due(w2) \/ w2.missed
PROOF
  <1>1. CASE w2 = WithoutTool(job, w)
    <2>1. /\ WorldTyped(w2) /\ w2.pairs = w.pairs
          /\ w2.summarized = w.summarized /\ w2.summaries = w.summaries
          /\ w2.outfit = w.outfit /\ w2.scene = w.scene /\ w2.torn = w.torn
          /\ job.reason = "summary.make" => w2.missed
          /\ job.reason # "summary.make" => w2 = w
      BY <1>1, WithoutToolType
    <2> QED
      BY <2>1 DEF ChunksOf, Reasons, SeenNow, Due
  <1>2. CASE job.reason = "character.outfit_sync" /\ w2 \in ToolEffects(job, w)
    <2>1. w2 = [w EXCEPT !.outfit = turns]
      BY <1>2 DEF ToolEffects
    <2>2. /\ WorldTyped(w2) /\ w2.pairs = w.pairs
          /\ w2.summarized = w.summarized /\ w2.summaries = w.summaries
          /\ w2.scene = w.scene /\ w2.missed = w.missed /\ w2.torn = w.torn
      BY <2>1 DEF WorldTyped, WorldFields
    <2> QED
      BY <1>2, <2>2 DEF ChunksOf, Reasons, SeenNow, Due
  <1>3. CASE job.reason = "summary.make" /\ w2 \in ToolEffects(job, w)
    <2>1. CanStore(w) /\ w2 = StoreSummary(w, job.seen)
      BY <1>3 DEF ToolEffects
    <2>2. IsFresh(job, w) => job.seen = ChunkRange(w.summarized, w.pairs)
      BY <1>3 DEF SeenNow, IsFresh
    <2>3. job.seen \in Seen
      BY DEF Job
    <2>4. /\ WorldTyped(w2) /\ ~Due(w2) /\ w2.torn = w.torn
          /\ w2.outfit = w.outfit /\ w2.scene = w.scene
          /\ ChunksOf(w) /\ job.seen = ChunkRange(w.summarized, w.pairs)
               => ChunksOf(w2)
      BY <2>1, <2>3, StoreSummaryType
    <2> QED
      BY <1>3, <2>2, <2>4 DEF Reasons, SeenNow
  <1>4. CASE job.reason = "scene_controller.probe" /\ w2 \in ToolEffects(job, w)
    <2>1. PICK v1 \in Verdicts, v2 \in Verdicts :
            w2 \in {ReportScene(w, v1), ReportScene(ReportScene(w, v1), v2)}
      BY <1>4 DEF ToolEffects
    <2>2. /\ WorldTyped(w2) /\ w2.pairs = w.pairs
          /\ w2.summarized = w.summarized /\ w2.summaries = w.summaries
          /\ w2.outfit = w.outfit /\ w2.missed = w.missed
          /\ w2.torn = w.torn
      <3>1. WorldTyped(ReportScene(w, v1))
        BY ReportType
      <3> QED
        BY <2>1, <3>1, ReportType
    <2> QED
      BY <1>4, <2>2 DEF ChunksOf, Reasons, SeenNow, Due
  <1>5. job.reason \in Reasons
    BY DEF Job
  <1> QED
    BY <1>1, <1>2, <1>3, <1>4, <1>5 DEF Reasons

-----------------------------------------------------------------------------
(* The invariant                                                           *)

\* A new session: nothing was told, nothing is due, nothing waits.
LEMMA SummaryInit == StoryInit => SummaryInvariant
PROOF
  <1> SUFFICES ASSUME StoryInit PROVE SummaryInvariant
    OBVIOUS
  <1>1. /\ world.pairs = 0 /\ world.summarized = 0 /\ world.summaries = <<>>
        /\ WorldTyped(world)
    BY EmptySeq DEF StoryInit, WorldTyped, WorldFields, SceneTyped, SceneFields,
                    FirstScene
  <1>2. queue = <<>> /\ disk.world = world /\ disk.queue = <<>>
        /\ running = {} /\ saving = None
        /\ pumping \in BOOLEAN /\ turns \in Nat /\ restarts \in Nat
    BY DEF StoryInit
  <1>3. Typed
    BY <1>1, <1>2, EmptySeq DEF Typed
  <1>4. JobsAreFresh
    BY <1>2, EmptySeq DEF JobsAreFresh, Fresh
  <1>5. ChunksOf(world)
    BY <1>1, EmptySeq DEF ChunksOf
  <1>6. ~Due(world)
    BY <1>1, StoryAssumption DEF Due
  <1> QED
    BY <1>2, <1>3, <1>4, <1>5, <1>6 DEF SummaryInvariant, DueIsQueued, Chunks

\* A free text adds a pair and the jobs that look at it.
LEMMA FreeTextKeeps ==
  ASSUME SummaryInvariant, NEW paired \in BOOLEAN, NEW kept \in SUBSET Reasons,
         FreeText(paired, kept)
  PROVE  SummaryInvariant'
PROOF
  <1> DEFINE t == turns + 1
             jobs == JobsFor(world, t, paired, kept)
             lost == SummaryLost(world, paired, kept)
  <1>1. /\ WorldTyped(world) /\ (~world.torn => ChunksOf(world))
        /\ turns \in Nat /\ restarts \in Nat /\ queue \in Seq(Job)
        /\ saving # None => WorldTyped(saving)
    BY DEF SummaryInvariant, Typed, Chunks
  <1>2. /\ queue = <<>> /\ running = {}
        /\ disk'.world = world' /\ disk'.queue = <<>>
        /\ queue' = <<>> \o jobs /\ running' = running /\ saving' = saving
        /\ turns' = t /\ pumping' = TRUE /\ restarts' = restarts
    BY DEF FreeText, SessionIdle
  <1>3. /\ DOMAIN RecordTurn(world.scene, t) = SceneFields
        /\ RecordTurn(world.scene, t).lastTurn = t
        /\ RecordTurn(world.scene, t).current = world.scene.current
        /\ RecordTurn(world.scene, t).scenes = world.scene.scenes
    BY <1>1 DEF RecordTurn, WorldTyped, SceneTyped, SceneFields
  <1>4. /\ WorldTyped(world') /\ world'.pairs = PairsSeen(world, paired)
        /\ world'.summarized = world.summarized
        /\ world'.summaries = world.summaries /\ world'.outfit = world.outfit
        /\ world'.scene.lastTurn = t /\ world'.torn = world.torn
        /\ world'.scene.current = world.scene.current
        /\ lost => world'.missed
    <2> DEFINE w1 == AppendPair(world, paired)
               m == world.missed \/ lost
    <2>1. /\ DOMAIN w1 = WorldFields /\ w1.pairs = PairsSeen(world, paired)
          /\ w1.summarized = world.summarized
          /\ w1.summaries = world.summaries /\ w1.outfit = world.outfit
          /\ w1.scene = world.scene /\ w1.missed = world.missed
          /\ w1.torn = world.torn
      BY <1>1 DEF AppendPair, PairsSeen, WorldTyped, WorldFields
    <2>2. PairsSeen(world, paired) \in Nat
      BY <1>1 DEF PairsSeen, WorldTyped
    <2>3. world' = [w1 EXCEPT !.scene = RecordTurn(world.scene, t), !.missed = m]
      BY <2>1 DEF FreeText
    <2>4. m \in BOOLEAN /\ (lost => m)
      BY <1>1 DEF WorldTyped, SummaryLost
    <2> HIDE DEF w1, m
    <2>5. /\ DOMAIN world' = WorldFields /\ world'.pairs = w1.pairs
          /\ world'.summarized = w1.summarized /\ world'.missed = m
          /\ world'.summaries = w1.summaries /\ world'.outfit = w1.outfit
          /\ world'.scene = RecordTurn(world.scene, t) /\ world'.torn = w1.torn
      BY <2>1, <2>3 DEF WorldFields
    <2> QED
      BY <1>1, <1>3, <2>1, <2>2, <2>4, <2>5 DEF WorldTyped, SceneTyped
  <1>5. /\ jobs \in Seq(Job) /\ Fresh(jobs, world')
        /\ Due(world') => Holds(jobs, "summary.make") \/ lost
    <2>1. t \in Nat
      BY <1>1
    <2> HIDE DEF t
    <2> QED
      BY <1>1, <1>4, <2>1, JobsForFresh
  <1>6. queue' = jobs
    BY <1>2, <1>5, ConcatEmptySeq
  <1>7. ~world'.torn => ChunksOf(world')
    <2>1. ~world.torn => world.summarized <= world'.pairs
      BY <1>1, <1>4 DEF ChunksOf, PairsSeen, WorldTyped
    <2> QED
      BY <1>1, <1>4, <2>1 DEF ChunksOf
  <1>8. Due(world') => world'.missed \/ Holds(queue', "summary.make")
    BY <1>4, <1>5, <1>6
  <1> HIDE DEF t, jobs, lost
  <1>9. Typed'
    BY <1>1, <1>2, <1>4, <1>5, <1>6, EmptySeq DEF Typed, t
  <1>10. JobsAreFresh'
    BY <1>2, <1>5, <1>6, EmptySeq DEF JobsAreFresh, Fresh
  <1> QED
    BY <1>2, <1>7, <1>8, <1>9, <1>10
       DEF SummaryInvariant, DueIsQueued, Chunks, Waits

\* The pump takes a job: it is still waited for.
LEMMA JobStartsKeeps ==
  ASSUME SummaryInvariant, JobStarts
  PROVE  SummaryInvariant'
PROOF
  <1> DEFINE job == Head(queue)
  <1>1. /\ queue \in Seq(Job) /\ queue # <<>> /\ running = {}
        /\ running' = {job} /\ queue' = Tail(queue) /\ world' = world
        /\ disk' = disk /\ saving' = saving /\ pumping' = pumping
        /\ turns' = turns /\ restarts' = restarts
    BY DEF SummaryInvariant, Typed, JobStarts
  <1>2. /\ job \in Job /\ queue' \in Seq(Job)
        /\ \A r : Holds(queue, r) => job.reason = r \/ Holds(queue', r)
        /\ \A w : Fresh(queue, w) =>
             /\ IsFresh(job, w) /\ Fresh(queue', w) /\ ~Holds(queue', job.reason)
    BY <1>1, HeadTaken
  <1> HIDE DEF job
  <1>3. Typed'
    BY <1>1, <1>2 DEF SummaryInvariant, Typed
  <1>4. JobsAreFresh'
    BY <1>1, <1>2 DEF SummaryInvariant, JobsAreFresh
  <1>5. Waits("summary.make") => Waits("summary.make")'
    BY <1>1, <1>2 DEF Waits
  <1> QED
    BY <1>1, <1>3, <1>4, <1>5 DEF SummaryInvariant, Chunks, DueIsQueued

\* A job's turn is over, one way or the other.
LEMMA JobEnds ==
  ASSUME SummaryInvariant, NEW job \in running, running' = {}, queue' = queue,
         world' \in ToolEffects(job, world) \cup {WithoutTool(job, world)}
  PROVE  /\ WorldTyped(world') /\ world'.torn = world.torn
         /\ ~world.torn => ChunksOf(world') /\ Fresh(queue', world')
         /\ job.reason # "summary.make" => world'.missed = world.missed
         /\ ~world.torn /\ Due(world') =>
              world'.missed \/ Holds(queue', "summary.make")
         /\ Waits("summary.make") =>
              job.reason = "summary.make" \/ Holds(queue', "summary.make")
PROOF
  <1>1. /\ WorldTyped(world) /\ turns \in Nat /\ job \in Job
        /\ queue \in Seq(Job) /\ \A other \in running : other = job
        /\ ~world.torn => /\ ChunksOf(world) /\ Fresh(queue, world)
                          /\ IsFresh(job, world) /\ ~Holds(queue, job.reason)
    BY DEF SummaryInvariant, Typed, JobsAreFresh, Chunks
  <1>2. /\ WorldTyped(world') /\ world'.torn = world.torn
        /\ IsFresh(job, world) /\ ChunksOf(world) => ChunksOf(world')
        /\ \A r \in Reasons \ {job.reason} : SeenNow(r, world') = SeenNow(r, world)
        /\ job.reason # "summary.make" => (Due(world') => Due(world))
                                          /\ world'.missed = world.missed
        /\ job.reason = "summary.make" => ~Due(world') \/ world'.missed
    BY <1>1, ToolStep
  <1>3. ~world.torn => Fresh(queue', world')
    BY <1>1, <1>2, FreshElsewhere
  <1>4. Waits("summary.make") =>
          job.reason = "summary.make" \/ Holds(queue', "summary.make")
    BY <1>1 DEF Waits
  <1>5. ~world.torn /\ Due(world') =>
          world'.missed \/ Holds(queue', "summary.make")
    BY <1>2, <1>4 DEF SummaryInvariant, DueIsQueued
  <1> QED
    BY <1>1, <1>2, <1>3, <1>4, <1>5

\* The job's turn commits: the store has the slices and the queue of now.
LEMMA JobCommitsKeeps ==
  ASSUME SummaryInvariant, JobCommits
  PROVE  SummaryInvariant'
PROOF
  <1>1. PICK job \in running :
          world' \in ToolEffects(job, world) \cup {WithoutTool(job, world)}
    BY DEF JobCommits
  <1>2. /\ running' = {} /\ queue' = queue
        /\ disk'.world = world' /\ disk'.queue = queue' /\ saving' = saving
        /\ pumping' = pumping /\ turns' = turns /\ restarts' = restarts
    BY DEF JobCommits
  <1>3. /\ WorldTyped(world') /\ world'.torn = world.torn
        /\ ~world.torn => ChunksOf(world') /\ Fresh(queue', world')
        /\ ~world.torn /\ Due(world') =>
             world'.missed \/ Holds(queue', "summary.make")
    BY <1>1, <1>2, JobEnds
  <1>4. Typed'
    BY <1>2, <1>3 DEF SummaryInvariant, Typed
  <1> QED
    BY <1>2, <1>3, <1>4
       DEF SummaryInvariant, DueIsQueued, JobsAreFresh, Chunks, Waits

\* The job's turn is rejected: if it was a due summary, that is missed.
LEMMA JobRejectedKeeps ==
  ASSUME SummaryInvariant, JobRejected
  PROVE  SummaryInvariant'
PROOF
  <1>1. PICK job \in running : world' = WithoutTool(job, world)
    BY DEF JobRejected
  <1>2. /\ running' = {} /\ queue' = queue /\ disk' = disk /\ saving' = saving
        /\ pumping' = FALSE /\ turns' = turns /\ restarts' = restarts
    BY DEF JobRejected
  <1>3. /\ WorldTyped(world') /\ world'.torn = world.torn
        /\ ~world.torn => ChunksOf(world') /\ Fresh(queue', world')
        /\ job.reason # "summary.make" => world'.missed = world.missed
        /\ ~world.torn /\ Due(world') =>
             world'.missed \/ Holds(queue', "summary.make")
        /\ Waits("summary.make") =>
             job.reason = "summary.make" \/ Holds(queue', "summary.make")
    BY <1>1, <1>2, JobEnds
  <1>4. job.reason = "summary.make" => world'.missed
    BY <1>1, WithoutToolType DEF SummaryInvariant, Typed
  <1>5. Holds(queue', "summary.make") => Waits("summary.make")'
    BY DEF Waits
  <1>6. Typed'
    BY <1>2, <1>3 DEF SummaryInvariant, Typed
  <1>7. DueIsQueued'
    BY <1>2, <1>3, <1>4, <1>5 DEF SummaryInvariant, DueIsQueued
  <1>8. JobsAreFresh' /\ Chunks'
    BY <1>2, <1>3 DEF SummaryInvariant, JobsAreFresh, Chunks
  <1> QED
    BY <1>6, <1>7, <1>8 DEF SummaryInvariant

\* A save reads the slices.
LEMMA ReadForSaveKeeps ==
  ASSUME SummaryInvariant, ReadForSave
  PROVE  SummaryInvariant'
PROOF
  <1>1. /\ saving' = world /\ world' = world /\ queue' = queue
        /\ running' = running /\ pumping' = pumping /\ disk' = disk
        /\ turns' = turns /\ restarts' = restarts
    BY DEF ReadForSave
  <1> QED
    BY <1>1 DEF SummaryInvariant, Typed, JobsAreFresh, DueIsQueued, Chunks, Waits

\* Slices with the same pairs, summaries, outfit and scene say the same.
LEMMA SameSlices ==
  ASSUME NEW a, NEW b, a.pairs = b.pairs, a.summarized = b.summarized,
         a.summaries = b.summaries, a.outfit = b.outfit, a.scene = b.scene
  PROVE  /\ ChunksOf(a) <=> ChunksOf(b)
         /\ Due(a) <=> Due(b)
         /\ \A q : Fresh(q, a) <=> Fresh(q, b)
PROOF
  <1>1. \A r : SeenNow(r, a) = SeenNow(r, b)
    BY DEF SeenNow
  <1>2. \A q : Fresh(q, a) <=> Fresh(q, b)
    BY <1>1 DEF Fresh, IsFresh
  <1> QED
    BY <1>2 DEF ChunksOf, Due

\* A save stores the slices that it read: those of now, or torn ones.
LEMMA WriteSaveKeeps ==
  ASSUME SummaryInvariant, WriteSave
  PROVE  SummaryInvariant'
PROOF
  <1> DEFINE T == saving.torn \/ Slices(saving) # Slices(world)
             w == [saving EXCEPT !.torn = T]
  <1>1. /\ saving # None /\ saving' = None /\ disk' = [world |-> w, queue |-> queue]
        /\ world' = world /\ queue' = queue /\ running' = running
        /\ pumping' = pumping /\ turns' = turns /\ restarts' = restarts
    BY DEF WriteSave
  <1>2. /\ WorldTyped(saving) /\ WorldTyped(world) /\ T \in BOOLEAN
    BY <1>1 DEF SummaryInvariant, Typed, WorldTyped
  <1>3. ~T => saving.torn = FALSE /\ Slices(saving) = Slices(world)
    BY <1>2 DEF WorldTyped
  <1> HIDE DEF T
  <1>4. WorldTyped(w) /\ w.torn = T
    BY <1>2 DEF WorldTyped, WorldFields
  <1>5. /\ w.pairs = saving.pairs /\ w.summarized = saving.summarized
        /\ w.summaries = saving.summaries /\ w.outfit = saving.outfit
        /\ w.scene = saving.scene
    BY <1>2 DEF WorldTyped, WorldFields
  <1> HIDE DEF w
  <1>6. disk'.world = w /\ disk'.queue = queue
    BY <1>1
  <1>7. Typed'
    BY <1>1, <1>4, <1>6 DEF SummaryInvariant, Typed
  <1>8. ASSUME ~T
        PROVE  /\ saving.pairs = world.pairs /\ saving.outfit = world.outfit
               /\ saving.summarized = world.summarized
               /\ saving.summaries = world.summaries
               /\ saving.scene = world.scene /\ saving.torn = world.torn
    BY <1>2, <1>3, <1>8 DEF Slices, WorldTyped, WorldFields
  <1>9. ~w.torn => /\ ~world.torn /\ (ChunksOf(w) <=> ChunksOf(world))
                   /\ (Due(w) <=> Due(world))
                   /\ (Fresh(queue, w) <=> Fresh(queue, world))
    <2> SUFFICES ASSUME ~w.torn
                 PROVE  /\ ~world.torn /\ (ChunksOf(w) <=> ChunksOf(world))
                        /\ (Due(w) <=> Due(world))
                        /\ (Fresh(queue, w) <=> Fresh(queue, world))
      OBVIOUS
    <2>1. ~world.torn
      BY <1>3, <1>4, <1>8
    <2>2. /\ w.pairs = world.pairs /\ w.summarized = world.summarized
          /\ w.summaries = world.summaries /\ w.outfit = world.outfit
          /\ w.scene = world.scene
      BY <1>4, <1>5, <1>8
    <2> QED
      BY <2>1, <2>2, SameSlices
  <1>10. JobsAreFresh' /\ Chunks'
    BY <1>1, <1>6, <1>9 DEF SummaryInvariant, JobsAreFresh, Chunks
  <1>11. DueIsQueued'
    BY <1>1, <1>6, <1>9 DEF SummaryInvariant, DueIsQueued, Waits
  <1> QED
    BY <1>7, <1>10, <1>11 DEF SummaryInvariant

\* A restart goes back to what is stored.
LEMMA RestartKeeps ==
  ASSUME SummaryInvariant, Restart
  PROVE  SummaryInvariant'
PROOF
  <1> DEFINE m == \/ disk.world.missed
                  \/ /\ ~Holds(disk.queue, "summary.make")
                     /\ Waits("summary.make") \/ world.missed
  <1>1. /\ WorldTyped(disk.world) /\ disk.queue \in Seq(Job)
        /\ ~disk.world.torn =>
             ChunksOf(disk.world) /\ Fresh(disk.queue, disk.world)
        /\ restarts \in Nat /\ turns \in Nat
    BY DEF SummaryInvariant, Typed, JobsAreFresh, Chunks
  <1>2. /\ world' = [disk.world EXCEPT !.missed = m] /\ queue' = disk.queue
        /\ disk' = disk /\ pumping' = TRUE /\ turns' = turns
        /\ running' = {} /\ saving' = None /\ restarts' = restarts + 1
    BY DEF Restart
  <1>3. m \in BOOLEAN
    BY <1>1 DEF SummaryInvariant, Typed, WorldTyped, Holds, Waits
  <1> DEFINE M == m
  <1>4. world' = [disk.world EXCEPT !.missed = M] /\ M \in BOOLEAN
    BY <1>2, <1>3
  <1> HIDE DEF M
  <1>5. /\ WorldTyped(world') /\ world'.pairs = disk.world.pairs
        /\ world'.summarized = disk.world.summarized
        /\ world'.summaries = disk.world.summaries
        /\ world'.outfit = disk.world.outfit /\ world'.torn = disk.world.torn
        /\ world'.scene = disk.world.scene /\ world'.missed = M
    BY <1>1, <1>4 DEF WorldTyped, WorldFields
  <1>6. /\ ChunksOf(disk.world) => ChunksOf(world')
        /\ Due(world') <=> Due(disk.world)
    BY <1>1, <1>5 DEF ChunksOf, Due
  <1>7. Fresh(disk.queue, disk.world) => Fresh(queue', world')
    BY <1>1, <1>2, <1>5 DEF Fresh, IsFresh, SeenNow
  <1>8. Typed'
    BY <1>1, <1>2, <1>5 DEF Typed
  <1>9. ~disk.world.torn /\ Due(disk.world) =>
          M \/ Holds(disk.queue, "summary.make")
    BY DEF M, SummaryInvariant, DueIsQueued
  <1>10. DueIsQueued'
    BY <1>2, <1>5, <1>6, <1>9 DEF DueIsQueued, Waits
  <1>11. JobsAreFresh' /\ Chunks'
    BY <1>1, <1>2, <1>5, <1>6, <1>7 DEF JobsAreFresh, Chunks
  <1> QED
    BY <1>8, <1>10, <1>11 DEF SummaryInvariant

\* Every step of the story keeps the invariant.
LEMMA SummaryStep == SummaryInvariant /\ [StoryNext]_storyVars => SummaryInvariant'
PROOF
  <1> SUFFICES ASSUME SummaryInvariant, [StoryNext]_storyVars
               PROVE  SummaryInvariant'
    OBVIOUS
  <1>1. CASE \E paired \in BOOLEAN, kept \in SUBSET Reasons : FreeText(paired, kept)
    BY <1>1, FreeTextKeeps
  <1>2. CASE JobStarts
    BY <1>2, JobStartsKeeps
  <1>3. CASE JobCommits
    BY <1>3, JobCommitsKeeps
  <1>4. CASE JobRejected
    BY <1>4, JobRejectedKeeps
  <1>5. CASE ReadForSave
    BY <1>5, ReadForSaveKeeps
  <1>6. CASE WriteSave
    BY <1>6, WriteSaveKeeps
  <1>7. CASE Restart
    BY <1>7, RestartKeeps
  <1>8. CASE UNCHANGED storyVars
    <2>1. /\ world' = world /\ queue' = queue /\ running' = running
          /\ pumping' = pumping /\ disk' = disk /\ saving' = saving
          /\ turns' = turns /\ restarts' = restarts
      BY <1>8 DEF storyVars
    <2> QED
      BY <2>1 DEF SummaryInvariant, Typed, JobsAreFresh, DueIsQueued, Chunks, Waits
  <1> QED
    BY <1>1, <1>2, <1>3, <1>4, <1>5, <1>6, <1>7, <1>8 DEF StoryNext

LEMMA SummaryAlways == StorySpec => []SummaryInvariant
PROOF
  BY SummaryInit, SummaryStep, PTL DEF StorySpec

-----------------------------------------------------------------------------
(* What the story can rely on                                              *)

\* What a background job was given when its player turn committed is what the
\* slices say when its tool writes to them, however many restarts, failed
\* schedulers and failed jobs there were in between, and no kind of job waits
\* twice; unless a save had stored the slices with a later queue.
THEOREM JobsStayFresh == StorySpec => []JobsAreFresh
PROOF
  <1>1. SummaryInvariant => JobsAreFresh
    BY DEF SummaryInvariant
  <1> QED
    BY <1>1, SummaryAlways, PTL

\* The summaries follow one another without gap or overlap, each about what
\* its text was asked to tell of; whenever the player is on turn, each pair is
\* in the narrator's window or in a summary, unless a due task was missed, or a
\* save had stored the slices with a later queue.
THEOREM NoPairIsForgotten == StorySpec => []SummariesAreComplete
PROOF
  <1>1. SummaryInvariant => SummariesAreComplete
    <2> SUFFICES ASSUME SummaryInvariant PROVE SummariesAreComplete
      OBVIOUS
    <2> SUFFICES ASSUME ~world.torn PROVE SummariesAreComplete
      BY DEF SummariesAreComplete
    <2>1. ChunksOf(world) /\ WorldTyped(world)
      BY DEF SummaryInvariant, Typed, Chunks
    <2>2. ASSUME SessionIdle, ~world.missed
          PROVE  world.pairs <= world.summarized + Window
      <3>1. ~Waits("summary.make")
        BY <2>2, EmptySeq DEF SessionIdle, Holds, Waits
      <3>2. ~Due(world)
        BY <2>2, <3>1 DEF SummaryInvariant, DueIsQueued
      <3> QED
        BY <2>1, <3>2, StoryAssumption DEF Due, WorldTyped
    <2> QED
      BY <2>1, <2>2 DEF ChunksOf, SummariesAreComplete
  <1> QED
    BY <1>1, SummaryAlways, PTL

-----------------------------------------------------------------------------
(* Scenes that go round in circles                                         *)

Closed == [id : Nat, beats : Nat, outcome : {"resolved", "transitioned"}, ended : Nat]
LogEntry == [verdict : Verdicts, scene : Nat, about : Nat]

\* What a scene's fields can be.
PressTyped(s) ==
  /\ s.high \in Nat /\ s.loop \in 0..2 /\ s.verdict \in Verdicts \cup {None}
  /\ s.history \in Seq(Closed)

\* Scenes are numbered as they begin, the open one being the last; the closed
\* ones are kept in that order.
ScenesNumbered(s) ==
  /\ s.current # None => s.current.id = s.scenes
  /\ Len(s.history) <= HistoryCap
  /\ \A i, j \in DOMAIN s.history : i < j => s.history[i].id < s.history[j].id
  /\ \A i \in DOMAIN s.history :
       /\ s.history[i].id <= s.scenes
       /\ s.current # None => s.history[i].id < s.scenes

\* The clock has counted every probe in a row that found a scene near its end,
\* and the scene remembers the worst loop that a probe found in it.
CirclesIn(log, n) ==
  /\ Len(log) >= n
  /\ \A i \in (Len(log) - n + 1)..Len(log) :
       log[i].verdict.saturated /\ ~log[i].verdict.resolved
ClockCounts(s, log) == \A n \in Nat : CirclesIn(log, n) => s.high >= n
LoopRemembered(s, log) ==
  /\ \A i \in DOMAIN log : log[i].scene <= s.scenes
  /\ s.current # None =>
       \A i \in DOMAIN log :
         log[i].scene = s.scenes /\ log[i].verdict.loop = 2 => s.loop = 2

Pressed(w) ==
  /\ PressTyped(w.scene) /\ w.log \in Seq(LogEntry)
  /\ ScenesNumbered(w.scene) /\ ClockCounts(w.scene, w.log)
  /\ LoopRemembered(w.scene, w.log)

PressInvariant ==
  /\ Pressed(world) /\ Pressed(disk.world)
  /\ saving # None => Pressed(saving)

LEMMA ClosedId ==
  ASSUME NEW h \in Seq(Closed), NEW i \in DOMAIN h
  PROVE  h[i].id \in Nat
PROOF
  <1>1. h[i] \in Closed
    OBVIOUS
  <1> QED BY <1>1 DEF Closed

LEMMA LoggedScene ==
  ASSUME NEW log \in Seq(LogEntry), NEW i \in DOMAIN log
  PROVE  log[i].scene \in Nat
PROOF
  <1>1. log[i] \in LogEntry
    OBVIOUS
  <1> QED BY <1>1 DEF LogEntry

\* Closing a scene appends it, and may drop the oldest (closeCurrentRecord).
LEMMA ClosedInOrder ==
  ASSUME NEW s, SceneTyped(s), PressTyped(s), ScenesNumbered(s),
         NEW outcome \in {"resolved", "transitioned"}
  PROVE  LET h == CloseCurrentRecord(s, outcome) IN
         /\ h \in Seq(Closed) /\ Len(h) <= HistoryCap
         /\ \A i, j \in DOMAIN h : i < j => h[i].id < h[j].id
         /\ \A i \in DOMAIN h : h[i].id <= s.scenes
PROOF
  <1> DEFINE h == CloseCurrentRecord(s, outcome)
  <1>1. CASE s.current = None
    BY <1>1 DEF CloseCurrentRecord, PressTyped, ScenesNumbered
  <1>2. CASE s.current # None
    <2> DEFINE record == [id |-> s.current.id, beats |-> s.current.beat,
                          outcome |-> outcome, ended |-> s.lastTurn]
               all == Append(s.history, record)
               k == Len(s.history)
    <2>1. /\ record \in Closed /\ record.id = s.scenes /\ s.scenes \in Nat
          /\ s.history \in Seq(Closed)
      BY <1>2 DEF SceneTyped, Scene, Closed, ScenesNumbered, PressTyped
    <2>2. h = IF Len(all) > HistoryCap THEN Tail(all) ELSE all
      BY <1>2 DEF CloseCurrentRecord
    <2> HIDE DEF record, h
    <2>3. /\ all \in Seq(Closed) /\ Len(all) = k + 1 /\ k \in Nat
          /\ DOMAIN all = 1..(k + 1) /\ all[k + 1] = record
          /\ \A i \in 1..k : all[i] = s.history[i] /\ i \in DOMAIN s.history
      BY <2>1
    <2>4. /\ k <= HistoryCap
          /\ \A i, j \in 1..k : i < j => s.history[i].id < s.history[j].id
          /\ \A i \in 1..k : s.history[i].id < s.scenes
      BY <1>2, <2>3 DEF ScenesNumbered
    <2> HIDE DEF all, k
    <2>5. \A i \in 1..(k + 1) : i \in 1..k \/ i = k + 1
      BY <2>3
    <2>6. \A i \in 1..(k + 1) : all[i].id \in Nat /\ all[i].id <= s.scenes
      <3>1. \A i \in 1..k : all[i].id \in Nat /\ all[i].id <= s.scenes
        BY <2>1, <2>3, <2>4, ClosedId
      <3>2. all[k + 1].id \in Nat /\ all[k + 1].id <= s.scenes
        BY <2>1, <2>3
      <3> QED BY <2>5, <3>1, <3>2
    <2>7. ASSUME NEW i \in 1..(k + 1), NEW j \in 1..(k + 1), i < j
          PROVE  all[i].id < all[j].id
      <3>1. i \in 1..k
        BY <2>3, <2>7
      <3> QED BY <2>1, <2>3, <2>4, <2>5, <2>7, <3>1
    <2>8. CASE Len(all) > HistoryCap
      <3>1. h = Tail(all) /\ all # <<>>
        BY <2>2, <2>3, <2>8
      <3>2. /\ h \in Seq(Closed) /\ Len(h) = k /\ DOMAIN h = 1..k
            /\ \A i \in 1..k : h[i] = all[i + 1] /\ i + 1 \in 1..(k + 1)
        BY <2>3, <3>1
      <3>3. \A i, j \in 1..k : i < j => i + 1 < j + 1
        OBVIOUS
      <3> QED BY <2>4, <2>6, <2>7, <3>2, <3>3 DEF h
    <2>9. CASE ~(Len(all) > HistoryCap)
      <3>1. h = all /\ Len(h) <= HistoryCap
        BY <2>2, <2>3, <2>9, StoryAssumption
      <3> QED BY <2>3, <2>6, <2>7, <3>1 DEF h
    <2> QED BY <2>8, <2>9
  <1> QED BY <1>1, <1>2

\* A longer row of circling probes ends with one, after a shorter row.
LEMMA CirclesGrow ==
  ASSUME NEW log \in Seq(LogEntry), NEW e \in LogEntry, NEW n \in Nat \ {0},
         CirclesIn(Append(log, e), n)
  PROVE  /\ CirclesIn(log, n - 1)
         /\ e.verdict.saturated /\ ~e.verdict.resolved
PROOF
  <1> DEFINE k == Len(log)
             all == Append(log, e)
  <1>1. /\ Len(all) = k + 1 /\ k \in Nat /\ all[k + 1] = e
        /\ \A i \in 1..k : all[i] = log[i]
    OBVIOUS
  <1>2. /\ k + 1 >= n
        /\ \A i \in (k + 1 - n + 1)..(k + 1) :
             all[i].verdict.saturated /\ ~all[i].verdict.resolved
    BY <1>1 DEF CirclesIn
  <1> HIDE DEF all
  <1>3. e.verdict.saturated /\ ~e.verdict.resolved
    <2>1. k + 1 \in (k + 1 - n + 1)..(k + 1)
      BY <1>1
    <2> QED BY <1>1, <1>2, <2>1
  <1>4. ASSUME NEW i \in (k - (n - 1) + 1)..k
        PROVE  log[i].verdict.saturated /\ ~log[i].verdict.resolved
    <2>1. i \in 1..k /\ i \in (k + 1 - n + 1)..(k + 1)
      BY <1>1, <1>2
    <2> QED BY <1>1, <1>2, <2>1
  <1>5. k >= n - 1
    BY <1>1, <1>2
  <1> QED BY <1>3, <1>4, <1>5 DEF CirclesIn

\* What a report does to the fields that count (applyProbeReport).
LEMMA ReportedScene ==
  ASSUME NEW s, SceneTyped(s), PressTyped(s), NEW v \in Verdicts
  PROVE  LET s2 == ApplyProbeReport(s, v) IN
         /\ s2.verdict = v
         /\ v.resolved =>
              /\ s2.current = None /\ s2.loop = 0 /\ s2.high = 0
              /\ s2.scenes = s.scenes
              /\ s2.history = CloseCurrentRecord(s, "resolved")
         /\ ~v.resolved =>
              s2.high = IF v.saturated THEN s.high + 1 ELSE 0
         /\ ~v.resolved /\ s.current # None /\ v.same =>
              /\ s2.current.id = s.current.id /\ s2.scenes = s.scenes
              /\ s2.history = s.history
              /\ s2.loop = IF v.loop > s.loop THEN v.loop ELSE s.loop
         /\ ~v.resolved /\ ~(s.current # None /\ v.same) =>
              /\ s2.current.id = s.scenes + 1 /\ s2.scenes = s.scenes + 1
              /\ s2.history = CloseCurrentRecord(s, "transitioned")
              /\ s2.loop = v.loop
PROOF
  <1> DEFINE s2 == ApplyProbeReport(s, v)
  <1>1. DOMAIN s = SceneFields
    BY DEF SceneTyped
  <1>2. CASE v.resolved
    <2>1. s2 = SceneResolved(s, v)
      BY <1>2 DEF ApplyProbeReport
    <2> QED BY <1>1, <1>2, <2>1 DEF SceneResolved, SceneFields
  <1>3. CASE ~v.resolved /\ s.current # None /\ v.same
    <2>1. s2 = SceneGoesOn(s, v)
      BY <1>3 DEF ApplyProbeReport
    <2>2. [s.current EXCEPT !.beat = @ + 1].id = s.current.id
      BY <1>3 DEF SceneTyped, Scene
    <2> QED BY <1>1, <1>3, <2>1, <2>2
            DEF SceneGoesOn, SceneFields, MaxLoop, NextHighProgressBeats
  <1>4. CASE ~v.resolved /\ ~(s.current # None /\ v.same)
    <2>1. s2 = SceneBegins(s, v)
      BY <1>4 DEF ApplyProbeReport
    <2> QED BY <1>1, <1>4, <2>1 DEF SceneBegins, SceneFields, NextHighProgressBeats
  <1> QED BY <1>2, <1>3, <1>4

\* A report keeps clock, loop and history, whatever it says of the scene.
LEMMA ReportPresses ==
  ASSUME NEW w, WorldTyped(w), Pressed(w), NEW v \in Verdicts
  PROVE  Pressed(ReportScene(w, v))
PROOF
  <1> DEFINE s == w.scene
             s2 == ApplyProbeReport(s, v)
             e == [verdict |-> v, scene |-> s2.scenes, about |-> s.lastTurn]
             log == w.log
             log2 == Append(log, e)
  <1>1. /\ SceneTyped(s) /\ PressTyped(s) /\ log \in Seq(LogEntry)
        /\ ScenesNumbered(s) /\ ClockCounts(s, log) /\ LoopRemembered(s, log)
    BY DEF WorldTyped, Pressed
  <1>2. SceneTyped(s2)
    BY <1>1, ProbeType
  <1>3. ReportScene(w, v).scene = s2 /\ ReportScene(w, v).log = log2
    BY DEF ReportScene, WorldTyped, WorldFields
  <1>4. /\ v.same \in BOOLEAN /\ v.saturated \in BOOLEAN /\ v.resolved \in BOOLEAN
        /\ v.loop \in 0..2
    BY StoryAssumption
  <1>5. /\ s2.verdict = v
        /\ v.resolved =>
             /\ s2.current = None /\ s2.loop = 0 /\ s2.high = 0
             /\ s2.scenes = s.scenes
             /\ s2.history = CloseCurrentRecord(s, "resolved")
        /\ ~v.resolved =>
             s2.high = IF v.saturated THEN s.high + 1 ELSE 0
        /\ ~v.resolved /\ s.current # None /\ v.same =>
             /\ s2.current.id = s.current.id /\ s2.scenes = s.scenes
             /\ s2.history = s.history
             /\ s2.loop = IF v.loop > s.loop THEN v.loop ELSE s.loop
        /\ ~v.resolved /\ ~(s.current # None /\ v.same) =>
             /\ s2.current.id = s.scenes + 1 /\ s2.scenes = s.scenes + 1
             /\ s2.history = CloseCurrentRecord(s, "transitioned")
             /\ s2.loop = v.loop
    BY <1>1, ReportedScene
  <1>6. e \in LogEntry /\ e.verdict = v /\ e.scene = s2.scenes
    BY <1>1, <1>2 DEF LogEntry, SceneTyped
  <1> HIDE DEF s, s2, e
  <1>7. /\ log2 \in Seq(LogEntry) /\ DOMAIN log2 = 1..(Len(log) + 1)
        /\ log2[Len(log) + 1] = e /\ Len(log) \in Nat
        /\ DOMAIN log = 1..Len(log)
        /\ \A i \in 1..Len(log) : log2[i] = log[i]
    BY <1>1, <1>6
  <1>8. /\ s.scenes \in Nat /\ s2.scenes \in Nat /\ s.high \in Nat /\ s.loop \in 0..2
        /\ s.history \in Seq(Closed)
        /\ \A i \in DOMAIN s.history : s.history[i].id \in Nat
    BY <1>1, <1>2, ClosedId DEF SceneTyped, PressTyped
  <1>9. \A outcome \in {"resolved", "transitioned"} :
          LET h == CloseCurrentRecord(s, outcome) IN
          /\ h \in Seq(Closed) /\ Len(h) <= HistoryCap
          /\ \A i, j \in DOMAIN h : i < j => h[i].id < h[j].id
          /\ \A i \in DOMAIN h : h[i].id <= s.scenes
    BY <1>1, ClosedInOrder
  <1>10. \A outcome \in {"resolved", "transitioned"} :
           \A i \in DOMAIN CloseCurrentRecord(s, outcome) :
             CloseCurrentRecord(s, outcome)[i].id \in Nat
    BY <1>9, ClosedId
  <1>11. PressTyped(s2)
    BY <1>4, <1>5, <1>8, <1>9 DEF PressTyped
  <1>12. ScenesNumbered(s2)
    <2>1. CASE v.resolved
      BY <1>5, <1>9, <2>1 DEF ScenesNumbered
    <2>2. CASE ~v.resolved /\ s.current # None /\ v.same
      BY <1>1, <1>5, <2>2 DEF ScenesNumbered
    <2>3. CASE ~v.resolved /\ ~(s.current # None /\ v.same)
      <3> DEFINE h == CloseCurrentRecord(s, "transitioned")
      <3>1. /\ s2.history = h /\ s2.scenes = s.scenes + 1
            /\ s2.current.id = s.scenes + 1
        BY <1>5, <2>3
      <3>2. /\ Len(h) <= HistoryCap
            /\ \A i, j \in DOMAIN h : i < j => h[i].id < h[j].id
            /\ \A i \in DOMAIN h : h[i].id <= s.scenes /\ h[i].id \in Nat
        BY <1>9, <1>10
      <3> HIDE DEF h
      <3>3. \A i \in DOMAIN h : h[i].id < s.scenes + 1 /\ h[i].id <= s.scenes + 1
        BY <3>2, <1>8
      <3> QED BY <3>1, <3>2, <3>3 DEF ScenesNumbered
    <2> QED BY <2>1, <2>2, <2>3
  <1>13. ClockCounts(s2, log2)
    <2> SUFFICES ASSUME NEW n \in Nat, CirclesIn(log2, n)
                 PROVE  s2.high >= n
      BY DEF ClockCounts
    <2>1. CASE n = 0
      BY <1>11, <2>1 DEF PressTyped
    <2>2. CASE n # 0
      <3>1. CirclesIn(log, n - 1) /\ v.saturated /\ ~v.resolved
        BY <1>1, <1>6, <2>2, CirclesGrow
      <3>2. s.high >= n - 1
        BY <1>1, <2>2, <3>1 DEF ClockCounts
      <3> QED BY <1>5, <1>8, <3>1, <3>2
    <2> QED BY <2>1, <2>2
  <1>14. LoopRemembered(s2, log2)
    <2>1. s.scenes <= s2.scenes
      BY <1>4, <1>5, <1>8
    <2>2. \A i \in 1..(Len(log) + 1) : i \in 1..Len(log) \/ i = Len(log) + 1
      BY <1>7
    <2>3. \A i \in 1..Len(log) : log[i].scene \in Nat /\ log[i].scene <= s.scenes
      BY <1>1, <1>7, LoggedScene DEF LoopRemembered
    <2>4. ASSUME NEW i \in 1..(Len(log) + 1)
          PROVE  log2[i].scene <= s2.scenes
      BY <1>6, <1>7, <1>8, <2>1, <2>2, <2>3
    <2>5. ASSUME s2.current # None, NEW i \in 1..(Len(log) + 1),
                 log2[i].scene = s2.scenes, log2[i].verdict.loop = 2
          PROVE  s2.loop = 2
      <3>1. ~v.resolved
        BY <1>5, <2>5
      <3>2. CASE i = Len(log) + 1
        <4>1. v.loop = 2
          BY <1>6, <1>7, <2>5, <3>2
        <4> QED BY <1>4, <1>5, <1>8, <3>1, <4>1
      <3>3. CASE i \in 1..Len(log)
        <4>1. log[i].scene = s2.scenes /\ log[i].verdict.loop = 2 /\ i \in DOMAIN log
          BY <1>7, <2>5, <3>3
        <4>2. s2.scenes # s.scenes + 1
          BY <1>8, <2>3, <3>3, <4>1
        <4>3. s.current # None /\ v.same /\ s2.scenes = s.scenes
          BY <1>5, <3>1, <4>2
        <4>4. s.loop = 2
          BY <1>1, <4>1, <4>3 DEF LoopRemembered
        <4> QED BY <1>4, <1>5, <3>1, <4>3, <4>4
      <3> QED BY <2>2, <3>2, <3>3
    <2> QED BY <1>7, <2>4, <2>5 DEF LoopRemembered
  <1> QED BY <1>3, <1>7, <1>11, <1>12, <1>13, <1>14 DEF Pressed

\* What else happens to the slices leaves all this alone.
LEMMA PressedElsewhere ==
  ASSUME NEW w, NEW w2, Pressed(w), w2.log = w.log,
         w2.scene.current = w.scene.current, w2.scene.loop = w.scene.loop,
         w2.scene.high = w.scene.high, w2.scene.verdict = w.scene.verdict,
         w2.scene.history = w.scene.history, w2.scene.scenes = w.scene.scenes
  PROVE  Pressed(w2)
PROOF
  BY DEF Pressed, PressTyped, ScenesNumbered, ClockCounts, LoopRemembered

LEMMA PressStart == StoryInit => PressInvariant
PROOF
  <1> SUFFICES ASSUME StoryInit PROVE PressInvariant
    OBVIOUS
  <1>1. /\ world.scene = FirstScene /\ world.log = <<>> /\ disk.world = world
        /\ saving = None
    BY DEF StoryInit
  <1>2. /\ FirstScene.current = None /\ FirstScene.loop = 0 /\ FirstScene.high = 0
        /\ FirstScene.verdict = None /\ FirstScene.scenes = 0
        /\ FirstScene.history = <<>>
    BY DEF FirstScene
  <1>3. <<>> \in Seq(Closed) /\ <<>> \in Seq(LogEntry) /\ Len(<<>>) = 0 /\ DOMAIN <<>> = {}
    BY EmptySeq
  <1>4. ClockCounts(FirstScene, <<>>)
    BY <1>2, <1>3 DEF ClockCounts, CirclesIn
  <1>5. PressTyped(FirstScene) /\ ScenesNumbered(FirstScene)
    BY <1>2, <1>3, StoryAssumption DEF PressTyped, ScenesNumbered
  <1>6. LoopRemembered(FirstScene, <<>>)
    BY <1>2, <1>3 DEF LoopRemembered
  <1> QED BY <1>1, <1>3, <1>4, <1>5, <1>6 DEF PressInvariant, Pressed

\* A job's turn: only the probe's tool touches the scene, and only by reports.
LEMMA ToolPresses ==
  ASSUME NEW w, WorldTyped(w), Pressed(w), NEW job \in Job,
         NEW w2 \in ToolEffects(job, w) \cup {WithoutTool(job, w)}
  PROVE  Pressed(w2)
PROOF
  <1>1. CASE w2 = WithoutTool(job, w)
    <2>1. w2.scene = w.scene /\ w2.log = w.log
      BY <1>1 DEF WithoutTool, WorldTyped, WorldFields
    <2> QED BY <2>1, PressedElsewhere
  <1>2. CASE job.reason = "character.outfit_sync" /\ w2 \in ToolEffects(job, w)
    <2>1. w2 = [w EXCEPT !.outfit = turns]
      BY <1>2 DEF ToolEffects
    <2>2. w2.scene = w.scene /\ w2.log = w.log
      BY <2>1 DEF WorldTyped, WorldFields
    <2> QED BY <2>2, PressedElsewhere
  <1>3. CASE job.reason = "summary.make" /\ w2 \in ToolEffects(job, w)
    <2>1. w2 = StoreSummary(w, job.seen)
      BY <1>3 DEF ToolEffects
    <2>2. w2.scene = w.scene /\ w2.log = w.log
      BY <2>1 DEF StoreSummary, WorldTyped, WorldFields
    <2> QED BY <2>2, PressedElsewhere
  <1>4. CASE job.reason = "scene_controller.probe" /\ w2 \in ToolEffects(job, w)
    <2>1. PICK v1 \in Verdicts, v2 \in Verdicts :
            w2 \in {ReportScene(w, v1), ReportScene(ReportScene(w, v1), v2)}
      BY <1>4 DEF ToolEffects
    <2>2. Pressed(ReportScene(w, v1)) /\ WorldTyped(ReportScene(w, v1))
      BY ReportPresses, ReportType
    <2> QED BY <2>1, <2>2, ReportPresses
  <1>5. job.reason \in Reasons
    BY DEF Job
  <1> QED BY <1>1, <1>2, <1>3, <1>4, <1>5 DEF Reasons

LEMMA PressStep ==
  SummaryInvariant /\ PressInvariant /\ [StoryNext]_storyVars => PressInvariant'
PROOF
  <1> SUFFICES ASSUME SummaryInvariant, PressInvariant, [StoryNext]_storyVars
               PROVE  PressInvariant'
    OBVIOUS
  <1>1. /\ WorldTyped(world) /\ WorldTyped(disk.world)
        /\ running \in SUBSET Job /\ Pressed(world) /\ Pressed(disk.world)
        /\ saving # None => WorldTyped(saving) /\ Pressed(saving)
    BY DEF SummaryInvariant, Typed, PressInvariant
  <1>2. ASSUME NEW paired \in BOOLEAN, NEW kept \in SUBSET Reasons,
               FreeText(paired, kept)
        PROVE  PressInvariant'
    <2> DEFINE w1 == AppendPair(world, paired)
               r == RecordTurn(world.scene, turns + 1)
               m == world.missed \/ SummaryLost(world, paired, kept)
    <2>1. /\ DOMAIN w1 = WorldFields /\ w1.scene = world.scene /\ w1.log = world.log
          /\ w1.missed = world.missed
      BY <1>1 DEF AppendPair, WorldTyped, WorldFields
    <2>2. /\ world' = [w1 EXCEPT !.scene = r, !.missed = m]
          /\ disk'.world = world' /\ saving' = saving
      BY <1>2, <2>1 DEF FreeText
    <2>3. /\ r.current = world.scene.current /\ r.loop = world.scene.loop
          /\ r.high = world.scene.high /\ r.verdict = world.scene.verdict
          /\ r.history = world.scene.history /\ r.scenes = world.scene.scenes
      BY <1>1 DEF RecordTurn, WorldTyped, SceneTyped, SceneFields
    <2> HIDE DEF w1, r, m
    <2>4. world'.log = world.log /\ world'.scene = r
      BY <2>1, <2>2 DEF WorldFields
    <2>5. Pressed(world')
      BY <1>1, <2>3, <2>4, PressedElsewhere
    <2> QED BY <1>1, <2>2, <2>5 DEF PressInvariant
  <1>3. CASE JobStarts
    BY <1>1, <1>3 DEF JobStarts, PressInvariant
  <1>4. CASE JobCommits
    <2>1. PICK job \in running :
            world' \in ToolEffects(job, world) \cup {WithoutTool(job, world)}
      BY <1>4 DEF JobCommits
    <2>2. disk'.world = world' /\ saving' = saving /\ job \in Job
      BY <1>1, <1>4 DEF JobCommits
    <2>3. Pressed(world')
      BY <1>1, <2>1, <2>2, ToolPresses
    <2> QED BY <1>1, <2>2, <2>3 DEF PressInvariant
  <1>5. CASE JobRejected
    <2>1. PICK job \in running : world' = WithoutTool(job, world)
      BY <1>5 DEF JobRejected
    <2>2. disk' = disk /\ saving' = saving /\ job \in Job
      BY <1>1, <1>5 DEF JobRejected
    <2>3. Pressed(world')
      BY <1>1, <2>1, <2>2, ToolPresses
    <2> QED BY <1>1, <2>2, <2>3 DEF PressInvariant
  <1>6. CASE ReadForSave
    BY <1>1, <1>6 DEF ReadForSave, PressInvariant
  <1>7. CASE WriteSave
    <2> DEFINE T == saving.torn \/ Slices(saving) # Slices(world)
               w == [saving EXCEPT !.torn = T]
    <2>1. /\ disk'.world = w /\ world' = world /\ saving' = None
          /\ WorldTyped(saving) /\ Pressed(saving)
      BY <1>1, <1>7 DEF WriteSave
    <2> HIDE DEF T
    <2>2. w.log = saving.log /\ w.scene = saving.scene
      BY <2>1 DEF WorldTyped, WorldFields
    <2> HIDE DEF w
    <2>3. Pressed(w)
      BY <2>1, <2>2, PressedElsewhere
    <2> QED BY <1>1, <2>1, <2>3 DEF PressInvariant
  <1>8. CASE Restart
    <2>1. /\ world'.scene = disk.world.scene /\ world'.log = disk.world.log
          /\ disk' = disk /\ saving' = None
      BY <1>1, <1>8 DEF Restart, WorldTyped, WorldFields
    <2>2. Pressed(world')
      BY <1>1, <2>1, PressedElsewhere
    <2> QED BY <1>1, <2>1, <2>2 DEF PressInvariant
  <1>9. CASE UNCHANGED storyVars
    BY <1>1, <1>9 DEF storyVars, PressInvariant
  <1> QED BY <1>2, <1>3, <1>4, <1>5, <1>6, <1>7, <1>8, <1>9 DEF StoryNext

\* A scene that goes round in circles is pressed to its end, however probes
\* rename it, repeat themselves, fail or are lost in a restart, for every
\* choice of the thresholds; closed scenes stay in order, up to the cap
\* (scene-controller/src/transitions.ts, guidance.ts).
THEOREM CirclesEnd == StorySpec => []ScenesArePressed
PROOF
  <1>1. SummaryInvariant /\ PressInvariant => ScenesArePressed
    <2> SUFFICES ASSUME SummaryInvariant, PressInvariant PROVE ScenesArePressed
      OBVIOUS
    <2> DEFINE s == world.scene
    <2>1. /\ SceneTyped(s) /\ PressTyped(s) /\ ScenesNumbered(s)
          /\ ClockCounts(s, world.log) /\ LoopRemembered(s, world.log)
      BY DEF SummaryInvariant, Typed, WorldTyped, PressInvariant, Pressed
    <2>2. \A n : Circles(n) <=> CirclesIn(world.log, n)
      BY DEF Circles, CirclesIn
    <2>3. HardBeats \in Nat /\ ClimaxBeats \in Nat
      BY StoryAssumption
    <2>4. EffectiveUrgency(s) \in 0..3 /\ DeterministicFloor(s) \in 0..3
          /\ EffectiveUrgency(s) >= DeterministicFloor(s)
      <3>1. s.verdict # None => s.verdict.urgency \in 0..3
        BY <2>1, StoryAssumption DEF PressTyped
      <3>2. DeterministicFloor(s) \in 0..3
        BY DEF DeterministicFloor
      <3> QED BY <3>1, <3>2 DEF EffectiveUrgency
    <2>5. ASSUME s.current # None, Circles(HardBeats)
          PROVE  GuidanceMode(s) = "hard"
      <3>1. s.high >= HardBeats
        BY <2>1, <2>2, <2>3, <2>5 DEF ClockCounts
      <3>2. DeterministicFloor(s) = 3
        BY <2>5, <3>1 DEF DeterministicFloor
      <3>3. EffectiveUrgency(s) = 3
        BY <2>4, <3>2
      <3> QED BY <2>5, <3>3 DEF GuidanceMode
    <2>6. ASSUME s.current # None, NEW i \in DOMAIN world.log,
                 world.log[i].scene = s.current.id, world.log[i].verdict.loop = 2
          PROVE  GuidanceMode(s) = "hard"
      <3>1. s.loop = 2
        BY <2>1, <2>6 DEF LoopRemembered, ScenesNumbered
      <3> QED BY <2>6, <3>1 DEF GuidanceMode
    <2>7. ASSUME s.current # None, Circles(ClimaxBeats)
          PROVE  GuidanceMode(s) \in {"climax", "hard"}
      <3>1. s.high >= ClimaxBeats
        BY <2>1, <2>2, <2>3, <2>7 DEF ClockCounts
      <3>2. DeterministicFloor(s) \in {2, 3}
        BY <2>7, <3>1 DEF DeterministicFloor
      <3>3. EffectiveUrgency(s) \in {2, 3}
        BY <2>4, <3>2
      <3> QED BY <2>7, <3>3 DEF GuidanceMode
    <2>8. \A i \in DOMAIN s.history : s.current # None => s.history[i].id < s.current.id
      BY <2>1 DEF ScenesNumbered
    <2> DEFINE ids == [i \in DOMAIN s.history |-> s.history[i].id]
    <2>9. /\ DOMAIN ids = DOMAIN s.history /\ \A i \in DOMAIN ids : ids[i] = s.history[i].id
          /\ \A i, j \in DOMAIN ids : i < j => ids[i] < ids[j]
      BY <2>1 DEF ScenesNumbered
    <2>10. Len(ids) = Len(s.history)
      <3>1. DOMAIN s.history = 1..Len(s.history) /\ Len(s.history) \in Nat
        BY <2>1 DEF PressTyped
      <3>2. ids \in Seq(Nat)
        <4>1. \A i \in 1..Len(s.history) : s.history[i].id \in Nat
          BY <2>1, <3>1, ClosedId DEF PressTyped
        <4> QED BY <3>1, <4>1
      <3> QED BY <2>9, <3>1, <3>2
    <2>11. Len(ids) <= HistoryCap
      BY <2>1, <2>10 DEF ScenesNumbered
    <2> QED BY <2>5, <2>6, <2>7, <2>8, <2>9, <2>11 DEF ScenesArePressed
  <1> QED
    BY <1>1, SummaryAlways, PressStart, PressStep, PTL DEF StorySpec
=============================================================================
