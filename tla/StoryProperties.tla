-------------------------- MODULE StoryProperties --------------------------
(***************************************************************************)
(* What the story modules owe the story, however its background jobs end.  *)
(***************************************************************************)
EXTENDS StoryMemory

\* What a job of this kind would be given if it were scheduled now.
SeenNow(reason, w) ==
  CASE reason = "character.outfit_sync" -> w.outfit
    [] reason = "summary.make" -> ChunkRange(w.summarized, w.pairs)
    [] reason = "scene_controller.probe" ->
         [turn |-> w.scene.lastTurn, current |-> w.scene.current]

IsFresh(job, w) == job.seen = SeenNow(job.reason, w)
Fresh(jobs, w) ==
  /\ \A i \in DOMAIN jobs : IsFresh(jobs[i], w)
  /\ \A i, j \in DOMAIN jobs : jobs[i].reason = jobs[j].reason => i = j

\* A background job reads a copy of the slices that its player turn made, long
\* after that turn: the copy is still what the slices say when the job's tool
\* writes to them, in the queue and in the stored one, and no two jobs of one
\* kind wait (payloads of committed, session-runtime.ts waitForSessionIdle).
\* Slices that a save stored with the queue of a later moment are excused.
JobsAreFresh ==
  /\ ~world.torn =>
       /\ Fresh(queue, world)
       /\ \A job \in running :
            IsFresh(job, world) /\ ~Holds(queue, job.reason)
  /\ ~disk.world.torn => Fresh(disk.queue, disk.world)

\* The chunks follow one another from the first pair, each is about just the
\* pairs that its text was asked to tell of, and when the player is on turn no
\* pair has left the narrator's window without a summary, unless one that was
\* due was not scheduled or its task came to nothing (summary/src/index.ts:
\* 117-119). Slices stored with the queue of a later moment are excused.
SummariesAreComplete == ~world.torn =>
  /\ \A i \in DOMAIN world.summaries :
       /\ world.summaries[i].tells =
            [from |-> world.summaries[i].from, to |-> world.summaries[i].to]
       /\ world.summaries[i].from =
            IF i = 1 THEN 1 ELSE world.summaries[i - 1].to + 1
  /\ SessionIdle /\ ~world.missed => world.pairs <= world.summarized + Window

\* The last n probes all found the scene near its end, and none concluded it.
Circles(n) ==
  /\ Len(world.log) >= n
  /\ \A i \in (Len(world.log) - n + 1)..Len(world.log) :
       world.log[i].verdict.saturated /\ ~world.log[i].verdict.resolved

\* A scene that goes round in circles is pressed to its end however its probes
\* name it: HardBeats probes in a row that find it near its end, or one that
\* ever found it looping hard, make the conclusion mandatory, ClimaxBeats ask
\* for it. Closed scenes are kept in order, each once, up to the cap.
ScenesArePressed ==
  LET s == world.scene
      ids == [i \in DOMAIN s.history |-> s.history[i].id]
  IN  /\ s.current # None =>
           /\ (\/ Circles(HardBeats)
               \/ \E i \in DOMAIN world.log :
                    /\ world.log[i].scene = s.current.id
                    /\ world.log[i].verdict.loop = 2)
                => GuidanceMode(s) = "hard"
           /\ Circles(ClimaxBeats) => GuidanceMode(s) \in {"climax", "hard"}
           /\ \A i \in DOMAIN ids : ids[i] < s.current.id
      /\ \A i, j \in DOMAIN ids : i < j => ids[i] < ids[j]
      /\ Len(ids) <= HistoryCap
=============================================================================
