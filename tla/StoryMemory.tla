---------------------------- MODULE StoryMemory ----------------------------
(***************************************************************************)
(* What the story modules remember of a session (packages/modules): the    *)
(* working memory keeps every pair of player text and passage, the summary *)
(* module condenses the pairs that leave the prompt's window, the scene    *)
(* controller presses a scene that goes round in circles to its end, the   *)
(* character's outfit follows the story. The last three look at a turn     *)
(* after its commit, each in a background system turn of its own.          *)
(*                                                                         *)
(* One session whose turns are serial (SessionRuntime is about that); a    *)
(* commit stores the slices and the queue of the moment. Texts are left    *)
(* out: a pair is its index, a summary the pairs it stands for and the     *)
(* pairs its task was asked to tell of, an outfit the turn that set it.    *)
(***************************************************************************)
EXTENDS Naturals, Sequences

CONSTANTS
  None,
  Window,        \* windowPairs: pairs in the narrator's prompt
  Interval,      \* intervalTurns: pairs from one summary to the next
  HistoryCap, ClimaxBeats, HardBeats,  \* config of the scene controller
  Verdicts,      \* what a probe may report; "saturated" says that progress is
                 \* at saturatedProgress or above it
  MaxTurns, MaxRestarts   \* bounds

\* The interval is taken from the window's variable (resolveSummaryConfig).
ASSUME StoryAssumption ==
  /\ Window \in Nat /\ Interval \in 1..Window
  /\ {HistoryCap, ClimaxBeats, HardBeats} \subseteq Nat \ {0}
  /\ Verdicts \subseteq [same : BOOLEAN, saturated : BOOLEAN, stall : BOOLEAN,
                         loop : 0..2, urgency : 0..3, resolved : BOOLEAN]

VARIABLES
  world,     \* the slices: memory, summary, scene, outfit
  queue,     \* pendingSystemTurns
  running,   \* the job, if any, that the pump took off the queue
  pumping,   \* does the pump take jobs?
  disk,      \* what the last commit, or save, stored
  saving,    \* the slices that a save has read and not yet stored
  turns, restarts   \* player turns, restarts

storyVars ==
  <<world, queue, running, pumping, disk, saving, turns, restarts>>

FirstScene ==
  [current |-> None, loop |-> 0, stalls |-> 0, high |-> 0, verdict |-> None,
   lastTurn |-> 0, history |-> <<>>, playerTurns |-> 0, probes |-> 0,
   resolved |-> 0, scenes |-> 0]

\* Ghosts: "missed", a due summary was not asked for, or its task came to
\* nothing; "torn", the slices were stored with the queue of another moment;
\* "log", the probes' verdicts with the scene that each was about.
StoryInit ==
  /\ world = [pairs |-> 0, summarized |-> 0, summaries |-> <<>>, outfit |-> 0,
              scene |-> FirstScene, missed |-> FALSE, torn |-> FALSE,
              log |-> <<>>]
  /\ queue = <<>> /\ running = {} /\ pumping = TRUE /\ saving = None
  /\ turns = 0 /\ restarts = 0
  /\ disk = [world |-> world, queue |-> <<>>]

-----------------------------------------------------------------------------
(* Summaries (summary/src/selectors, index.ts)                             *)

ShouldSummarize(total, last) == total >= last + Interval
ChunkRange(last, total) == [from |-> last + 1, to |-> total]

\* committed sees the slices from before the turn, and adds the turn's pair.
OnlyStoredPairs(w, paired) == w.pairs   \* mutant: the pair is not there yet
PairsSeen(w, paired) == IF paired THEN w.pairs + 1 ELSE w.pairs

SummaryJob(w, paired) ==
  IF ShouldSummarize(PairsSeen(w, paired), w.summarized)
  THEN <<[reason |-> "summary.make",
          seen |-> ChunkRange(w.summarized, PairsSeen(w, paired))]>>
  ELSE <<>>

\* The tool "store" numbers the chunk by the slices of the system turn, its
\* text is about what the task saw; nothing new is denied, and so is a second
\* chunk with the same number.
Chunk(w, seen) == [from |-> w.summarized + 1, to |-> w.pairs, tells |-> seen]
CanStore(w) == w.summarized < w.pairs
StoreSummary(w, seen) ==
  [w EXCEPT !.summarized = @ + (w.pairs - w.summarized),
            !.summaries = Append(@, Chunk(w, seen)), !.missed = FALSE]

-----------------------------------------------------------------------------
(* Scenes (scene-controller/src/transitions.ts, guidance.ts)               *)

MaxLoop(a, b) == IF b > a THEN b ELSE a   \* 0 none, 1 soft, 2 hard

\* The clock does not ask whether the scene is the same.
ClockOfScene(high, v) ==   \* mutant: a new scene winds it back
  IF v.saturated /\ v.same THEN high + 1 ELSE 0
NextHighProgressBeats(high, v) == IF v.saturated THEN high + 1 ELSE 0

CloseCurrentRecord(s, outcome) ==
  LET record == [id |-> s.current.id, beats |-> s.current.beat,
                 outcome |-> outcome, ended |-> s.lastTurn]
      all == Append(s.history, record)
  IN  IF s.current = None THEN s.history
      ELSE IF Len(all) > HistoryCap THEN Tail(all) ELSE all

RecordTurn(s, t) == [s EXCEPT !.lastTurn = t, !.playerTurns = @ + 1]

SceneResolved(s, v) ==
  [s EXCEPT !.current = None, !.loop = 0, !.stalls = 0, !.high = 0,
            !.verdict = v, !.history = CloseCurrentRecord(s, "resolved"),
            !.resolved = IF s.current = None THEN @ ELSE @ + 1,
            !.probes = @ + 1]
SceneGoesOn(s, v) ==
  [s EXCEPT !.current.beat = @ + 1, !.loop = MaxLoop(@, v.loop),
            !.stalls = IF v.stall THEN @ + 1 ELSE 0,
            !.high = NextHighProgressBeats(@, v), !.verdict = v,
            !.probes = @ + 1]
SceneBegins(s, v) ==
  [s EXCEPT !.current = [id |-> s.scenes + 1, beat |-> 1], !.loop = v.loop,
            !.stalls = IF v.stall THEN 1 ELSE 0,
            !.high = NextHighProgressBeats(@, v), !.verdict = v,
            !.history = CloseCurrentRecord(s, "transitioned"),
            !.scenes = @ + 1, !.probes = @ + 1]

ApplyProbeReport(s, v) ==
  IF v.resolved THEN SceneResolved(s, v)
  ELSE IF s.current # None /\ v.same THEN SceneGoesOn(s, v)
  ELSE SceneBegins(s, v)

ReportScene(w, v) ==
  LET after == ApplyProbeReport(w.scene, v) IN
  [w EXCEPT !.scene = after,
            !.log = Append(@, [verdict |-> v, scene |-> after.scenes,
                               about |-> w.scene.lastTurn])]

DeterministicFloor(s) ==
  IF s.current = None THEN 0
  ELSE IF s.high >= HardBeats THEN 3
  ELSE IF s.high >= ClimaxBeats THEN 2 ELSE 0

EffectiveUrgency(s) ==
  LET model == IF s.verdict = None THEN 0 ELSE s.verdict.urgency
      floor == DeterministicFloor(s)
  IN  IF model > floor THEN model ELSE floor

GuidanceMode(s) ==
  CASE s.current = None -> None
    [] s.current # None /\ (s.loop = 2 \/ EffectiveUrgency(s) = 3) -> "hard"
    [] s.current # None /\ s.loop # 2 /\ EffectiveUrgency(s) # 3
       /\ (s.loop = 1 \/ EffectiveUrgency(s) = 2) -> "climax"
    [] OTHER -> "develop"

-----------------------------------------------------------------------------
(* Player turns                                                            *)

\* waitForSessionIdle: no background job is queued, none runs. (After two
\* minutes the action is rejected, which changes nothing here.)
Anytime == TRUE   \* mutant: a player does not wait for the queue
SessionIdle == queue = <<>> /\ running = {}

\* A free text whose turn has a pair is looked at afterwards, in the order of
\* the modules. The probe's payload has the scene, the outfit's the character.
\* A scheduler that fails, and an after stage that ends before its schedulers
\* have run, is ignored: the jobs are those of the "kept" reasons.
Reasons == {"character.outfit_sync", "summary.make", "scene_controller.probe"}
JobsFor(w, t, paired, kept) ==
  (IF paired /\ "character.outfit_sync" \in kept
   THEN <<[reason |-> "character.outfit_sync", seen |-> w.outfit]>> ELSE <<>>)
  \o (IF "summary.make" \in kept THEN SummaryJob(w, paired) ELSE <<>>)
  \o (IF paired /\ "scene_controller.probe" \in kept
      THEN <<[reason |-> "scene_controller.probe",
              seen |-> [turn |-> t, current |-> w.scene.current]]>>
      ELSE <<>>)

\* A free text that commits; with a blank text or passage it makes no pair.
\* (A turn of another kind touches none of these slices and is left out.)
AppendPair(w, paired) == IF paired THEN [w EXCEPT !.pairs = @ + 1] ELSE w
SummaryLost(w, paired, kept) ==
  SummaryJob(w, paired) # <<>> /\ "summary.make" \notin kept

FreeText(paired, kept) ==
  /\ SessionIdle /\ turns < MaxTurns
  /\ world' = [AppendPair(world, paired) EXCEPT
                 !.scene = RecordTurn(@, turns + 1),
                 !.missed = @ \/ SummaryLost(world, paired, kept)]
  /\ disk' = [world |-> world', queue |-> queue]
  /\ queue' = queue \o JobsFor(world, turns + 1, paired, kept)
  /\ turns' = turns + 1 /\ pumping' = TRUE
  /\ UNCHANGED <<running, saving, restarts>>

-----------------------------------------------------------------------------
(* Background system turns                                                 *)

\* The pump takes the oldest job off the queue and runs its turn.
JobStarts ==
  /\ pumping /\ running = {} /\ queue # <<>>
  /\ running' = {Head(queue)} /\ queue' = Tail(queue)
  /\ UNCHANGED <<world, pumping, disk, saving, turns, restarts>>

\* The job's task called its tool, once or, for some of them, once more.
ToolEffects(job, w) ==
  CASE job.reason = "character.outfit_sync" ->
         {[w EXCEPT !.outfit = turns]}
    [] job.reason = "summary.make" ->
         IF CanStore(w) THEN {StoreSummary(w, job.seen)} ELSE {}
    [] job.reason = "scene_controller.probe" ->
         {ReportScene(w, v) : v \in Verdicts}
           \cup {ReportScene(ReportScene(w, v1), v2) : v1, v2 \in Verdicts}

\* The task is optional: one that fails, or does without its tool, ends a turn
\* that commits nothing.
WithoutTool(job, w) ==
  IF job.reason = "summary.make" THEN [w EXCEPT !.missed = TRUE] ELSE w

JobCommits ==
  /\ \E job \in running :
       world' \in ToolEffects(job, world) \cup {WithoutTool(job, world)}
  /\ running' = {}
  /\ disk' = [world |-> world', queue |-> queue]
  /\ UNCHANGED <<queue, pumping, saving, turns, restarts>>

\* A rejected job, as one with two summaries is, stops the pump.
JobRejected ==
  /\ \E job \in running : world' = WithoutTool(job, world)
  /\ running' = {} /\ pumping' = FALSE
  /\ UNCHANGED <<queue, disk, saving, turns, restarts>>

-----------------------------------------------------------------------------
(* Saving and loading                                                      *)

\* save() reads the slices, awaits the metadata of the modules, and stores what
\* it read with the queue that it finds then. (Bounds: one save at a time, and
\* none that no restart would read.)
ReadForSave ==
  /\ restarts < MaxRestarts
  /\ saving = None /\ saving' = world
  /\ UNCHANGED <<world, queue, running, pumping, disk, turns, restarts>>

Slices(w) == [w EXCEPT !.missed = FALSE]   \* without the ghost

WriteSave ==
  /\ saving # None /\ saving' = None
  /\ disk' = [world |-> [saving EXCEPT !.torn =
                           @ \/ Slices(saving) # Slices(world)],
              queue |-> queue]
  /\ UNCHANGED <<world, queue, running, pumping, turns, restarts>>

\* The process ends and the session is loaded again: the jobs queued since the
\* last commit, or save, are gone, those stored with it are run.
Holds(jobs, reason) == \E i \in DOMAIN jobs : jobs[i].reason = reason
Waits(reason) ==
  Holds(queue, reason) \/ \E job \in running : job.reason = reason

Restart ==
  /\ restarts < MaxRestarts /\ restarts' = restarts + 1
  /\ world' = [disk.world EXCEPT !.missed =
                 @ \/ /\ ~Holds(disk.queue, "summary.make")
                      /\ Waits("summary.make") \/ world.missed]
  /\ queue' = disk.queue /\ running' = {} /\ pumping' = TRUE /\ saving' = None
  /\ UNCHANGED <<disk, turns>>

StoryNext ==
  \/ \E paired \in BOOLEAN, kept \in SUBSET Reasons : FreeText(paired, kept)
  \/ JobStarts \/ JobCommits \/ JobRejected
  \/ ReadForSave \/ WriteSave \/ Restart

StorySpec == StoryInit /\ [][StoryNext]_storyVars
=============================================================================
