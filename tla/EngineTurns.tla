----------------------------- MODULE EngineTurns -----------------------------
(***************************************************************************)
(* Turns of several sessions on one engine: what a turn asks of the shared *)
(* orchestrator and of the shared tracer (turn-pipeline.ts). Turns of one  *)
(* session follow each other; turns of different sessions may overlap.     *)
(***************************************************************************)
EXTENDS AgentTasks

CONSTANTS
  Before,        \* of a turn: the turns of its session that come first
  FollowUps,     \* system turns that attach to the dossier before them
  MaxParallel,   \* agents.maxParallelPerTurn
  WriteOnReject  \* config.tracing.writeOnReject

ASSUME EngineAssumption ==
  /\ Before \in [Turns -> SUBSET Turns] /\ FollowUps \subseteq Turns
  /\ MaxParallel \in Nat \ {0} /\ WriteOnReject \in BOOLEAN

VARIABLES root, rootData, sections, hasPath, followUp, bucket, files,
  turnStep,      \* where each turn is
  recorded,      \* tasks whose result the turn has recorded
  crowded        \* turns that met another turn, or a task left running

tracerVars == <<root, rootData, sections, hasPath, followUp, bucket, files>>
turnVars == <<turnStep, recorded, crowded>>
engineVars == <<agentVars, tracerVars, turnVars>>

Item == [task : Tasks, tool : BOOLEAN, parent : Tasks \cup {NoTask}]
Tracer == INSTANCE TurnTracer
  WITH TraceTurns <- Turns, NoTrace <- NoTurn, Items <- Item

AgentItem(t) == [task |-> t, tool |-> FALSE, parent |-> NoTask]
ToolItem(c) == [task |-> c.task, tool |-> TRUE, parent |-> c.parent]

TasksOf(turn) == {t \in Tasks : TurnOf[t] = turn}
IsOpen(turn) == turnStep[turn] = "open"
UnderWay(turn) == turnStep[turn] \in {"open", "closing", "closing_rejected"}
Busy == {turn \in Turns :
           UnderWay(turn) \/ \E t \in TasksOf(turn) : Running(t)}
MoveTurn(turn, to) == turnStep' = [turnStep EXCEPT ![turn] = to]

EngineInit ==
  /\ AgentsInit /\ Tracer!TracerInit
  /\ turnStep = [turn \in Turns |-> "new"]
  /\ recorded = {} /\ crowded = {}

\* run: beginTurn of the orchestrator, then the trace.
TurnBegins(turn) ==
  /\ turnStep[turn] = "new"
  /\ \A b \in Before[turn] : turnStep[b] \in {"committed", "rejected"}
  /\ BeginTurn(turn)
  /\ IF turn \in FollowUps THEN Tracer!OpenFollowUp(turn)
     ELSE Tracer!OpenRoot(turn)
  /\ MoveTurn(turn, "open")
  /\ crowded' = IF Busy = {} THEN crowded ELSE crowded \cup Busy \cup {turn}
  /\ UNCHANGED recorded

\* executeMany starts a task with the turn's context, up to MaxParallel at
\* once; requestAgent starts one without.
TurnAsks(turn, t) ==
  /\ IsOpen(turn) /\ TurnOf[t] = turn
  /\ \/ /\ Cardinality({u \in TasksOf(turn) : Running(u)}) < MaxParallel
        /\ Execute(t, TRUE)
     \/ (\A u \in TasksOf(turn) : ~Running(u)) /\ Execute(t, FALSE)
  /\ UNCHANGED <<tracerVars, turnVars>>

TaskRuns(t) == TaskStep(t) /\ UNCHANGED <<tracerVars, turnVars>>

DrainedOwn(turn) == {}         \* mutant: the tool calls are thrown away
Drained(turn) == toolCalls

\* All results are in: each is recorded, then every tool call in the list.
TurnRecords(turn) ==
  LET done == {t \in TasksOf(turn) : Ended(t)} \ recorded IN
  /\ IsOpen(turn) /\ done # {}
  /\ \A t \in TasksOf(turn) : ~Running(t)
  /\ Tracer!Record({AgentItem(t) : t \in done}
                   \cup {ToolItem(c) : c \in Drained(turn)})
  /\ DrainToolCalls
  /\ recorded' = recorded \cup done
  /\ UNCHANGED <<turnStep, crowded>>

\* The turn commits, its results recorded; or it is rejected, by a stage that
\* timed out with tasks still running or by a required task whose tool calls
\* are not drained any more.
TurnFinishes(turn, committed, written) ==
  /\ IsOpen(turn)
  /\ committed => \A t \in TasksOf(turn) : t \in recorded \/ tstep[t] = "new"
  /\ Tracer!Finalize(committed, written)
  /\ MoveTurn(turn, IF committed THEN "closing" ELSE "closing_rejected")
  /\ UNCHANGED <<agentVars, recorded, crowded>>

\* finalize has awaited the sink; orchestrator.endTurn is last.
TurnEndsIt(turn) ==
  /\ \/ turnStep[turn] = "closing" /\ MoveTurn(turn, "committed")
     \/ turnStep[turn] = "closing_rejected" /\ MoveTurn(turn, "rejected")
  /\ EndTurn
  /\ UNCHANGED <<tracerVars, recorded, crowded>>

EngineNext ==
  \/ \E turn \in Turns : TurnBegins(turn) \/ TurnRecords(turn) \/ TurnEndsIt(turn)
  \/ \E turn \in Turns, t \in Tasks : TurnAsks(turn, t)
  \/ \E t \in Tasks : TaskRuns(t)
  \/ \E turn \in Turns, committed \in BOOLEAN, written \in BOOLEAN :
       TurnFinishes(turn, committed, written)

EngineSpec == EngineInit /\ [][EngineNext]_engineVars
=============================================================================
