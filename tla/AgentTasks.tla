----------------------------- MODULE AgentTasks -----------------------------
(***************************************************************************)
(* Agent tasks of the engine (agent-orchestrator.ts) and the loops that    *)
(* ask the model: the adapter of standard tasks, which repairs a bad       *)
(* answer (standard-task-llm-adapter.ts), and the tool loop                *)
(* (tool-loop.ts). There is one orchestrator for all sessions: it keeps    *)
(* one active context, one active task and one list of tool calls. A step  *)
(* is the code between two awaits. The turns that ask are EngineTurns.     *)
(***************************************************************************)
EXTENDS Naturals, FiniteSets

CONSTANTS
  Turns, NoTurn,   \* the turns that run, of all sessions
  Tasks, NoTask,   \* agent tasks
  TurnOf,          \* the turn a task belongs to
  PathOf,          \* what answers it: "adapter", "loop" or "mock"
  Denied,          \* tasks whose module lacks the permission to ask
  MaxRepairs,      \* constraints.maxRepairAttempts
  MaxRounds        \* constraints.maxToolRounds

ASSUME AgentAssumption ==
  /\ NoTurn \notin Turns /\ NoTask \notin Tasks
  /\ TurnOf \in [Tasks -> Turns]
  /\ PathOf \in [Tasks -> {"adapter", "loop", "mock"}]
  /\ Denied \subseteq Tasks
  /\ MaxRepairs \in Nat /\ MaxRounds \in Nat \ {0}

VARIABLES
  activeCtx,   \* the turn whose context is active
  activeTask,  \* activeTaskId
  toolCalls,   \* lastToolCalls: who called, and on whom it is booked
  tstep,       \* where each task is
  attempt, round,  \* its repair attempt and tool round
  asked,       \* how often it asked the model
  toolCtx,     \* the context its tools get
  streamed,    \* tasks with a narrativeStreamBuffers entry
  announced,   \* the last event: its task, the turn whose session gets it
  finished     \* how often agent.task.finished was published for it

agentVars == <<activeCtx, activeTask, toolCalls, tstep, attempt, round, asked,
               toolCtx, streamed, announced, finished>>

Running(t) == tstep[t] \in {"asking", "calling"}
Ended(t) == tstep[t] \in {"ok", "failed"}
ToolCall == [task : Tasks, parent : Tasks \cup {NoTask}]
Nothing == [task |-> NoTask, to |-> NoTurn]

AgentsInit ==
  /\ activeCtx = NoTurn /\ activeTask = NoTask /\ toolCalls = {}
  /\ tstep = [t \in Tasks |-> "new"]
  /\ attempt = [t \in Tasks |-> 0] /\ round = [t \in Tasks |-> 0]
  /\ asked = [t \in Tasks |-> 0] /\ toolCtx = [t \in Tasks |-> NoTurn]
  /\ streamed = {} /\ announced = Nothing
  /\ finished = [t \in Tasks |-> 0]

Announce(t, ctx) == announced' = [task |-> t, to |-> ctx]

FinishForgetsBuffer(t) == streamed     \* mutant
BufferAfter(t) == streamed \ {t}

\* emitFinished, and the finally of execute.
EndTask(t, how) ==
  /\ tstep' = [tstep EXCEPT ![t] = how]
  /\ finished' = [finished EXCEPT ![t] = @ + 1]
  /\ streamed' = BufferAfter(t)
  /\ Announce(t, activeCtx)
  /\ activeTask' = NoTask

\* execute: with a context (executeMany) or without one (requestAgent), when
\* whatever context is active is used. A tool task without any finds no
\* adapter; a task type without a handler does not either.
Execute(t, withCtx) ==
  LET ctx == IF withCtx THEN TurnOf[t] ELSE activeCtx IN
  /\ tstep[t] = "new"
  /\ activeCtx' = ctx
  /\ Announce(t, ctx)
  /\ IF t \in Denied
     THEN /\ tstep' = [tstep EXCEPT ![t] = "failed"]
          /\ finished' = [finished EXCEPT ![t] = @ + 1]
          /\ UNCHANGED <<activeTask, asked, toolCtx, round>>
     ELSE /\ toolCtx' = [toolCtx EXCEPT ![t] = ctx]
          /\ IF PathOf[t] = "loop" /\ ctx = NoTurn
             THEN /\ tstep' = [tstep EXCEPT ![t] = "failed"]
                  /\ finished' = [finished EXCEPT ![t] = @ + 1]
                  /\ activeTask' = NoTask /\ UNCHANGED <<asked, round>>
             ELSE /\ tstep' = [tstep EXCEPT ![t] = "asking"]
                  /\ asked' = [asked EXCEPT ![t] = @ + 1]
                  /\ round' = [round EXCEPT ![t] = 1]
                  /\ activeTask' = t /\ UNCHANGED finished
  /\ UNCHANGED <<toolCalls, attempt, streamed>>

\* The adapter streams on its first attempt, the mock on each: the delta goes to
\* the session of the active context.
Delta(t) ==
  /\ tstep[t] = "asking"
  /\ PathOf[t] = "mock" \/ (PathOf[t] = "adapter" /\ attempt[t] = 0)
  /\ streamed' = streamed \cup {t}
  /\ Announce(t, activeCtx)
  /\ UNCHANGED <<activeCtx, activeTask, toolCalls, tstep, attempt, round,
                 asked, toolCtx, finished>>

AnswerGood(t) ==
  /\ tstep[t] = "asking"
  /\ EndTask(t, "ok")
  /\ UNCHANGED <<activeCtx, toolCalls, attempt, round, asked, toolCtx>>

\* The port reports an error, or the mock does, before it streams: no repair.
AnswerFails(t) ==
  /\ tstep[t] = "asking"
  /\ PathOf[t] = "mock" /\ t \in streamed => attempt[t] > 0
  /\ EndTask(t, "failed")
  /\ UNCHANGED <<activeCtx, toolCalls, attempt, round, asked, toolCtx>>

OneRepairMore(t) == attempt[t] <= MaxRepairs    \* mutant
RepairsLeft(t) ==
  attempt[t] < IF PathOf[t] = "mock" /\ MaxRepairs > 1 THEN 1 ELSE MaxRepairs

\* Ask again with the issues and the hints, or give up: SCHEMA_INVALID.
RepairOrGiveUp(t) ==
  IF RepairsLeft(t)
  THEN /\ tstep' = [tstep EXCEPT ![t] = "asking"]
       /\ attempt' = [attempt EXCEPT ![t] = @ + 1]
       /\ round' = [round EXCEPT ![t] = 1]
       /\ asked' = [asked EXCEPT ![t] = @ + 1]
       /\ UNCHANGED <<activeTask, streamed, announced, finished>>
  ELSE EndTask(t, "failed") /\ UNCHANGED <<attempt, round, asked>>

\* No JSON, or JSON that fails the task's schema.
AnswerBad(t) ==
  /\ tstep[t] = "asking"
  /\ RepairOrGiveUp(t)
  /\ UNCHANGED <<activeCtx, toolCalls, toolCtx>>

\* The model asks for a tool; the loop invokes it and waits.
AnswerCallsTool(t) ==
  /\ tstep[t] = "asking" /\ PathOf[t] = "loop"
  /\ tstep' = [tstep EXCEPT ![t] = "calling"]
  /\ UNCHANGED <<activeCtx, activeTask, toolCalls, attempt, round, asked,
                 toolCtx, streamed, announced, finished>>

\* invokeTool has an outcome, an error as well as a result: one record, booked
\* on the active task. The answer goes back to the model while rounds are left.
ToolReturns(t) ==
  /\ tstep[t] = "calling"
  /\ toolCalls' = toolCalls \cup {[task |-> t, parent |-> activeTask]}
  /\ IF round[t] < MaxRounds
     THEN /\ tstep' = [tstep EXCEPT ![t] = "asking"]
          /\ round' = [round EXCEPT ![t] = @ + 1]
          /\ asked' = [asked EXCEPT ![t] = @ + 1]
          /\ UNCHANGED <<attempt, activeTask, streamed, announced, finished>>
     ELSE RepairOrGiveUp(t)
  /\ UNCHANGED <<activeCtx, toolCtx>>

KeepsContext(turn) == activeCtx     \* mutant: bound by executeMany only
ContextAt(turn) == turn

\* What the pipeline asks of the orchestrator at both ends of a turn.
BeginTurn(turn) ==
  /\ toolCalls' = {}
  /\ activeCtx' = ContextAt(turn) /\ activeTask' = NoTask
  /\ UNCHANGED <<tstep, attempt, round, asked, toolCtx, streamed, announced,
                 finished>>

EndTurn ==
  /\ activeCtx' = NoTurn
  /\ UNCHANGED <<activeTask, toolCalls, tstep, attempt, round, asked, toolCtx,
                 streamed, announced, finished>>

DrainToolCalls ==
  /\ toolCalls' = {}
  /\ UNCHANGED <<activeCtx, activeTask, tstep, attempt, round, asked, toolCtx,
                 streamed, announced, finished>>

TaskStep(t) ==
  \/ Delta(t) \/ AnswerGood(t) \/ AnswerFails(t) \/ AnswerBad(t)
  \/ AnswerCallsTool(t) \/ ToolReturns(t)

AgentsTypeOK ==
  /\ activeCtx \in Turns \cup {NoTurn} /\ activeTask \in Tasks \cup {NoTask}
  /\ toolCalls \subseteq ToolCall
  /\ tstep \in [Tasks -> {"new", "asking", "calling", "ok", "failed"}]
  /\ attempt \in [Tasks -> 0..MaxRepairs]
  /\ round \in [Tasks -> 0..MaxRounds]
  /\ asked \in [Tasks -> Nat]
  /\ toolCtx \in [Tasks -> Turns \cup {NoTurn}]
  /\ streamed \subseteq Tasks /\ finished \in [Tasks -> Nat]
  /\ announced \in [task : Tasks \cup {NoTask}, to : Turns \cup {NoTurn}]
=============================================================================
