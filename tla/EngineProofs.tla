---------------------------- MODULE EngineProofs ----------------------------
(***************************************************************************)
(* Proofs about EngineTurns: for every set of turns and tasks, whatever    *)
(* answers them, every order of turns, and all bounds on repairs, rounds   *)
(* and parallel tasks.                                                     *)
(***************************************************************************)
EXTENDS EngineProperties, TLAPS

TurnSteps ==
  {"new", "open", "closing", "closing_rejected", "committed", "rejected"}

EngineFunctions ==
  /\ AgentsTypeOK /\ turnStep \in [Turns -> TurnSteps]
  /\ recorded \subseteq Tasks /\ crowded \subseteq Turns

\* How often a task can have asked in its attempts and rounds so far.
AskedSoFar(t) ==
  IF PathOf[t] = "loop" THEN attempt[t] * MaxRounds + round[t] ELSE attempt[t] + 1

TaskInStep(t) ==
  /\ asked[t] <= AskedSoFar(t)
  /\ tstep[t] = "new" => asked[t] = 0 /\ attempt[t] = 0 /\ round[t] = 0
  /\ tstep[t] = "calling" => PathOf[t] = "loop"
  /\ finished[t] = IF Ended(t) THEN 1 ELSE 0
  /\ t \in streamed => Running(t)

TasksInStep == \A t \in Tasks : TaskInStep(t)

\* Turns and tasks of turns that meet are crowded, and as long as a turn met
\* no other the active context is its own, or after it none.
ContextsApart ==
  /\ \A t \in Tasks : turnStep[TurnOf[t]] = "new" => tstep[t] = "new"
  /\ \A x, y \in Busy : x # y => x \in crowded /\ y \in crowded
  /\ \A x \in Turns \ crowded : UnderWay(x) => activeCtx = x
  /\ \A t \in Tasks : Running(t) /\ TurnOf[t] \notin crowded =>
       activeCtx = IF UnderWay(TurnOf[t]) THEN TurnOf[t] ELSE NoTurn
  /\ announced.task \in Tasks => tstep[announced.task] # "new"

AgentInvariant ==
  EngineFunctions /\ TasksInStep /\ ContextsApart /\ LoneTurnsKeepToThemselves

-----------------------------------------------------------------------------
(* Arithmetic of repairs and rounds                                        *)

LEMMA RoundsBound ==
  ASSUME NEW a \in Nat, NEW r \in Nat, NEW n \in Nat,
         a <= MaxRepairs, r <= MaxRounds, n <= a * MaxRounds + r
  PROVE  n <= (MaxRepairs + 1) * MaxRounds
PROOF
  <1>1. MaxRepairs \in Nat /\ MaxRounds \in Nat
    BY AgentAssumption
  <1>2. PICK d \in Nat : MaxRepairs = a + d
    <2>1. MaxRepairs - a \in Nat /\ MaxRepairs = a + (MaxRepairs - a)
      BY <1>1
    <2> QED
      BY <2>1
  <1>3. (MaxRepairs + 1) * MaxRounds = a * MaxRounds + d * MaxRounds + MaxRounds
    BY <1>1, <1>2
  <1>4. d * MaxRounds \in Nat /\ a * MaxRounds \in Nat
    BY <1>1
  <1> QED
    BY <1>1, <1>3, <1>4

LEMMA NextAttempt ==
  ASSUME NEW a \in Nat, NEW r \in Nat, NEW n \in Nat,
         r <= MaxRounds, n <= a * MaxRounds + r
  PROVE  n + 1 <= (a + 1) * MaxRounds + 1
PROOF
  <1>1. MaxRounds \in Nat
    BY AgentAssumption
  <1>2. (a + 1) * MaxRounds = a * MaxRounds + MaxRounds /\ a * MaxRounds \in Nat
    BY <1>1
  <1> QED
    BY <1>1, <1>2

-----------------------------------------------------------------------------
(* Tasks                                                                   *)

\* What every step of a task does to the other tasks.
OthersKept(t) ==
  \A u \in Tasks \ {t} :
    /\ tstep'[u] = tstep[u] /\ attempt'[u] = attempt[u] /\ round'[u] = round[u]
    /\ asked'[u] = asked[u] /\ finished'[u] = finished[u]
    /\ toolCtx'[u] = toolCtx[u] /\ (u \in streamed' <=> u \in streamed)

\* A task that ends, of which nothing but the step and the buffer changes.
LEMMA EndTaskKeeps ==
  ASSUME NEW t \in Tasks, EngineFunctions, TaskInStep(t), Running(t),
         NEW how \in {"ok", "failed"}, EndTask(t, how),
         attempt' = attempt, round' = round, asked' = asked, toolCtx' = toolCtx
  PROVE  /\ OthersKept(t) /\ TaskInStep(t)'
         /\ tstep' \in [Tasks -> {"new", "asking", "calling", "ok", "failed"}]
         /\ finished' \in [Tasks -> Nat] /\ streamed' \subseteq Tasks
         /\ activeTask' = NoTask /\ announced' = [task |-> t, to |-> activeCtx]
         /\ tstep'[t] = how
PROOF
  BY DEF EngineFunctions, AgentsTypeOK, TaskInStep, EndTask, BufferAfter, Announce,
         OthersKept, AskedSoFar, Ended, Running

\* A task that is asked again, or ends.
LEMMA RepairKeeps ==
  ASSUME NEW t \in Tasks, EngineFunctions, TaskInStep(t), Running(t),
         RepairOrGiveUp(t), toolCtx' = toolCtx
  PROVE  /\ OthersKept(t) /\ TaskInStep(t)'
         /\ tstep' \in [Tasks -> {"new", "asking", "calling", "ok", "failed"}]
         /\ attempt' \in [Tasks -> 0..MaxRepairs] /\ round' \in [Tasks -> 0..MaxRounds]
         /\ asked' \in [Tasks -> Nat] /\ finished' \in [Tasks -> Nat]
         /\ streamed' \subseteq Tasks /\ activeTask' \in {activeTask, NoTask}
         /\ \/ announced' = announced
            \/ announced' = [task |-> t, to |-> activeCtx]
         /\ tstep'[t] # "new"
PROOF
  <1>1. MaxRepairs \in Nat /\ MaxRounds \in Nat \ {0}
    BY AgentAssumption
  <1>2. CASE RepairsLeft(t)
    <2>1. /\ tstep' = [tstep EXCEPT ![t] = "asking"]
          /\ attempt' = [attempt EXCEPT ![t] = attempt[t] + 1]
          /\ round' = [round EXCEPT ![t] = 1]
          /\ asked' = [asked EXCEPT ![t] = asked[t] + 1]
          /\ activeTask' = activeTask /\ streamed' = streamed
          /\ announced' = announced /\ finished' = finished
      BY <1>2 DEF RepairOrGiveUp
    <2>2. attempt[t] < MaxRepairs
      BY <1>1, <1>2 DEF RepairsLeft, EngineFunctions, AgentsTypeOK
    <2>3. asked[t] + 1 <= IF PathOf[t] = "loop"
                          THEN (attempt[t] + 1) * MaxRounds + 1 ELSE attempt[t] + 2
      <3>1. attempt[t] \in Nat /\ round[t] \in Nat /\ asked[t] \in Nat
            /\ round[t] <= MaxRounds
        BY <1>1 DEF EngineFunctions, AgentsTypeOK
      <3>2. CASE PathOf[t] = "loop"
        BY <3>1, <3>2, NextAttempt DEF TaskInStep, AskedSoFar
      <3>3. CASE PathOf[t] # "loop"
        BY <3>1, <3>3 DEF TaskInStep, AskedSoFar
      <3> QED
        BY <3>2, <3>3
    <2>4. /\ tstep'[t] = "asking" /\ attempt'[t] = attempt[t] + 1
          /\ round'[t] = 1 /\ asked'[t] = asked[t] + 1
      BY <2>1 DEF EngineFunctions, AgentsTypeOK
    <2>5. asked'[t] <= AskedSoFar(t)'
      <3>1. CASE PathOf[t] = "loop"
        BY <2>3, <2>4, <3>1 DEF AskedSoFar
      <3>2. CASE PathOf[t] # "loop"
        <4>1. attempt[t] \in Nat
          BY <1>1 DEF EngineFunctions, AgentsTypeOK
        <4> QED
          BY <2>3, <2>4, <3>2, <4>1 DEF AskedSoFar
      <3> QED
        BY <3>1, <3>2
    <2>6. TaskInStep(t)'
      BY <2>1, <2>4, <2>5 DEF TaskInStep, Ended, Running
    <2> QED
      BY <1>1, <2>1, <2>2, <2>4, <2>6 DEF EngineFunctions, AgentsTypeOK, OthersKept
  <1>3. CASE ~RepairsLeft(t)
    <2>1. /\ EndTask(t, "failed") /\ attempt' = attempt /\ round' = round
          /\ asked' = asked
      BY <1>3 DEF RepairOrGiveUp
    <2> QED
      BY <2>1, EndTaskKeeps DEF EngineFunctions, AgentsTypeOK
  <1> QED
    BY <1>2, <1>3

\* A step of a task: only its own counters move, the context stays, and what is
\* announced goes to the active context.
LEMMA TaskStepKeeps ==
  ASSUME NEW t \in Tasks, EngineFunctions, TaskInStep(t), TaskStep(t)
  PROVE  /\ AgentsTypeOK' /\ OthersKept(t) /\ TaskInStep(t)' /\ Running(t)
         /\ activeCtx' = activeCtx /\ toolCtx' = toolCtx /\ tstep'[t] # "new"
         /\ \/ announced' = announced
            \/ announced' = [task |-> t, to |-> activeCtx]
PROOF
  <1> USE DEF EngineFunctions, AgentsTypeOK
  <1>0. MaxRepairs \in Nat /\ MaxRounds \in Nat \ {0}
    BY AgentAssumption
  <1>1. CASE Delta(t)
    BY <1>1 DEF Delta, Announce, OthersKept, TaskInStep, Running, Ended, AskedSoFar
  <1>2. CASE AnswerGood(t)
    <2>1. Running(t) /\ EndTask(t, "ok")
      BY <1>2 DEF AnswerGood, Running
    <2> QED
      BY <1>2, <2>1, EndTaskKeeps DEF AnswerGood
  <1>3. CASE AnswerFails(t)
    <2>1. Running(t) /\ EndTask(t, "failed")
      BY <1>3 DEF AnswerFails, Running
    <2> QED
      BY <1>3, <2>1, EndTaskKeeps DEF AnswerFails
  <1>4. CASE AnswerBad(t)
    <2>1. Running(t) /\ RepairOrGiveUp(t)
      BY <1>4 DEF AnswerBad, Running
    <2> QED
      BY <1>4, <2>1, RepairKeeps DEF AnswerBad
  <1>5. CASE AnswerCallsTool(t)
    BY <1>5 DEF AnswerCallsTool, OthersKept, TaskInStep, Running, Ended, AskedSoFar
  <1>6. CASE ToolReturns(t)
    <2>1. /\ Running(t) /\ activeCtx' = activeCtx /\ toolCtx' = toolCtx
          /\ toolCalls' \subseteq ToolCall
      BY <1>6 DEF ToolReturns, Running, ToolCall
    <2>2. CASE round[t] < MaxRounds
      <3>1. /\ tstep' = [tstep EXCEPT ![t] = "asking"]
            /\ round' = [round EXCEPT ![t] = round[t] + 1]
            /\ asked' = [asked EXCEPT ![t] = asked[t] + 1]
            /\ attempt' = attempt /\ activeTask' = activeTask
            /\ streamed' = streamed /\ announced' = announced
            /\ finished' = finished /\ tstep[t] = "calling"
        BY <1>6, <2>2 DEF ToolReturns
      <3>2. PathOf[t] = "loop"
        BY <3>1 DEF TaskInStep
      <3>3. attempt[t] * MaxRounds \in Nat
        BY <1>0
      <3>4. asked'[t] <= AskedSoFar(t)'
        BY <1>0, <3>1, <3>2, <3>3 DEF TaskInStep, AskedSoFar
      <3> QED
        BY <1>0, <2>1, <2>2, <3>1, <3>4 DEF OthersKept, TaskInStep, Running, Ended
    <2>3. CASE ~(round[t] < MaxRounds)
      <3>1. RepairOrGiveUp(t)
        BY <1>6, <2>3 DEF ToolReturns
      <3> QED
        BY <2>1, <3>1, RepairKeeps
    <2> QED
      BY <2>2, <2>3
  <1> QED
    BY <1>1, <1>2, <1>3, <1>4, <1>5, <1>6 DEF TaskStep

\* A task that is started, refused, or cannot start.
LEMMA ExecuteKeeps ==
  ASSUME NEW t \in Tasks, NEW withCtx \in BOOLEAN, EngineFunctions,
         TaskInStep(t), Execute(t, withCtx)
  PROVE  LET ctx == IF withCtx THEN TurnOf[t] ELSE activeCtx IN
         /\ AgentsTypeOK' /\ TaskInStep(t)' /\ tstep[t] = "new"
         /\ OthersKept(t) /\ activeCtx' = ctx /\ tstep'[t] # "new"
         /\ announced' = [task |-> t, to |-> ctx]
         /\ toolCtx'[t] \in {toolCtx[t], ctx}
PROOF
  <1> DEFINE ctx == IF withCtx THEN TurnOf[t] ELSE activeCtx
  <1> USE DEF EngineFunctions, AgentsTypeOK
  <1>0. /\ MaxRepairs \in Nat /\ MaxRounds \in Nat \ {0} /\ TurnOf[t] \in Turns
        /\ ctx \in Turns \cup {NoTurn}
    BY AgentAssumption
  <1>1. /\ tstep[t] = "new" /\ activeCtx' = ctx
        /\ announced' = [task |-> t, to |-> ctx] /\ toolCalls' = toolCalls
        /\ attempt' = attempt /\ streamed' = streamed
    BY DEF Execute, Announce
  <1>2. CASE t \in Denied
    <2>1. /\ tstep' = [tstep EXCEPT ![t] = "failed"]
          /\ finished' = [finished EXCEPT ![t] = finished[t] + 1]
          /\ activeTask' = activeTask /\ asked' = asked /\ toolCtx' = toolCtx
          /\ round' = round
      BY <1>2 DEF Execute
    <2> HIDE DEF ctx
    <2>2. TaskInStep(t)'
      BY <1>0, <1>1, <2>1 DEF TaskInStep, Ended, Running, AskedSoFar
    <2> QED
      BY <1>0, <1>1, <2>1, <2>2 DEF OthersKept, ctx
  <1>3. CASE t \notin Denied /\ PathOf[t] = "loop" /\ ctx = NoTurn
    <2>1. /\ tstep' = [tstep EXCEPT ![t] = "failed"]
          /\ finished' = [finished EXCEPT ![t] = finished[t] + 1]
          /\ activeTask' = NoTask /\ asked' = asked
          /\ toolCtx' = [toolCtx EXCEPT ![t] = ctx] /\ round' = round
      BY <1>3 DEF Execute
    <2> HIDE DEF ctx
    <2>2. TaskInStep(t)'
      BY <1>0, <1>1, <2>1 DEF TaskInStep, Ended, Running, AskedSoFar
    <2> QED
      BY <1>0, <1>1, <2>1, <2>2 DEF OthersKept, ctx
  <1>4. CASE t \notin Denied /\ ~(PathOf[t] = "loop" /\ ctx = NoTurn)
    <2>1. /\ tstep' = [tstep EXCEPT ![t] = "asking"]
          /\ finished' = finished
          /\ activeTask' = t /\ asked' = [asked EXCEPT ![t] = asked[t] + 1]
          /\ toolCtx' = [toolCtx EXCEPT ![t] = ctx]
          /\ round' = [round EXCEPT ![t] = 1]
      BY <1>4 DEF Execute
    <2> HIDE DEF ctx
    <2>2. TaskInStep(t)'
      BY <1>0, <1>1, <2>1 DEF TaskInStep, Ended, Running, AskedSoFar
    <2> QED
      BY <1>0, <1>1, <2>1, <2>2 DEF OthersKept, ctx
  <1> QED
    BY <1>2, <1>3, <1>4

-----------------------------------------------------------------------------
(* Contexts                                                                *)

\* The turn of a task that runs is busy; it is not new.
LEMMA BusyTurns ==
  ASSUME EngineFunctions, ContextsApart
  PROVE  /\ \A t \in Tasks : Running(t) => TurnOf[t] \in Busy
         /\ \A x \in Turns : UnderWay(x) => x \in Busy
         /\ \A x \in Busy : x \in Turns /\ turnStep[x] # "new"
PROOF
  BY AgentAssumption DEF Busy, TasksOf, ContextsApart, Running, UnderWay

\* A step of the tasks of one open turn: the other turns' tasks do not move, and
\* the active context is this turn's, or as it was.
LEMMA TasksMove ==
  ASSUME EngineFunctions, ContextsApart, LoneTurnsKeepToThemselves,
         NEW t \in Tasks, OthersKept(t), AgentsTypeOK',
         turnStep' = turnStep, crowded' = crowded,
         TurnOf[t] \in Busy, Busy' \subseteq Busy, tstep'[t] # "new",
         activeCtx' \in {activeCtx, TurnOf[t]},
         activeCtx' = TurnOf[t] => UnderWay(TurnOf[t]) \/ activeCtx' = activeCtx,
         announced' \in {announced, [task |-> t, to |-> activeCtx']},
         toolCtx'[t] \in {toolCtx[t], activeCtx'},
         Running(t) \/ UnderWay(TurnOf[t])
  PROVE  ContextsApart' /\ LoneTurnsKeepToThemselves'
PROOF
  <1>0. /\ TurnOf[t] \in Turns /\ NoTurn \notin Turns /\ NoTask \notin Tasks
        /\ \A u \in Tasks : TurnOf[u] \in Turns
    BY AgentAssumption
  <1>1. /\ \A u \in Tasks : Running(u) => TurnOf[u] \in Busy
        /\ \A x \in Turns : UnderWay(x) => x \in Busy
        /\ \A x \in Busy : x \in Turns /\ turnStep[x] # "new"
    BY BusyTurns
  <1>2. \A x \in Turns : UnderWay(x)' <=> UnderWay(x)
    BY DEF UnderWay
  <1>3. \A u \in Tasks \ {t} : (Running(u)' <=> Running(u)) /\ tstep'[u] = tstep[u]
    BY DEF OthersKept, Running
  <1>4. TurnOf[t] \notin crowded =>
          activeCtx' = IF UnderWay(TurnOf[t]) THEN TurnOf[t] ELSE NoTurn
    BY <1>0 DEF ContextsApart
  <1>5. \A x \in Busy : x \notin crowded => x = TurnOf[t]
    BY DEF ContextsApart
  <1>6. ContextsApart'
    <2>1. \A u \in Tasks : turnStep'[TurnOf[u]] = "new" => tstep'[u] = "new"
      BY <1>1, <1>3 DEF ContextsApart
    <2>2. \A x, y \in Busy' : x # y => x \in crowded' /\ y \in crowded'
      BY DEF ContextsApart
    <2>3. \A x \in Turns \ crowded' : UnderWay(x)' => activeCtx' = x
      BY <1>1, <1>2, <1>4, <1>5
    <2>4. \A u \in Tasks : Running(u)' /\ TurnOf[u] \notin crowded' =>
            activeCtx' = IF UnderWay(TurnOf[u])' THEN TurnOf[u] ELSE NoTurn
      <3> SUFFICES ASSUME NEW u \in Tasks, Running(u)', TurnOf[u] \notin crowded'
                   PROVE  activeCtx' = IF UnderWay(TurnOf[u])' THEN TurnOf[u] ELSE NoTurn
        OBVIOUS
      <3>1. TurnOf[u] = TurnOf[t]
        BY <1>1, <1>3, <1>5
      <3> QED
        BY <1>0, <1>2, <1>4, <3>1
    <2>5. announced'.task \in Tasks => tstep'[announced'.task] # "new"
      BY <1>3 DEF ContextsApart
    <2> QED
      BY <2>1, <2>2, <2>3, <2>4, <2>5 DEF ContextsApart
  <1>7. LoneTurnsKeepToThemselves'
    <2> SUFFICES ASSUME NEW u \in Tasks, TurnOf[u] \notin crowded'
                 PROVE  /\ announced'.task = u =>
                             announced'.to = TurnOf[u]
                             \/ (announced'.to = NoTurn /\ ~UnderWay(TurnOf[u])')
                        /\ toolCtx'[u] \in {NoTurn, TurnOf[u]}
      BY DEF LoneTurnsKeepToThemselves
    <2>1. /\ announced.task = u =>
               announced.to = TurnOf[u]
               \/ (announced.to = NoTurn /\ ~UnderWay(TurnOf[u]))
          /\ toolCtx[u] \in {NoTurn, TurnOf[u]}
      BY DEF LoneTurnsKeepToThemselves
    <2>2. CASE u = t
      BY <1>0, <1>2, <1>4, <2>1, <2>2
    <2>3. CASE u # t
      BY <1>0, <1>2, <2>1, <2>3 DEF OthersKept
    <2> QED
      BY <2>2, <2>3
  <1> QED
    BY <1>6, <1>7

-----------------------------------------------------------------------------
(* Steps                                                                   *)

LEMMA AgentInvariantInit == EngineInit => AgentInvariant
PROOF
  <1> SUFFICES ASSUME EngineInit PROVE AgentInvariant
    OBVIOUS
  <1>0. /\ MaxRepairs \in Nat /\ MaxRounds \in Nat \ {0}
        /\ NoTurn \notin Turns /\ NoTask \notin Tasks
        /\ TurnOf \in [Tasks -> Turns]
    BY AgentAssumption
  <1>1. EngineFunctions
    BY <1>0 DEF EngineInit, AgentsInit, EngineFunctions, AgentsTypeOK, TurnSteps,
                ToolCall, Nothing
  <1>2. TasksInStep
    <2> SUFFICES ASSUME NEW t \in Tasks PROVE TaskInStep(t)
      BY DEF TasksInStep
    <2>1. /\ asked[t] = 0 /\ attempt[t] = 0 /\ round[t] = 0 /\ finished[t] = 0
          /\ tstep[t] = "new" /\ streamed = {}
      BY DEF EngineInit, AgentsInit
    <2>2. 0 * MaxRounds + 0 = 0
      BY <1>0
    <2> QED
      BY <2>1, <2>2 DEF TaskInStep, AskedSoFar, Ended
  <1>3. Busy = {} /\ \A x \in Turns : ~UnderWay(x)
    BY DEF EngineInit, AgentsInit, Busy, UnderWay, Running, TasksOf
  <1>4. \A t \in Tasks : ~Running(t) /\ tstep[t] = "new" /\ toolCtx[t] = NoTurn
    BY DEF EngineInit, AgentsInit, Running
  <1>5. announced.task = NoTask
    BY DEF EngineInit, AgentsInit, Nothing
  <1> QED
    BY <1>0, <1>1, <1>2, <1>3, <1>4, <1>5
       DEF AgentInvariant, ContextsApart, LoneTurnsKeepToThemselves

LEMMA BeginsKeeps ==
  ASSUME AgentInvariant, NEW turn \in Turns, TurnBegins(turn)
  PROVE  AgentInvariant'
PROOF
  <1> USE DEF AgentInvariant
  <1>0. /\ NoTurn \notin Turns /\ NoTask \notin Tasks
        /\ \A u \in Tasks : TurnOf[u] \in Turns
    BY AgentAssumption
  <1>1. /\ turnStep[turn] = "new" /\ toolCalls' = {} /\ activeCtx' = turn
        /\ activeTask' = NoTask /\ tstep' = tstep /\ attempt' = attempt
        /\ round' = round /\ asked' = asked /\ toolCtx' = toolCtx
        /\ streamed' = streamed /\ announced' = announced
        /\ finished' = finished /\ recorded' = recorded
        /\ turnStep' = [turnStep EXCEPT ![turn] = "open"]
        /\ crowded' = IF Busy = {} THEN crowded ELSE crowded \cup Busy \cup {turn}
    BY DEF TurnBegins, BeginTurn, ContextAt, MoveTurn
  <1>2. /\ \A u \in Tasks : Running(u) => TurnOf[u] \in Busy
        /\ \A x \in Turns : UnderWay(x) => x \in Busy
        /\ \A x \in Busy : x \in Turns /\ turnStep[x] # "new"
    BY BusyTurns
  <1>3. EngineFunctions'
    BY <1>0, <1>1, <1>2 DEF EngineFunctions, AgentsTypeOK, TurnSteps
  <1>4. TasksInStep'
    BY <1>1 DEF TasksInStep, TaskInStep, AskedSoFar, Ended, Running
  <1>5. \A u \in Tasks : Running(u)' <=> Running(u)
    BY <1>1 DEF Running
  <1>6. \A x \in Turns \ {turn} : /\ turnStep'[x] = turnStep[x]
                                  /\ UnderWay(x)' <=> UnderWay(x)
    BY <1>1 DEF UnderWay, EngineFunctions
  <1>7. turnStep'[turn] = "open"
    BY <1>1 DEF EngineFunctions
  <1>8. Busy' \subseteq Busy \cup {turn}
    BY <1>5, <1>6 DEF Busy, TasksOf
  <1>9. ContextsApart'
    <2>1. \A u \in Tasks : turnStep'[TurnOf[u]] = "new" => tstep'[u] = "new"
      BY <1>0, <1>1, <1>6, <1>7 DEF ContextsApart
    <2>2. \A x, y \in Busy' : x # y => x \in crowded' /\ y \in crowded'
      BY <1>1, <1>8
    <2>3. \A x \in Turns \ crowded' : UnderWay(x)' => activeCtx' = x
      BY <1>1, <1>2, <1>6
    <2>4. \A u \in Tasks : Running(u)' => TurnOf[u] \in crowded'
      BY <1>1, <1>2, <1>5
    <2>5. announced'.task \in Tasks => tstep'[announced'.task] # "new"
      BY <1>1 DEF ContextsApart
    <2> QED
      BY <2>1, <2>2, <2>3, <2>4, <2>5 DEF ContextsApart
  <1>10. LoneTurnsKeepToThemselves'
    <2> SUFFICES ASSUME NEW u \in Tasks, TurnOf[u] \notin crowded'
                 PROVE  /\ announced'.task = u =>
                             announced'.to = TurnOf[u]
                             \/ (announced'.to = NoTurn /\ ~UnderWay(TurnOf[u])')
                        /\ toolCtx'[u] \in {NoTurn, TurnOf[u]}
      BY DEF LoneTurnsKeepToThemselves
    <2>1. TurnOf[u] \notin crowded
      BY <1>1
    <2>2. announced.task = u => TurnOf[u] # turn
      BY <1>1 DEF ContextsApart
    <2> QED
      BY <1>0, <1>1, <1>6, <2>1, <2>2 DEF LoneTurnsKeepToThemselves
  <1> QED
    BY <1>3, <1>4, <1>9, <1>10

LEMMA AsksKeeps ==
  ASSUME AgentInvariant, NEW turn \in Turns, NEW t \in Tasks, TurnAsks(turn, t)
  PROVE  AgentInvariant'
PROOF
  <1> USE DEF AgentInvariant
  <1>1. /\ turnStep' = turnStep /\ crowded' = crowded /\ recorded' = recorded
        /\ turnStep[turn] = "open" /\ TurnOf[t] = turn
    BY DEF TurnAsks, turnVars, IsOpen
  <1>2. PICK withCtx \in BOOLEAN : Execute(t, withCtx)
    BY DEF TurnAsks
  <1>3. TaskInStep(t)
    BY DEF TasksInStep
  <1> DEFINE ctx == IF withCtx THEN TurnOf[t] ELSE activeCtx
  <1>4. /\ AgentsTypeOK' /\ TaskInStep(t)' /\ OthersKept(t) /\ activeCtx' = ctx
        /\ tstep'[t] # "new" /\ announced' = [task |-> t, to |-> ctx]
        /\ toolCtx'[t] \in {toolCtx[t], ctx}
    BY <1>2, <1>3, ExecuteKeeps
  <1>5. EngineFunctions'
    BY <1>1, <1>4 DEF EngineFunctions
  <1>6. TasksInStep'
    BY <1>4 DEF TasksInStep, TaskInStep, OthersKept, AskedSoFar, Ended, Running
  <1>7. UnderWay(TurnOf[t]) /\ TurnOf[t] \in Busy
    BY <1>1, BusyTurns DEF UnderWay
  <1>8. Busy' \subseteq Busy
    <2> SUFFICES ASSUME NEW x \in Busy' PROVE x \in Busy
      OBVIOUS
    <2>1. x \in Turns /\ (UnderWay(x)' \/ \E u \in Tasks : TurnOf[u] = x /\ Running(u)')
      BY DEF Busy, TasksOf
    <2>2. CASE UnderWay(x)'
      BY <1>1, <2>1, <2>2 DEF UnderWay, Busy
    <2>3. CASE \E u \in Tasks : TurnOf[u] = x /\ Running(u)'
      <3> PICK u \in Tasks : TurnOf[u] = x /\ Running(u)'
        BY <2>3
      <3>1. u = t \/ Running(u)
        BY <1>4 DEF OthersKept, Running
      <3> QED
        BY <1>7, <2>1, <3>1 DEF Busy, TasksOf
    <2> QED
      BY <2>1, <2>2, <2>3
  <1>9. ContextsApart' /\ LoneTurnsKeepToThemselves'
    <2>1. activeCtx' \in {activeCtx, TurnOf[t]}
      BY <1>4
    <2>2. announced' \in {announced, [task |-> t, to |-> activeCtx']}
      BY <1>4
    <2>3. toolCtx'[t] \in {toolCtx[t], activeCtx'}
      BY <1>4
    <2> HIDE DEF ctx
    <2> QED
      BY <1>1, <1>4, <1>7, <1>8, <2>1, <2>2, <2>3, TasksMove
  <1> QED
    BY <1>5, <1>6, <1>9

LEMMA RunsKeeps ==
  ASSUME AgentInvariant, NEW t \in Tasks, TaskRuns(t)
  PROVE  AgentInvariant'
PROOF
  <1> USE DEF AgentInvariant
  <1>1. /\ turnStep' = turnStep /\ crowded' = crowded /\ recorded' = recorded
        /\ TaskStep(t) /\ TurnOf[t] \in Turns
    BY AgentAssumption DEF TaskRuns, turnVars
  <1>2. TaskInStep(t)
    BY DEF TasksInStep
  <1>3. /\ AgentsTypeOK' /\ OthersKept(t) /\ TaskInStep(t)' /\ Running(t)
        /\ activeCtx' = activeCtx /\ toolCtx' = toolCtx /\ tstep'[t] # "new"
        /\ announced' \in {announced, [task |-> t, to |-> activeCtx']}
    BY <1>1, <1>2, TaskStepKeeps
  <1>4. EngineFunctions'
    BY <1>1, <1>3 DEF EngineFunctions
  <1>5. TasksInStep'
    BY <1>3 DEF TasksInStep, TaskInStep, OthersKept, AskedSoFar, Ended, Running
  <1>6. TurnOf[t] \in Busy
    BY <1>3, BusyTurns
  <1>7. Busy' \subseteq Busy
    <2> SUFFICES ASSUME NEW x \in Busy' PROVE x \in Busy
      OBVIOUS
    <2>1. x \in Turns /\ (UnderWay(x)' \/ \E u \in Tasks : TurnOf[u] = x /\ Running(u)')
      BY DEF Busy, TasksOf
    <2>2. CASE UnderWay(x)'
      BY <1>1, <2>1, <2>2 DEF UnderWay, Busy
    <2>3. CASE \E u \in Tasks : TurnOf[u] = x /\ Running(u)'
      <3> PICK u \in Tasks : TurnOf[u] = x /\ Running(u)'
        BY <2>3
      <3>1. u = t \/ Running(u)
        BY <1>3 DEF OthersKept, Running
      <3> QED
        BY <1>6, <2>1, <3>1 DEF Busy, TasksOf
    <2> QED
      BY <2>1, <2>2, <2>3
  <1>8. ContextsApart' /\ LoneTurnsKeepToThemselves'
    BY <1>1, <1>3, <1>6, <1>7, TasksMove
  <1> QED
    BY <1>4, <1>5, <1>8

\* A turn records, or goes one step further: no task moves, and the context is
\* left alone, or is given up by a turn that ends.
LEMMA TurnMovesOn ==
  ASSUME AgentInvariant, NEW turn \in Turns, NEW to \in TurnSteps \ {"new"},
         UnderWay(turn), UNCHANGED <<tstep, attempt, round, asked, toolCtx,
                                     streamed, announced, finished, crowded>>,
         AgentsTypeOK', recorded' \subseteq Tasks,
         turnStep' = [turnStep EXCEPT ![turn] = to],
         activeCtx' = IF UnderWay(turn)' THEN activeCtx ELSE NoTurn
  PROVE  AgentInvariant'
PROOF
  <1> USE DEF AgentInvariant
  <1>0. \A u \in Tasks : TurnOf[u] \in Turns
    BY AgentAssumption
  <1>1. EngineFunctions'
    BY DEF EngineFunctions
  <1>2. TasksInStep'
    BY DEF TasksInStep, TaskInStep, AskedSoFar, Ended, Running
  <1>3. /\ \A u \in Tasks : Running(u) => TurnOf[u] \in Busy
        /\ \A x \in Turns : UnderWay(x) => x \in Busy
    BY BusyTurns
  <1>4. \A u \in Tasks : Running(u)' <=> Running(u)
    BY DEF Running
  <1>5. /\ \A x \in Turns \ {turn} : /\ turnStep'[x] = turnStep[x]
                                     /\ UnderWay(x)' <=> UnderWay(x)
        /\ turnStep'[turn] # "new"
    BY DEF UnderWay, EngineFunctions
  <1>6. Busy' \subseteq Busy
    BY <1>3, <1>4, <1>5 DEF Busy, TasksOf
  <1>7. \A x \in Busy : x # turn => x \in crowded
    BY <1>3 DEF ContextsApart
  <1>8. ContextsApart'
    <2>1. \A u \in Tasks : turnStep'[TurnOf[u]] = "new" => tstep'[u] = "new"
      BY <1>0, <1>5 DEF ContextsApart
    <2>2. \A x, y \in Busy' : x # y => x \in crowded' /\ y \in crowded'
      BY <1>6 DEF ContextsApart
    <2>3. \A x \in Turns \ crowded' : UnderWay(x)' => activeCtx' = x
      BY <1>3, <1>5, <1>7 DEF ContextsApart
    <2>4. \A u \in Tasks : Running(u)' /\ TurnOf[u] \notin crowded' =>
            activeCtx' = IF UnderWay(TurnOf[u])' THEN TurnOf[u] ELSE NoTurn
      BY <1>3, <1>4, <1>7 DEF ContextsApart
    <2>5. announced'.task \in Tasks => tstep'[announced'.task] # "new"
      BY DEF ContextsApart
    <2> QED
      BY <2>1, <2>2, <2>3, <2>4, <2>5 DEF ContextsApart
  <1>9. LoneTurnsKeepToThemselves'
    <2>1. \A x \in Turns : UnderWay(x)' => UnderWay(x)
      BY <1>5
    <2> QED
      BY <1>0, <2>1 DEF LoneTurnsKeepToThemselves
  <1> QED
    BY <1>1, <1>2, <1>8, <1>9

LEMMA AgentInvariantStep ==
  ASSUME AgentInvariant, [EngineNext]_engineVars
  PROVE  AgentInvariant'
PROOF
  <1>1. CASE \E turn \in Turns : TurnBegins(turn)
    BY <1>1, BeginsKeeps
  <1>2. ASSUME NEW turn \in Turns, TurnRecords(turn)
        PROVE  AgentInvariant'
    <2>1. /\ turnStep[turn] = "open" /\ turnStep' = turnStep /\ crowded' = crowded
          /\ recorded' \subseteq recorded \cup Tasks /\ toolCalls' = {}
          /\ UNCHANGED <<activeCtx, activeTask, tstep, attempt, round, asked,
                         toolCtx, streamed, announced, finished>>
      BY <1>2 DEF TurnRecords, DrainToolCalls, IsOpen, TasksOf
    <2>2. /\ UnderWay(turn) /\ UnderWay(turn)' /\ recorded' \subseteq Tasks
          /\ turnStep' = [turnStep EXCEPT ![turn] = "open"] /\ AgentsTypeOK'
      BY <2>1 DEF AgentInvariant, EngineFunctions, AgentsTypeOK, UnderWay
    <2> QED
      BY <2>1, <2>2, TurnMovesOn DEF TurnSteps
  <1>3. ASSUME NEW turn \in Turns, TurnEndsIt(turn)
        PROVE  AgentInvariant'
    <2>1. PICK to \in {"committed", "rejected"} :
            /\ turnStep[turn] \in {"closing", "closing_rejected"}
            /\ turnStep' = [turnStep EXCEPT ![turn] = to]
      BY <1>3 DEF TurnEndsIt, MoveTurn
    <2>2. /\ activeCtx' = NoTurn /\ recorded' = recorded /\ crowded' = crowded
          /\ UNCHANGED <<activeTask, toolCalls, tstep, attempt, round, asked,
                         toolCtx, streamed, announced, finished>>
      BY <1>3 DEF TurnEndsIt, EndTurn
    <2>3. UnderWay(turn) /\ ~UnderWay(turn)' /\ AgentsTypeOK'
      BY <2>1, <2>2 DEF AgentInvariant, EngineFunctions, AgentsTypeOK, UnderWay
    <2> QED
      BY <2>1, <2>2, <2>3, TurnMovesOn DEF TurnSteps, AgentInvariant, EngineFunctions
  <1>4. CASE \E turn \in Turns, t \in Tasks : TurnAsks(turn, t)
    BY <1>4, AsksKeeps
  <1>5. CASE \E t \in Tasks : TaskRuns(t)
    BY <1>5, RunsKeeps
  <1>6. ASSUME NEW turn \in Turns, NEW committed \in BOOLEAN,
               NEW written \in BOOLEAN, TurnFinishes(turn, committed, written)
        PROVE  AgentInvariant'
    <2>1. PICK to \in {"closing", "closing_rejected"} :
            turnStep' = [turnStep EXCEPT ![turn] = to]
      BY <1>6 DEF TurnFinishes, MoveTurn
    <2>2. /\ turnStep[turn] = "open" /\ recorded' = recorded
          /\ crowded' = crowded /\ UNCHANGED agentVars
      BY <1>6 DEF TurnFinishes, IsOpen
    <2>3. UnderWay(turn) /\ UnderWay(turn)' /\ AgentsTypeOK'
      BY <2>1, <2>2
         DEF AgentInvariant, EngineFunctions, AgentsTypeOK, UnderWay, agentVars
    <2> QED
      BY <2>1, <2>2, <2>3, TurnMovesOn
         DEF TurnSteps, AgentInvariant, EngineFunctions, agentVars
  <1>7. CASE UNCHANGED engineVars
    BY <1>7 DEF engineVars, agentVars, turnVars, AgentInvariant, EngineFunctions,
                AgentsTypeOK, TasksInStep, TaskInStep, AskedSoFar, Ended, Running,
                ContextsApart, Busy, TasksOf, UnderWay, LoneTurnsKeepToThemselves
  <1> QED
    BY <1>1, <1>2, <1>3, <1>4, <1>5, <1>6, <1>7 DEF EngineNext

LEMMA AgentInvariantHolds == EngineSpec => []AgentInvariant
PROOF
  <1>1. EngineInit => AgentInvariant
    BY AgentInvariantInit
  <1>2. AgentInvariant /\ [EngineNext]_engineVars => AgentInvariant'
    BY AgentInvariantStep
  <1> QED
    BY <1>1, <1>2, PTL DEF EngineSpec

-----------------------------------------------------------------------------
(* What follows                                                            *)

\* A task asks the model no more often than its repairs and tool rounds allow,
\* finishes at most once and leaves no stream buffer behind (execute of the
\* orchestrator, the repair loop of the adapter, runToolLoop), whatever the
\* other turns of the engine do.
THEOREM TasksAlwaysEndOnce == EngineSpec => []TasksEndOnce
PROOF
  <1>1. AgentInvariant => TasksEndOnce
    <2> SUFFICES ASSUME AgentInvariant, NEW t \in Tasks
                 PROVE  /\ asked[t] <= AsksAllowed(t)
                        /\ finished[t] = IF Ended(t) THEN 1 ELSE 0
                        /\ t \in streamed => Running(t)
      BY DEF TasksEndOnce
    <2>1. TaskInStep(t) /\ AgentsTypeOK
      BY DEF AgentInvariant, EngineFunctions, TasksInStep
    <2>2. MaxRepairs \in Nat /\ MaxRounds \in Nat
      BY AgentAssumption
    <2>3. /\ attempt[t] \in Nat /\ attempt[t] <= MaxRepairs
          /\ round[t] \in Nat /\ round[t] <= MaxRounds /\ asked[t] \in Nat
      BY <2>1, <2>2 DEF AgentsTypeOK
    <2>4. CASE PathOf[t] = "loop"
      BY <2>1, <2>3, <2>4, RoundsBound DEF TaskInStep, AskedSoFar, AsksAllowed
    <2>5. CASE PathOf[t] # "loop"
      BY <2>1, <2>2, <2>3, <2>5 DEF TaskInStep, AskedSoFar, AsksAllowed
    <2> QED
      BY <2>1, <2>4, <2>5 DEF TaskInStep
  <1> QED
    BY <1>1, AgentInvariantHolds, PTL

\* The tasks of a turn that met no other are announced to its own session and
\* work on its own context (beginTurn, endTurn, executeMany, requestAgent on
\* the one active context), for any number of sessions, turns and tasks.
THEOREM LoneTurnsAreApart == EngineSpec => []LoneTurnsKeepToThemselves
PROOF
  <1>1. AgentInvariant => LoneTurnsKeepToThemselves
    BY DEF AgentInvariant
  <1> QED
    BY <1>1, AgentInvariantHolds, PTL

-----------------------------------------------------------------------------
(* Dossiers                                                                *)

\* The document in memory has all that its file has, and a turn that has not
\* begun has no file.
DossierInvariant ==
  /\ root \in Turns \cup {NoTurn} /\ followUp \in Turns \cup {NoTurn}
  /\ rootData \subseteq Item /\ bucket \subseteq Item /\ hasPath \in BOOLEAN
  /\ files = [x \in Turns |-> files[x]]
  /\ \A x \in Turns :
       /\ files[x].data \subseteq Item
       /\ turnStep[x] = "new" => files[x].data = {} /\ files[x].sections = {}
  /\ root \in Turns =>
       /\ turnStep[root] # "new"
       /\ files[root].data \subseteq rootData
       /\ files[root].sections \subseteq sections

FilesGrow ==
  \A x \in Turns : /\ files[x].data \subseteq files'[x].data
                   /\ files[x].sections \subseteq files'[x].sections

LEMMA DossierInit == EngineInit => DossierInvariant
PROOF
  <1> SUFFICES ASSUME EngineInit PROVE DossierInvariant
    OBVIOUS
  <1>1. NoTurn \notin Turns
    BY AgentAssumption
  <1>2. /\ root = NoTurn /\ rootData = {} /\ hasPath = FALSE /\ followUp = NoTurn
        /\ bucket = {} /\ files = [t \in Turns |-> [data |-> {}, sections |-> {}]]
    BY DEF EngineInit, Tracer!TracerInit, Tracer!NoDocument
  <1> QED
    BY <1>1, <1>2 DEF DossierInvariant

LEMMA DossierFinalized ==
  ASSUME AgentInvariant, DossierInvariant, NEW turn \in Turns,
         NEW committed \in BOOLEAN, NEW written \in BOOLEAN,
         TurnFinishes(turn, committed, written)
  PROVE  DossierInvariant' /\ FilesGrow
PROOF
  <1>1. /\ turnStep[turn] = "open" /\ turnStep \in [Turns -> TurnSteps]
        /\ \A x \in Turns : turnStep'[x] = "new" => turnStep[x] = "new"
        /\ \A x \in Turns : turnStep[x] # "new" => turnStep'[x] # "new"
    BY DEF TurnFinishes, MoveTurn, IsOpen, AgentInvariant, EngineFunctions
  <1>2. Tracer!Finalize(committed, written)
    BY DEF TurnFinishes
  <1>3. NoTurn \notin Turns
    BY AgentAssumption
  <1>4. CASE root = NoTurn \/ (~committed /\ ~WriteOnReject)
    <2>1. /\ followUp' = NoTurn /\ root' = root /\ rootData' = rootData
          /\ sections' = sections /\ hasPath' = hasPath /\ bucket' = bucket
          /\ files' = files
      BY <1>2, <1>4 DEF Tracer!Finalize
    <2> QED
      BY <1>1, <2>1 DEF DossierInvariant, FilesGrow
  <1>5. CASE ~(root = NoTurn \/ (~committed /\ ~WriteOnReject))
    <2>1. /\ followUp' = NoTurn /\ root' = root /\ rootData' = rootData
          /\ bucket' = bucket /\ sections \subseteq sections'
          /\ hasPath' \in {hasPath, TRUE}
      BY <1>2, <1>5 DEF Tracer!Finalize, Tracer!SectionsWith
    <2>2. files' \in {files, [files EXCEPT ![root] = [data |-> rootData,
                                                    sections |-> sections']]}
      BY <1>2, <1>5 DEF Tracer!Finalize, Tracer!Flush
    <2>3. root \in Turns /\ DOMAIN files = Turns
      BY <1>5 DEF DossierInvariant
    <2>4. /\ files' = [x \in Turns |-> files'[x]]
          /\ \A x \in Turns \ {root} : files'[x] = files[x]
          /\ files'[root] \in {files[root], [data |-> rootData,
                                             sections |-> sections']}
      BY <2>2, <2>3 DEF DossierInvariant
    <2>5. /\ files[root].data \subseteq rootData
          /\ files[root].sections \subseteq sections'
          /\ rootData \subseteq Item /\ files[root].data \subseteq Item
          /\ turnStep[root] # "new"
      BY <2>1, <2>3 DEF DossierInvariant
    <2>6. /\ files[root].data \subseteq files'[root].data
          /\ files[root].sections \subseteq files'[root].sections
          /\ files'[root].data \subseteq rootData
          /\ files'[root].sections \subseteq sections'
      <3>1. CASE files'[root] = files[root]
        BY <2>5, <3>1
      <3>2. CASE files'[root] = [data |-> rootData, sections |-> sections']
        BY <2>5, <3>2
      <3> QED
        BY <2>4, <3>1, <3>2
    <2>7. FilesGrow
      BY <2>4, <2>6 DEF FilesGrow
    <2>8. \A x \in Turns :
            /\ files'[x].data \subseteq Item
            /\ turnStep'[x] = "new" => files'[x].data = {} /\ files'[x].sections = {}
      BY <1>1, <2>4, <2>5, <2>6 DEF DossierInvariant
    <2>9. /\ root' \in Turns /\ turnStep'[root'] # "new"
          /\ files'[root'].data \subseteq rootData'
          /\ files'[root'].sections \subseteq sections'
      BY <1>1, <2>1, <2>3, <2>5, <2>6
    <2> QED
      BY <2>1, <2>4, <2>7, <2>8, <2>9 DEF DossierInvariant
  <1> QED
    BY <1>4, <1>5

LEMMA DossierStep ==
  ASSUME AgentInvariant, DossierInvariant, [EngineNext]_engineVars
  PROVE  DossierInvariant' /\ FilesGrow
PROOF
  <1>0. turnStep \in [Turns -> TurnSteps] /\ NoTurn \notin Turns
    BY AgentAssumption DEF AgentInvariant, EngineFunctions
  <1>1. ASSUME NEW turn \in Turns, TurnBegins(turn)
        PROVE  DossierInvariant' /\ FilesGrow
    <2>1. /\ turnStep[turn] = "new" /\ turnStep'[turn] # "new"
          /\ \A x \in Turns \ {turn} : turnStep'[x] = turnStep[x]
      BY <1>0, <1>1 DEF TurnBegins, MoveTurn
    <2>2. CASE Tracer!OpenRoot(turn)
      <3>1. /\ root' = turn /\ rootData' = {} /\ sections' = {} /\ hasPath' = FALSE
            /\ followUp' = NoTurn /\ bucket' = {} /\ files' = files
        BY <2>2 DEF Tracer!OpenRoot
      <3> QED
        BY <1>0, <2>1, <3>1 DEF DossierInvariant, FilesGrow
    <2>3. CASE /\ followUp' = turn /\ bucket' = {}
               /\ UNCHANGED <<root, rootData, sections, hasPath, files>>
      BY <1>0, <2>1, <2>3 DEF DossierInvariant, FilesGrow
    <2> QED
      BY <1>1, <2>2, <2>3 DEF TurnBegins, Tracer!OpenFollowUp
  <1>2. ASSUME NEW turn \in Turns, TurnRecords(turn)
        PROVE  DossierInvariant' /\ FilesGrow
    <2> DEFINE items == {AgentItem(t) : t \in {t \in TasksOf(turn) : Ended(t)} \ recorded}
                        \cup {ToolItem(c) : c \in Drained(turn)}
    <2>1. Tracer!Record(items) /\ turnStep' = turnStep
      BY <1>2 DEF TurnRecords
    <2>2. items \subseteq Item
      <3>1. toolCalls \subseteq ToolCall
        BY DEF AgentInvariant, EngineFunctions, AgentsTypeOK
      <3>2. \A t \in Tasks : AgentItem(t) \in Item
        BY DEF AgentItem, Item
      <3>3. \A c \in ToolCall : ToolItem(c) \in Item
        BY DEF ToolItem, Item, ToolCall
      <3> QED
        BY <3>1, <3>2, <3>3 DEF Drained, TasksOf
    <2> HIDE DEF items
    <2>3. /\ root' = root /\ sections' = sections /\ hasPath' = hasPath
          /\ followUp' = followUp /\ files' = files
          /\ bucket' \in {bucket, bucket \cup items}
          /\ rootData' \in {rootData, rootData \cup items}
      BY <2>1 DEF Tracer!Record
    <2> QED
      BY <2>1, <2>2, <2>3 DEF DossierInvariant, FilesGrow
  <1>3. ASSUME UNCHANGED tracerVars,
               \A x \in Turns : turnStep'[x] = "new" <=> turnStep[x] = "new"
        PROVE  DossierInvariant' /\ FilesGrow
    BY <1>3 DEF tracerVars, DossierInvariant, FilesGrow
  <1>4. CASE \E turn \in Turns : TurnEndsIt(turn)
    BY <1>0, <1>3, <1>4 DEF TurnEndsIt, MoveTurn
  <1>5. CASE \E turn \in Turns, t \in Tasks : TurnAsks(turn, t)
    BY <1>3, <1>5 DEF TurnAsks, turnVars
  <1>6. CASE \E t \in Tasks : TaskRuns(t)
    BY <1>3, <1>6 DEF TaskRuns, turnVars
  <1>7. CASE UNCHANGED engineVars
    BY <1>3, <1>7 DEF engineVars, turnVars
  <1> QED
    BY <1>1, <1>2, <1>4, <1>5, <1>6, <1>7, DossierFinalized DEF EngineNext

LEMMA DossierHolds == EngineSpec => []DossierInvariant
PROOF
  <1>1. EngineInit => DossierInvariant
    BY DossierInit
  <1>2. AgentInvariant /\ DossierInvariant /\ [EngineNext]_engineVars
          => DossierInvariant'
    BY DossierStep
  <1> QED
    BY <1>1, <1>2, AgentInvariantHolds, PTL DEF EngineSpec

\* Orchestrator, turns and tracer keep their types.
THEOREM EngineTyped == EngineSpec => []EngineTypeOK
PROOF
  <1>1. AgentInvariant /\ DossierInvariant => EngineTypeOK
    BY DEF AgentInvariant, EngineFunctions, DossierInvariant, EngineTypeOK, TurnSteps
  <1> QED
    BY <1>1, AgentInvariantHolds, DossierHolds, PTL

\* No file of a dossier loses what it has: each write has all of the last
\* (openFollowUp, finalize and the flush of the tracer), although the turns of
\* every session share the one open document and the sink may refuse.
THEOREM FilesNeverLose == EngineSpec => DossierOnlyGrows
PROOF
  <1>1. AgentInvariant /\ DossierInvariant /\ [EngineNext]_engineVars
          => [FilesGrow]_engineVars
    BY DossierStep
  <1>2. FilesGrow <=> \A x \in Turns :
                        /\ files[x].data \subseteq files'[x].data
                        /\ files[x].sections \subseteq files'[x].sections
    BY DEF FilesGrow
  <1> QED
    BY <1>1, <1>2, AgentInvariantHolds, DossierHolds, PTL
       DEF EngineSpec, DossierOnlyGrows, FilesGrow

-----------------------------------------------------------------------------
(* What the dossiers tell                                                  *)

\* Where the records of a turn that is open go.
TraceOf(turn) == IF root = turn THEN rootData ELSE bucket
BookedOn(t, i) == i.tool /\ i.task = t /\ (TasksOf(TurnOf[t]) = {t} => i.parent = t)

\* The dossier of an open turn that met no other is its own; it has the results
\* that the turn has recorded, and their tool calls, the others being in the
\* list of tool calls still.
OpenIsTraced(turn) ==
  /\ \/ root = turn /\ followUp = NoTurn
     \/ followUp = turn /\ root \in Turns \ {turn} /\ hasPath
  /\ \A t \in TasksOf(turn) :
       /\ t \in recorded => AgentItem(t) \in TraceOf(turn)
       /\ UsedTools(t) =>
            \/ \E i \in TraceOf(turn) : BookedOn(t, i)
            \/ t \notin recorded /\ \E c \in toolCalls : BookedOn(t, ToolItem(c))
       /\ TasksOf(turn) = {t} /\ Running(t) => activeTask = t

\* Once it commits, all of its tasks have ended and are in its dossier.
ClosingIsTraced(turn) ==
  \A t \in TasksOf(turn) : tstep[t] # "new" =>
    /\ t \in recorded /\ AgentItem(t) \in ItemsKept(turn)
    /\ UsedTools(t) => \E i \in ItemsKept(turn) : BookedOn(t, i)

LoneTurnsAreTraced ==
  /\ \A t \in recorded : Ended(t)
  /\ \A turn \in Turns \ crowded :
       /\ IsOpen(turn) => OpenIsTraced(turn)
       /\ turnStep[turn] = "closing" => ClosingIsTraced(turn)

LEMMA NewTasks ==
  ASSUME AgentInvariant, NEW t \in Tasks, tstep[t] = "new"
  PROVE  asked[t] = 0 /\ attempt[t] = 0 /\ ~UsedTools(t) /\ ~Running(t)
PROOF
  BY DEF AgentInvariant, TasksInStep, TaskInStep, UsedTools, Running

\* While a turn that met no other is under way, only its own tasks run.
LEMMA AloneUnderWay ==
  ASSUME AgentInvariant, NEW turn \in Turns \ crowded, UnderWay(turn)
  PROVE  /\ \A y \in Turns : UnderWay(y) => y = turn
         /\ \A t \in Tasks : Running(t) => TurnOf[t] = turn
         /\ turn \in Busy
PROOF
  <1>1. /\ \A t \in Tasks : Running(t) => TurnOf[t] \in Busy
        /\ \A x \in Turns : UnderWay(x) => x \in Busy
    BY BusyTurns DEF AgentInvariant
  <1>2. \A x \in Busy : x # turn => turn \in crowded
    BY <1>1 DEF AgentInvariant, ContextsApart
  <1> QED
    BY <1>1, <1>2

\* A task is asked again, beyond its repairs, only after a call of a tool, which
\* is booked on the active task.
LEMMA CallsAreBooked ==
  ASSUME AgentInvariant, NEW t \in Tasks, TaskStep(t)
  PROVE  LET call == [task |-> t, parent |-> activeTask] IN
         /\ toolCalls \subseteq toolCalls' /\ toolCalls' \subseteq toolCalls \cup {call}
         /\ UsedTools(t)' => UsedTools(t) \/ call \in toolCalls'
         /\ Running(t) /\ (Running(t)' => activeTask' = activeTask)
         /\ \A u \in Tasks \ {t} :
              /\ UsedTools(u)' <=> UsedTools(u)
              /\ tstep'[u] = tstep[u]
PROOF
  <1> DEFINE call == [task |-> t, parent |-> activeTask]
  <1>0. /\ tstep \in [Tasks -> {"new", "asking", "calling", "ok", "failed"}]
        /\ attempt \in [Tasks -> 0..MaxRepairs] /\ asked \in [Tasks -> Nat]
        /\ MaxRepairs \in Nat
    BY AgentAssumption DEF AgentInvariant, EngineFunctions, AgentsTypeOK
  <1>1. /\ EngineFunctions /\ TaskInStep(t)
    BY DEF AgentInvariant, TasksInStep
  <1>2. OthersKept(t) /\ Running(t)
    BY <1>1, TaskStepKeeps
  <1>3. \A u \in Tasks \ {t} :
          (UsedTools(u)' <=> UsedTools(u)) /\ tstep'[u] = tstep[u]
    BY <1>2 DEF OthersKept, UsedTools
  <1>4. ASSUME RepairOrGiveUp(t)
        PROVE  /\ UsedTools(t)' => UsedTools(t)
               /\ Running(t)' => activeTask' = activeTask
    <2>1. CASE RepairsLeft(t)
      BY <1>0, <1>4, <2>1 DEF RepairOrGiveUp, UsedTools
    <2>2. CASE ~RepairsLeft(t)
      BY <1>0, <1>4, <2>2 DEF RepairOrGiveUp, EndTask, UsedTools, Running
    <2> QED
      BY <2>1, <2>2
  <1>5. CASE Delta(t) \/ AnswerCallsTool(t)
    BY <1>2, <1>3, <1>5 DEF Delta, AnswerCallsTool, UsedTools
  <1>6. CASE AnswerGood(t) \/ AnswerFails(t)
    BY <1>0, <1>2, <1>3, <1>6 DEF AnswerGood, AnswerFails, EndTask, UsedTools, Running
  <1>7. CASE AnswerBad(t)
    BY <1>2, <1>3, <1>4, <1>7 DEF AnswerBad
  <1>8. CASE ToolReturns(t)
    <2>1. toolCalls' = toolCalls \cup {call}
      BY <1>8 DEF ToolReturns
    <2>2. Running(t)' => activeTask' = activeTask
      BY <1>4, <1>8 DEF ToolReturns
    <2> QED
      BY <1>2, <1>3, <2>1, <2>2
  <1> QED
    BY <1>5, <1>6, <1>7, <1>8 DEF TaskStep

LEMMA TracedInit == EngineInit => LoneTurnsAreTraced
PROOF
  BY DEF EngineInit, LoneTurnsAreTraced, IsOpen

\* A turn that begins alone has a root or a section of its own, still empty.
LEMMA BeginsTraced ==
  ASSUME AgentInvariant, DossierInvariant, LoneTurnsAreTraced,
         NEW turn \in Turns, TurnBegins(turn)
  PROVE  LoneTurnsAreTraced'
PROOF
  <1>0. NoTurn \notin Turns /\ \A t \in Tasks : TurnOf[t] \in Turns
    BY AgentAssumption
  <1>1. /\ turnStep[turn] = "new" /\ tstep' = tstep /\ attempt' = attempt
        /\ asked' = asked /\ recorded' = recorded
        /\ turnStep' = [turnStep EXCEPT ![turn] = "open"]
        /\ crowded' = IF Busy = {} THEN crowded ELSE crowded \cup Busy \cup {turn}
    BY DEF TurnBegins, BeginTurn, MoveTurn
  <1>2. turnStep \in [Turns -> TurnSteps] /\ recorded \subseteq Tasks
    BY DEF AgentInvariant, EngineFunctions
  <1>3. \A t \in recorded' : Ended(t)'
    BY <1>1 DEF LoneTurnsAreTraced, Ended
  <1>4. \A x \in Turns \ crowded' : x # turn => ~UnderWay(x)
    BY <1>1, BusyTurns DEF AgentInvariant
  <1>5. \A x \in Turns \ crowded' : x # turn =>
          ~IsOpen(x)' /\ turnStep'[x] # "closing"
    BY <1>1, <1>2, <1>4 DEF UnderWay, IsOpen
  <1>6. turnStep'[turn] = "open"
    BY <1>1, <1>2
  <1>7. ASSUME turn \notin crowded'
        PROVE  OpenIsTraced(turn)'
    <2>1. \A t \in TasksOf(turn) : tstep[t] = "new" /\ t \in Tasks
      BY <1>1 DEF TasksOf, AgentInvariant, ContextsApart
    <2>2. \A t \in TasksOf(turn) : ~UsedTools(t) /\ ~Running(t) /\ t \notin recorded
      BY <2>1, NewTasks DEF LoneTurnsAreTraced, Ended
    <2>3. \A t \in TasksOf(turn) : ~UsedTools(t)' /\ ~Running(t)' /\ t \notin recorded'
      BY <1>1, <2>2 DEF UsedTools, Running
    <2>4. \/ root' = turn /\ followUp' = NoTurn
          \/ followUp' = turn /\ root' \in Turns \ {turn} /\ hasPath'
      <3>1. Tracer!OpenFollowUp(turn) \/ Tracer!OpenRoot(turn)
        BY DEF TurnBegins
      <3>2. CASE Tracer!OpenRoot(turn)
        BY <3>2 DEF Tracer!OpenRoot
      <3>3. CASE Tracer!OpenFollowUp(turn) /\ ~Tracer!OpenRoot(turn)
        <4>1. /\ root # NoTurn /\ hasPath /\ followUp' = turn /\ root' = root
              /\ hasPath' = hasPath
          BY <3>3 DEF Tracer!OpenFollowUp, Tracer!CanAttach
        <4>2. root \in Turns /\ root # turn
          BY <1>1, <4>1 DEF DossierInvariant
        <4> QED
          BY <4>1, <4>2
      <3> QED
        BY <3>1, <3>2, <3>3
    <2> QED
      BY <2>3, <2>4 DEF OpenIsTraced, TasksOf
  <1> QED
    BY <1>3, <1>5, <1>6, <1>7 DEF LoneTurnsAreTraced

\* A turn that asks, and a task that runs, add nothing to the dossier; the calls
\* wait in the list.
LEMMA TasksTraced ==
  ASSUME AgentInvariant, LoneTurnsAreTraced, NEW t \in Tasks,
         TaskRuns(t) \/ \E turn \in Turns : TurnAsks(turn, t)
  PROVE  LoneTurnsAreTraced'
PROOF
  <1>0. \A u \in Tasks : TurnOf[u] \in Turns
    BY AgentAssumption
  <1>1. UNCHANGED <<turnStep, recorded, crowded, tracerVars>>
    BY DEF TaskRuns, TurnAsks, turnVars
  <1>2. /\ TurnOf[t] \in Turns /\ (UnderWay(TurnOf[t]) \/ Running(t))
        /\ tstep[t] = "new" => IsOpen(TurnOf[t])
        /\ ~Ended(t)
        /\ \A u \in Tasks \ {t} : (UsedTools(u)' <=> UsedTools(u)) /\ tstep'[u] = tstep[u]
        /\ toolCalls \subseteq toolCalls'
        /\ UsedTools(t)' =>
             UsedTools(t) \/ (Running(t) /\ [task |-> t, parent |-> activeTask] \in toolCalls')
        /\ Running(t)' => activeTask' = IF Running(t) THEN activeTask ELSE t
    <2>1. CASE TaskRuns(t)
      <3>1. TaskStep(t)
        BY <2>1 DEF TaskRuns
      <3>2. Running(t) /\ ~Ended(t) /\ tstep[t] # "new"
        BY <3>1, CallsAreBooked DEF Running, Ended
      <3> QED
        BY <1>0, <3>1, <3>2, CallsAreBooked
    <2>2. CASE \E turn \in Turns : TurnAsks(turn, t)
      <3>1. PICK withCtx \in BOOLEAN : Execute(t, withCtx)
        BY <2>2 DEF TurnAsks
      <3>2. IsOpen(TurnOf[t]) /\ UnderWay(TurnOf[t])
        BY <2>2 DEF TurnAsks, IsOpen, UnderWay
      <3>3. /\ tstep[t] = "new" /\ toolCalls' = toolCalls /\ attempt' = attempt
            /\ asked' \in {asked, [asked EXCEPT ![t] = asked[t] + 1]}
            /\ Running(t)' => activeTask' = t
        <4>1. tstep \in [Tasks -> {"new", "asking", "calling", "ok", "failed"}]
          BY DEF AgentInvariant, EngineFunctions, AgentsTypeOK
        <4> QED
          BY <3>1, <4>1 DEF Execute, Running
      <3>4. asked[t] = 0 /\ attempt[t] = 0 /\ ~Running(t)
        BY <3>3, NewTasks
      <3>5. asked \in [Tasks -> Nat]
        BY DEF AgentInvariant, EngineFunctions, AgentsTypeOK
      <3>6. ~UsedTools(t)'
        BY <3>3, <3>4, <3>5 DEF UsedTools
      <3>7. OthersKept(t)
        BY <3>1, ExecuteKeeps DEF AgentInvariant, TasksInStep
      <3>8. \A u \in Tasks \ {t} : (UsedTools(u)' <=> UsedTools(u)) /\ tstep'[u] = tstep[u]
        BY <3>7 DEF OthersKept, UsedTools
      <3> QED
        BY <1>0, <3>2, <3>3, <3>4, <3>6, <3>8 DEF Ended
    <2> QED
      BY <2>1, <2>2
  <1>3. \A u \in recorded' : Ended(u)'
    <2>1. recorded \subseteq Tasks
      BY DEF AgentInvariant, EngineFunctions
    <2> QED
      BY <1>1, <1>2, <2>1 DEF LoneTurnsAreTraced, Ended
  <1>4. ASSUME NEW turn \in Turns \ crowded, IsOpen(turn)
        PROVE  OpenIsTraced(turn)'
    <2>1. UnderWay(turn)
      BY <1>4 DEF IsOpen, UnderWay
    <2>2. TurnOf[t] = turn
      BY <1>2, <2>1, AloneUnderWay
    <2>3. OpenIsTraced(turn)
      BY <1>4 DEF LoneTurnsAreTraced
    <2>4. TraceOf(turn)' = TraceOf(turn) /\ TasksOf(turn) \subseteq Tasks
      BY <1>1 DEF TraceOf, tracerVars, TasksOf
    <2>5. t \notin recorded
      BY <1>2 DEF LoneTurnsAreTraced
    <2>6. ASSUME NEW u \in TasksOf(turn)
          PROVE  /\ u \in recorded' => AgentItem(u) \in TraceOf(turn)'
                 /\ UsedTools(u)' =>
                      \/ \E i \in TraceOf(turn)' : BookedOn(u, i)
                      \/ u \notin recorded' /\ \E c \in toolCalls' : BookedOn(u, ToolItem(c))
                 /\ TasksOf(turn) = {u} /\ Running(u)' => activeTask' = u
      <3>1. u \in recorded' => AgentItem(u) \in TraceOf(turn)'
        BY <1>1, <2>3, <2>4, <2>6 DEF OpenIsTraced
      <3>2. TasksOf(turn) = {u} /\ Running(u)' => activeTask' = u
        BY <1>2, <2>2, <2>3, <2>6 DEF OpenIsTraced, TasksOf
      <3>3. CASE u # t
        BY <1>1, <1>2, <2>3, <2>4, <2>6, <3>1, <3>2, <3>3 DEF OpenIsTraced
      <3>4. CASE u = t
        <4>1. CASE UsedTools(t)
          BY <1>1, <1>2, <2>3, <2>4, <2>6, <3>1, <3>2, <3>4, <4>1 DEF OpenIsTraced
        <4>2. CASE UsedTools(t)' /\ ~UsedTools(t)
          <5> DEFINE c == [task |-> t, parent |-> activeTask]
          <5>1. Running(t) /\ c \in toolCalls'
            BY <1>2, <4>2
          <5>2. TasksOf(turn) = {t} => activeTask = t
            BY <2>3, <2>6, <3>4, <5>1 DEF OpenIsTraced
          <5>3. BookedOn(t, ToolItem(c))
            BY <2>2, <5>2 DEF BookedOn, ToolItem
          <5> QED
            BY <1>1, <2>5, <3>1, <3>2, <3>4, <5>1, <5>3
        <4> QED
          BY <3>1, <3>2, <3>4, <4>1, <4>2
      <3> QED
        BY <3>3, <3>4
    <2>7. \/ root' = turn /\ followUp' = NoTurn
          \/ followUp' = turn /\ root' \in Turns \ {turn} /\ hasPath'
      BY <1>1, <2>3 DEF OpenIsTraced, tracerVars
    <2> QED
      BY <2>6, <2>7 DEF OpenIsTraced, TasksOf, BookedOn, AgentItem, ToolItem
  <1>5. ASSUME NEW turn \in Turns \ crowded, turnStep[turn] = "closing"
        PROVE  FALSE
    <2>1. UnderWay(turn)
      BY <1>5 DEF UnderWay
    <2>2. TurnOf[t] = turn
      BY <1>2, <2>1, AloneUnderWay
    <2>3. tstep[t] # "new"
      BY <1>2, <1>5, <2>2 DEF IsOpen
    <2>4. t \in recorded
      BY <1>5, <2>2, <2>3 DEF LoneTurnsAreTraced, ClosingIsTraced, TasksOf
    <2> QED
      BY <1>2, <2>4 DEF LoneTurnsAreTraced
  <1> QED
    BY <1>1, <1>3, <1>4, <1>5 DEF LoneTurnsAreTraced, IsOpen

\* The results that are in go to the turn's own root or section, with all calls.
LEMMA RecordsTraced ==
  ASSUME AgentInvariant, DossierInvariant, LoneTurnsAreTraced,
         NEW turn \in Turns, TurnRecords(turn)
  PROVE  LoneTurnsAreTraced'
PROOF
  <1> DEFINE done == {t \in TasksOf(turn) : Ended(t)} \ recorded
             items == {AgentItem(t) : t \in done} \cup {ToolItem(c) : c \in Drained(turn)}
  <1>0. \A u \in Tasks : TurnOf[u] \in Turns
    BY AgentAssumption
  <1>1. /\ IsOpen(turn) /\ \A t \in TasksOf(turn) : ~Running(t)
        /\ Tracer!Record(items) /\ toolCalls' = {} /\ recorded' = recorded \cup done
        /\ UNCHANGED <<turnStep, crowded, tstep, attempt, asked, activeTask>>
    BY DEF TurnRecords, DrainToolCalls
  <1>2. /\ \A t \in done : AgentItem(t) \in items /\ Ended(t) /\ t \in TasksOf(turn)
        /\ \A c \in toolCalls : ToolItem(c) \in items
    BY DEF Drained
  <1>3. \A t \in TasksOf(turn) : t \in recorded' => t \in recorded \/ t \in done
    BY <1>1
  <1> HIDE DEF done, items
  <1>4. UnderWay(turn)
    BY <1>1 DEF IsOpen, UnderWay
  <1>5. \A t \in recorded' : Ended(t)'
    BY <1>1, <1>2 DEF LoneTurnsAreTraced, Ended
  <1>6. ASSUME turn \notin crowded
        PROVE  OpenIsTraced(turn)'
    <2>1. OpenIsTraced(turn)
      BY <1>1, <1>6 DEF LoneTurnsAreTraced
    <2>2. /\ \/ root' = turn /\ followUp' = NoTurn
             \/ followUp' = turn /\ root' \in Turns \ {turn} /\ hasPath'
          /\ TraceOf(turn)' = TraceOf(turn) \cup items
      <3>1. NoTurn \notin Turns
        BY AgentAssumption
      <3>2. CASE root = turn /\ followUp = NoTurn
        BY <1>1, <3>1, <3>2 DEF Tracer!Record, TraceOf
      <3>3. CASE followUp = turn /\ root \in Turns \ {turn} /\ hasPath
        BY <1>1, <3>1, <3>3 DEF Tracer!Record, TraceOf
      <3> QED
        BY <2>1, <3>2, <3>3 DEF OpenIsTraced
    <2>3. ASSUME NEW u \in TasksOf(turn)
          PROVE  /\ u \in recorded' => AgentItem(u) \in TraceOf(turn)'
                 /\ UsedTools(u)' => \E i \in TraceOf(turn)' : BookedOn(u, i)
                 /\ ~Running(u)'
      <3>1. u \in recorded' => AgentItem(u) \in TraceOf(turn)'
        BY <1>2, <1>3, <2>1, <2>2, <2>3 DEF OpenIsTraced
      <3>2. ~Running(u)'
        BY <1>1, <2>3 DEF Running
      <3>3. UsedTools(u)' => UsedTools(u)
        BY <1>1 DEF UsedTools
      <3>4. UsedTools(u) => \E i \in TraceOf(turn)' : BookedOn(u, i)
        BY <1>2, <2>1, <2>2, <2>3 DEF OpenIsTraced
      <3> QED
        BY <3>1, <3>2, <3>3, <3>4
    <2> QED
      BY <2>2, <2>3 DEF OpenIsTraced, TasksOf, BookedOn, AgentItem
  <1>7. \A x \in Turns \ crowded : x # turn => ~UnderWay(x)
    BY <1>4, AloneUnderWay
  <1>8. \A x \in Turns \ crowded : x # turn => ~IsOpen(x) /\ turnStep[x] # "closing"
    BY <1>7 DEF UnderWay, IsOpen
  <1>9. turnStep[turn] # "closing"
    BY <1>1 DEF IsOpen
  <1> QED
    BY <1>1, <1>5, <1>6, <1>8, <1>9 DEF LoneTurnsAreTraced, IsOpen

\* A turn that commits alone leaves its dossier with what was recorded.
LEMMA FinishesTraced ==
  ASSUME AgentInvariant, DossierInvariant, LoneTurnsAreTraced, NEW turn \in Turns,
         NEW committed \in BOOLEAN, NEW written \in BOOLEAN,
         TurnFinishes(turn, committed, written)
  PROVE  LoneTurnsAreTraced'
PROOF
  <1>1. /\ IsOpen(turn) /\ UnderWay(turn) /\ Tracer!Finalize(committed, written)
        /\ committed => \A t \in TasksOf(turn) : t \in recorded \/ tstep[t] = "new"
        /\ turnStep' = [turnStep EXCEPT
             ![turn] = IF committed THEN "closing" ELSE "closing_rejected"]
        /\ UNCHANGED <<recorded, crowded, tstep, attempt, asked>>
    BY DEF TurnFinishes, MoveTurn, agentVars, IsOpen, UnderWay
  <1>2. turnStep \in [Turns -> TurnSteps]
    BY DEF AgentInvariant, EngineFunctions
  <1>3. \A t \in recorded' : Ended(t)'
    BY <1>1 DEF LoneTurnsAreTraced, Ended
  <1>4. \A x \in Turns \ crowded : x # turn => ~UnderWay(x)
    BY <1>1, AloneUnderWay
  <1>5. \A x \in Turns \ crowded : x # turn => ~IsOpen(x)' /\ turnStep'[x] # "closing"
    BY <1>1, <1>2, <1>4 DEF UnderWay, IsOpen
  <1>6. ~IsOpen(turn)' /\ (turnStep'[turn] = "closing" => committed)
    BY <1>1, <1>2 DEF IsOpen
  <1>7. ASSUME turn \notin crowded, committed
        PROVE  ClosingIsTraced(turn)'
    <2>1. OpenIsTraced(turn)
      BY <1>1, <1>7 DEF LoneTurnsAreTraced
    <2>2. TraceOf(turn) \subseteq ItemsKept(turn)'
      <3>1. NoTurn \notin Turns /\ root # NoTurn
        BY <2>1, AgentAssumption DEF OpenIsTraced
      <3>2. CASE root = turn
        BY <1>1, <1>7, <3>1, <3>2 DEF Tracer!Finalize, TraceOf, ItemsKept
      <3>3. CASE root # turn
        <4>1. followUp = turn /\ followUp # NoTurn
          BY <2>1, <3>1, <3>3 DEF OpenIsTraced
        <4> DEFINE s == [of |-> turn, data |-> bucket]
        <4>2. root' = root /\ s \in sections'
          BY <1>1, <1>7, <3>1, <4>1 DEF Tracer!Finalize, Tracer!SectionsWith
        <4>3. s.of = turn /\ s.data = bucket
          OBVIOUS
        <4> HIDE DEF s
        <4>4. TraceOf(turn) = bucket /\ s \in {r \in sections' : r.of = turn}
          BY <3>3, <4>2, <4>3 DEF TraceOf
        <4>5. bucket \subseteq UNION {r.data : r \in {r \in sections' : r.of = turn}}
          BY <4>3, <4>4
        <4> QED
          BY <3>3, <4>2, <4>4, <4>5 DEF ItemsKept
      <3> QED
        BY <3>2, <3>3
    <2>3. ASSUME NEW t \in TasksOf(turn), tstep'[t] # "new"
          PROVE  /\ t \in recorded' /\ AgentItem(t) \in ItemsKept(turn)'
                 /\ UsedTools(t)' => \E i \in ItemsKept(turn)' : BookedOn(t, i)
      <3>1. t \in recorded
        BY <1>1, <1>7, <2>3
      <3>2. UsedTools(t)' => UsedTools(t)
        BY <1>1 DEF UsedTools
      <3>3. /\ AgentItem(t) \in TraceOf(turn)
            /\ UsedTools(t) => \E i \in TraceOf(turn) : BookedOn(t, i)
        BY <2>1, <2>3, <3>1 DEF OpenIsTraced
      <3> QED
        BY <1>1, <2>2, <3>1, <3>2, <3>3
    <2> QED
      BY <2>3 DEF ClosingIsTraced, TasksOf, BookedOn, AgentItem
  <1> QED
    BY <1>1, <1>3, <1>5, <1>6, <1>7 DEF LoneTurnsAreTraced

LEMMA EndsTraced ==
  ASSUME AgentInvariant, LoneTurnsAreTraced, NEW turn \in Turns, TurnEndsIt(turn)
  PROVE  LoneTurnsAreTraced'
PROOF
  <1>1. /\ turnStep[turn] \in {"closing", "closing_rejected"} /\ UnderWay(turn)
        /\ turnStep'[turn] \in {"committed", "rejected"}
        /\ \A x \in Turns \ {turn} : turnStep'[x] = turnStep[x]
        /\ UNCHANGED <<recorded, crowded, tstep>>
    BY DEF TurnEndsIt, MoveTurn, EndTurn, UnderWay, AgentInvariant, EngineFunctions
  <1>2. \A t \in recorded' : Ended(t)'
    BY <1>1 DEF LoneTurnsAreTraced, Ended
  <1>3. \A x \in Turns \ crowded : x # turn => ~UnderWay(x)
    BY <1>1, AloneUnderWay
  <1>4. \A x \in Turns \ crowded : ~IsOpen(x)' /\ turnStep'[x] # "closing"
    BY <1>1, <1>3 DEF UnderWay, IsOpen
  <1> QED
    BY <1>1, <1>2, <1>4 DEF LoneTurnsAreTraced

LEMMA TracedStep ==
  ASSUME AgentInvariant, DossierInvariant, LoneTurnsAreTraced, [EngineNext]_engineVars
  PROVE  LoneTurnsAreTraced'
PROOF
  <1>1. CASE UNCHANGED engineVars
    BY <1>1 DEF engineVars, agentVars, turnVars, tracerVars, LoneTurnsAreTraced,
       Ended, IsOpen, OpenIsTraced, ClosingIsTraced, TraceOf, ItemsKept, UsedTools,
       Running, BookedOn, TasksOf, AgentItem, ToolItem
  <1>2. CASE EngineNext
    BY <1>2, BeginsTraced, TasksTraced, RecordsTraced, FinishesTraced, EndsTraced
       DEF EngineNext
  <1> QED
    BY <1>1, <1>2

\* As long as turns came one at a time, each part of a dossier is about its turn,
\* and so are the calls in the list; a turn that is not to be written, or not
\* yet, is in no part.
ItemsAre(data, turn) == \A i \in data : TurnOf[i.task] = turn
SectionsAre(parts) == \A s \in parts : ItemsAre(s.data, s.of)
Unwritten(x) == turnStep[x] \in {"new", "open", "closing_rejected", "rejected"}
NotIn(x, parts) == \A s \in parts : s.of # x

DossiersArePure ==
  crowded = {} =>
    /\ ItemsAre(rootData, root) /\ SectionsAre(sections)
    /\ followUp # NoTurn => ItemsAre(bucket, followUp)
    /\ \A x \in Turns :
         /\ ItemsAre(files[x].data, x) /\ SectionsAre(files[x].sections)
         /\ UnderWay(x) => \A c \in toolCalls : TurnOf[c.task] = x
    /\ ~WriteOnReject => \A x \in Turns : Unwritten(x) =>
         /\ files[x] = Tracer!NoDocument /\ NotIn(x, sections)
         /\ \A y \in Turns : NotIn(x, files[y].sections)
         /\ root = x => ~hasPath

LEMMA PureInit == EngineInit => DossiersArePure
PROOF
  <1> SUFFICES ASSUME EngineInit PROVE DossiersArePure
    OBVIOUS
  <1>1. /\ root = NoTurn /\ rootData = {} /\ sections = {} /\ followUp = NoTurn
        /\ hasPath = FALSE /\ toolCalls = {} /\ NoTurn \notin Turns
        /\ files = [t \in Turns |-> Tracer!NoDocument]
    BY AgentAssumption DEF EngineInit, AgentsInit, Tracer!TracerInit
  <1>2. Tracer!NoDocument.data = {} /\ Tracer!NoDocument.sections = {}
    BY DEF Tracer!NoDocument
  <1> QED
    BY <1>1, <1>2 DEF DossiersArePure, ItemsAre, SectionsAre, NotIn

LEMMA PureBegins ==
  ASSUME AgentInvariant, DossierInvariant, DossiersArePure,
         NEW turn \in Turns, TurnBegins(turn)
  PROVE  DossiersArePure'
PROOF
  <1> SUFFICES ASSUME crowded' = {}  PROVE DossiersArePure'
    BY DEF DossiersArePure
  <1>1. /\ turnStep[turn] = "new" /\ toolCalls' = {} /\ files' = files
        /\ turnStep' = [turnStep EXCEPT ![turn] = "open"]
        /\ Tracer!OpenFollowUp(turn) \/ Tracer!OpenRoot(turn)
        /\ crowded = {}
    BY DEF TurnBegins, BeginTurn, MoveTurn, Tracer!OpenFollowUp, Tracer!OpenRoot
  <1>2. turnStep \in [Turns -> TurnSteps] /\ NoTurn \notin Turns
    BY AgentAssumption DEF AgentInvariant, EngineFunctions
  <1>3. \A x \in Turns : Unwritten(x)' => Unwritten(x)
    BY <1>1, <1>2 DEF Unwritten
  <1>4. CASE Tracer!OpenRoot(turn)
    <2>1. /\ root' = turn /\ rootData' = {} /\ sections' = {} /\ hasPath' = FALSE
          /\ followUp' = NoTurn
      BY <1>4 DEF Tracer!OpenRoot
    <2> QED
      BY <1>1, <1>3, <2>1 DEF DossiersArePure, ItemsAre, SectionsAre, NotIn
  <1>5. CASE Tracer!OpenFollowUp(turn) /\ ~Tracer!OpenRoot(turn)
    <2>1. /\ root' = root /\ rootData' = rootData /\ sections' = sections
          /\ hasPath' = hasPath /\ bucket' = {}
      BY <1>5 DEF Tracer!OpenFollowUp
    <2> QED
      BY <1>1, <1>3, <2>1 DEF DossiersArePure, ItemsAre, SectionsAre, NotIn
  <1> QED
    BY <1>1, <1>4, <1>5

\* A task that runs is of the turn that is under way, and so is its call.
LEMMA PureTasks ==
  ASSUME AgentInvariant, DossiersArePure, NEW t \in Tasks,
         TaskRuns(t) \/ \E turn \in Turns : TurnAsks(turn, t)
  PROVE  DossiersArePure'
PROOF
  <1>1. UNCHANGED <<turnStep, crowded, tracerVars>>
    BY DEF TaskRuns, TurnAsks, turnVars
  <1>2. ASSUME crowded = {}, NEW x \in Turns, UnderWay(x), NEW c \in toolCalls'
        PROVE  TurnOf[c.task] = x
    <2>1. CASE TaskRuns(t)
      <3>1. TaskStep(t)
        BY <2>1 DEF TaskRuns
      <3>2. c \in toolCalls \/ c = [task |-> t, parent |-> activeTask]
        BY <1>2, <3>1, CallsAreBooked
      <3>3. Running(t)
        BY <3>1, CallsAreBooked
      <3>4. TurnOf[t] = x
        BY <1>2, <3>3, AloneUnderWay
      <3> QED
        BY <1>2, <3>2, <3>4 DEF DossiersArePure
    <2>2. CASE \E turn \in Turns : TurnAsks(turn, t)
      BY <1>2, <2>2 DEF TurnAsks, Execute, DossiersArePure
    <2> QED
      BY <2>1, <2>2
  <1>3. \A x \in Turns : UnderWay(x)' <=> UnderWay(x)
    BY <1>1 DEF UnderWay
  <1> SUFFICES ASSUME crowded' = {}  PROVE DossiersArePure'
    BY DEF DossiersArePure
  <1>4. \A x \in Turns : UnderWay(x)' => \A c \in toolCalls' : TurnOf[c.task] = x
    BY <1>1, <1>2, <1>3
  <1> QED
    BY <1>1, <1>4 DEF DossiersArePure, Unwritten, NotIn, ItemsAre, SectionsAre, tracerVars

LEMMA PureRecords ==
  ASSUME AgentInvariant, LoneTurnsAreTraced, DossiersArePure,
         NEW turn \in Turns, TurnRecords(turn)
  PROVE  DossiersArePure'
PROOF
  <1> SUFFICES ASSUME crowded' = {}  PROVE DossiersArePure'
    BY DEF DossiersArePure
  <1> DEFINE done == {t \in TasksOf(turn) : Ended(t)} \ recorded
             items == {AgentItem(t) : t \in done} \cup {ToolItem(c) : c \in Drained(turn)}
  <1>1. /\ IsOpen(turn) /\ UnderWay(turn) /\ Tracer!Record(items) /\ toolCalls' = {}
        /\ UNCHANGED <<turnStep, crowded>> /\ crowded = {}
    BY DEF TurnRecords, DrainToolCalls, IsOpen, UnderWay
  <1>2. OpenIsTraced(turn) /\ NoTurn \notin Turns
    BY <1>1, AgentAssumption DEF LoneTurnsAreTraced
  <1>3. ItemsAre(items, turn)
    <2>1. \A t \in done : TurnOf[AgentItem(t).task] = turn
      BY DEF TasksOf, AgentItem
    <2>2. \A c \in toolCalls : TurnOf[ToolItem(c).task] = turn
      BY <1>1 DEF DossiersArePure, ToolItem
    <2> QED
      BY <2>1, <2>2 DEF ItemsAre, Drained
  <1> HIDE DEF items
  <1>4. \/ /\ followUp = turn /\ bucket' = bucket \cup items
           /\ UNCHANGED <<root, rootData, sections, hasPath, followUp, files>>
        \/ /\ followUp = NoTurn /\ root = turn /\ rootData' = rootData \cup items
           /\ UNCHANGED <<root, sections, hasPath, followUp, bucket, files>>
    BY <1>1, <1>2 DEF OpenIsTraced, Tracer!Record
  <1>5. CASE followUp = turn
    <2>1. /\ bucket' = bucket \cup items
          /\ UNCHANGED <<root, rootData, sections, hasPath, followUp, files>>
      BY <1>2, <1>4, <1>5
    <2>2. ItemsAre(bucket', followUp')
      BY <1>1, <1>2, <1>3, <1>5, <2>1 DEF DossiersArePure, ItemsAre
    <2> QED
      BY <1>1, <2>1, <2>2 DEF DossiersArePure, Unwritten, NotIn, ItemsAre, SectionsAre
  <1>6. CASE followUp = NoTurn
    <2>1. /\ rootData' = rootData \cup items /\ root = turn
          /\ UNCHANGED <<root, sections, hasPath, followUp, bucket, files>>
      BY <1>2, <1>4, <1>6
    <2>2. ItemsAre(rootData', root')
      BY <1>1, <1>3, <2>1 DEF DossiersArePure, ItemsAre
    <2> QED
      BY <1>1, <2>1, <2>2 DEF DossiersArePure, Unwritten, NotIn, ItemsAre, SectionsAre
  <1> QED
    BY <1>4, <1>5, <1>6

\* What is written is the root's own document, with the section of this turn.
LEMMA PureFinishes ==
  ASSUME AgentInvariant, DossierInvariant, LoneTurnsAreTraced, DossiersArePure,
         NEW turn \in Turns, NEW committed \in BOOLEAN, NEW written \in BOOLEAN,
         TurnFinishes(turn, committed, written)
  PROVE  DossiersArePure'
PROOF
  <1> SUFFICES ASSUME crowded' = {}  PROVE DossiersArePure'
    BY DEF DossiersArePure
  <1>1. /\ IsOpen(turn) /\ UnderWay(turn) /\ Tracer!Finalize(committed, written)
        /\ turnStep' = [turnStep EXCEPT
             ![turn] = IF committed THEN "closing" ELSE "closing_rejected"]
        /\ crowded = {} /\ toolCalls' = toolCalls
    BY DEF TurnFinishes, MoveTurn, agentVars, IsOpen, UnderWay
  <1>2. /\ turnStep \in [Turns -> TurnSteps] /\ NoTurn \notin Turns
        /\ DOMAIN files = Turns
    BY AgentAssumption DEF AgentInvariant, EngineFunctions, DossierInvariant
  <1>3. OpenIsTraced(turn)
    BY <1>1 DEF LoneTurnsAreTraced
  <1>4. \A x \in Turns : /\ Unwritten(x)' => Unwritten(x) /\ (committed => x # turn)
                         /\ UnderWay(x)' => UnderWay(x)
    BY <1>1, <1>2 DEF Unwritten, UnderWay, IsOpen
  <1>5. root \in Turns /\ root # NoTurn
    BY <1>2, <1>3 DEF OpenIsTraced
  <1>6. CASE ~committed /\ ~WriteOnReject
    <2>1. /\ followUp' = NoTurn
          /\ UNCHANGED <<root, rootData, sections, hasPath, bucket, files>>
      BY <1>1, <1>6 DEF Tracer!Finalize
    <2> QED
      BY <1>1, <1>4, <2>1 DEF DossiersArePure, NotIn, ItemsAre, SectionsAre
  <1>7. CASE committed \/ WriteOnReject
    <2> DEFINE doc == [data |-> rootData, sections |-> sections']
    <2>1. /\ followUp' = NoTurn /\ UNCHANGED <<root, rootData, bucket>>
          /\ files' \in {files, [files EXCEPT ![root] = doc]}
      BY <1>1, <1>5, <1>7 DEF Tracer!Finalize, Tracer!Flush
    <2>2. \/ /\ root = turn /\ hasPath' = TRUE /\ sections' = sections
          \/ /\ root # turn /\ hasPath /\ hasPath' = hasPath
             /\ sections' = sections \cup {[of |-> turn, data |-> bucket]}
      BY <1>1, <1>2, <1>3, <1>5, <1>7
         DEF OpenIsTraced, Tracer!Finalize, Tracer!SectionsWith
    <2>3. SectionsAre(sections') /\ \A x \in Turns \ {turn} :
            NotIn(x, sections) => NotIn(x, sections')
      <3>1. SectionsAre(sections)
        BY <1>1 DEF DossiersArePure
      <3>2. CASE sections' = sections
        BY <3>1, <3>2
      <3>3. CASE root # turn /\ sections' = sections \cup {[of |-> turn, data |-> bucket]}
        <4>1. followUp = turn
          BY <1>3, <3>3 DEF OpenIsTraced
        <4>2. ItemsAre(bucket, turn)
          BY <1>1, <1>2, <4>1 DEF DossiersArePure
        <4> QED
          BY <3>1, <3>3, <4>2 DEF SectionsAre, NotIn
      <3> QED
        BY <2>2, <3>2, <3>3
    <2>4. doc.data = rootData /\ doc.sections = sections'
      OBVIOUS
    <2> HIDE DEF doc
    <2>5. \A x \in Turns : files'[x] = files[x] \/ (x = root /\ files'[x] = doc)
      BY <1>2, <2>1
    <2>6. \A x \in Turns : ItemsAre(files'[x].data, x) /\ SectionsAre(files'[x].sections)
      <3>1. ItemsAre(rootData, root)
        BY <1>1 DEF DossiersArePure
      <3>2. \A x \in Turns : ItemsAre(files[x].data, x) /\ SectionsAre(files[x].sections)
        BY <1>1 DEF DossiersArePure
      <3> QED
        BY <2>3, <2>4, <2>5, <3>1, <3>2
    <2>7. ASSUME ~WriteOnReject, NEW x \in Turns, Unwritten(x)'
          PROVE  /\ files'[x] = Tracer!NoDocument /\ NotIn(x, sections')
                 /\ \A y \in Turns : NotIn(x, files'[y].sections)
                 /\ root' = x => ~hasPath'
      <3>1. Unwritten(x) /\ x # turn
        BY <1>4, <1>7, <2>7
      <3>2. /\ files[x] = Tracer!NoDocument /\ NotIn(x, sections)
            /\ \A y \in Turns : NotIn(x, files[y].sections)
            /\ root = x => ~hasPath
        BY <1>1, <2>7, <3>1 DEF DossiersArePure
      <3>3. root # x
        BY <2>2, <3>1, <3>2
      <3>4. NotIn(x, sections')
        BY <2>3, <3>1, <3>2
      <3> QED
        BY <2>1, <2>4, <2>5, <3>2, <3>3, <3>4
    <2>8. \A x \in Turns : UnderWay(x)' => \A c \in toolCalls' : TurnOf[c.task] = x
      BY <1>1, <1>4 DEF DossiersArePure
    <2>9. ItemsAre(rootData', root')
      BY <1>1, <2>1 DEF DossiersArePure
    <2> QED
      BY <2>1, <2>3, <2>6, <2>7, <2>8, <2>9 DEF DossiersArePure, SectionsAre, ItemsAre, NotIn
  <1> QED
    BY <1>6, <1>7

LEMMA PureEnds ==
  ASSUME AgentInvariant, DossiersArePure, NEW turn \in Turns, TurnEndsIt(turn)
  PROVE  DossiersArePure'
PROOF
  <1>1. /\ UNCHANGED <<tracerVars, crowded, toolCalls>>
        /\ \A x \in Turns : /\ Unwritten(x)' => Unwritten(x)
                            /\ UnderWay(x)' => UnderWay(x)
    BY DEF TurnEndsIt, MoveTurn, EndTurn, UnderWay, Unwritten, AgentInvariant,
       EngineFunctions
  <1> QED
    BY <1>1 DEF DossiersArePure, NotIn, ItemsAre, SectionsAre, tracerVars

LEMMA PureStep ==
  ASSUME AgentInvariant, DossierInvariant, LoneTurnsAreTraced, DossiersArePure,
         [EngineNext]_engineVars
  PROVE  DossiersArePure'
PROOF
  <1>1. CASE UNCHANGED engineVars
    BY <1>1 DEF engineVars, agentVars, turnVars, tracerVars, DossiersArePure, NotIn,
       ItemsAre, SectionsAre, Unwritten, UnderWay
  <1>2. CASE EngineNext
    BY <1>2, PureBegins, PureTasks, PureRecords, PureFinishes, PureEnds DEF EngineNext
  <1> QED
    BY <1>1, <1>2

\* When a turn that met no other closes, its dossier has the results of all its
\* tasks and their tool calls (recordAgent, recordTool, drainToolCalls,
\* finalize); and as long as turns of all sessions came one at a time, no part
\* of a dossier tells of another turn, or of one that is not to be written.
THEOREM DossiersAreFaithful == EngineSpec => []TraceIsFaithful
PROOF
  <1>1. EngineInit => LoneTurnsAreTraced /\ DossiersArePure
    BY TracedInit, PureInit
  <1>2. /\ AgentInvariant /\ DossierInvariant
        /\ LoneTurnsAreTraced /\ DossiersArePure /\ [EngineNext]_engineVars
        => LoneTurnsAreTraced' /\ DossiersArePure'
    BY TracedStep, PureStep
  <1>3. AgentInvariant /\ LoneTurnsAreTraced /\ DossiersArePure => TraceIsFaithful
    <2> SUFFICES ASSUME AgentInvariant, LoneTurnsAreTraced, DossiersArePure
                 PROVE  TraceIsFaithful
      OBVIOUS
    <2>1. ASSUME NEW t \in Tasks, turnStep[TurnOf[t]] = "closing",
                 TurnOf[t] \notin crowded, Ended(t)
          PROVE  /\ AgentItem(t) \in ItemsKept(TurnOf[t])
                 /\ UsedTools(t) =>
                      \E i \in ItemsKept(TurnOf[t]) :
                        /\ i.tool /\ i.task = t
                        /\ TasksOf(TurnOf[t]) = {t} => i.parent = t
      <3>1. TurnOf[t] \in Turns /\ t \in TasksOf(TurnOf[t]) /\ tstep[t] # "new"
        BY <2>1, AgentAssumption DEF TasksOf, Ended
      <3>2. ClosingIsTraced(TurnOf[t])
        BY <2>1, <3>1 DEF LoneTurnsAreTraced
      <3> QED
        BY <3>1, <3>2 DEF ClosingIsTraced, BookedOn
    <2>2. ASSUME crowded = {}, NEW x \in Turns
          PROVE  /\ \A i \in files[x].data : TurnOf[i.task] = x
                 /\ \A s \in files[x].sections : \A i \in s.data : TurnOf[i.task] = s.of
                 /\ turnStep[x] = "rejected" /\ ~WriteOnReject =>
                      /\ files[x] = Tracer!NoDocument
                      /\ \A y \in Turns : ~\E s \in files[y].sections : s.of = x
      BY <2>2 DEF DossiersArePure, ItemsAre, SectionsAre, Unwritten, NotIn
    <2> QED
      BY <2>1, <2>2 DEF TraceIsFaithful
  <1> QED
    BY <1>1, <1>2, <1>3, AgentInvariantHolds, DossierHolds, PTL DEF EngineSpec
=============================================================================
