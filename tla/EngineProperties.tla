-------------------------- MODULE EngineProperties --------------------------
(***************************************************************************)
(* What turns keep of their agents and their dossiers, although they share *)
(* one orchestrator and one tracer with the turns of every other session.  *)
(***************************************************************************)
EXTENDS EngineTurns

\* Every variable of the engine has its type.
EngineTypeOK ==
  /\ AgentsTypeOK
  /\ turnStep \in [Turns -> {"new", "open", "closing", "closing_rejected",
                             "committed", "rejected"}]
  /\ recorded \subseteq Tasks /\ crowded \subseteq Turns
  /\ root \in Turns \cup {NoTurn} /\ followUp \in Turns \cup {NoTurn}
  /\ rootData \subseteq Item /\ bucket \subseteq Item /\ hasPath \in BOOLEAN
  /\ \A x \in Turns : files[x].data \subseteq Item

AsksAllowed(t) ==
  IF PathOf[t] = "loop" THEN (MaxRepairs + 1) * MaxRounds ELSE MaxRepairs + 1

\* A task asks the model a bounded number of times, repairs and tool rounds
\* multiplied, finishes at most once, in the announcement as in its result, and
\* leaves no stream buffer behind.
TasksEndOnce ==
  \A t \in Tasks :
    /\ asked[t] <= AsksAllowed(t)
    /\ finished[t] = IF Ended(t) THEN 1 ELSE 0
    /\ t \in streamed => Running(t)

\* The tasks of a turn that met no other are announced to its own session, by
\* whichever of the two ways they were asked, and their tools work on its own
\* context. A task that outlives its turn is announced to no session.
LoneTurnsKeepToThemselves ==
  \A t \in Tasks : TurnOf[t] \notin crowded =>
    /\ announced.task = t =>
         announced.to = TurnOf[t]
         \/ (announced.to = NoTurn /\ ~UnderWay(TurnOf[t]))
    /\ toolCtx[t] \in {NoTurn, TurnOf[t]}

ItemsKept(turn) ==
  IF root = turn THEN rootData
  ELSE UNION {s.data : s \in {r \in sections : r.of = turn}}

UsedTools(t) == asked[t] > attempt[t] + 1

\* When a lone turn closes, the dossier in memory has each of its finished
\* tasks, and for each that used tools a tool call booked on a task of the turn;
\* on that very task if the turn had no other. As long as the turns of all
\* sessions came one at a time, a turn's file, and each of its sections, has
\* only items of that turn; a rejected turn that is not to be written is in no
\* file at all.
TraceIsFaithful ==
  /\ \A t \in Tasks : LET turn == TurnOf[t] IN
       turnStep[turn] = "closing" /\ turn \notin crowded /\ Ended(t) =>
         /\ AgentItem(t) \in ItemsKept(turn)
         /\ UsedTools(t) =>
              \E i \in ItemsKept(turn) :
                /\ i.tool /\ i.task = t
                /\ TasksOf(turn) = {t} => i.parent = t
  /\ crowded = {} => \A x \in Turns :
       /\ \A i \in files[x].data : TurnOf[i.task] = x
       /\ \A s \in files[x].sections : \A i \in s.data : TurnOf[i.task] = s.of
       /\ turnStep[x] = "rejected" /\ ~WriteOnReject =>
            /\ files[x] = Tracer!NoDocument
            /\ \A y \in Turns : ~\E s \in files[y].sections : s.of = x

\* A file that was written is only ever written with more: the sections of the
\* turns that follow never replace what an earlier one has added.
DossierOnlyGrows ==
  [][\A x \in Turns : /\ files[x].data \subseteq files'[x].data
                      /\ files[x].sections \subseteq files'[x].sections]_engineVars
=============================================================================
