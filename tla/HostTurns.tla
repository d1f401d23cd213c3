------------------------------ MODULE HostTurns ------------------------------
(***************************************************************************)
(* The turns of one session as the API host sees them: the jobs of the     *)
(* turn service (turn-service.ts), the turns the engine runs one at a time *)
(* and the events the SSE hub copies to the browser (sse-hub.ts). A turn   *)
(* that a player asked for has the name of its submission.                 *)
(***************************************************************************)
EXTENDS Naturals, Sequences

CONSTANTS
  Submits,        \* actions a player submits
  SystemTurns,    \* turns the modules schedule
  None,           \* no turn
  MaxConcurrent,  \* maxConcurrentTurns
  MaxDeltas       \* bound: deltas the narrator streams in one turn

ASSUME HostTurnsAssumption ==
  /\ None \notin Submits \cup SystemTurns /\ Submits \cap SystemTurns = {}
  /\ MaxConcurrent \in Nat /\ MaxDeltas \in Nat

TurnIds == Submits \cup SystemTurns

VARIABLES
  sub,          \* where engine.submitAction is with an action
  captured,     \* the turn the service has taken for the action's own
  answer,       \* the answer of POST /actions
  named,        \* the turn that the answer, a 202, names
  activeTurns,
  jobs,
  engine,       \* the turn that runs, and how far it is
  outcome,      \* what submitAction returns for a turn
  deltas,       \* deltas of the turn that runs
  narrator,     \* of a rejected turn: none, adrift, or late with a delta
  lastPassage,  \* session.lastPassage
  published,    \* player passages in the order they were published
  stream,       \* the SSE connection: opening, open, lost
  events,       \* what it still holds
  silent        \* did an action end without the event that tells the browser?

serviceVars == <<sub, captured, answer, named, activeTurns, jobs>>
engineVars == <<engine, outcome, deltas, narrator, lastPassage, published>>
streamVars == <<stream, events, silent>>
hostVars == <<serviceVars, engineVars, streamVars>>

Idle == [turn |-> None, phase |-> "idle"]
Event(type, turn) == [type |-> type, turn |-> turn]

HostInit ==
  /\ sub = [i \in Submits |-> "new"]
  /\ captured = [i \in Submits |-> None]
  /\ answer = [i \in Submits |-> "none"] /\ named = [i \in Submits |-> None]
  /\ activeTurns = 0 /\ jobs = [t \in TurnIds |-> "none"]
  /\ engine = Idle /\ outcome = [t \in TurnIds |-> "none"] /\ deltas = 0
  /\ narrator = [i \in Submits |-> "none"]
  /\ lastPassage = None /\ published = <<>>
  /\ stream = "opening" /\ events = <<>> /\ silent = FALSE

Subscribed(i) == sub[i] \in {"waiting", "running"}

\* broadcastEngine: to a subscriber that is there when the event is published.
Broadcast(evs) == events' = IF stream = "open" THEN events \o evs ELSE events

NeverFull == TRUE                 \* mutant
HasSlot == activeTurns < MaxConcurrent

\* submit: refused without a slot; else the action goes to the engine, and the
\* service listens for a turn.started of the session.
SubmitArrives(i) ==
  /\ sub[i] = "new"
  /\ IF HasSlot
     THEN /\ sub' = [sub EXCEPT ![i] = "waiting"]
          /\ activeTurns' = activeTurns + 1
          /\ answer' = [answer EXCEPT ![i] = "pending"]
     ELSE /\ sub' = [sub EXCEPT ![i] = "ended"]
          /\ answer' = [answer EXCEPT ![i] = "error"]
          /\ UNCHANGED activeTurns
  /\ UNCHANGED <<captured, named, jobs, engineVars, streamVars>>

\* turn.started, of whatever kind: each listener that has no turn takes it.
Starts(t) ==
  /\ engine.turn = None
  /\ engine' = [turn |-> t, phase |-> "running"] /\ deltas' = 0
  /\ captured' = [i \in Submits |->
       IF Subscribed(i) /\ captured[i] = None THEN t ELSE captured[i]]
  /\ Broadcast(<<Event("started", t)>>)

Busy == \E i \in Submits : sub[i] = "running"

\* The end of this turn will tell the page again: what came late is forgotten.
StartPlayerTurn(i) ==
  /\ sub[i] = "waiting" /\ ~Busy
  /\ Starts(i)
  /\ sub' = [sub EXCEPT ![i] = "running"]
  /\ narrator' = [t \in Submits |-> IF narrator[t] = "late" THEN "none" ELSE narrator[t]]
  /\ UNCHANGED <<answer, named, activeTurns, jobs, outcome, lastPassage,
                 published, stream, silent>>

\* An inline turn runs before the action returns, a background one after it.
StartSystemTurn(s) ==
  /\ outcome[s] = "none"
  /\ \E t \in Submits : outcome[t] = "committed"
  /\ Starts(s)
  /\ UNCHANGED <<sub, answer, named, activeTurns, jobs, outcome, narrator,
                 lastPassage, published, stream, silent>>

\* Only player turns have a narrator.
StreamDelta ==
  /\ engine.phase = "running" /\ engine.turn \in Submits /\ deltas < MaxDeltas
  /\ deltas' = deltas + 1
  /\ Broadcast(<<Event("delta", engine.turn)>>)
  /\ UNCHANGED <<serviceVars, engine, outcome, narrator, lastPassage, published,
                 stream, silent>>

\* The narrator of a turn that was rejected goes on, and its delta goes to the
\* session of the engine's context: until the turn is over, and again in the
\* turns after it. Bound: one such delta of a turn.
LateDelta(t) ==
  /\ narrator[t] = "adrift" /\ engine.phase # "idle"
  /\ narrator' = [narrator EXCEPT ![t] = "late"]
  /\ Broadcast(<<Event("delta", t)>>)
  /\ UNCHANGED <<serviceVars, engine, outcome, deltas, lastPassage, published,
                 stream, silent>>

\* The commit stage publishes the passage, of a player turn, and the commit.
CommitTurn ==
  LET t == engine.turn IN
  /\ engine.phase = "running"
  /\ engine' = [engine EXCEPT !.phase = "closing"]
  /\ outcome' = [outcome EXCEPT ![t] = "committed"]
  /\ IF t \in Submits
     THEN /\ lastPassage' = t /\ published' = Append(published, t)
          /\ Broadcast(<<Event("passage", t), Event("committed", t)>>)
     ELSE /\ Broadcast(<<Event("committed", t)>>)
          /\ UNCHANGED <<lastPassage, published>>
  /\ silent' = (silent \/ stream # "open")
  /\ UNCHANGED <<serviceVars, deltas, narrator, stream>>

\* A stage failed; also, after the commit was published, an AFTER interceptor
\* of the commit stage. A stage that timed out leaves its narrator running.
RejectTurn ==
  LET t == engine.turn IN
  /\ engine.phase \in {"running", "closing"}
  /\ outcome[t] # "rejected"
  /\ engine' = [engine EXCEPT !.phase = "closing"]
  /\ outcome' = [outcome EXCEPT ![t] = "rejected"]
  /\ \/ UNCHANGED narrator
     \/ /\ engine.phase = "running" /\ t \in Submits
        /\ narrator' = [narrator EXCEPT ![t] = "adrift"]
  /\ Broadcast(<<Event("rejected", t)>>)
  /\ silent' = (silent \/ stream # "open")
  /\ UNCHANGED <<serviceVars, deltas, lastPassage, published, stream>>

TurnIsOver ==
  /\ engine.phase = "closing"
  /\ engine' = Idle
  /\ UNCHANGED <<serviceVars, outcome, deltas, narrator, lastPassage, published,
                 streamVars>>

Released(n) == IF n = 0 THEN 0 ELSE n - 1

Settle(i, turn, status) ==
  /\ sub' = [sub EXCEPT ![i] = "ended"]
  /\ jobs' = [jobs EXCEPT ![turn] = status]
  /\ activeTurns' = Released(activeTurns)

\* submitAction returns.
ActionReturns(i) ==
  /\ sub[i] = "running" /\ engine = Idle
  /\ Settle(i, i, outcome[i])
  /\ UNCHANGED <<captured, answer, named, engineVars, streamVars>>

\* It returns a rejection although no turn was started, and so no event: the
\* session is unknown, or was not idle in time.
ActionRefused(i) ==
  /\ sub[i] = "waiting"
  /\ outcome' = [outcome EXCEPT ![i] = "rejected"]
  /\ Settle(i, i, "rejected")
  /\ silent' = TRUE
  /\ UNCHANGED <<captured, answer, named, engine, deltas, narrator, lastPassage,
                 published, stream, events>>

\* It throws, as an interceptor of turn.end may, of its turn or of one that runs
\* inline: the job of the captured turn is rejected, whatever was published, and
\* the engine keeps the context of the turn.
ActionThrows(i) ==
  /\ sub[i] = "running" /\ engine.turn # None
  /\ engine' = [turn |-> None, phase |-> "left"]
  /\ outcome' = [outcome EXCEPT ![i] = "threw", ![engine.turn] = "threw"]
  /\ Settle(i, captured[i], "rejected")
  /\ silent' = (silent \/ outcome[i] = "none")
  /\ UNCHANGED <<captured, answer, named, deltas, narrator, lastPassage,
                 published, stream, events>>

AlwaysRunning(t) == TRUE          \* mutant
NotFinished(t) == jobs[t] = "none"

\* The 202: with the captured turn, or, when none was seen in time, when the
\* action has returned.
Accept(i) ==
  /\ answer[i] = "pending"
  /\ \/ /\ captured[i] # None
        /\ answer' = [answer EXCEPT ![i] = "accepted"]
        /\ named' = [named EXCEPT ![i] = captured[i]]
        /\ jobs' = IF NotFinished(captured[i])
                   THEN [jobs EXCEPT ![captured[i]] = "running"] ELSE jobs
     \/ /\ sub[i] = "ended" /\ outcome[i] # "threw"
        /\ answer' = [answer EXCEPT ![i] = "accepted"]
        /\ named' = [named EXCEPT ![i] = i]
        /\ UNCHANGED jobs
     \/ /\ sub[i] = "ended" /\ outcome[i] = "threw"
        /\ answer' = [answer EXCEPT ![i] = "error"]
        /\ UNCHANGED <<named, jobs>>
  /\ UNCHANGED <<sub, captured, activeTurns, engineVars, streamVars>>

StreamOpens ==
  /\ stream = "opening" /\ stream' = "open"
  /\ UNCHANGED <<serviceVars, engineVars, events, silent>>

\* The stream breaks; the client does not open another.
StreamLost ==
  /\ stream \in {"opening", "open"} /\ stream' = "lost"
  /\ events' = <<>>
  /\ UNCHANGED <<serviceVars, engineVars, silent>>

EngineProgress ==
  \/ \E i \in Submits : StartPlayerTurn(i) \/ ActionReturns(i)
  \/ CommitTurn \/ TurnIsOver
=============================================================================
