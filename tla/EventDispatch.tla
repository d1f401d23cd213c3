--------------------------- MODULE EventDispatch ---------------------------
(***************************************************************************)
(* The events modules emit in a turn, delivered when the turn has ended    *)
(* (turn-pipeline.ts, dispatchModuleEvents). A handler may emit further    *)
(* events, one level deeper; two caps bound what one turn can set off. The *)
(* turn that starts the dispatch is TurnStages.                            *)
(***************************************************************************)
EXTENDS Naturals, Sequences

CONSTANTS
  Events,       \* names of module events
  Modules,      \* modules that subscribe and schedule
  Subscribers,  \* the modules subscribed to an event, in their order
  MaxDepth,     \* MODULE_EVENT_MAX_CASCADE_DEPTH
  MaxBurst,     \* MODULE_EVENT_MAX_BURST_PER_TURN
  MaxEmits      \* bound: events one handler, or the turn itself, emits

ASSUME EventAssumption ==
  /\ Subscribers \in [Events -> Seq(Modules)]
  /\ MaxDepth \in Nat /\ MaxBurst \in Nat \ {0} /\ MaxEmits \in Nat

VARIABLES
  evStep,    \* where the dispatch is
  evQueue,   \* events to dispatch, with their depth
  evDepth,   \* depth of the event being delivered
  waiting,   \* its subscribers still to be called
  extras,    \* dispatchExtras: events the handlers have emitted
  burst,     \* events taken off the queue
  breach,    \* the cap that stopped the dispatch
  books,     \* may handlers schedule system turns? (a player turn)
  pending    \* session.pendingSystemTurns: who asked for one

evVars == <<evStep, evQueue, evDepth, waiting, extras, burst, breach, books,
            pending>>

Queued == [name : Events, depth : Nat]
AtDepth(es, d) == [i \in DOMAIN es |-> [name |-> es[i], depth |-> d]]
Emissions == UNION {[1..n -> Events] : n \in 0..MaxEmits}

EventsInit ==
  /\ evStep = "idle" /\ evQueue = <<>> /\ evDepth = 0 /\ waiting = <<>>
  /\ extras = <<>> /\ burst = 0 /\ breach = "none" /\ books = FALSE
  /\ pending = {}

\* The turn hands over what it emitted; "asked" is what it scheduled itself.
StartDispatch(es, player, asked) ==
  /\ evStep = "idle"
  /\ evStep' = IF es = <<>> THEN "done" ELSE "take"
  /\ evQueue' = AtDepth(es, 0)
  /\ books' = player
  /\ pending' = pending \cup asked
  /\ UNCHANGED <<evDepth, waiting, extras, burst, breach>>

QueueEmpty ==
  /\ evStep = "take" /\ evQueue = <<>>
  /\ evStep' = "done"
  /\ UNCHANGED <<evQueue, evDepth, waiting, extras, burst, breach, books,
                 pending>>

BurstChecked == burst <= MaxBurst   \* mutant: one event too many
BurstLeft == burst < MaxBurst

\* The burst cap is looked at before an event is taken.
CutBurst ==
  /\ evStep = "take" /\ evQueue # <<>> /\ ~BurstLeft
  /\ evStep' = "done" /\ breach' = "burst"
  /\ UNCHANGED <<evQueue, evDepth, waiting, extras, burst, books, pending>>

\* The depth cap is looked at once the event is off the queue. An event
\* without publisher or subscriber is delivered to nobody.
TakeEvent ==
  /\ evStep = "take" /\ evQueue # <<>> /\ BurstLeft
  /\ burst' = burst + 1
  /\ evQueue' = Tail(evQueue)
  /\ evDepth' = Head(evQueue).depth
  /\ IF evDepth' > MaxDepth
     THEN evStep' = "done" /\ breach' = "depth" /\ UNCHANGED waiting
     ELSE /\ evStep' = "deliver" /\ UNCHANGED breach
          /\ waiting' = Subscribers[Head(evQueue).name]
  /\ UNCHANGED <<extras, books, pending>>

AlwaysBooks == TRUE   \* mutant: system turns schedule system turns
BooksSchedules == books

\* One handler runs, to its end or until it throws: what it emitted by then
\* stands. Only one that returns hands over what it scheduled.
Deliver(es, schedules) ==
  /\ evStep = "deliver" /\ waiting # <<>>
  /\ waiting' = Tail(waiting)
  /\ extras' = extras \o es
  /\ pending' = IF schedules /\ BooksSchedules
                THEN pending \cup {Head(waiting)} ELSE pending
  /\ UNCHANGED <<evStep, evQueue, evDepth, burst, breach, books>>

CascadesFirst(q, new) == new \o q   \* mutant: a stack instead of a queue
CascadesLast(q, new) == q \o new

\* All handlers of the event have run: their events join the queue.
Cascade ==
  /\ evStep = "deliver" /\ waiting = <<>>
  /\ evStep' = "take"
  /\ evQueue' = CascadesLast(evQueue, AtDepth(extras, evDepth + 1))
  /\ extras' = <<>>
  /\ UNCHANGED <<evDepth, waiting, burst, breach, books, pending>>

EventsNext ==
  \/ QueueEmpty \/ CutBurst \/ TakeEvent \/ Cascade
  \/ \E es \in Emissions, schedules \in BOOLEAN : Deliver(es, schedules)

\* The dispatch on its own, for the turns that may start it.
EventsSpec ==
  /\ EventsInit
  /\ [][\/ EventsNext
        \/ \E es \in Seq(Events), player \in BOOLEAN, asked \in SUBSET Modules :
             StartDispatch(es, player, asked)]_evVars

-----------------------------------------------------------------------------
EventsTypeOK ==
  /\ evStep \in {"idle", "take", "deliver", "done"}
  /\ evQueue \in Seq(Queued) /\ extras \in Seq(Events)
  /\ waiting \in Seq(Modules)
  /\ evDepth \in Nat /\ burst \in 0..MaxBurst
  /\ breach \in {"none", "depth", "burst"}
  /\ books \in BOOLEAN /\ pending \subseteq Modules

\* The queue is breadth first: no event waits behind a deeper one.
BreadthFirst ==
  \A i, j \in DOMAIN evQueue : i < j => evQueue[i].depth <= evQueue[j].depth

\* What the caps promise (docs/specs/06, 7.3): the dispatch of one turn takes
\* at most MaxBurst events, delivers none deeper than MaxDepth, and the depth
\* cap drops nothing but events that are too deep: an event within the cap is
\* never lost to a deeper one of another handler.
EventCapsHold ==
  /\ burst <= MaxBurst
  /\ evStep = "deliver" => evDepth <= MaxDepth
  /\ breach = "depth" =>
       \A i \in DOMAIN evQueue : evQueue[i].depth > MaxDepth
=============================================================================
