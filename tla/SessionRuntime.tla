--------------------------- MODULE SessionRuntime ---------------------------
(***************************************************************************)
(* One live session of the engine: the turns that clients, the host and    *)
(* the background pump run on it (session-runtime.ts), the state kernel    *)
(* with its single draft (state-kernel.ts), the commit unit that flushes   *)
(* a turn (turn-pipeline.ts) and the store behind it.                      *)
(*                                                                         *)
(* A step is the code between two awaits. The world state is abstracted to *)
(* the sequence of turns whose commands it contains, so its length is the  *)
(* revision: core.bumpTurn adds exactly one per player or system turn.     *)
(* The queue pendingSystemTurns is kept as its two subsequences, inline    *)
(* and background: no code depends on the order between the two.           *)
(***************************************************************************)
EXTENDS Naturals, Sequences, FiniteSets, Functions

CONSTANTS
  Clients,        \* callers of submitAction
  Keys, NoKey,    \* values of clientActionId
  Jobs, NoJob,    \* scheduled system turns
  IdemLimit,      \* config.turn.idempotencyLimit
  MaxDrain,       \* the 16 of drainInlineSystemTurns and pumpBackgroundJobs
  SameTick,       \* may another caller run between a caller's idle check and
                  \* its claim of the session (both calls made in one tick)?
  RetriesOverlap, \* may a key be submitted again while its first call runs?
  HasCommitTurn,  \* does the persistence port offer commitTurn?
  Faults,         \* which failures the environment may inject
  MaxSubmits, MaxCrashes, MaxSaves  \* bounds on the environment

Pump == "pump"
Ops  == "ops"     \* a host that calls submitSystemTurn
Actors == Clients \cup {Pump, Ops}

FaultKinds == {"playerReject", "systemReject", "playerThrow", "systemThrow",
               "persistFail", "timeout"}

ASSUME SessionAssumption ==
  /\ Clients \cap {Pump, Ops} = {}
  /\ NoKey \notin Keys /\ NoJob \notin Jobs
  /\ IsFiniteSet(Jobs)
  /\ IdemLimit \in Nat \ {0} /\ MaxDrain \in Nat \ {0}
  /\ SameTick \in BOOLEAN /\ RetriesOverlap \in BOOLEAN
  /\ HasCommitTurn \in BOOLEAN
  /\ Faults \subseteq FaultKinds
  /\ MaxSubmits \in Nat /\ MaxCrashes \in Nat /\ MaxSaves \in Nat

VARIABLES
  \* LiveSession and its kernel, in memory
  up,        \* is the session live?
  auth,      \* kernel.authoritative
  draft,     \* kernel.draft
  busy, pumping,        \* LiveSession.busy, LiveSession.backgroundPumping
  inlineQ, bgQ,         \* LiveSession.pendingSystemTurns, by mode
  idem,      \* LiveSession.idempotency, its insertion order in field "at"
  \* the asynchronous calls in progress
  pc, turn,  \* where each actor is, and the turn it runs
  s0rev,     \* scratch.s0.meta.revision of that turn
  unit,      \* the commit unit it has built
  batch, ran,           \* inline turns left to drain; turns run by this loop
  zombies,   \* stages whose turn was rejected by a timeout but still run
  saving,    \* a save() that has read the state and not yet written it
  \* the store
  snap, journal,
  \* bookkeeping
  fresh, submits, crashes, saves,
  lost       \* committed player turns whose action got no answer

liveVars  == <<up, auth, draft, busy, pumping, inlineQ, bgQ, idem>>
callVars  == <<pc, turn, s0rev, unit, batch, ran>>
storeVars == <<snap, journal>>
bookVars  == <<fresh, submits, crashes, saves, lost>>
vars == <<liveVars, callVars, zombies, saving, storeVars, bookVars>>

-----------------------------------------------------------------------------
Turn    == [key : Keys \cup {NoKey}, job : Jobs \cup {NoJob}]
History == Seq(Turn)
Answer  == [key : Keys, ok : BOOLEAN, at : Nat]
Answers == {S \in SUBSET Answer : IsFiniteSet(S)}
Snapshot == [state : History, idem : Answers,
             inlineQ : Seq(Jobs), bgQ : Seq(Jobs)]
Entry   == [turn : Turn, prev : Nat, next : Nat]
Unit    == [snap : Snapshot, entry : Entry]

HostTurn   == [key |-> NoKey, job |-> NoJob]
PlayerTurn(k) == [key |-> k, job |-> NoJob]
JobTurn(j) == [key |-> NoKey, job |-> j]

Closed   == [open |-> FALSE, state |-> <<>>]
Open(s)  == [open |-> TRUE, state |-> s]
EmptySnapshot == [state |-> <<>>, idem |-> {}, inlineQ |-> <<>>, bgQ |-> <<>>]
NoUnit   == [snap |-> EmptySnapshot,
             entry |-> [turn |-> HostTurn, prev |-> 0, next |-> 0]]

\* A turn passes through these phases, from pipeline.run to its result:
\*   work       open draft, stages begin .. propose
\*   drafted    commands dry-applied, stages narrate .. present
\*   persist    commit unit built, waiting for the store
\*   append     snapshot saved, journal not yet (port without commitTurn)
\*   flushed    stored, kernel.commit to come
\*   after      committed in memory
\*   rejecting  a stage failed;  refused: no draft could be opened
\*   committed, rejected   the result, on its way to the caller
\*   threw      an exception instead of a result
DraftPhases == {"work", "drafted", "persist", "append", "flushed"}
Results     == {"committed", "rejected", "threw"}
TurnPhases  == DraftPhases \cup {"after", "rejecting", "refused",
                               "committed", "rejected", "threw"}
Phases      == TurnPhases \cup {"idle", "wait", "claim", "drain"}

InTurn(a)   == pc[a] \in TurnPhases
IsPlayer(a) == a \in Clients /\ turn[a].job = NoJob
GoTo(a, p)  == pc' = [pc EXCEPT ![a] = p]

Remembered(k) == \E e \in idem : e.key = k

\* The place of an answer in the map is its field "at", counted from 1.
Renumber(S) ==
  {[e EXCEPT !.at = Cardinality({f \in S : f.at <= e.at})] : e \in S}

MapHasNoRoomForLast == Cardinality(idem) < IdemLimit - 1  \* mutant
MapMayExceedLimit == Cardinality(idem) <= IdemLimit       \* mutant
MapHasRoom == Cardinality(idem) < IdemLimit

\* Map.set keeps the place of a known key; a new one goes last and the oldest
\* key leaves when the map outgrows its limit.
Remember(k, ok) ==
  IF k = NoKey THEN idem
  ELSE IF Remembered(k)
  THEN {IF e.key = k THEN [e EXCEPT !.ok = ok] ELSE e : e \in idem}
  ELSE Renumber(
         {[key |-> k, ok |-> ok, at |-> Cardinality(idem) + 1]} \cup
         (IF MapHasRoom THEN idem ELSE {e \in idem : e.at # 1}))

\* The orders in which a turn may schedule some of the jobs S.
Orders(S) == UNION {Injection(1..n, S) : n \in 0..Cardinality(S)}

-----------------------------------------------------------------------------
(* Running turns                                                           *)

\* pipeline.run up to its first await: S0 is read and the kernel's draft is
\* opened; a draft that is already open refuses the turn, and finishRejected
\* discards that draft. "state" and "dr" are the kernel at this point of the
\* step, "p" the other moves the step makes.
BeginFrom(p, a, t, state, dr) ==
  /\ turn' = [turn EXCEPT ![a] = t]
  /\ s0rev' = [s0rev EXCEPT ![a] = Len(state)]
  /\ draft' = IF dr.open THEN Closed ELSE Open(state)
  /\ pc' = [p EXCEPT ![a] = IF dr.open THEN "refused" ELSE "work"]

Begin(a, t) == BeginFrom(pc, a, t, auth, draft)

\* splice(index, 1) removes the one job taken.
PeekedQueue(q) == q          \* mutant: the job stays queued
TruncatedQueue(q) == <<>>    \* mutant: splice without its count
QueueAfterTaking(q) == Tail(q)

\* pumpBackgroundJobs takes the first background job off the queue and runs
\* it; its "while (busy)" never waits, as every caller has just released busy.
StartJob(p, q, state, dr, n) ==
  /\ bgQ' = QueueAfterTaking(q)
  /\ busy' = TRUE
  /\ pumping' = TRUE
  /\ ran' = [ran EXCEPT ![Pump] = n]
  /\ BeginFrom(p, Pump, JobTurn(Head(q)), state, dr)

-----------------------------------------------------------------------------
(* Callers: submitAction and submitSystemTurn                              *)

\* submitAction with a key that is not remembered; the caller now waits.
Submit(c, k) ==
  /\ up /\ pc[c] = "idle" /\ submits < MaxSubmits
  /\ ~Remembered(k)
  /\ RetriesOverlap \/ k = NoKey \/ \A d \in Clients : turn[d].key # k
  /\ turn' = [turn EXCEPT ![c] = PlayerTurn(k)]
  /\ GoTo(c, "wait")
  /\ submits' = submits + 1
  /\ UNCHANGED <<liveVars, s0rev, unit, batch, ran, zombies, saving,
                 storeVars, fresh, crashes, saves, lost>>

\* submitAction with a remembered key returns the earlier result.
ReplayAnswer(c, k) ==
  /\ up /\ pc[c] = "idle" /\ submits < MaxSubmits
  /\ Remembered(k)
  /\ submits' = submits + 1
  /\ UNCHANGED <<liveVars, callVars, zombies, saving, storeVars,
                 fresh, crashes, saves, lost>>

SessionIdle == ~busy /\ ~pumping /\ bgQ = <<>>

\* waitForSessionIdle sees an idle session; when callers may share a tick,
\* another one can run before this one's continuation claims the session.
FindIdle(c) ==
  /\ SameTick
  /\ pc[c] = "wait" /\ SessionIdle
  /\ GoTo(c, "claim")
  /\ UNCHANGED <<liveVars, turn, s0rev, unit, batch, ran, zombies, saving,
                 storeVars, bookVars>>

\* The continuation sets busy, without a second check, and runs the turn.
Claim(c) ==
  /\ IF SameTick THEN pc[c] = "claim" ELSE pc[c] = "wait" /\ SessionIdle
  /\ busy' = TRUE
  /\ Begin(c, turn[c])
  /\ UNCHANGED <<up, auth, pumping, inlineQ, bgQ, idem, unit, batch, ran,
                 zombies, saving, storeVars, bookVars>>

\* waitForSessionIdle gives up after its 120 s: SESSION_BUSY.
WaitTimeout(c) ==
  /\ pc[c] = "wait" /\ ~SessionIdle
  /\ GoTo(c, "idle")
  /\ turn' = [turn EXCEPT ![c] = HostTurn]
  /\ UNCHANGED <<liveVars, s0rev, unit, batch, ran, zombies, saving,
                 storeVars, bookVars>>

ChecksOnlyPump == ~pumping    \* mutant
SystemTurnAllowed == ~busy

\* submitSystemTurn is refused while the session is busy (no state change)
\* and otherwise claims it in the same step.
SubmitSystemTurn ==
  /\ up /\ pc[Ops] = "idle" /\ submits < MaxSubmits
  /\ SystemTurnAllowed
  /\ busy' = TRUE
  /\ Begin(Ops, HostTurn)
  /\ submits' = submits + 1
  /\ UNCHANGED <<up, auth, pumping, inlineQ, bgQ, idem, unit, batch, ran,
                 zombies, saving, storeVars, fresh, crashes, saves, lost>>

-----------------------------------------------------------------------------
(* The pipeline: one turn from its stages to its result                    *)

pipelineFrame == <<up, busy, pumping, inlineQ, bgQ, idem, turn, s0rev, batch,
                   ran, saving, bookVars>>

AppliedTwice(state, t) == Append(Append(state, t), t)  \* mutant
WithCommandsOf(state, t) == Append(state, t)

\* stageValidate: the turn's commands, core.bumpTurn first, go to whatever
\* draft the kernel has open.
Validate(a) ==
  /\ pc[a] = "work" /\ draft.open
  /\ draft' = Open(WithCommandsOf(draft.state, turn[a]))
  /\ GoTo(a, "drafted")
  /\ UNCHANGED <<auth, unit, zombies, storeVars, pipelineFrame>>

\* dryApply without a draft is an error of the stage.
ValidateWithoutDraft(a) ==
  /\ pc[a] = "work" /\ ~draft.open
  /\ GoTo(a, "rejecting")
  /\ UNCHANGED <<auth, draft, unit, zombies, storeVars, pipelineFrame>>

DraftKept == draft      \* mutant: the failed stage forgets to discard
DraftDiscarded == Closed

\* A stage before commit returns an error, or times out where nothing of it is
\* left to touch the kernel: the draft is discarded.
StageFails(a) ==
  /\ pc[a] \in {"work", "drafted"}
  /\ (IF IsPlayer(a) THEN "playerReject" ELSE "systemReject") \in Faults
  /\ draft' = DraftDiscarded
  /\ GoTo(a, "rejecting")
  /\ UNCHANGED <<auth, unit, zombies, storeVars, pipelineFrame>>

\* withTimeout rejects a stage that still runs: validate_commands awaiting a
\* module's validator, present awaiting one of its materialize window, or
\* commit awaiting the store.
StageTimeout(a) ==
  /\ "timeout" \in Faults
  /\ pc[a] \in {"work", "drafted", "persist", "append"}
  /\ zombies' = zombies \cup {[at |-> pc[a], turn |-> turn[a], unit |-> unit[a]]}
  /\ draft' = Closed
  /\ unit' = [unit EXCEPT ![a] = NoUnit]
  /\ GoTo(a, "rejecting")
  /\ UNCHANGED <<auth, storeVars, pipelineFrame>>

\* stageCommit builds the unit: the snapshot carries the draft (getDraftView
\* falls back to the authoritative state), the answers remembered so far and
\* the queue as it is, which the turn's own schedules have not reached yet.
PublishedView == auth   \* mutant: the snapshot carries the published state
DraftView == IF draft.open THEN draft.state ELSE auth

PrevFromDraft(a) == Len(DraftView)   \* mutant
PrevRevision(a) == s0rev[a]

BuildUnit(a) ==
  /\ pc[a] = "drafted"
  /\ unit' = [unit EXCEPT ![a] =
       [snap  |-> [state |-> DraftView, idem |-> idem,
                   inlineQ |-> inlineQ, bgQ |-> bgQ],
        entry |-> [turn |-> turn[a], prev |-> PrevRevision(a), next |-> Len(DraftView)]]]
  /\ GoTo(a, "persist")
  /\ UNCHANGED <<auth, draft, zombies, storeVars, pipelineFrame>>

\* persistence.commitTurn: snapshot and journal entry in one transaction.
CommitTurn(a) ==
  /\ HasCommitTurn
  /\ pc[a] = "persist"
  /\ snap' = unit[a].snap
  /\ journal' = Append(journal, unit[a].entry)
  /\ unit' = [unit EXCEPT ![a] = NoUnit]
  /\ GoTo(a, "flushed")
  /\ UNCHANGED <<auth, draft, zombies, pipelineFrame>>

\* A port without commitTurn: persistence.save, then appendJournal.
SaveSnapshot(a) ==
  /\ ~HasCommitTurn
  /\ pc[a] = "persist"
  /\ snap' = unit[a].snap
  /\ GoTo(a, "append")
  /\ UNCHANGED <<auth, draft, unit, zombies, journal, pipelineFrame>>

AppendJournal(a) ==
  /\ pc[a] = "append"
  /\ journal' = Append(journal, unit[a].entry)
  /\ unit' = [unit EXCEPT ![a] = NoUnit]
  /\ GoTo(a, "flushed")
  /\ UNCHANGED <<auth, draft, zombies, snap, pipelineFrame>>

\* The store refuses the write: the stage fails with PERSISTENCE_FAILED.
PersistFails(a) ==
  /\ "persistFail" \in Faults
  /\ pc[a] \in {"persist", "append"}
  /\ draft' = Closed
  /\ unit' = [unit EXCEPT ![a] = NoUnit]
  /\ GoTo(a, "rejecting")
  /\ UNCHANGED <<auth, zombies, storeVars, pipelineFrame>>

\* kernel.commit publishes the draft ...
KernelCommit(a) ==
  /\ pc[a] = "flushed" /\ draft.open
  /\ auth' = draft.state
  /\ draft' = Closed
  /\ GoTo(a, "after")
  /\ UNCHANGED <<unit, zombies, storeVars, pipelineFrame>>

\* ... and refuses when the draft is gone, with the turn already stored.
KernelCommitFails(a) ==
  /\ pc[a] = "flushed" /\ ~draft.open
  /\ GoTo(a, "rejecting")
  /\ UNCHANGED <<auth, draft, unit, zombies, storeVars, pipelineFrame>>

RefusedHangs == {"after", "rejecting"}   \* mutant
Finishing == {"after", "rejecting", "refused"}

\* Only player turns may schedule system turns: their schedulers after a commit,
\* their event handlers in both cases, but never a turn that was refused.
Schedulable(a) == IF IsPlayer(a) /\ pc[a] # "refused" THEN fresh ELSE {}

\* finishCommitted and finishRejected; the latter discards the kernel's draft
\* once more.
Finish(a) ==
  /\ pc[a] \in Finishing
  /\ draft' = IF pc[a] = "rejecting" THEN Closed ELSE draft
  /\ GoTo(a, IF pc[a] = "after" THEN "committed" ELSE "rejected")
  /\ \E asInline, asBg \in Orders(Schedulable(a)) :
       /\ Range(asInline) \cap Range(asBg) = {}
       /\ inlineQ' = inlineQ \o asInline
       /\ bgQ' = bgQ \o asBg
       /\ fresh' = fresh \ (Range(asInline) \cup Range(asBg))
  /\ UNCHANGED <<up, auth, busy, pumping, idem, turn, s0rev, unit, batch, ran,
                 zombies, saving, storeVars, submits, crashes, saves, lost>>

\* An interceptor of turn.end throws, after a commit as after a failure: run()
\* is left with an exception. finishCommitted and finishRejected do not run and
\* the turns the after stage scheduled never reach the queue.
EndThrows(a) ==
  /\ pc[a] \in {"after", "rejecting"}
  /\ (IF IsPlayer(a) THEN "playerThrow" ELSE "systemThrow") \in Faults
  /\ GoTo(a, "threw")
  /\ lost' = IF IsPlayer(a) /\ pc[a] = "after" THEN lost + 1 ELSE lost
  /\ UNCHANGED <<liveVars, turn, s0rev, unit, batch, ran, zombies, saving,
                 storeVars, fresh, submits, crashes, saves>>

-----------------------------------------------------------------------------
(* Results, and what their callers do next                                 *)

AnswersAfter(c) ==
  IF pc[c] = "threw" THEN idem ELSE Remember(turn[c].key, pc[c] = "committed")

\* The player turn of submitAction is over: its result, if it has one, is
\* remembered first; after a commit drainInlineSystemTurns takes every inline
\* turn it finds.
PlayerReturns(c) ==
  /\ pc[c] \in Results /\ IsPlayer(c)
  /\ idem' = AnswersAfter(c)
  /\ batch' = [batch EXCEPT ![c] = IF pc[c] = "committed" THEN inlineQ ELSE <<>>]
  /\ inlineQ' = IF pc[c] = "committed" THEN <<>> ELSE inlineQ
  /\ ran' = [ran EXCEPT ![c] = 0]
  /\ turn' = [turn EXCEPT ![c] = HostTurn]
  /\ GoTo(c, "drain")
  /\ UNCHANGED <<up, auth, draft, busy, pumping, bgQ, s0rev, unit, zombies,
                 saving, storeVars, bookVars>>

DrainNext(c) ==
  /\ pc[c] = "drain" /\ batch[c] # <<>> /\ ran[c] < MaxDrain
  /\ Begin(c, JobTurn(Head(batch[c])))
  /\ batch' = [batch EXCEPT ![c] = Tail(@)]
  /\ ran' = [ran EXCEPT ![c] = @ + 1]
  /\ UNCHANGED <<up, auth, busy, pumping, inlineQ, bgQ, idem, unit, zombies,
                 saving, storeVars, bookVars>>

PutBackUnspread(c) == <<batch[c]>> \o inlineQ   \* mutant: unshift(rest)
PutBack(c) == batch[c] \o inlineQ              \* unshift(...rest)

\* Beyond MaxDrain the rest goes back to the front of the queue.
DrainOverflow(c) ==
  /\ pc[c] = "drain" /\ batch[c] # <<>> /\ ran[c] = MaxDrain
  /\ inlineQ' = PutBack(c)
  /\ batch' = [batch EXCEPT ![c] = <<>>]
  /\ UNCHANGED <<up, auth, draft, busy, pumping, bgQ, idem, pc, turn, s0rev,
                 unit, ran, zombies, saving, storeVars, bookVars>>

\* An inline turn that is rejected, or throws, ends the drain and the turns
\* behind it are dropped.
InlineReturns(c) ==
  /\ c \in Clients
  /\ pc[c] \in Results /\ ~IsPlayer(c)
  /\ batch' = [batch EXCEPT ![c] = IF pc[c] = "committed" THEN @ ELSE <<>>]
  /\ turn' = [turn EXCEPT ![c] = HostTurn]
  /\ GoTo(c, "drain")
  /\ UNCHANGED <<liveVars, s0rev, unit, ran, zombies, saving, storeVars,
                 bookVars>>

\* The finally of submitAction: the session is released, unless background
\* turns wait and no pump is active; then the pump claims it in the same step.
LeaveToPump(c) ==
  /\ pc[c] = "drain" /\ batch[c] = <<>>
  /\ bgQ # <<>> /\ pc[Pump] = "idle"
  /\ StartJob([pc EXCEPT ![c] = "idle"], bgQ, auth, draft, 1)
  /\ UNCHANGED <<up, auth, inlineQ, idem, unit, batch, zombies, saving,
                 storeVars, bookVars>>

Leave(c) ==
  /\ pc[c] = "drain" /\ batch[c] = <<>>
  /\ bgQ = <<>> \/ pc[Pump] # "idle"
  /\ busy' = FALSE
  /\ pumping' = (pumping \/ bgQ # <<>>)
  /\ GoTo(c, "idle")
  /\ UNCHANGED <<up, auth, draft, inlineQ, bgQ, idem, turn, s0rev, unit, batch,
                 ran, zombies, saving, storeVars, bookVars>>

OpsReturns ==
  /\ pc[Ops] \in Results
  /\ busy' = FALSE
  /\ GoTo(Ops, "idle")
  /\ UNCHANGED <<up, auth, draft, pumping, inlineQ, bgQ, idem, turn, s0rev, unit,
                 batch, ran, zombies, saving, storeVars, bookVars>>

\* The pump goes from a committed job to the next one in one step ...
PumpContinues ==
  /\ pc[Pump] = "committed"
  /\ bgQ # <<>> /\ ran[Pump] < MaxDrain
  /\ StartJob(pc, bgQ, auth, draft, ran[Pump] + 1)
  /\ UNCHANGED <<up, auth, inlineQ, idem, unit, batch, zombies, saving,
                 storeVars, bookVars>>

\* ... and stops after a rejected one, after MaxDrain, or with nothing to do.
\* An exception ends it too; nobody handles its promise then, and where that
\* ends the process Crash comes next.
PumpStops ==
  /\ \/ pc[Pump] \in {"rejected", "threw"}
     \/ pc[Pump] = "committed" /\ (bgQ = <<>> \/ ran[Pump] = MaxDrain)
  /\ busy' = FALSE
  /\ pumping' = FALSE
  /\ GoTo(Pump, "idle")
  /\ turn' = [turn EXCEPT ![Pump] = HostTurn]
  /\ UNCHANGED <<up, auth, draft, inlineQ, bgQ, idem, s0rev, unit, batch, ran,
                 zombies, saving, storeVars, bookVars>>

-----------------------------------------------------------------------------
(* Stages that outlive their turn, saves, crashes                          *)

zombieFrame == <<up, busy, pumping, inlineQ, bgQ, idem, callVars, saving,
                 bookVars>>

\* The stage goes on after its timeout: it dry-applies the old turn's commands
\* to the draft of whoever runs now ...
ZombieValidates(z) ==
  /\ z.at \in {"work", "drafted"}
  /\ zombies' = zombies \ {z}
  /\ draft' = IF draft.open THEN Open(WithCommandsOf(draft.state, z.turn)) ELSE draft
  /\ UNCHANGED <<auth, storeVars, zombieFrame>>

\* ... or finishes its write ...
ZombieWrites(z) ==
  /\ z.at \in {"persist", "append"}
  /\ LET saves_ == z.at = "persist"
         appends == z.at = "append" \/ HasCommitTurn
     IN  /\ snap' = IF saves_ THEN z.unit.snap ELSE snap
         /\ journal' = IF appends THEN Append(journal, z.unit.entry) ELSE journal
         /\ zombies' = (zombies \ {z}) \cup
              {[z EXCEPT !.at = IF appends THEN "flushed" ELSE "append"]}
  /\ UNCHANGED <<auth, draft, zombieFrame>>

PublishesOwnUnit(z) == z.unit.snap.state   \* mutant
Published(z) == DraftView

\* ... and calls kernel.commit on the draft that is open by then.
ZombieCommits(z) ==
  /\ z.at = "flushed"
  /\ zombies' = zombies \ {z}
  /\ auth' = Published(z)
  /\ draft' = Closed
  /\ UNCHANGED <<storeVars, zombieFrame>>

\* save() reads the state, then awaits the modules' save metadata ...
ReadForSave ==
  /\ up /\ ~saving.on /\ saves < MaxSaves
  /\ saving' = [on |-> TRUE, state |-> auth]
  /\ saves' = saves + 1
  /\ UNCHANGED <<liveVars, callVars, zombies, storeVars, fresh, submits, crashes,
                 lost>>

\* ... and writes that state with the answers and the queue of now.
WriteSave ==
  /\ saving.on
  /\ snap' = [state |-> saving.state, idem |-> idem,
              inlineQ |-> inlineQ, bgQ |-> bgQ]
  /\ saving' = [on |-> FALSE, state |-> <<>>]
  /\ UNCHANGED <<liveVars, callVars, zombies, journal, bookVars>>

\* The process stops: everything but the store is gone.
Crash ==
  /\ up /\ crashes < MaxCrashes
  /\ up' = FALSE /\ auth' = <<>> /\ draft' = Closed
  /\ busy' = FALSE /\ pumping' = FALSE
  /\ inlineQ' = <<>> /\ bgQ' = <<>> /\ idem' = {}
  /\ pc' = [a \in Actors |-> "idle"]
  /\ turn' = [a \in Actors |-> HostTurn]
  /\ s0rev' = [a \in Actors |-> 0]
  /\ unit' = [a \in Actors |-> NoUnit]
  /\ batch' = [a \in Actors |-> <<>>]
  /\ ran' = [a \in Actors |-> 0]
  /\ zombies' = {} /\ saving' = [on |-> FALSE, state |-> <<>>]
  /\ crashes' = crashes + 1
  /\ UNCHANGED <<storeVars, fresh, submits, saves, lost>>

FreshState == <<>>      \* mutant: a new kernel that ignores the snapshot
LoadedState == snap.state

\* loadSession after a restart. Of the stored answers only those of turns
\* whose passage exists come back: the committed ones. Background turns in
\* the snapshot start the pump. (A store without a passage, which is one without
\* a turn, would make it run a restore turn as well: not modelled.)
Reload ==
  /\ ~up /\ snap.state # <<>>
  /\ up' = TRUE
  /\ auth' = LoadedState
  /\ idem' = Renumber({e \in snap.idem : e.ok})
  /\ inlineQ' = snap.inlineQ
  /\ IF snap.bgQ = <<>>
     THEN UNCHANGED <<draft, busy, pumping, bgQ, pc, turn, s0rev, ran>>
     ELSE StartJob(pc, snap.bgQ, LoadedState, draft, 1)
  /\ UNCHANGED <<unit, batch, zombies, saving, storeVars, bookVars>>

-----------------------------------------------------------------------------
Init ==
  /\ up = TRUE /\ auth = <<>> /\ draft = Closed
  /\ busy = FALSE /\ pumping = FALSE
  /\ inlineQ = <<>> /\ bgQ = <<>> /\ idem = {}
  /\ pc = [a \in Actors |-> "idle"]
  /\ turn = [a \in Actors |-> HostTurn]
  /\ s0rev = [a \in Actors |-> 0]
  /\ unit = [a \in Actors |-> NoUnit]
  /\ batch = [a \in Actors |-> <<>>]
  /\ ran = [a \in Actors |-> 0]
  /\ zombies = {} /\ saving = [on |-> FALSE, state |-> <<>>]
  /\ snap = EmptySnapshot /\ journal = <<>>
  /\ fresh = Jobs /\ submits = 0 /\ crashes = 0 /\ saves = 0 /\ lost = 0

\* The steps of the turn that actor a runs.
Pipeline(a) ==
  \/ Validate(a) \/ ValidateWithoutDraft(a) \/ StageFails(a) \/ StageTimeout(a)
  \/ BuildUnit(a) \/ CommitTurn(a) \/ SaveSnapshot(a) \/ AppendJournal(a)
  \/ PersistFails(a) \/ KernelCommit(a) \/ KernelCommitFails(a) \/ Finish(a)
  \/ EndThrows(a)

\* The steps of a caller once it has asked.
Caller(c) ==
  \/ FindIdle(c) \/ Claim(c) \/ WaitTimeout(c)
  \/ PlayerReturns(c) \/ DrainNext(c) \/ DrainOverflow(c) \/ InlineReturns(c)
  \/ LeaveToPump(c) \/ Leave(c)

Zombie == \E z \in zombies :
            ZombieValidates(z) \/ ZombieWrites(z) \/ ZombieCommits(z)

Next ==
  \/ \E c \in Clients, k \in Keys \cup {NoKey} : Submit(c, k) \/ ReplayAnswer(c, k)
  \/ \E c \in Clients : Caller(c)
  \/ \E a \in Actors : Pipeline(a)
  \/ SubmitSystemTurn \/ OpsReturns \/ PumpContinues \/ PumpStops
  \/ Zombie \/ ReadForSave \/ WriteSave \/ Crash \/ Reload

Spec == Init /\ [][Next]_vars
=============================================================================
