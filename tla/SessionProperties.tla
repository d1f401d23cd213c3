------------------------- MODULE SessionProperties -------------------------
(***************************************************************************)
(* What a session must guarantee, over the model of SessionRuntime.        *)
(***************************************************************************)
EXTENDS SessionRuntime

\* The variables have the shapes of the source's types.
TypeOK ==
  /\ up \in BOOLEAN /\ busy \in BOOLEAN /\ pumping \in BOOLEAN
  /\ auth \in History
  /\ draft \in [open : BOOLEAN, state : History]
  /\ inlineQ \in Seq(Jobs) /\ bgQ \in Seq(Jobs)
  /\ idem \in Answers
  /\ pc \in [Actors -> Phases]
  /\ turn \in [Actors -> Turn]
  /\ s0rev \in [Actors -> Nat]
  /\ unit \in [Actors -> Unit]
  /\ batch \in [Actors -> Seq(Jobs)]
  /\ ran \in [Actors -> Nat]
  /\ zombies \subseteq [at : DraftPhases, turn : Turn, unit : Unit]
  /\ saving \in [on : BOOLEAN, state : History]
  /\ snap \in Snapshot
  /\ journal \in Seq(Entry)
  /\ fresh \subseteq Jobs
  /\ submits \in Nat /\ crashes \in Nat /\ saves \in Nat /\ lost \in Nat

-----------------------------------------------------------------------------
(* Safety                                                                  *)

\* One active turn per session (06-turn-pipeline.md section 6), whoever asks:
\* clients in submitAction, a host in submitSystemTurn, the background pump.
OneTurnAtATime ==
  \A a, b \in Actors : InTurn(a) /\ InTurn(b) => a = b

\* The kernel's one draft is the running turn's own: S0, then S0 plus exactly
\* that turn's commands; no draft stays open between turns.
DraftIsOwn ==
  /\ \A a \in Actors :
       /\ pc[a] = "work" => draft = Open(auth)
       /\ pc[a] \in DraftPhases \ {"work"} => draft = Open(Append(auth, turn[a]))
  /\ draft.open => \E a \in Actors : pc[a] \in DraftPhases

\* Memory and store agree whenever no turn is between its flush and
\* kernel.commit: a failed flush leaves both at S0, a successful one moves both
\* (07-persistence.md section 4).
MemoryFollowsStore ==
  up /\ (\A a \in Actors : pc[a] \notin {"append", "flushed"})
    => auth = snap.state

\* The journal is the stored history, entry by entry, with gap-free revisions:
\* replaying it from the start reaches the snapshot (journal-replay.ts).
JournalOf(h) ==
  [i \in DOMAIN h |-> [turn |-> h[i], prev |-> i - 1, next |-> i]]

JournalIsHistory == journal = JournalOf(snap.state)

\* A history t continues a history s.
Continues(t, s) == Len(s) <= Len(t) /\ \A i \in DOMAIN s : t[i] = s[i]

\* What was stored once stays stored: no flush, save or reload ever replaces
\* the stored history by one that misses a turn.
StoreNeverLosesTurns == [][Continues(snap'.state, snap.state)]_vars

\* Even when turns overlap, stages outlive their turns and saves are stale, a
\* live kernel only ever moves forward: a published turn is not undone.
KernelNeverLosesTurns == [][up /\ up' => Continues(auth', auth)]_vars

\* An action that a host retries after its answer, or its exception, is
\* committed once, except in two cases, once for each time they happen. A crash
\* may forget the last action: its key is not in its own unit and reaches the
\* store with a later flush. An interceptor that throws at the end of a
\* committed turn leaves the action without an answer to remember. (The keys do
\* not exceed idempotencyLimit.)
RepeatedActions ==
  {i \in DOMAIN snap.state : snap.state[i].key # NoKey
     /\ \E j \in 1..(i - 1) : snap.state[j].key = snap.state[i].key}

ActionRepeatsOnlyUnanswered ==
  Cardinality(RepeatedActions) <= crashes + lost

\* A map of answers has one answer per key, and its insertion order is total.
OneAnswerPerKey(S) == \A e, f \in S : e.key = f.key \/ e.at = f.at => e = f

BoundedMap(S) ==
  /\ OneAnswerPerKey(S)
  /\ {e.at : e \in S} = 1..Cardinality(S)
  /\ Cardinality(S) <= IdemLimit

\* The map of answers never holds more than idempotencyLimit keys, one answer
\* each, and the key that leaves is always the oldest.
AnswersAreBounded == BoundedMap(idem)

\* It holds because every copy of the map, on its way to the store or in it, is
\* a bounded map too, which a reload brings back.
MapsAreBounded ==
  /\ BoundedMap(idem) /\ BoundedMap(snap.idem)
  /\ \A a \in Actors : BoundedMap(unit[a].snap.idem)
  /\ \A z \in zombies : BoundedMap(z.unit.snap.idem)

AnswersInvariant == TypeOK /\ MapsAreBounded

\* A scheduled system turn commits at most once, also when a crash brings the
\* queue of an older snapshot back: the snapshot of its own commit lacks it.
JobCommitsAtMostOnce ==
  \A i, j \in DOMAIN snap.state :
    snap.state[i].job # NoJob /\ snap.state[i].job = snap.state[j].job => i = j

\* An action the host retries with the same clientActionId is committed once
\* (06-turn-pipeline.md section 8).
ActionCommitsAtMostOnce ==
  \A i, j \in DOMAIN snap.state :
    snap.state[i].key # NoKey /\ snap.state[i].key = snap.state[j].key => i = j

\* The session implements a serial history: turns enter the store whole, one by
\* one, on top of what is published, across failures and crashes.
Serial == INSTANCE SerialHistory
            WITH durable <- snap.state,
                 visible <- IF up THEN auth ELSE snap.state

ImplementsSerialHistory == Serial!Spec

-----------------------------------------------------------------------------
(* Why the safety properties hold when callers are in separate ticks, no    *)
(* stage outlives its turn, nobody calls save() during a turn and the store *)
(* commits in one transaction.                                             *)

OrderlyHost ==
  ~SameTick /\ "timeout" \notin Faults /\ MaxSaves = 0 /\ HasCommitTurn

\* An actor holds the session from its claim to its release.
Holds(a) == InTurn(a) \/ pc[a] = "drain"

\* Only clients wait and drain, and the phases an orderly host never meets
\* are empty.
PhasesInUse ==
  /\ \A a \in Actors : pc[a] \notin {"claim", "append", "refused"}
  /\ pc[Pump] \notin {"wait", "drain"} /\ pc[Ops] \notin {"wait", "drain"}
  /\ zombies = {} /\ ~saving.on

\* busy is a lock: whoever holds the session has set it, alone.
BusyIsLock ==
  /\ \A a \in Actors : Holds(a) => busy
  /\ \A a, b \in Actors : Holds(a) /\ Holds(b) => a = b

\* The revision a turn started from is still the published one, and the unit it
\* is about to store is the published state plus that turn.
UnitIsOwn ==
  /\ \A a \in Actors : pc[a] \in DraftPhases => s0rev[a] = Len(auth)
  /\ \A a \in Actors : pc[a] = "persist" =>
       /\ unit[a].snap.state = Append(auth, turn[a])
       /\ unit[a].entry =
            [turn |-> turn[a], prev |-> Len(auth), next |-> Len(auth) + 1]

\* The store is ahead of memory by the flushed turn, or not at all.
StoreInStep ==
  /\ \A a \in Actors : pc[a] = "flushed" => snap.state = Append(auth, turn[a])
  /\ up /\ (\A a \in Actors : pc[a] # "flushed") => auth = snap.state

\* Without a process nothing runs.
DownIsIdle ==
  ~up => (\A a \in Actors : pc[a] = "idle") /\ ~draft.open /\ ~busy

\* The inductive invariant of a session with an orderly host: busy is a lock,
\* its holder owns the draft and the unit, and the store moves in step.
SerialInvariant ==
  /\ TypeOK
  /\ PhasesInUse
  /\ BusyIsLock
  /\ DraftIsOwn
  /\ UnitIsOwn
  /\ StoreInStep
  /\ DownIsIdle
  /\ JournalIsHistory

-----------------------------------------------------------------------------
(* Liveness: the event loop runs every continuation, timer and store reply *)
(* that is due. Nothing is fair about clients, hosts, faults or restarts.  *)

Fairness ==
  /\ \A a \in Actors : WF_vars(Pipeline(a))
  /\ \A c \in Clients : WF_vars(Caller(c))
  /\ WF_vars(OpsReturns) /\ WF_vars(PumpContinues \/ PumpStops)

FairSpec == Spec /\ Fairness

\* Every submitAction gets an answer: a result or SESSION_BUSY.
EveryCallAnswered ==
  \A c \in Clients : pc[c] # "idle" ~> pc[c] = "idle"

\* A session that is busy, or has background work, becomes idle again: "never
\* leave session lock hanging" (06-turn-pipeline.md section 7).
SessionBecomesIdle == ~SessionIdle ~> SessionIdle

\* A queued background turn runs and commits.
BackgroundJobCommits ==
  \A j \in Jobs :
    j \in Range(bgQ) ~> (\E i \in DOMAIN auth : auth[i].job = j)
=============================================================================
