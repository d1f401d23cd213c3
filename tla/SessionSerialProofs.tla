------------------------- MODULE SessionSerialProofs -------------------------
(***************************************************************************)
(* With an orderly host a session is serial: one turn at a time, on its    *)
(* own draft, with memory and journal in step with the store, so that it   *)
(* implements SerialHistory. The argument is the inductive invariant       *)
(* SerialInvariant of SessionProperties.                                   *)
(***************************************************************************)
EXTENDS SessionProofs

-----------------------------------------------------------------------------
(* Histories and their journals                                            *)

\* A history with one more turn is a longer history that continues it.
LEMMA AppendTurn ==
  ASSUME NEW h \in History, NEW t \in Turn
  PROVE  /\ Append(h, t) \in History
         /\ Append(h, t) # h
         /\ Len(h) \in Nat /\ Len(Append(h, t)) = Len(h) + 1
         /\ Continues(Append(h, t), h)
PROOF
  BY AppendProperties, LenProperties DEF History, Continues

\* Appending the entry of a turn to the journal of a history is the journal of
\* the history with that turn.
LEMMA JournalOfAppend ==
  ASSUME NEW h \in History, NEW t \in Turn
  PROVE  Append(JournalOf(h), [turn |-> t, prev |-> Len(h), next |-> Len(h) + 1])
           = JournalOf(Append(h, t))
PROOF
  <1> DEFINE new == [turn |-> t, prev |-> Len(h), next |-> Len(h) + 1]
             h2  == Append(h, t)
  <1>1. /\ h2 \in Seq(Turn) /\ Len(h2) = Len(h) + 1 /\ Len(h) \in Nat
        /\ DOMAIN h = 1..Len(h) /\ DOMAIN h2 = 1..(Len(h) + 1)
        /\ \A i \in 1..Len(h) : h2[i] = h[i]
        /\ h2[Len(h) + 1] = t
    BY AppendProperties, LenProperties DEF History
  <1>2. \A g \in History : JournalOf(g) \in Seq(Entry) /\ Len(JournalOf(g)) = Len(g)
    <2> SUFFICES ASSUME NEW g \in History
                 PROVE  JournalOf(g) \in Seq(Entry) /\ Len(JournalOf(g)) = Len(g)
      OBVIOUS
    <2>1. Len(g) \in Nat /\ DOMAIN g = 1..Len(g) /\ \A i \in 1..Len(g) : g[i] \in Turn
      BY LenProperties, ElementOfSeq DEF History
    <2>2. JournalOf(g) \in [1..Len(g) -> Entry]
      BY <2>1 DEF JournalOf, Entry
    <2>3. JournalOf(g) \in Seq(Entry)
      BY <2>1, <2>2, SeqDef
    <2>4. DOMAIN JournalOf(g) = 1..Len(g)
      BY <2>1 DEF JournalOf
    <2> QED
      BY <2>1, <2>3, <2>4, LenProperties
  <1>3. new \in Entry
    BY <1>1 DEF Entry
  <1>4. /\ Append(JournalOf(h), new) \in Seq(Entry)
        /\ Len(Append(JournalOf(h), new)) = Len(h) + 1
        /\ \A i \in 1..Len(h) : Append(JournalOf(h), new)[i] = JournalOf(h)[i]
        /\ Append(JournalOf(h), new)[Len(h) + 1] = new
    BY <1>2, <1>3, AppendProperties
  <1>5. JournalOf(h2) \in Seq(Entry) /\ Len(JournalOf(h2)) = Len(h) + 1
    BY <1>1, <1>2 DEF History
  <1>6. \A i \in 1..(Len(h) + 1) : Append(JournalOf(h), new)[i] = JournalOf(h2)[i]
    <2> SUFFICES ASSUME NEW i \in 1..(Len(h) + 1)
                 PROVE  Append(JournalOf(h), new)[i] = JournalOf(h2)[i]
      OBVIOUS
    <2>1. JournalOf(h2)[i] = [turn |-> h2[i], prev |-> i - 1, next |-> i]
      BY <1>1 DEF JournalOf
    <2>2. CASE i \in 1..Len(h)
      <3>1. JournalOf(h)[i] = [turn |-> h[i], prev |-> i - 1, next |-> i]
        BY <1>1, <2>2 DEF JournalOf
      <3> QED
        BY <1>1, <1>4, <2>1, <2>2, <3>1
    <2>3. CASE i = Len(h) + 1
      BY <1>1, <1>4, <2>1, <2>3
    <2>4. i \in 1..Len(h) \/ i = Len(h) + 1
      BY <1>1
    <2> QED
      BY <2>2, <2>3, <2>4
  <1> QED
    BY <1>1, <1>4, <1>5, <1>6, SeqEqual

-----------------------------------------------------------------------------
(* The invariant is inductive                                              *)

\* The steps of a running turn (turn-pipeline.ts) keep the invariant: only the
\* holder of the session runs them, on its own draft and its own unit.
LEMMA SerialPipeline ==
  ASSUME SessionAssumption, OrderlyHost, SerialInvariant, TypeOK',
         NEW a \in Actors, Pipeline(a)
  PROVE  SerialInvariant'
PROOF
  <1> USE DEF pipelineFrame, bookVars, storeVars, GoTo, DraftPhases, TurnPhases,
              Holds, InTurn, OrderlyHost
  <1>1. TypeOK
    BY DEF SerialInvariant
  <1>2. turn[a] \in Turn /\ auth \in History /\ pc \in [Actors -> Phases]
    BY DEF TypeOK, SerialInvariant
  <1>3. CASE Validate(a)
    <2>1. /\ draft = Open(auth) /\ draft' = Open(Append(auth, turn[a]))
          /\ pc[a] = "work" /\ pc' = [pc EXCEPT ![a] = "drafted"]
          /\ \A b \in Actors : pc[b] \in TurnPhases => b = a
      <3>1. pc[a] = "work" /\ draft = Open(auth)
        BY <1>3 DEF Validate, SerialInvariant, DraftIsOwn
      <3>2. draft.state = auth
        BY <3>1 DEF Open
      <3>3. \A b \in Actors : pc[b] \in TurnPhases => b = a
        BY <3>1 DEF SerialInvariant, BusyIsLock
      <3> QED
        BY <1>3, <3>1, <3>2, <3>3 DEF Validate, WithCommandsOf
    <2>2. DraftIsOwn'
      BY <1>2, <1>3, <2>1 DEF Validate, DraftIsOwn
    <2>3. PhasesInUse' /\ BusyIsLock' /\ DownIsIdle'
      BY <1>2, <1>3, <2>1 DEF Validate, SerialInvariant, PhasesInUse, BusyIsLock,
                              DownIsIdle
    <2>4. UnitIsOwn' /\ StoreInStep' /\ JournalIsHistory'
      BY <1>2, <1>3, <2>1 DEF Validate, SerialInvariant, UnitIsOwn, StoreInStep,
                              JournalIsHistory
    <2> QED
      BY <2>2, <2>3, <2>4 DEF SerialInvariant
  <1>4. CASE ValidateWithoutDraft(a)
    BY <1>2, <1>4 DEF ValidateWithoutDraft, SerialInvariant, DraftIsOwn, Open
  <1>5. CASE StageFails(a)
    <2>1. PhasesInUse' /\ BusyIsLock' /\ DownIsIdle'
      BY <1>2, <1>5 DEF StageFails, SerialInvariant, PhasesInUse, BusyIsLock, DownIsIdle
    <2>2. DraftIsOwn' /\ UnitIsOwn'
      BY <1>2, <1>5 DEF StageFails, SerialInvariant, BusyIsLock, DraftIsOwn, UnitIsOwn,
                         DraftDiscarded, Closed
    <2>3. StoreInStep' /\ JournalIsHistory'
      BY <1>2, <1>5 DEF StageFails, SerialInvariant, BusyIsLock, DraftIsOwn, StoreInStep,
                         UnitIsOwn, DownIsIdle, JournalIsHistory, DraftDiscarded, Closed
    <2> QED
      BY <1>1, <2>1, <2>2, <2>3 DEF SerialInvariant
  <1>6. CASE StageTimeout(a)
    BY <1>6 DEF StageTimeout
  <1>7. CASE BuildUnit(a)
    <2>1. /\ DraftView = Append(auth, turn[a])
          /\ Len(DraftView) = Len(auth) + 1 /\ PrevRevision(a) = Len(auth)
      BY <1>2, <1>7, AppendTurn
         DEF BuildUnit, SerialInvariant, DraftIsOwn, UnitIsOwn, DraftView, PrevRevision,
             Open
    <2>2. /\ unit'[a].snap.state = Append(auth, turn[a])
          /\ unit'[a].entry =
               [turn |-> turn[a], prev |-> Len(auth), next |-> Len(auth) + 1]
      BY <1>1, <1>7, <2>1 DEF BuildUnit, TypeOK
    <2>3. UnitIsOwn'
      BY <1>2, <1>7, <2>2 DEF BuildUnit, SerialInvariant, BusyIsLock, UnitIsOwn
    <2>4. PhasesInUse' /\ BusyIsLock' /\ DraftIsOwn'
      BY <1>2, <1>7 DEF BuildUnit, SerialInvariant, PhasesInUse, BusyIsLock, DraftIsOwn
    <2>5. StoreInStep' /\ DownIsIdle' /\ JournalIsHistory'
      BY <1>2, <1>7 DEF BuildUnit, SerialInvariant, StoreInStep, DownIsIdle,
                        JournalIsHistory
    <2> QED
      BY <2>3, <2>4, <2>5 DEF SerialInvariant
  <1>8. CASE CommitTurn(a)
    <2>1. /\ snap.state = auth
          /\ snap'.state = Append(auth, turn[a])
          /\ journal' = Append(journal, [turn |-> turn[a], prev |-> Len(auth),
                                        next |-> Len(auth) + 1])
      BY <1>2, <1>8 DEF CommitTurn, SerialInvariant, BusyIsLock, UnitIsOwn, StoreInStep,
                        DownIsIdle
    <2>2. JournalIsHistory'
      BY <1>2, <2>1, JournalOfAppend DEF SerialInvariant, JournalIsHistory
    <2>3. StoreInStep' /\ UnitIsOwn'
      BY <1>2, <1>8, <2>1 DEF CommitTurn, SerialInvariant, BusyIsLock, StoreInStep,
                              UnitIsOwn
    <2>4. PhasesInUse' /\ BusyIsLock' /\ DraftIsOwn' /\ DownIsIdle'
      BY <1>2, <1>8 DEF CommitTurn, SerialInvariant, PhasesInUse, BusyIsLock, DraftIsOwn,
                        DownIsIdle
    <2> QED
      BY <2>2, <2>3, <2>4 DEF SerialInvariant
  <1>9. CASE SaveSnapshot(a) \/ AppendJournal(a)
    BY <1>9 DEF SaveSnapshot, AppendJournal, SerialInvariant, PhasesInUse
  <1>10. CASE PersistFails(a)
    <2>1. PhasesInUse' /\ BusyIsLock' /\ DownIsIdle'
      BY <1>2, <1>10 DEF PersistFails, SerialInvariant, PhasesInUse, BusyIsLock, DownIsIdle
    <2>2. DraftIsOwn' /\ UnitIsOwn'
      BY <1>2, <1>10 DEF PersistFails, SerialInvariant, BusyIsLock, DraftIsOwn, UnitIsOwn,
                         Closed
    <2>3. StoreInStep' /\ JournalIsHistory'
      BY <1>2, <1>10 DEF PersistFails, SerialInvariant, BusyIsLock, DraftIsOwn, StoreInStep,
                         UnitIsOwn, DownIsIdle, JournalIsHistory, Closed
    <2> QED
      BY <1>1, <2>1, <2>2, <2>3 DEF SerialInvariant
  <1>11. CASE KernelCommit(a)
    <2>1. PhasesInUse' /\ BusyIsLock' /\ DownIsIdle'
      BY <1>2, <1>11 DEF KernelCommit, SerialInvariant, PhasesInUse, BusyIsLock, DownIsIdle
    <2>2. DraftIsOwn' /\ UnitIsOwn'
      BY <1>2, <1>11 DEF KernelCommit, SerialInvariant, BusyIsLock, DraftIsOwn, UnitIsOwn,
                         Closed, Open
    <2>3. /\ pc[a] = "flushed" /\ pc' = [pc EXCEPT ![a] = "after"]
          /\ auth' = draft.state /\ UNCHANGED <<up, turn, snap, journal>>
      BY <1>11 DEF KernelCommit
    <2>4. draft.state = Append(auth, turn[a]) /\ snap.state = Append(auth, turn[a])
      BY <2>3 DEF SerialInvariant, DraftIsOwn, StoreInStep, Open
    <2>5. StoreInStep' /\ JournalIsHistory'
      BY <1>2, <2>3, <2>4 DEF SerialInvariant, BusyIsLock, StoreInStep, JournalIsHistory
    <2> QED
      BY <1>1, <2>1, <2>2, <2>5 DEF SerialInvariant
  <1>12. CASE KernelCommitFails(a)
    BY <1>2, <1>12 DEF KernelCommitFails, SerialInvariant, DraftIsOwn, Open
  <1>13. CASE Finish(a)
    <2>1. /\ pc[a] \in {"after", "rejecting"}
          /\ \E p \in {"committed", "rejected"} : pc' = [pc EXCEPT ![a] = p]
          /\ ~draft.open /\ ~draft'.open
          /\ UNCHANGED <<up, auth, busy, turn, s0rev, unit, zombies, saving, snap,
                         journal>>
      BY <1>13 DEF Finish, Finishing, SerialInvariant, PhasesInUse, BusyIsLock,
                   DraftIsOwn, Closed
    <2>2. PhasesInUse' /\ BusyIsLock' /\ DraftIsOwn'
      BY <1>2, <2>1 DEF SerialInvariant, PhasesInUse, BusyIsLock, DraftIsOwn
    <2>3. UnitIsOwn' /\ StoreInStep' /\ DownIsIdle' /\ JournalIsHistory'
      BY <1>2, <2>1 DEF SerialInvariant, UnitIsOwn, StoreInStep, DownIsIdle,
                        JournalIsHistory
    <2> QED
      BY <2>2, <2>3 DEF SerialInvariant
  <1>14. CASE EndThrows(a)
    <2>1. /\ pc[a] \in {"after", "rejecting"}
          /\ pc' = [pc EXCEPT ![a] = "threw"]
          /\ UNCHANGED <<up, auth, draft, busy, turn, s0rev, unit, zombies, saving,
                         snap, journal>>
      BY <1>14 DEF EndThrows, liveVars
    <2>2. PhasesInUse' /\ BusyIsLock' /\ DraftIsOwn'
      BY <1>2, <2>1 DEF SerialInvariant, PhasesInUse, BusyIsLock, DraftIsOwn
    <2>3. UnitIsOwn' /\ StoreInStep' /\ DownIsIdle' /\ JournalIsHistory'
      BY <1>2, <2>1 DEF SerialInvariant, UnitIsOwn, StoreInStep, DownIsIdle,
                        JournalIsHistory
    <2> QED
      BY <2>2, <2>3 DEF SerialInvariant
  <1> QED
    BY <1>3, <1>4, <1>5, <1>6, <1>7, <1>8, <1>9, <1>10, <1>11, <1>12, <1>13,
       <1>14 DEF Pipeline

\* A turn that begins when nobody holds the session, from the stored state.
LEMMA SerialBegin ==
  ASSUME SerialInvariant, TypeOK', NEW a \in Actors, NEW t,
         NEW p \in [Actors -> {"idle", "wait"}],
         p[Pump] # "wait", p[Ops] # "wait",
         ~draft.open, BeginFrom(p, a, t, auth', draft),
         up', busy', auth' = snap.state,
         UNCHANGED <<zombies, saving, snap, journal>>
  PROVE  SerialInvariant'
PROOF
  <1> USE DEF DraftPhases, TurnPhases, Holds, InTurn
  <1>1. /\ pc' = [p EXCEPT ![a] = "work"] /\ draft' = Open(auth')
        /\ s0rev' = [s0rev EXCEPT ![a] = Len(auth')]
    BY DEF BeginFrom
  <1>2. /\ pc'[a] = "work" /\ s0rev'[a] = Len(auth')
        /\ \A b \in Actors \ {a} : pc'[b] \in {"idle", "wait"}
    BY <1>1 DEF SerialInvariant, TypeOK
  <1>3. Pump \in Actors /\ Ops \in Actors
    BY DEF Actors
  <1>4. pc'[Pump] \in {"idle", "work"} /\ pc'[Ops] \in {"idle", "work"}
    BY <1>1, <1>3
  <1>5. PhasesInUse' /\ BusyIsLock'
    BY <1>2, <1>4 DEF SerialInvariant, PhasesInUse, BusyIsLock
  <1>6. DraftIsOwn' /\ UnitIsOwn'
    BY <1>1, <1>2 DEF DraftIsOwn, UnitIsOwn
  <1>7. StoreInStep' /\ DownIsIdle' /\ JournalIsHistory'
    BY <1>2 DEF SerialInvariant, StoreInStep, DownIsIdle, JournalIsHistory
  <1> QED
    BY <1>5, <1>6, <1>7 DEF SerialInvariant

\* The holder of the session moves to a phase without a draft, or releases it.
LEMMA SerialMove ==
  ASSUME SerialInvariant, TypeOK', NEW a \in Actors, NEW q,
         Holds(a) /\ pc[a] \notin DraftPhases,
         q \in {"idle", "drain"}, q = "drain" => a \in Clients /\ busy',
         pc' = [pc EXCEPT ![a] = q],
         UNCHANGED <<up, auth, draft, s0rev, unit, zombies, saving, snap, journal>>,
         \A b \in Actors \ {a} : turn'[b] = turn[b],
         SessionAssumption
  PROVE  SerialInvariant'
PROOF
  <1> USE DEF DraftPhases, TurnPhases, Holds, InTurn
  <1>1. pc \in [Actors -> Phases]
    BY DEF SerialInvariant, TypeOK
  <1>2. \A b \in Actors \ {a} : pc'[b] = pc[b] /\ ~Holds(b)
    BY <1>1 DEF SerialInvariant, BusyIsLock
  <1>3. pc'[a] = q
    BY <1>1
  <1>4. Pump \notin Clients /\ Ops \notin Clients /\ up /\ ~draft.open
    BY <1>2 DEF SessionAssumption, SerialInvariant, DraftIsOwn, DownIsIdle
  <1>5. PhasesInUse'
    BY <1>1, <1>4 DEF SerialInvariant, PhasesInUse
  <1>6. BusyIsLock' /\ DraftIsOwn' /\ UnitIsOwn'
    BY <1>2, <1>3, <1>4 DEF BusyIsLock, DraftIsOwn, UnitIsOwn
  <1>7. StoreInStep' /\ DownIsIdle' /\ JournalIsHistory'
    BY <1>2, <1>3, <1>4 DEF SerialInvariant, StoreInStep, DownIsIdle, JournalIsHistory
  <1> QED
    BY <1>5, <1>6, <1>7 DEF SerialInvariant

\* When nobody holds the session, or a client drains, no draft is open, no turn
\* is flushed and everybody else is idle or waits.
LEMMA NobodyElse ==
  ASSUME SerialInvariant, NEW a \in Actors, Holds(a) \/ ~busy,
         pc[a] \notin DraftPhases
  PROVE  /\ ~draft.open
         /\ \A b \in Actors \ {a} : pc[b] \in {"idle", "wait"}
         /\ up => auth = snap.state
         /\ Holds(a) => up
PROOF
  <1> USE DEF DraftPhases, TurnPhases, Holds, InTurn
  <1>1. pc \in [Actors -> Phases]
    BY DEF SerialInvariant, TypeOK
  <1>2. \A b \in Actors \ {a} : ~Holds(b)
    BY DEF SerialInvariant, BusyIsLock
  <1>3. \A b \in Actors \ {a} : pc[b] \in {"idle", "wait"}
    BY <1>1, <1>2 DEF Phases, SerialInvariant, PhasesInUse
  <1> QED
    BY <1>2, <1>3 DEF SerialInvariant, DraftIsOwn, StoreInStep, DownIsIdle

\* The steps of a caller of submitAction keep it: it claims an idle session and
\* releases it, or hands it to the pump.
LEMMA SerialCaller ==
  ASSUME SessionAssumption, OrderlyHost, SerialInvariant, TypeOK',
         NEW c \in Clients, Caller(c)
  PROVE  SerialInvariant'
PROOF
  <1> USE DEF bookVars, storeVars, liveVars, GoTo, DraftPhases, TurnPhases, Holds,
              InTurn
  <1>1. /\ c \in Actors /\ Pump \in Actors /\ Ops \in Actors
        /\ c # Pump /\ c # Ops
        /\ pc \in [Actors -> Phases] /\ turn \in [Actors -> Turn]
    BY DEF Actors, SessionAssumption, SerialInvariant, TypeOK
  <1>2. CASE FindIdle(c)
    BY <1>2 DEF FindIdle, OrderlyHost
  <1>3. CASE Claim(c)
    <2>1. /\ pc[c] = "wait" /\ ~busy /\ busy' /\ BeginFrom(pc, c, turn[c], auth, draft)
          /\ UNCHANGED <<up, auth, zombies, saving, snap, journal>>
      BY <1>3 DEF Claim, SessionIdle, Begin, OrderlyHost
    <2>2. /\ ~draft.open /\ up /\ auth = snap.state
          /\ \A b \in Actors \ {c} : pc[b] \in {"idle", "wait"}
      BY <1>1, <2>1, NobodyElse DEF SerialInvariant, DownIsIdle
    <2>3. pc \in [Actors -> {"idle", "wait"}]
      BY <1>1, <2>1, <2>2
    <2>4. pc[Pump] # "wait" /\ pc[Ops] # "wait"
      BY DEF SerialInvariant, PhasesInUse
    <2> QED
      BY <1>1, <2>1, <2>2, <2>3, <2>4, SerialBegin
  <1>4. CASE WaitTimeout(c)
    BY <1>1, <1>4 DEF WaitTimeout, SerialInvariant, PhasesInUse, BusyIsLock, DraftIsOwn,
      UnitIsOwn, StoreInStep, DownIsIdle, JournalIsHistory
  <1>5. CASE PlayerReturns(c)
    <2>1. busy
      BY <1>1, <1>5 DEF PlayerReturns, Results, SerialInvariant, BusyIsLock
    <2>2. /\ pc[c] \in Results /\ pc' = [pc EXCEPT ![c] = "drain"]
          /\ busy' = busy /\ turn' = [turn EXCEPT ![c] = HostTurn]
          /\ UNCHANGED <<up, auth, draft, s0rev, unit, zombies, saving, snap, journal>>
      BY <1>5 DEF PlayerReturns
    <2> QED
      BY <1>1, <2>1, <2>2, SerialMove DEF Results
  <1>6. CASE DrainNext(c)
    <2> DEFINE t == JobTurn(Head(batch[c]))
               p == [pc EXCEPT ![c] = "idle"]
    <2>1. /\ pc[c] = "drain" /\ busy' = busy /\ BeginFrom(pc, c, t, auth, draft)
          /\ UNCHANGED <<up, auth, zombies, saving, snap, journal>>
      BY <1>6 DEF DrainNext, Begin
    <2>2. /\ ~draft.open /\ up /\ auth = snap.state /\ busy
          /\ \A b \in Actors \ {c} : pc[b] \in {"idle", "wait"}
      BY <1>1, <2>1, NobodyElse DEF SerialInvariant, BusyIsLock
    <2>3. p \in [Actors -> {"idle", "wait"}]
      BY <1>1, <2>2
    <2>4. BeginFrom(p, c, t, auth, draft)
      BY <1>1, <2>1 DEF BeginFrom
    <2>5. p[Pump] # "wait" /\ p[Ops] # "wait"
      BY <1>1 DEF SerialInvariant, PhasesInUse
    <2> HIDE DEF p, t
    <2> QED
      BY <1>1, <2>1, <2>2, <2>3, <2>4, <2>5, SerialBegin
  <1>7. CASE DrainOverflow(c)
    BY <1>1, <1>7 DEF DrainOverflow, SerialInvariant, PhasesInUse, BusyIsLock, DraftIsOwn,
      UnitIsOwn, StoreInStep, DownIsIdle, JournalIsHistory
  <1>8. CASE InlineReturns(c)
    <2>1. busy
      BY <1>1, <1>8 DEF InlineReturns, Results, SerialInvariant, BusyIsLock
    <2>2. /\ pc[c] \in Results /\ pc' = [pc EXCEPT ![c] = "drain"]
          /\ busy' = busy /\ turn' = [turn EXCEPT ![c] = HostTurn]
          /\ UNCHANGED <<up, auth, draft, s0rev, unit, zombies, saving, snap, journal>>
      BY <1>8 DEF InlineReturns
    <2> QED
      BY <1>1, <2>1, <2>2, SerialMove DEF Results
  <1>9. CASE LeaveToPump(c)
    <2> DEFINE t == JobTurn(Head(bgQ))
               p == [pc EXCEPT ![c] = "idle"]
    <2>1. /\ pc[c] = "drain" /\ busy' = TRUE /\ BeginFrom(p, Pump, t, auth, draft)
          /\ UNCHANGED <<up, auth, zombies, saving, snap, journal>>
      BY <1>9 DEF LeaveToPump, StartJob
    <2>2. /\ ~draft.open /\ up /\ auth = snap.state
          /\ \A b \in Actors \ {c} : pc[b] \in {"idle", "wait"}
      BY <1>1, <2>1, NobodyElse
    <2>3. p \in [Actors -> {"idle", "wait"}]
      BY <1>1, <2>2
    <2>4. p[Pump] # "wait" /\ p[Ops] # "wait"
      BY <1>1 DEF SerialInvariant, PhasesInUse
    <2> HIDE DEF p, t
    <2> QED
      BY <1>1, <2>1, <2>2, <2>3, <2>4, SerialBegin
  <1>10. CASE Leave(c)
    <2>1. /\ pc[c] = "drain" /\ pc' = [pc EXCEPT ![c] = "idle"] /\ turn' = turn
          /\ UNCHANGED <<up, auth, draft, s0rev, unit, zombies, saving, snap, journal>>
      BY <1>10 DEF Leave
    <2> QED
      BY <1>1, <2>1, SerialMove
  <1> QED
    BY <1>2, <1>3, <1>4, <1>5, <1>6, <1>7, <1>8, <1>9, <1>10 DEF Caller

\* So do the host's system turn, the pump, a crash and a reload; the stages that
\* outlive their turn and the save() calls have no step to take.
LEMMA SerialOtherSteps ==
  ASSUME SessionAssumption, OrderlyHost, SerialInvariant, TypeOK',
         \/ SubmitSystemTurn \/ OpsReturns \/ PumpContinues \/ PumpStops
         \/ Zombie \/ ReadForSave \/ WriteSave \/ Crash \/ Reload
  PROVE  SerialInvariant'
PROOF
  <1> USE DEF bookVars, storeVars, liveVars, callVars, GoTo, DraftPhases, TurnPhases,
              Holds, InTurn
  <1>1. /\ Pump \in Actors /\ Ops \in Actors /\ Pump # Ops
        /\ pc \in [Actors -> Phases] /\ turn \in [Actors -> Turn]
    BY DEF Actors, Pump, Ops, SerialInvariant, TypeOK
  <1>2. CASE SubmitSystemTurn
    <2>1. /\ up /\ pc[Ops] = "idle" /\ ~busy /\ busy'
          /\ BeginFrom(pc, Ops, HostTurn, auth, draft)
          /\ UNCHANGED <<up, auth, zombies, saving, snap, journal>>
      BY <1>2 DEF SubmitSystemTurn, SystemTurnAllowed, Begin
    <2>2. /\ ~draft.open /\ auth = snap.state
          /\ \A b \in Actors \ {Ops} : pc[b] \in {"idle", "wait"}
      BY <1>1, <2>1, NobodyElse
    <2>3. pc \in [Actors -> {"idle", "wait"}]
      BY <1>1, <2>1, <2>2
    <2>4. pc[Pump] # "wait" /\ pc[Ops] # "wait" /\ HostTurn \in Turn
      BY DEF SerialInvariant, PhasesInUse, HostTurn, Turn
    <2> QED
      BY <1>1, <2>1, <2>2, <2>3, <2>4, SerialBegin
  <1>3. CASE OpsReturns
    <2>1. /\ pc[Ops] \in Results /\ pc' = [pc EXCEPT ![Ops] = "idle"]
          /\ turn' = turn
          /\ UNCHANGED <<up, auth, draft, s0rev, unit, zombies, saving, snap, journal>>
      BY <1>3 DEF OpsReturns
    <2> QED
      BY <1>1, <2>1, SerialMove DEF Results
  <1>4. CASE PumpContinues
    <2> DEFINE t == JobTurn(Head(bgQ))
               p == [pc EXCEPT ![Pump] = "idle"]
    <2>1. /\ pc[Pump] = "committed" /\ busy' = TRUE /\ BeginFrom(pc, Pump, t, auth, draft)
          /\ UNCHANGED <<up, auth, zombies, saving, snap, journal>>
      BY <1>4 DEF PumpContinues, StartJob
    <2>2. /\ ~draft.open /\ up /\ auth = snap.state
          /\ \A b \in Actors \ {Pump} : pc[b] \in {"idle", "wait"}
      BY <1>1, <2>1, NobodyElse
    <2>3. p \in [Actors -> {"idle", "wait"}]
      BY <1>1, <2>2
    <2>4. BeginFrom(p, Pump, t, auth, draft)
      BY <1>1, <2>1 DEF BeginFrom
    <2>5. p[Pump] # "wait" /\ p[Ops] # "wait"
      BY <1>1 DEF SerialInvariant, PhasesInUse
    <2> HIDE DEF p, t
    <2> QED
      BY <1>1, <2>1, <2>2, <2>3, <2>4, <2>5, SerialBegin
  <1>5. CASE PumpStops
    <2>1. /\ pc[Pump] \in Results
          /\ pc' = [pc EXCEPT ![Pump] = "idle"]
          /\ turn' = [turn EXCEPT ![Pump] = HostTurn]
          /\ UNCHANGED <<up, auth, draft, s0rev, unit, zombies, saving, snap, journal>>
      BY <1>5 DEF PumpStops, Results
    <2> QED
      BY <1>1, <2>1, SerialMove DEF Results
  <1>6. CASE Zombie \/ WriteSave
    BY <1>6 DEF Zombie, WriteSave, SerialInvariant, PhasesInUse
  <1>7. CASE ReadForSave
    BY <1>7 DEF ReadForSave, OrderlyHost, SerialInvariant, TypeOK
  <1>8. CASE Crash
    <2>1. /\ ~up' /\ ~busy' /\ ~draft'.open
          /\ pc' = [a \in Actors |-> "idle"]
          /\ zombies' = {} /\ ~saving'.on
          /\ UNCHANGED <<snap, journal>>
      BY <1>8 DEF Crash, Closed
    <2> QED
      BY <1>1, <2>1 DEF SerialInvariant, PhasesInUse, BusyIsLock, DraftIsOwn, UnitIsOwn,
        StoreInStep, DownIsIdle, JournalIsHistory
  <1>9. CASE Reload
    <2>1. /\ ~up /\ up' /\ auth' = snap.state
          /\ UNCHANGED <<zombies, saving, snap, journal>>
      BY <1>9 DEF Reload, LoadedState
    <2>2. (\A a \in Actors : pc[a] = "idle") /\ ~draft.open
      BY <2>1 DEF SerialInvariant, DownIsIdle
    <2>3. CASE snap.bgQ = <<>>
      <3>1. UNCHANGED <<draft, busy, pc>>
        BY <1>9, <2>3 DEF Reload
      <3> QED
        BY <1>1, <2>1, <2>2, <3>1
           DEF SerialInvariant, PhasesInUse, BusyIsLock, DraftIsOwn, UnitIsOwn,
               StoreInStep, DownIsIdle, JournalIsHistory
    <2>4. CASE snap.bgQ # <<>>
      <3> DEFINE t == JobTurn(Head(snap.bgQ))
      <3>1. busy' = TRUE /\ BeginFrom(pc, Pump, t, auth', draft)
        BY <1>9, <2>4 DEF Reload, StartJob, LoadedState
      <3>2. pc \in [Actors -> {"idle", "wait"}] /\ pc[Pump] # "wait" /\ pc[Ops] # "wait"
        BY <1>1, <2>2
      <3> HIDE DEF t
      <3> QED
        BY <1>1, <2>1, <2>2, <3>1, <3>2, SerialBegin
    <2> QED
      BY <2>3, <2>4
  <1> QED
    BY <1>2, <1>3, <1>4, <1>5, <1>6, <1>7, <1>8, <1>9

\* A started session satisfies the invariant.
LEMMA SerialInit == ASSUME SessionAssumption, Init PROVE SerialInvariant
PROOF
  <1>1. TypeOK
    BY InitType
  <1>2. \A a \in Actors : pc[a] = "idle"
    BY DEF Init
  <1>3. Pump \in Actors /\ Ops \in Actors
    BY DEF Actors
  <1>4. /\ up /\ auth = <<>> /\ ~draft.open /\ ~busy /\ zombies = {} /\ ~saving.on
        /\ snap.state = <<>> /\ journal = <<>>
    BY DEF Init, Closed, EmptySnapshot
  <1>5. JournalOf(<<>>) = <<>>
    BY DEF JournalOf
  <1> QED
    BY <1>1, <1>2, <1>3, <1>4, <1>5
       DEF SerialInvariant, PhasesInUse, BusyIsLock, DraftIsOwn, UnitIsOwn, StoreInStep,
           DownIsIdle, JournalIsHistory, Holds, InTurn, DraftPhases, TurnPhases

\* Every step of a session with an orderly host keeps the invariant.
LEMMA SerialNext ==
  ASSUME SessionAssumption, OrderlyHost, SerialInvariant, [Next]_vars
  PROVE  SerialInvariant'
PROOF
  <1>1. TypeOK'
    BY NextType DEF SerialInvariant
  <1>2. CASE \E c \in Clients, k \in Keys \cup {NoKey} :
               Submit(c, k) \/ ReplayAnswer(c, k)
    <2> SUFFICES ASSUME NEW c \in Clients, NEW k \in Keys \cup {NoKey},
                        Submit(c, k) \/ ReplayAnswer(c, k)
                 PROVE  SerialInvariant'
      BY <1>2
    <2> USE DEF storeVars, liveVars, callVars, DraftPhases, TurnPhases, Holds, InTurn,
                SerialInvariant, PhasesInUse, BusyIsLock, DraftIsOwn, UnitIsOwn,
                StoreInStep, DownIsIdle, JournalIsHistory
    <2>1. CASE Submit(c, k)
      <3>1. /\ c \in Actors /\ c # Pump /\ c # Ops /\ up /\ pc[c] = "idle"
            /\ pc \in [Actors -> Phases]
        BY <2>1 DEF Actors, SessionAssumption, Submit, TypeOK
      <3>2. pc' = [pc EXCEPT ![c] = "wait"]
            /\ turn' = [turn EXCEPT ![c] = PlayerTurn(k)]
            /\ UNCHANGED <<up, auth, draft, busy, s0rev, unit, zombies, saving, snap,
                           journal>>
        BY <2>1 DEF Submit, GoTo
      <3>3. PhasesInUse' /\ BusyIsLock' /\ DownIsIdle'
        BY <3>1, <3>2
      <3>4. DraftIsOwn' /\ UnitIsOwn'
        <4>1. \A a \in Actors : pc'[a] \in DraftPhases =>
                pc[a] \in DraftPhases /\ pc'[a] = pc[a] /\ turn'[a] = turn[a]
          BY <3>1, <3>2
        <4>2. \A a \in Actors : pc[a] \in DraftPhases => pc'[a] \in DraftPhases
          BY <3>1, <3>2
        <4> QED
          BY <3>2, <4>1, <4>2
      <3>5. StoreInStep' /\ JournalIsHistory'
        BY <3>1, <3>2
      <3> QED
        BY <1>1, <3>3, <3>4, <3>5
    <2>2. CASE ReplayAnswer(c, k)
      BY <1>1, <2>2 DEF ReplayAnswer
    <2> QED
      BY <2>1, <2>2
  <1>3. CASE \E c \in Clients : Caller(c)
    BY <1>1, <1>3, SerialCaller
  <1>4. CASE \E a \in Actors : Pipeline(a)
    BY <1>1, <1>4, SerialPipeline
  <1>5. CASE \/ SubmitSystemTurn \/ OpsReturns \/ PumpContinues \/ PumpStops
             \/ Zombie \/ ReadForSave \/ WriteSave \/ Crash \/ Reload
    BY <1>1, <1>5, SerialOtherSteps
  <1>6. CASE UNCHANGED vars
    BY <1>1, <1>6
       DEF vars, liveVars, callVars, storeVars, bookVars, SerialInvariant, PhasesInUse,
           BusyIsLock, DraftIsOwn, UnitIsOwn, StoreInStep, DownIsIdle, JournalIsHistory,
           Holds, InTurn
  <1> QED
    BY <1>2, <1>3, <1>4, <1>5, <1>6 DEF Next

\* The inductive invariant of a session whose host is orderly.
THEOREM SerialSession ==
  ASSUME OrderlyHost PROVE Spec => []SerialInvariant
PROOF
  <1>1. Init => SerialInvariant
    BY SessionAssumption, SerialInit
  <1>2. SerialInvariant /\ [Next]_vars => SerialInvariant'
    BY SessionAssumption, OrderlyHost, SerialNext
  <1> QED
    BY <1>1, <1>2, PTL DEF Spec

-----------------------------------------------------------------------------
(* What the invariant gives                                                *)

\* One turn at a time, whoever asks for it.
THEOREM TurnsExclude ==
  ASSUME OrderlyHost PROVE Spec => []OneTurnAtATime
PROOF
  <1>1. SerialInvariant => OneTurnAtATime
    BY DEF SerialInvariant, BusyIsLock, OneTurnAtATime, Holds
  <1> QED
    BY <1>1, SerialSession, PTL

\* The draft a turn works on is its own.
THEOREM DraftsAreOwn ==
  ASSUME OrderlyHost PROVE Spec => []DraftIsOwn
PROOF
  <1>1. SerialInvariant => DraftIsOwn
    BY DEF SerialInvariant
  <1> QED
    BY <1>1, SerialSession, PTL

\* Memory and store agree whenever no turn is being flushed.
THEOREM MemoryAndStoreAgree ==
  ASSUME OrderlyHost PROVE Spec => []MemoryFollowsStore
PROOF
  <1>1. SerialInvariant => MemoryFollowsStore
    BY DEF SerialInvariant, StoreInStep, MemoryFollowsStore
  <1> QED
    BY <1>1, SerialSession, PTL

\* The journal is the stored history, without a gap.
THEOREM JournalComplete ==
  ASSUME OrderlyHost PROVE Spec => []JournalIsHistory
PROOF
  <1>1. SerialInvariant => JournalIsHistory
    BY DEF SerialInvariant
  <1> QED
    BY <1>1, SerialSession, PTL

\* Of the pipeline's steps only the commit touches the store or publishes.
LEMMA PipelineSerial ==
  ASSUME OrderlyHost, SerialInvariant, NEW a \in Actors, Pipeline(a)
  PROVE  \/ UNCHANGED <<up, auth, snap>>
         \/ /\ \E t \in Turn : snap'.state = Append(snap.state, t)
            /\ up /\ auth = snap.state /\ UNCHANGED <<up, auth>>
         \/ up /\ auth # snap.state /\ auth' = snap.state /\ UNCHANGED <<up, snap>>
PROOF
  <1> USE DEF pipelineFrame, bookVars, storeVars, DraftPhases, TurnPhases, Holds, InTurn
  <1>1. turn[a] \in Turn /\ auth \in History
    BY DEF SerialInvariant, TypeOK
  <1>2. CASE CommitTurn(a)
    <2>1. pc[a] = "persist" /\ snap' = unit[a].snap /\ UNCHANGED <<up, auth>>
      BY <1>2 DEF CommitTurn
    <2>2. up /\ auth = snap.state /\ unit[a].snap.state = Append(auth, turn[a])
      BY <2>1 DEF SerialInvariant, BusyIsLock, UnitIsOwn, StoreInStep, DownIsIdle
    <2> QED
      BY <1>1, <2>1, <2>2
  <1>3. CASE KernelCommit(a)
    <2>1. /\ pc[a] = "flushed" /\ auth' = draft.state /\ UNCHANGED <<up, snap>>
      BY <1>3 DEF KernelCommit
    <2>2. draft.state = Append(auth, turn[a]) /\ snap.state = Append(auth, turn[a]) /\ up
      BY <2>1 DEF SerialInvariant, DraftIsOwn, StoreInStep, DownIsIdle, Open
    <2> QED
      BY <1>1, <2>1, <2>2, AppendTurn
  <1>4. CASE SaveSnapshot(a)
    BY <1>4 DEF SaveSnapshot, OrderlyHost
  <1>5. CASE \/ Validate(a) \/ ValidateWithoutDraft(a) \/ StageFails(a) \/ StageTimeout(a)
             \/ BuildUnit(a) \/ AppendJournal(a) \/ PersistFails(a)
             \/ KernelCommitFails(a) \/ Finish(a) \/ EndThrows(a)
    BY <1>5 DEF Validate, ValidateWithoutDraft, StageFails, StageTimeout, BuildUnit,
      AppendJournal, PersistFails, KernelCommitFails, Finish, EndThrows, liveVars
  <1> QED
    BY <1>2, <1>3, <1>4, <1>5 DEF Pipeline

\* Every step of the session is a step of the abstract history, or stutters.
LEMMA SerialStep ==
  ASSUME OrderlyHost, SerialInvariant, [Next]_vars
  PROVE  [Serial!Next]_(Serial!vars)
PROOF
  <1>1. CASE \E a \in Actors : Pipeline(a)
    BY <1>1, PipelineSerial DEF Serial!Next, Serial!Flush, Serial!Publish, Serial!vars
  <1>2. CASE Crash
    BY <1>2 DEF Crash, storeVars, Serial!Next, Serial!Publish, Serial!vars
  <1>3. CASE Reload
    BY <1>3 DEF Reload, storeVars, LoadedState, Serial!vars
  <1>4. CASE Zombie \/ WriteSave
    BY <1>4 DEF Zombie, WriteSave, SerialInvariant, PhasesInUse
  <1>5. CASE \/ \E c \in Clients, k \in Keys \cup {NoKey} : Submit(c, k) \/ ReplayAnswer(c, k)
             \/ \E c \in Clients : Caller(c)
             \/ SubmitSystemTurn \/ OpsReturns \/ PumpContinues \/ PumpStops \/ ReadForSave
             \/ UNCHANGED vars
    <2>1. UNCHANGED <<up, auth, snap>>
      BY <1>5 DEF Submit, ReplayAnswer, Caller, FindIdle, Claim, WaitTimeout,
        PlayerReturns, DrainNext, DrainOverflow, InlineReturns, LeaveToPump, Leave,
        SubmitSystemTurn, OpsReturns, PumpContinues, PumpStops, ReadForSave,
        vars, liveVars, callVars, storeVars, bookVars
    <2> QED
      BY <2>1 DEF Serial!vars
  <1> QED
    BY <1>1, <1>2, <1>3, <1>4, <1>5 DEF Next

\* A session with an orderly host implements the abstract serial history:
\* turns are stored whole, one by one, on top of what is published.
THEOREM ImplementsSerial ==
  ASSUME OrderlyHost PROVE Spec => ImplementsSerialHistory
PROOF
  <1>1. Init => Serial!Init
    BY DEF Init, EmptySnapshot, Serial!Init
  <1>2. SerialInvariant /\ [Next]_vars => [Serial!Next]_(Serial!vars)
    BY SerialStep, OrderlyHost
  <1> QED
    BY <1>1, <1>2, SerialSession, PTL DEF Spec, ImplementsSerialHistory, Serial!Spec

\* What was stored once stays stored.
THEOREM StoreKeepsTurns ==
  ASSUME OrderlyHost PROVE Spec => StoreNeverLosesTurns
PROOF
  <1>1. SerialInvariant /\ [Next]_vars => Continues(snap'.state, snap.state)
    <2> SUFFICES ASSUME SerialInvariant, [Next]_vars
                 PROVE  Continues(snap'.state, snap.state)
      OBVIOUS
    <2>1. snap.state \in History
      BY DEF SerialInvariant, TypeOK, Snapshot
    <2>2. \/ snap'.state = snap.state
          \/ \E t \in Turn : snap'.state = Append(snap.state, t)
      BY SerialStep, OrderlyHost
         DEF Serial!Next, Serial!Flush, Serial!Publish, Serial!vars
    <2>3. Continues(snap.state, snap.state)
      BY <2>1, LenProperties DEF History, Continues
    <2> QED
      BY <2>1, <2>2, <2>3, AppendTurn
  <1> QED
    BY <1>1, SerialSession, PTL DEF Spec, StoreNeverLosesTurns
=============================================================================
