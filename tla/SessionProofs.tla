---------------------------- MODULE SessionProofs ----------------------------
(***************************************************************************)
(* Proofs about SessionRuntime, for every set of clients, keys and jobs    *)
(* and every value of the limits, that hold for every host: with callers   *)
(* of one tick, stages that outlive their turn, stale saves and crashes.   *)
(* First the types, then the map of answers, then the live kernel.         *)
(***************************************************************************)
EXTENDS SessionProperties, FiniteSetTheorems, SequenceTheorems,
        FunctionTheorems, TLAPS

-----------------------------------------------------------------------------
(* The operators the model is built from                                   *)

\* The image of a finite set under a function is finite.
LEMMA FiniteRange ==
  ASSUME NEW S, IsFiniteSet(S), NEW T, NEW f \in [S -> T]
  PROVE  IsFiniteSet(Range(f))
PROOF
  <1>1. f \in Surjection(S, Range(f))
    BY Fun_RangeProperties
  <1> QED
    BY <1>1, FS_Surjection

\* Moving the answers of a map to new places keeps it a finite map of answers.
LEMMA RenumberType ==
  ASSUME NEW S \in Answers
  PROVE  Renumber(S) \in Answers
PROOF
  <1> DEFINE place(e) == Cardinality({f \in S : f.at <= e.at})
             move     == [e \in S |-> [e EXCEPT !.at = place(e)]]
  <1>1. \A e \in S : place(e) \in Nat
    BY FS_Subset, FS_CardinalityType DEF Answers
  <1>2. Renumber(S) = Range(move)
    BY DEF Renumber, Range
  <1>3. \A e \in S : [e EXCEPT !.at = place(e)] \in Answer
    <2> SUFFICES ASSUME NEW e \in S
                 PROVE  [e EXCEPT !.at = place(e)] \in Answer
      OBVIOUS
    <2>1. e \in Answer /\ place(e) \in Nat
      BY <1>1 DEF Answers
    <2> HIDE DEF place
    <2> QED BY <2>1 DEF Answer
  <1>4. move \in [S -> Answer]
    BY <1>3
  <1>5. IsFiniteSet(Range(move)) /\ Range(move) \subseteq Answer
    <2>1. IsFiniteSet(Range(move))
      BY <1>4, FiniteRange DEF Answers
    <2>2. Range(move) \subseteq Answer
      BY <1>4, Fun_RangeProperties
    <2> QED BY <2>1, <2>2
  <1> HIDE DEF move
  <1> QED
    BY <1>2, <1>5 DEF Answers

\* Remembering a result keeps the map of answers finite and typed.
LEMMA RememberType ==
  ASSUME idem \in Answers, NEW k \in Keys \cup {NoKey}, NEW ok \in BOOLEAN
  PROVE  Remember(k, ok) \in Answers
PROOF
  <1> DEFINE answer(e) == IF e.key = k THEN [e EXCEPT !.ok = ok] ELSE e
             set  == [e \in idem |-> answer(e)]
             kept == IF MapHasRoom THEN idem ELSE {e \in idem : e.at # 1}
             new  == [key |-> k, ok |-> ok, at |-> Cardinality(idem) + 1]
  <1>1. CASE k = NoKey
    BY <1>1 DEF Remember
  <1>2. CASE k # NoKey /\ Remembered(k)
    <2>1. Remember(k, ok) = Range(set)
      BY <1>2 DEF Remember, Range
    <2>2. \A e \in idem : answer(e) \in Answer
      BY DEF Answers, Answer
    <2>3. set \in [idem -> Answer]
      BY <2>2
    <2>4. IsFiniteSet(Range(set))
      BY <2>3, FiniteRange DEF Answers
    <2> QED
      BY <2>1, <2>2, <2>4 DEF Range, Answers
  <1>3. CASE k # NoKey /\ ~Remembered(k)
    <2>1. kept \subseteq Answer /\ IsFiniteSet(kept)
      BY FS_Subset DEF Answers
    <2>2. new \in Answer
      BY <1>3, FS_CardinalityType DEF Answers, Answer
    <2>3. {new} \cup kept \in Answers
      BY <2>1, <2>2, FS_AddElement, kept \cup {new} = {new} \cup kept DEF Answers
    <2>4. Remember(k, ok) = Renumber({new} \cup kept)
      BY <1>3 DEF Remember
    <2> QED
      BY <2>3, <2>4, RenumberType
  <1> QED
    BY <1>1, <1>2, <1>3

\* What a turn schedules is a sequence of jobs.
LEMMA OrdersType ==
  ASSUME SessionAssumption, NEW S \in SUBSET Jobs, NEW s \in Orders(S)
  PROVE  s \in Seq(Jobs)
PROOF
  <1>1. Cardinality(S) \in Nat
    BY FS_Subset, FS_CardinalityType DEF SessionAssumption
  <1>2. PICK n \in 0..Cardinality(S) : s \in [1..n -> S]
    BY DEF Orders, Injection
  <1>3. n \in Nat /\ s \in [1..n -> Jobs]
    BY <1>1, <1>2
  <1> QED
    BY <1>3, SeqDef

-----------------------------------------------------------------------------
(* Type correctness                                                        *)

\* Beginning a turn leaves its variables typed.
LEMMA BeginFromType ==
  ASSUME TypeOK, NEW p \in [Actors -> Phases], NEW a \in Actors, NEW t \in Turn,
         NEW state \in History, NEW dr, BeginFrom(p, a, t, state, dr)
  PROVE  /\ turn' \in [Actors -> Turn]
         /\ s0rev' \in [Actors -> Nat]
         /\ draft' \in [open : BOOLEAN, state : History]
         /\ pc' \in [Actors -> Phases]
PROOF
  BY DEF BeginFrom, TypeOK, Closed, Open, History, Phases, TurnPhases, DraftPhases

\* The empty commit unit has the type of one.
LEMMA NoUnitType == NoUnit \in Unit
PROOF
  <1>1. HostTurn \in Turn
    BY DEF HostTurn, Turn
  <1>2. EmptySnapshot \in Snapshot
    BY FS_EmptySet DEF EmptySnapshot, Snapshot, Answers, History
  <1> QED
    BY <1>1, <1>2 DEF NoUnit, Unit, Entry

\* What Init and a crash give the variables is typed.
LEMMA InitialValuesType ==
  /\ <<>> \in History /\ <<>> \in Seq(Jobs) /\ <<>> \in Seq(Entry)
  /\ Closed \in [open : BOOLEAN, state : History]
  /\ [on |-> FALSE, state |-> <<>>] \in [on : BOOLEAN, state : History]
  /\ {} \in Answers
  /\ [a \in Actors |-> "idle"] \in [Actors -> Phases]
  /\ [a \in Actors |-> HostTurn] \in [Actors -> Turn]
  /\ [a \in Actors |-> 0] \in [Actors -> Nat]
  /\ [a \in Actors |-> NoUnit] \in [Actors -> Unit]
  /\ [a \in Actors |-> <<>>] \in [Actors -> Seq(Jobs)]
  /\ EmptySnapshot \in Snapshot
PROOF
  <1>1. <<>> \in History /\ <<>> \in Seq(Jobs) /\ <<>> \in Seq(Entry)
    BY DEF History
  <1>2. {} \in Answers
    BY FS_EmptySet DEF Answers
  <1>3. HostTurn \in Turn
    BY DEF HostTurn, Turn
  <1>4. EmptySnapshot \in Snapshot
    BY <1>1, <1>2 DEF EmptySnapshot, Snapshot
  <1> QED
    BY <1>1, <1>2, <1>3, <1>4, NoUnitType DEF Closed, Phases

\* The steps that one turn takes through the pipeline keep the types.
LEMMA PipelineType ==
  ASSUME SessionAssumption, TypeOK, NEW a \in Actors, Pipeline(a)
  PROVE  TypeOK'
PROOF
  <1> USE DEF pipelineFrame, bookVars, storeVars, GoTo, Phases, TurnPhases,
              DraftPhases, Closed, Open, History
  <1>1. CASE Validate(a)
    BY <1>1 DEF TypeOK, Validate, WithCommandsOf
  <1>2. CASE ValidateWithoutDraft(a)
    BY <1>2 DEF TypeOK, ValidateWithoutDraft
  <1>3. CASE StageFails(a)
    BY <1>3 DEF TypeOK, StageFails, DraftDiscarded
  <1>4. CASE StageTimeout(a)
    <2>1. [at |-> pc[a], turn |-> turn[a], unit |-> unit[a]]
            \in [at : DraftPhases, turn : Turn, unit : Unit]
      BY <1>4 DEF TypeOK, StageTimeout
    <2> QED
      BY <1>4, <2>1, NoUnitType DEF TypeOK, StageTimeout
  <1>5. CASE BuildUnit(a)
    <2>1. DraftView \in History /\ Len(DraftView) \in Nat /\ s0rev[a] \in Nat
      BY DEF TypeOK, DraftView
    <2>2. [state |-> DraftView, idem |-> idem, inlineQ |-> inlineQ, bgQ |-> bgQ]
            \in Snapshot
      BY <2>1 DEF TypeOK, Snapshot
    <2>3. [turn |-> turn[a], prev |-> PrevRevision(a), next |-> Len(DraftView)]
            \in Entry
      BY <2>1 DEF TypeOK, Entry, PrevRevision
    <2>4. unit' \in [Actors -> Unit]
      BY <1>5, <2>2, <2>3 DEF TypeOK, BuildUnit, Unit
    <2> QED
      BY <1>5, <2>4 DEF TypeOK, BuildUnit
  <1>6. CASE CommitTurn(a)
    <2>1. unit[a].snap \in Snapshot /\ unit[a].entry \in Entry
      BY DEF TypeOK, Unit
    <2> QED
      BY <1>6, <2>1, NoUnitType DEF TypeOK, CommitTurn
  <1>7. CASE SaveSnapshot(a)
    BY <1>7 DEF TypeOK, SaveSnapshot, Unit
  <1>8. CASE AppendJournal(a)
    <2>1. unit[a].entry \in Entry
      BY DEF TypeOK, Unit
    <2> QED
      BY <1>8, <2>1, NoUnitType DEF TypeOK, AppendJournal
  <1>9. CASE PersistFails(a)
    BY <1>9, NoUnitType DEF TypeOK, PersistFails
  <1>10. CASE KernelCommit(a)
    BY <1>10 DEF TypeOK, KernelCommit
  <1>11. CASE KernelCommitFails(a)
    BY <1>11 DEF TypeOK, KernelCommitFails
  <1>12. CASE Finish(a)
    <2>1. PICK asInline \in Orders(Schedulable(a)), asBg \in Orders(Schedulable(a)) :
            /\ inlineQ' = inlineQ \o asInline
            /\ bgQ' = bgQ \o asBg
            /\ fresh' = fresh \ (Range(asInline) \cup Range(asBg))
      BY <1>12 DEF Finish
    <2>2. asInline \in Seq(Jobs) /\ asBg \in Seq(Jobs)
      BY OrdersType, Schedulable(a) \subseteq Jobs DEF TypeOK, Schedulable
    <2>3. inlineQ' \in Seq(Jobs) /\ bgQ' \in Seq(Jobs) /\ fresh' \subseteq Jobs
      BY <2>1, <2>2 DEF TypeOK
    <2>4. pc' \in [Actors -> Phases] /\ draft' \in [open : BOOLEAN, state : History]
      <3>1. /\ pc' = [pc EXCEPT ![a] = IF pc[a] = "after" THEN "committed" ELSE "rejected"]
            /\ draft' = IF pc[a] = "rejecting" THEN Closed ELSE draft
        BY <1>12 DEF Finish
      <3>2. pc \in [Actors -> Phases] /\ draft \in [open : BOOLEAN, state : History]
        BY DEF TypeOK
      <3> QED BY <3>1, <3>2
    <2>5. UNCHANGED <<up, auth, busy, pumping, idem, turn, s0rev, unit, batch, ran,
                      zombies, saving, storeVars, submits, crashes, saves, lost>>
      BY <1>12 DEF Finish
    <2> QED
      BY <2>3, <2>4, <2>5 DEF TypeOK
  <1>13. CASE EndThrows(a)
    BY <1>13 DEF TypeOK, EndThrows, liveVars
  <1> QED
    BY <1>1, <1>2, <1>3, <1>4, <1>5, <1>6, <1>7, <1>8, <1>9, <1>10, <1>11, <1>12,
       <1>13 DEF Pipeline

\* A background job can be begun by the pump.
LEMMA StartJobType ==
  ASSUME TypeOK, NEW p \in [Actors -> Phases], NEW q \in Seq(Jobs), q # <<>>,
         NEW state \in History, NEW dr, NEW n \in Nat, StartJob(p, q, state, dr, n)
  PROVE  /\ bgQ' \in Seq(Jobs) /\ busy' \in BOOLEAN /\ pumping' \in BOOLEAN
         /\ ran' \in [Actors -> Nat]
         /\ turn' \in [Actors -> Turn]
         /\ s0rev' \in [Actors -> Nat]
         /\ draft' \in [open : BOOLEAN, state : History]
         /\ pc' \in [Actors -> Phases]
PROOF
  <1>1. Pump \in Actors
    BY DEF Actors
  <1>2. JobTurn(Head(q)) \in Turn
    BY DEF JobTurn, Turn
  <1>3. BeginFrom(p, Pump, JobTurn(Head(q)), state, dr)
    BY DEF StartJob
  <1>4. /\ bgQ' \in Seq(Jobs) /\ busy' \in BOOLEAN /\ pumping' \in BOOLEAN
        /\ ran' \in [Actors -> Nat]
    BY <1>1 DEF StartJob, QueueAfterTaking, TypeOK
  <1> QED
    BY <1>1, <1>2, <1>3, <1>4, BeginFromType

\* The steps of the callers, of the host and of the pump keep the types.
LEMMA CallerType ==
  ASSUME SessionAssumption, TypeOK, NEW c \in Clients, Caller(c)
  PROVE  TypeOK'
PROOF
  <1> USE DEF bookVars, storeVars, liveVars, GoTo, Phases, TurnPhases, DraftPhases
  <1>1. c \in Actors /\ HostTurn \in Turn
    BY DEF Actors, HostTurn, Turn
  <1>2. CASE FindIdle(c)
    BY <1>2 DEF TypeOK, FindIdle
  <1>3. CASE Claim(c)
    <2>1. BeginFrom(pc, c, turn[c], auth, draft)
      BY <1>3 DEF Claim, Begin
    <2>2. /\ turn' \in [Actors -> Turn] /\ s0rev' \in [Actors -> Nat]
          /\ draft' \in [open : BOOLEAN, state : History]
          /\ pc' \in [Actors -> Phases]
      BY <1>1, <2>1, BeginFromType DEF TypeOK
    <2> QED
      BY <1>3, <2>2 DEF TypeOK, Claim
  <1>4. CASE WaitTimeout(c)
    BY <1>1, <1>4 DEF TypeOK, WaitTimeout
  <1>5. CASE PlayerReturns(c)
    <2>1. turn[c].key \in Keys \cup {NoKey}
      BY <1>1 DEF TypeOK, Turn
    <2>2. idem' \in Answers
      BY <1>5, <2>1, RememberType DEF PlayerReturns, AnswersAfter, TypeOK
    <2> QED
      BY <1>1, <1>5, <2>2 DEF TypeOK, PlayerReturns
  <1>6. CASE DrainNext(c)
    <2>1. batch[c] \in Seq(Jobs) /\ batch[c] # <<>>
      BY <1>1, <1>6 DEF TypeOK, DrainNext
    <2>2. JobTurn(Head(batch[c])) \in Turn
      BY <2>1 DEF JobTurn, Turn
    <2>3. BeginFrom(pc, c, JobTurn(Head(batch[c])), auth, draft)
      BY <1>6 DEF DrainNext, Begin
    <2>4. /\ turn' \in [Actors -> Turn] /\ s0rev' \in [Actors -> Nat]
          /\ draft' \in [open : BOOLEAN, state : History]
          /\ pc' \in [Actors -> Phases]
      BY <1>1, <2>2, <2>3, BeginFromType DEF TypeOK
    <2>5. batch' \in [Actors -> Seq(Jobs)] /\ ran' \in [Actors -> Nat]
      BY <1>1, <1>6, <2>1 DEF TypeOK, DrainNext
    <2> QED
      BY <1>6, <2>4, <2>5 DEF TypeOK, DrainNext
  <1>7. CASE DrainOverflow(c)
    BY <1>1, <1>7 DEF TypeOK, DrainOverflow, PutBack
  <1>8. CASE InlineReturns(c)
    BY <1>1, <1>8 DEF TypeOK, InlineReturns
  <1>9. CASE LeaveToPump(c)
    <2> DEFINE p == [pc EXCEPT ![c] = "idle"]
    <2>1. StartJob(p, bgQ, auth, draft, 1) /\ bgQ # <<>>
      BY <1>9 DEF LeaveToPump
    <2>2. p \in [Actors -> Phases] /\ bgQ \in Seq(Jobs) /\ auth \in History
      BY DEF TypeOK
    <2> HIDE DEF p
    <2>3. /\ bgQ' \in Seq(Jobs) /\ busy' \in BOOLEAN /\ pumping' \in BOOLEAN
          /\ ran' \in [Actors -> Nat]
          /\ turn' \in [Actors -> Turn]
          /\ s0rev' \in [Actors -> Nat]
          /\ draft' \in [open : BOOLEAN, state : History]
          /\ pc' \in [Actors -> Phases]
      BY <2>1, <2>2, StartJobType
    <2> QED
      BY <1>9, <2>3 DEF TypeOK, LeaveToPump
  <1>10. CASE Leave(c)
    BY <1>1, <1>10 DEF TypeOK, Leave
  <1> QED
    BY <1>2, <1>3, <1>4, <1>5, <1>6, <1>7, <1>8, <1>9, <1>10 DEF Caller

\* The remaining steps: the host's and the pump's, the stages that outlive
\* their turn, saves, crashes and restarts.
LEMMA OtherStepsType ==
  ASSUME SessionAssumption, TypeOK,
         \/ SubmitSystemTurn \/ OpsReturns \/ PumpContinues \/ PumpStops
         \/ Zombie \/ ReadForSave \/ WriteSave \/ Crash \/ Reload
  PROVE  TypeOK'
PROOF
  <1> USE DEF bookVars, storeVars, liveVars, callVars, GoTo, Phases, TurnPhases,
              DraftPhases
  <1>1. Ops \in Actors /\ Pump \in Actors /\ HostTurn \in Turn
    BY DEF Actors, HostTurn, Turn
  <1>2. CASE SubmitSystemTurn
    <2>1. BeginFrom(pc, Ops, HostTurn, auth, draft)
      BY <1>2 DEF SubmitSystemTurn, Begin
    <2>2. /\ turn' \in [Actors -> Turn] /\ s0rev' \in [Actors -> Nat]
          /\ draft' \in [open : BOOLEAN, state : History]
          /\ pc' \in [Actors -> Phases]
      BY <1>1, <2>1, BeginFromType DEF TypeOK
    <2> QED
      BY <1>2, <2>2 DEF TypeOK, SubmitSystemTurn
  <1>3. CASE OpsReturns
    BY <1>1, <1>3 DEF TypeOK, OpsReturns
  <1>4. CASE PumpContinues
    <2>1. /\ StartJob(pc, bgQ, auth, draft, ran[Pump] + 1) /\ bgQ # <<>>
          /\ ran[Pump] + 1 \in Nat
      BY <1>1, <1>4 DEF PumpContinues, TypeOK
    <2>2. /\ bgQ' \in Seq(Jobs) /\ busy' \in BOOLEAN /\ pumping' \in BOOLEAN
          /\ ran' \in [Actors -> Nat]
          /\ turn' \in [Actors -> Turn]
          /\ s0rev' \in [Actors -> Nat]
          /\ draft' \in [open : BOOLEAN, state : History]
          /\ pc' \in [Actors -> Phases]
      BY <2>1, StartJobType DEF TypeOK
    <2> QED
      BY <1>4, <2>2 DEF TypeOK, PumpContinues
  <1>5. CASE PumpStops
    BY <1>1, <1>5 DEF TypeOK, PumpStops
  <1>6. CASE Zombie
    <2> SUFFICES ASSUME NEW z \in zombies,
                        ZombieValidates(z) \/ ZombieWrites(z) \/ ZombieCommits(z)
                 PROVE  TypeOK'
      BY <1>6 DEF Zombie
    <2>1. /\ z.at \in DraftPhases
          /\ z.turn \in Turn /\ z.unit \in Unit
          /\ z.unit.snap \in Snapshot /\ z.unit.entry \in Entry
      BY DEF TypeOK, Unit
    <2>2. CASE ZombieValidates(z)
      <3>1. draft' \in [open : BOOLEAN, state : History]
        BY <2>1, <2>2 DEF TypeOK, ZombieValidates, WithCommandsOf, Open, History
      <3>2. zombies' \subseteq [at : DraftPhases, turn : Turn, unit : Unit]
        BY <2>2 DEF TypeOK, ZombieValidates
      <3> QED
        BY <2>2, <3>1, <3>2 DEF TypeOK, ZombieValidates, zombieFrame, callVars,
                                storeVars, bookVars
    <2>3. CASE ZombieWrites(z)
      <3> DEFINE Z == [at : DraftPhases, turn : Turn, unit : Unit]
      <3>1. z \in Z /\ zombies \subseteq Z
        BY DEF TypeOK
      <3>2. [z EXCEPT !.at = "flushed"] \in Z /\ [z EXCEPT !.at = "append"] \in Z
        BY <3>1
      <3>3. zombies' \subseteq Z
        BY <2>3, <3>1, <3>2 DEF ZombieWrites
      <3>4. snap' \in Snapshot /\ journal' \in Seq(Entry)
        BY <2>1, <2>3 DEF TypeOK, ZombieWrites
      <3> QED
        BY <2>3, <3>3, <3>4 DEF TypeOK, ZombieWrites, zombieFrame
    <2>4. CASE ZombieCommits(z)
      BY <2>4 DEF TypeOK, ZombieCommits, zombieFrame, Published, DraftView, Closed,
                  History
    <2> QED
      BY <2>2, <2>3, <2>4
  <1>7. CASE ReadForSave
    BY <1>7 DEF TypeOK, ReadForSave
  <1>8. CASE WriteSave
    <2>1. [state |-> saving.state, idem |-> idem, inlineQ |-> inlineQ, bgQ |-> bgQ]
            \in Snapshot
      BY DEF TypeOK, Snapshot
    <2>2. [on |-> FALSE, state |-> <<>>] \in [on : BOOLEAN, state : History]
      BY DEF History
    <2> QED
      BY <1>8, <2>1, <2>2 DEF TypeOK, WriteSave
  <1>9. CASE Crash
    <2>1. /\ up' = FALSE /\ auth' = <<>> /\ draft' = Closed
          /\ busy' = FALSE /\ pumping' = FALSE
          /\ inlineQ' = <<>> /\ bgQ' = <<>> /\ idem' = {}
          /\ zombies' = {} /\ saving' = [on |-> FALSE, state |-> <<>>]
      BY <1>9 DEF Crash
    <2>2. /\ pc' = [a \in Actors |-> "idle"] /\ turn' = [a \in Actors |-> HostTurn]
          /\ s0rev' = [a \in Actors |-> 0] /\ unit' = [a \in Actors |-> NoUnit]
          /\ batch' = [a \in Actors |-> <<>>] /\ ran' = [a \in Actors |-> 0]
      BY <1>9 DEF Crash
    <2>3. /\ snap' \in Snapshot /\ journal' \in Seq(Entry) /\ fresh' \subseteq Jobs
          /\ submits' \in Nat /\ crashes' \in Nat /\ saves' \in Nat
          /\ lost' \in Nat
      BY <1>9 DEF TypeOK, Crash
    <2> QED
      BY <2>1, <2>2, <2>3, InitialValuesType DEF TypeOK
  <1>10. CASE Reload
    <2>1. /\ snap.state \in History /\ snap.idem \in Answers
          /\ snap.inlineQ \in Seq(Jobs) /\ snap.bgQ \in Seq(Jobs)
      BY DEF TypeOK, Snapshot
    <2>2. {e \in snap.idem : e.ok} \in Answers
      BY <2>1, FS_Subset DEF Answers
    <2>3. idem' \in Answers
      BY <1>10, <2>2, RenumberType DEF Reload
    <2>4. CASE snap.bgQ = <<>>
      BY <1>10, <2>1, <2>3, <2>4 DEF TypeOK, Reload, LoadedState
    <2>5. CASE snap.bgQ # <<>>
      <3>1. StartJob(pc, snap.bgQ, LoadedState, draft, 1)
        BY <1>10, <2>5 DEF Reload
      <3>2. /\ bgQ' \in Seq(Jobs) /\ busy' \in BOOLEAN /\ pumping' \in BOOLEAN
            /\ ran' \in [Actors -> Nat]
            /\ turn' \in [Actors -> Turn]
            /\ s0rev' \in [Actors -> Nat]
            /\ draft' \in [open : BOOLEAN, state : History]
            /\ pc' \in [Actors -> Phases]
        BY <2>1, <2>5, <3>1, StartJobType DEF TypeOK, LoadedState
      <3> QED
        BY <1>10, <2>1, <2>3, <3>2 DEF TypeOK, Reload, LoadedState
    <2> QED
      BY <2>4, <2>5
  <1> QED
    BY <1>2, <1>3, <1>4, <1>5, <1>6, <1>7, <1>8, <1>9, <1>10

\* A started session (startSession) is typed.
LEMMA InitType == ASSUME Init PROVE TypeOK
PROOF
  BY InitialValuesType DEF Init, TypeOK

\* Every step of the session keeps the types.
LEMMA NextType == ASSUME SessionAssumption, TypeOK, [Next]_vars PROVE TypeOK'
PROOF
  <1>1. CASE \E c \in Clients, k \in Keys \cup {NoKey} :
               Submit(c, k) \/ ReplayAnswer(c, k)
    <2> SUFFICES ASSUME NEW c \in Clients, NEW k \in Keys \cup {NoKey},
                        Submit(c, k) \/ ReplayAnswer(c, k)
                 PROVE  TypeOK'
      BY <1>1
    <2>1. PlayerTurn(k) \in Turn
      BY DEF PlayerTurn, Turn
    <2>2. CASE Submit(c, k)
      <3>1. /\ turn' \in [Actors -> Turn] /\ pc' \in [Actors -> Phases]
            /\ submits' \in Nat
        <4>1. turn' = [turn EXCEPT ![c] = PlayerTurn(k)] /\ turn \in [Actors -> Turn]
          BY <2>2 DEF TypeOK, Submit
        <4>2. pc' = [pc EXCEPT ![c] = "wait"] /\ pc \in [Actors -> Phases]
          BY <2>2 DEF TypeOK, Submit, GoTo
        <4>3. submits' \in Nat
          BY <2>2 DEF TypeOK, Submit
        <4> QED
          BY <2>1, <4>1, <4>2, <4>3 DEF Phases
      <3> QED
        BY <2>2, <3>1 DEF TypeOK, Submit, liveVars, storeVars
    <2>3. CASE ReplayAnswer(c, k)
      BY <2>3 DEF TypeOK, ReplayAnswer, liveVars, callVars, storeVars
    <2> QED
      BY <2>2, <2>3
  <1>2. CASE \E c \in Clients : Caller(c)
    BY <1>2, CallerType
  <1>3. CASE \E a \in Actors : Pipeline(a)
    BY <1>3, PipelineType
  <1>4. CASE \/ SubmitSystemTurn \/ OpsReturns \/ PumpContinues \/ PumpStops
             \/ Zombie \/ ReadForSave \/ WriteSave \/ Crash \/ Reload
    BY <1>4, OtherStepsType
  <1>5. CASE UNCHANGED vars
    BY <1>5 DEF TypeOK, vars, liveVars, callVars, storeVars, bookVars
  <1> QED
    BY <1>1, <1>2, <1>3, <1>4, <1>5 DEF Next

\* The variables keep their types in every reachable state, whatever the
\* environment does: faults, crashes, shared ticks, overlapping retries, saves.
THEOREM TypeCorrect == Spec => []TypeOK
PROOF
  <1>1. Init => TypeOK
    BY SessionAssumption, InitType
  <1>2. TypeOK /\ [Next]_vars => TypeOK'
    BY SessionAssumption, NextType
  <1> QED
    BY <1>1, <1>2, PTL DEF Spec

-----------------------------------------------------------------------------
(* The map of answers stays within config.turn.idempotencyLimit, one       *)
(* answer per key.                                                         *)

\* Renumbering a map of answers counts its places from 1 without a gap and
\* loses no answer.
LEMMA RenumberOrders ==
  ASSUME NEW S \in Answers, OneAnswerPerKey(S)
  PROVE  /\ OneAnswerPerKey(Renumber(S))
         /\ Cardinality(Renumber(S)) = Cardinality(S)
         /\ {e.at : e \in Renumber(S)} = 1..Cardinality(S)
PROOF
  <1> DEFINE below(e) == {f \in S : f.at <= e.at}
             place == [e \in S |-> Cardinality(below(e))]
             move  == [e \in S |-> [e EXCEPT !.at = place[e]]]
             n == Cardinality(S)
  <1>1. /\ IsFiniteSet(S) /\ n \in Nat
        /\ \A e \in S : e \in Answer /\ e.at \in Nat
    BY FS_CardinalityType DEF Answers, Answer
  <1>2. \A e \in S : place[e] \in 1..n
    <2> SUFFICES ASSUME NEW e \in S PROVE Cardinality(below(e)) \in 1..n
      OBVIOUS
    <2>1. below(e) \in SUBSET S /\ e \in below(e)
      BY <1>1
    <2>2. IsFiniteSet(below(e)) /\ Cardinality(below(e)) <= n
      BY <1>1, <2>1, FS_Subset
    <2>3. Cardinality(below(e)) \in Nat /\ Cardinality(below(e)) # 0
      BY <2>1, <2>2, FS_CardinalityType, FS_EmptySet
    <2> QED
      BY <1>1, <2>2, <2>3
  <1>3. \A e, g \in S : place[e] = place[g] => e = g
    <2>1. ASSUME NEW e \in S, NEW g \in S, e.at < g.at
          PROVE  Cardinality(below(e)) # Cardinality(below(g))
      <3>1. below(e) \in SUBSET below(g) /\ g \in below(g) /\ g \notin below(e)
        BY <1>1, <2>1
      <3>2. IsFiniteSet(below(g))
        BY <1>1, FS_Subset, below(g) \in SUBSET S
      <3> HIDE DEF below
      <3> QED
        BY <3>1, <3>2, FS_Subset
    <2>2. TAKE e, g \in S
    <2>3. HAVE place[e] = place[g]
    <2>4. Cardinality(below(e)) = Cardinality(below(g))
      BY <2>3
    <2>5. ~(e.at < g.at) /\ ~(g.at < e.at)
      BY <2>1, <2>4
    <2>6. e.at = g.at
      BY <1>1, <2>5
    <2> QED
      BY <2>6 DEF OneAnswerPerKey
  <1>4. place \in Injection(S, 1..n)
    BY <1>2, <1>3 DEF Injection, IsInjective
  <1>5. place \in Surjection(S, 1..n)
    <2>1. IsFiniteSet(1..n) /\ Cardinality(1..n) = n
      BY <1>1, FS_Interval
    <2> QED
      BY <1>4, <2>1, FS_Injection
  <1>6. Renumber(S) = Range(move)
    BY DEF Renumber, Range
  <1>7. \A e \in S : move[e].key = e.key /\ move[e].at = place[e]
    BY <1>1 DEF Answer
  <1> HIDE DEF move, place
  <1>8. OneAnswerPerKey(Renumber(S))
    <2> SUFFICES ASSUME NEW e \in S, NEW g \in S,
                        move[e].key = move[g].key \/ move[e].at = move[g].at
                 PROVE  move[e] = move[g]
      BY <1>6 DEF OneAnswerPerKey, Range, move
    <2> QED
      BY <1>3, <1>7 DEF OneAnswerPerKey
  <1>9. {e.at : e \in Renumber(S)} = 1..n
    <2>1. Renumber(S) = {move[e] : e \in S}
      BY <1>6 DEF Range, move
    <2>2. {e.at : e \in Renumber(S)} = {place[e] : e \in S}
      BY <1>7, <2>1
    <2>3. \A i \in 1..n : \E e \in S : place[e] = i
      BY <1>5 DEF Surjection
    <2> QED
      BY <1>2, <2>2, <2>3
  <1>10. Cardinality(Renumber(S)) = n
    <2>1. move \in Surjection(S, Range(move))
      BY DEF Surjection, Range, move
    <2>2. \A e, g \in S : move[e] = move[g] => e = g
      BY <1>3, <1>7
    <2>3. move \in Injection(S, Range(move))
      BY <2>1, <2>2 DEF Injection, IsInjective, Surjection
    <2> QED
      BY <1>1, <1>6, <2>1, <2>3, FS_Surjection
  <1> QED
    BY <1>8, <1>9, <1>10

\* Remembering a result keeps the map bounded: rememberIdempotency.
LEMMA RememberBounded ==
  ASSUME SessionAssumption, idem \in Answers, BoundedMap(idem),
         NEW k \in Keys \cup {NoKey}, NEW ok \in BOOLEAN
  PROVE  BoundedMap(Remember(k, ok))
PROOF
  <1> DEFINE n == Cardinality(idem)
  <1>1. /\ IsFiniteSet(idem) /\ n \in Nat /\ n <= IdemLimit
        /\ IdemLimit \in Nat /\ IdemLimit >= 1
        /\ \A e \in idem : e \in Answer /\ e.at \in 1..n
    BY FS_CardinalityType DEF Answers, BoundedMap, SessionAssumption
  <1>2. CASE k = NoKey
    BY <1>2 DEF Remember
  <1>3. CASE k # NoKey /\ Remembered(k)
    <2> DEFINE set == [e \in idem |-> IF e.key = k THEN [e EXCEPT !.ok = ok] ELSE e]
    <2>1. Remember(k, ok) = Range(set)
      BY <1>3 DEF Remember, Range
    <2>2. \A e \in idem : set[e].key = e.key /\ set[e].at = e.at
      BY <1>1 DEF Answer
    <2>3. DOMAIN set = idem
      OBVIOUS
    <2>4. set \in Surjection(idem, Range(set))
      BY DEF Surjection, Range
    <2> HIDE DEF set
    <2>5. set \in Injection(idem, Range(set))
      BY <2>2, <2>4 DEF Injection, IsInjective, Surjection, BoundedMap, OneAnswerPerKey
    <2>6. Cardinality(Range(set)) = n
      BY <1>1, <2>4, <2>5, FS_Surjection
    <2>7. OneAnswerPerKey(Range(set))
      BY <2>2, <2>3 DEF BoundedMap, OneAnswerPerKey, Range
    <2>8. {e.at : e \in Range(set)} = {e.at : e \in idem}
      BY <2>2, <2>3 DEF Range
    <2> QED
      BY <1>1, <2>1, <2>6, <2>7, <2>8 DEF BoundedMap
  <1>4. CASE k # NoKey /\ ~Remembered(k)
    <2> DEFINE kept == IF MapHasRoom THEN idem ELSE {e \in idem : e.at # 1}
               new  == [key |-> k, ok |-> ok, at |-> n + 1]
               all  == {new} \cup kept
    <2>1. /\ Remember(k, ok) = Renumber(all)
          /\ kept \subseteq idem /\ new \in Answer /\ new.key = k /\ new.at = n + 1
      BY <1>1, <1>4 DEF Remember, Answer
    <2>2. \A e \in kept : e.key # k /\ e.at # n + 1
      BY <1>1, <1>4, <2>1 DEF Remembered
    <2>3. OneAnswerPerKey(all)
      BY <2>1, <2>2 DEF BoundedMap, OneAnswerPerKey
    <2>4. IsFiniteSet(kept) /\ Cardinality(kept) \in Nat /\ Cardinality(kept) < IdemLimit
      <3>1. CASE MapHasRoom
        BY <1>1, <3>1 DEF MapHasRoom
      <3>2. CASE ~MapHasRoom
        <4>1. n >= 1
          BY <1>1, <3>2 DEF MapHasRoom
        <4>2. PICK oldest \in idem : oldest.at = 1
          BY <1>1, <4>1 DEF BoundedMap
        <4>3. kept = idem \ {oldest}
          BY <3>2, <4>2 DEF BoundedMap, OneAnswerPerKey
        <4>4. IsFiniteSet(kept) /\ Cardinality(kept) = n - 1
          BY <1>1, <4>2, <4>3, FS_RemoveElement
        <4> QED
          BY <1>1, <4>1, <4>4
      <3> QED
        BY <3>1, <3>2
    <2>5. /\ IsFiniteSet(all)
          /\ Cardinality(all) = Cardinality(kept) + 1
      <3>1. new \notin kept
        BY <2>1, <2>2
      <3>2. all = kept \cup {new}
        OBVIOUS
      <3> HIDE DEF all, kept, new
      <3> QED
        BY <2>4, <3>1, <3>2, FS_AddElement
    <2>6. all \in Answers /\ Cardinality(all) <= IdemLimit
      BY <1>1, <2>1, <2>4, <2>5 DEF Answers
    <2> HIDE DEF all
    <2> QED
      BY <2>1, <2>3, <2>6, RenumberOrders DEF BoundedMap
  <1> QED
    BY <1>2, <1>3, <1>4

\* The answers that a reload keeps, renumbered, are a bounded map.
LEMMA ReloadedBounded ==
  ASSUME SessionAssumption, NEW S \in Answers, BoundedMap(S)
  PROVE  BoundedMap(Renumber({e \in S : e.ok}))
PROOF
  <1> DEFINE T == {e \in S : e.ok}
  <1>1. IsFiniteSet(S) /\ T \in SUBSET S
    BY DEF Answers
  <1>2. IsFiniteSet(T) /\ Cardinality(T) <= Cardinality(S)
    BY <1>1, FS_Subset
  <1>3. Cardinality(T) \in Nat /\ Cardinality(S) \in Nat /\ IdemLimit \in Nat
    BY <1>1, <1>2, FS_CardinalityType DEF SessionAssumption
  <1>4. T \in Answers /\ OneAnswerPerKey(T) /\ Cardinality(T) <= IdemLimit
    BY <1>1, <1>2, <1>3 DEF Answers, BoundedMap, OneAnswerPerKey
  <1> HIDE DEF T
  <1>5. BoundedMap(Renumber(T))
    BY <1>4, RenumberOrders DEF BoundedMap
  <1> QED
    BY <1>5 DEF T
-----------------------------------------------------------------------------
(* The invariant                                                           *)

\* The empty map is bounded.
LEMMA EmptyBounded == ASSUME SessionAssumption PROVE BoundedMap({})
PROOF
  BY FS_EmptySet DEF BoundedMap, OneAnswerPerKey, SessionAssumption

\* An empty commit unit carries the empty map.
LEMMA NoUnitBounded == ASSUME SessionAssumption PROVE BoundedMap(NoUnit.snap.idem)
PROOF
  BY EmptyBounded DEF NoUnit, EmptySnapshot

\* A turn copies the map into its unit, its unit into the store, and leaves
\* the unit to the stage that outlives it.
LEMMA PipelineBounded ==
  ASSUME SessionAssumption, TypeOK, MapsAreBounded, NEW a \in Actors, Pipeline(a)
  PROVE  MapsAreBounded'
PROOF
  <1> USE DEF pipelineFrame, storeVars, MapsAreBounded
  <1>1. CASE UNCHANGED <<idem, snap, unit, zombies>>
    BY <1>1
  <1>2. CASE StageTimeout(a)
    BY <1>2, NoUnitBounded DEF TypeOK, StageTimeout
  <1>3. CASE BuildUnit(a)
    BY <1>3 DEF TypeOK, BuildUnit
  <1>4. CASE CommitTurn(a) \/ SaveSnapshot(a)
    BY <1>4, NoUnitBounded DEF TypeOK, CommitTurn, SaveSnapshot
  <1>5. CASE AppendJournal(a) \/ PersistFails(a)
    BY <1>5, NoUnitBounded DEF TypeOK, AppendJournal, PersistFails
  <1>6. CASE \/ Validate(a) \/ ValidateWithoutDraft(a) \/ StageFails(a)
             \/ KernelCommit(a) \/ KernelCommitFails(a) \/ Finish(a) \/ EndThrows(a)
    BY <1>1, <1>6 DEF Validate, ValidateWithoutDraft, StageFails, KernelCommit,
                      KernelCommitFails, Finish, EndThrows, liveVars
  <1> QED
    BY <1>2, <1>3, <1>4, <1>5, <1>6 DEF Pipeline

\* Of the callers' steps only the return of a player turn changes the map.
LEMMA CallerBounded ==
  ASSUME SessionAssumption, TypeOK, MapsAreBounded, NEW c \in Clients, Caller(c)
  PROVE  MapsAreBounded'
PROOF
  <1>1. CASE UNCHANGED <<idem, snap, unit, zombies>>
    BY <1>1 DEF MapsAreBounded
  <1>2. CASE PlayerReturns(c)
    <2>1. turn[c].key \in Keys \cup {NoKey} /\ idem \in Answers
      BY DEF TypeOK, Turn, Actors
    <2>2. BoundedMap(idem')
      BY <1>2, <2>1, RememberBounded DEF PlayerReturns, AnswersAfter, MapsAreBounded
    <2> QED
      BY <1>2, <2>2 DEF MapsAreBounded, PlayerReturns, storeVars
  <1>3. CASE \/ FindIdle(c) \/ Claim(c) \/ WaitTimeout(c) \/ DrainNext(c)
             \/ DrainOverflow(c) \/ InlineReturns(c) \/ LeaveToPump(c) \/ Leave(c)
    BY <1>1, <1>3 DEF FindIdle, Claim, WaitTimeout, DrainNext, DrainOverflow,
       InlineReturns, LeaveToPump, Leave, liveVars, storeVars
  <1> QED
    BY <1>2, <1>3 DEF Caller

\* The other steps store a copy of the map, bring one back or forget it.
LEMMA OtherStepsBounded ==
  ASSUME SessionAssumption, TypeOK, MapsAreBounded,
         \/ SubmitSystemTurn \/ OpsReturns \/ PumpContinues \/ PumpStops
         \/ Zombie \/ ReadForSave \/ WriteSave \/ Crash \/ Reload
  PROVE  MapsAreBounded'
PROOF
  <1>1. CASE UNCHANGED <<idem, snap, unit, zombies>>
    BY <1>1 DEF MapsAreBounded
  <1>2. CASE SubmitSystemTurn \/ OpsReturns \/ PumpContinues \/ PumpStops \/ ReadForSave
    BY <1>1, <1>2 DEF SubmitSystemTurn, OpsReturns, PumpContinues, PumpStops,
       ReadForSave, liveVars, callVars, storeVars
  <1>3. CASE Zombie
    <2> SUFFICES ASSUME NEW z \in zombies,
                        ZombieValidates(z) \/ ZombieWrites(z) \/ ZombieCommits(z)
                 PROVE  MapsAreBounded'
      BY <1>3 DEF Zombie
    <2>1. \A p \in {"flushed", "append"} : [z EXCEPT !.at = p].unit = z.unit
      BY DEF TypeOK
    <2>2. CASE ZombieWrites(z)
      <3>1. BoundedMap(snap'.idem)
        BY <2>2 DEF ZombieWrites, MapsAreBounded
      <3>2. \A y \in zombies' : BoundedMap(y.unit.snap.idem)
        BY <2>1, <2>2 DEF ZombieWrites, MapsAreBounded
      <3> QED
        BY <2>2, <3>1, <3>2 DEF MapsAreBounded, ZombieWrites, zombieFrame, callVars
    <2>3. CASE ZombieValidates(z) \/ ZombieCommits(z)
      BY <2>3 DEF MapsAreBounded, ZombieValidates, ZombieCommits, zombieFrame,
                  callVars, storeVars
    <2> QED
      BY <2>2, <2>3
  <1>4. CASE WriteSave
    BY <1>4 DEF MapsAreBounded, WriteSave, liveVars, callVars
  <1>5. CASE Crash
    BY <1>5, EmptyBounded, NoUnitBounded DEF MapsAreBounded, Crash, storeVars
  <1>6. CASE Reload
    <2>1. snap.idem \in Answers
      BY DEF TypeOK, Snapshot
    <2>2. BoundedMap(idem')
      BY <1>6, <2>1, ReloadedBounded DEF Reload, MapsAreBounded
    <2> QED
      BY <1>6, <2>2 DEF MapsAreBounded, Reload, storeVars
  <1> QED
    BY <1>2, <1>3, <1>4, <1>5, <1>6

\* Every step keeps the invariant.
LEMMA NextBounded ==
  ASSUME SessionAssumption, TypeOK, MapsAreBounded, [Next]_vars
  PROVE  MapsAreBounded'
PROOF
  <1>1. CASE \E c \in Clients, k \in Keys \cup {NoKey} :
               Submit(c, k) \/ ReplayAnswer(c, k)
    BY <1>1 DEF Submit, ReplayAnswer, liveVars, callVars, storeVars, MapsAreBounded
  <1>2. CASE \E c \in Clients : Caller(c)
    BY <1>2, CallerBounded
  <1>3. CASE \E a \in Actors : Pipeline(a)
    BY <1>3, PipelineBounded
  <1>4. CASE \/ SubmitSystemTurn \/ OpsReturns \/ PumpContinues \/ PumpStops
             \/ Zombie \/ ReadForSave \/ WriteSave \/ Crash \/ Reload
    BY <1>4, OtherStepsBounded
  <1>5. CASE UNCHANGED vars
    BY <1>5 DEF vars, liveVars, callVars, storeVars, MapsAreBounded
  <1> QED
    BY <1>1, <1>2, <1>3, <1>4, <1>5 DEF Next

\* Every map of answers, in memory, on its way to the store (turn-pipeline.ts
\* stageCommit) or in it, is bounded.
THEOREM AnswersKept == Spec => []AnswersInvariant
PROOF
  <1>1. Init => AnswersInvariant
    <2> SUFFICES ASSUME Init PROVE AnswersInvariant
      OBVIOUS
    <2>1. MapsAreBounded
      BY SessionAssumption, EmptyBounded, NoUnitBounded
         DEF Init, MapsAreBounded, EmptySnapshot
    <2> QED
      BY <2>1, InitType DEF AnswersInvariant
  <1>2. AnswersInvariant /\ [Next]_vars => AnswersInvariant'
    BY SessionAssumption, NextType, NextBounded DEF AnswersInvariant
  <1> QED
    BY <1>1, <1>2, PTL DEF Spec

\* The map of answers is bounded in every reachable state: the limit holds
\* whatever overlaps, fails, times out, is saved or is restarted.
THEOREM AnswersBounded == Spec => []AnswersAreBounded
PROOF
  <1>1. AnswersInvariant => AnswersAreBounded
    BY DEF AnswersInvariant, MapsAreBounded, AnswersAreBounded
  <1> QED
    BY <1>1, AnswersKept, PTL

-----------------------------------------------------------------------------
(* A live kernel only ever moves forward.                                  *)

\* An open draft continues what is published, and without a process nothing
\* runs that could publish or open one.
DraftGoesOn == draft.open => Continues(draft.state, auth)

NothingRunsDown ==
  ~up => zombies = {} /\ ~draft.open /\ \A a \in Actors : pc[a] = "idle"

KernelInvariant == TypeOK /\ DraftGoesOn /\ NothingRunsDown

\* What a step may do to the kernel of a live session: keep the draft, drop it,
\* open one on the published state, add a turn's commands, or publish it.
WorksOnDraft ==
  /\ auth' = auth
  /\ \/ draft' \in {draft, Closed, Open(auth)}
     \/ draft.open /\ \E t \in Turn : draft' = Open(Append(draft.state, t))

Publishes == draft' = Closed /\ auth' = DraftView

-----------------------------------------------------------------------------
\* Histories only grow by a turn's commands.
LEMMA ContinuesOrder ==
  ASSUME NEW h \in History, NEW g \in History, NEW t \in Turn, Continues(g, h)
  PROVE  Continues(h, h) /\ Continues(Append(g, t), h)
PROOF
  BY AppendProperties, LenProperties DEF History, Continues

\* A turn that begins opens the draft on the state it has read, or closes it.
LEMMA BeginWorks ==
  ASSUME NEW p, NEW a, NEW t, BeginFrom(p, a, t, auth, draft), auth' = auth
  PROVE  WorksOnDraft
PROOF
  BY DEF BeginFrom, WorksOnDraft

LEMMA PipelineWorks ==
  ASSUME TypeOK, NEW a \in Actors, Pipeline(a)
  PROVE  (WorksOnDraft \/ Publishes) /\ pc[a] # "idle" /\ UNCHANGED up
PROOF
  <1> USE DEF pipelineFrame, WorksOnDraft, TurnPhases, DraftPhases
  <1>1. turn[a] \in Turn
    BY DEF TypeOK
  <1>2. CASE Validate(a)
    BY <1>1, <1>2 DEF Validate, WithCommandsOf
  <1>3. CASE KernelCommit(a)
    BY <1>3 DEF KernelCommit, Publishes, DraftView
  <1>4. CASE \/ ValidateWithoutDraft(a) \/ StageFails(a) \/ StageTimeout(a)
             \/ PersistFails(a) \/ KernelCommitFails(a) \/ Finish(a) \/ EndThrows(a)
    BY <1>4 DEF ValidateWithoutDraft, StageFails, StageTimeout, PersistFails,
      KernelCommitFails, Finish, Finishing, DraftDiscarded, EndThrows, liveVars
  <1>5. CASE BuildUnit(a) \/ CommitTurn(a) \/ SaveSnapshot(a) \/ AppendJournal(a)
    BY <1>5 DEF BuildUnit, CommitTurn, SaveSnapshot, AppendJournal
  <1> QED
    BY <1>2, <1>3, <1>4, <1>5 DEF Pipeline

LEMMA CallerWorks ==
  ASSUME NEW c \in Clients, Caller(c)
  PROVE  WorksOnDraft /\ pc[c] # "idle" /\ UNCHANGED up
PROOF
  <1>1. CASE Claim(c)
    BY <1>1, BeginWorks DEF Claim, Begin
  <1>2. CASE DrainNext(c)
    BY <1>2, BeginWorks DEF DrainNext, Begin
  <1>3. CASE LeaveToPump(c)
    BY <1>3, BeginWorks DEF LeaveToPump, StartJob
  <1>4. CASE \/ FindIdle(c) \/ WaitTimeout(c) \/ PlayerReturns(c) \/ DrainOverflow(c)
             \/ InlineReturns(c) \/ Leave(c)
    BY <1>4 DEF FindIdle, WaitTimeout, PlayerReturns, DrainOverflow, InlineReturns,
      Results,
      Leave, liveVars, WorksOnDraft
  <1> QED
    BY <1>1, <1>2, <1>3, <1>4 DEF Caller

\* A stage that outlives its turn works on the draft of whoever runs now.
LEMMA ZombieWorks ==
  ASSUME TypeOK, Zombie
  PROVE  (WorksOnDraft \/ Publishes) /\ zombies # {} /\ UNCHANGED up
PROOF
  <1> USE DEF zombieFrame, storeVars, WorksOnDraft
  <1>1. PICK z \in zombies : ZombieValidates(z) \/ ZombieWrites(z) \/ ZombieCommits(z)
    BY DEF Zombie
  <1>2. z.turn \in Turn
    BY DEF TypeOK
  <1>3. CASE ZombieValidates(z)
    BY <1>2, <1>3 DEF ZombieValidates, WithCommandsOf
  <1>4. CASE ZombieWrites(z)
    BY <1>4 DEF ZombieWrites
  <1>5. CASE ZombieCommits(z)
    BY <1>5 DEF ZombieCommits, Published, Publishes
  <1> QED
    BY <1>1, <1>3, <1>4, <1>5

\* Only a crash and a reload change the kernel otherwise; without a process
\* nothing but a reload, and the write of a save, is possible.
LEMMA KernelStep ==
  ASSUME KernelInvariant, [Next]_vars
  PROVE  \/ Crash \/ Reload
         \/ ~up /\ UNCHANGED <<up, auth, draft, pc, zombies>>
         \/ up /\ up' /\ (WorksOnDraft \/ Publishes)
PROOF
  <1>1. Pump \in Actors /\ Ops \in Actors /\ Clients \subseteq Actors
    BY DEF Actors
  <1>2. up \in BOOLEAN
    BY DEF KernelInvariant, TypeOK
  <1>3. /\ (\E a \in Actors : pc[a] # "idle") => up
        /\ zombies # {} => up
    BY DEF KernelInvariant, NothingRunsDown
  <1>4. CASE \E a \in Actors : Pipeline(a)
    BY <1>3, <1>4, PipelineWorks DEF KernelInvariant
  <1>5. CASE \E c \in Clients : Caller(c)
    BY <1>1, <1>3, <1>5, CallerWorks
  <1>6. CASE Zombie
    BY <1>3, <1>6, ZombieWorks DEF KernelInvariant
  <1>7. CASE SubmitSystemTurn
    BY <1>7, BeginWorks DEF SubmitSystemTurn, Begin
  <1>8. CASE PumpContinues
    <2>1. up /\ UNCHANGED <<up, auth>>
      BY <1>1, <1>3, <1>8 DEF PumpContinues
    <2> QED
      BY <1>8, <2>1, BeginWorks DEF PumpContinues, StartJob
  <1>9. CASE OpsReturns \/ PumpStops
    <2>1. up /\ UNCHANGED <<up, auth, draft>>
      BY <1>1, <1>3, <1>9 DEF OpsReturns, PumpStops, Results
    <2> QED
      BY <2>1 DEF WorksOnDraft
  <1>10. CASE \/ \E c \in Clients, k \in Keys \cup {NoKey} :
                   Submit(c, k) \/ ReplayAnswer(c, k)
              \/ ReadForSave
    BY <1>10 DEF Submit, ReplayAnswer, ReadForSave, liveVars, WorksOnDraft
  <1>11. CASE WriteSave \/ UNCHANGED vars
    BY <1>2, <1>11 DEF WriteSave, vars, liveVars, callVars, WorksOnDraft
  <1> QED
    BY <1>4, <1>5, <1>6, <1>7, <1>8, <1>9, <1>10, <1>11 DEF Next

LEMMA KernelNext ==
  ASSUME KernelInvariant, [Next]_vars
  PROVE  KernelInvariant'
PROOF
  <1>1. /\ auth \in History /\ draft \in [open : BOOLEAN, state : History]
        /\ Continues(auth, auth)
    BY ContinuesOrder, LenProperties DEF KernelInvariant, TypeOK, History, Continues
  <1>2. TypeOK'
    BY SessionAssumption, NextType DEF KernelInvariant
  <1>3. CASE Crash
    BY <1>2, <1>3 DEF Crash, Closed, KernelInvariant, DraftGoesOn, NothingRunsDown
  <1>4. CASE Reload
    <2>1. ~draft.open /\ up' /\ (UNCHANGED draft \/ draft' = Open(auth'))
      BY <1>4 DEF Reload, StartJob, BeginFrom, KernelInvariant, NothingRunsDown
    <2>2. Continues(auth', auth')
      BY <1>2, LenProperties DEF TypeOK, History, Continues
    <2> QED
      BY <1>2, <2>1, <2>2 DEF Open, KernelInvariant, DraftGoesOn, NothingRunsDown
  <1>5. CASE ~up /\ UNCHANGED <<up, auth, draft, pc, zombies>>
    BY <1>2, <1>5 DEF KernelInvariant, DraftGoesOn, NothingRunsDown
  <1>6. CASE up /\ up' /\ Publishes
    BY <1>2, <1>6 DEF Publishes, Closed, KernelInvariant, DraftGoesOn, NothingRunsDown
  <1>7. CASE up /\ up' /\ WorksOnDraft
    <2>1. \A t \in Turn : draft.open => Continues(Append(draft.state, t), auth)
      BY <1>1, ContinuesOrder DEF KernelInvariant, DraftGoesOn
    <2>2. DraftGoesOn'
      <3>1. CASE draft' = draft
        BY <1>7, <3>1 DEF WorksOnDraft, KernelInvariant, DraftGoesOn
      <3>2. CASE draft' = Closed
        BY <3>2 DEF Closed, DraftGoesOn
      <3>3. CASE draft' = Open(auth)
        <4>1. draft'.state = auth
          BY <3>3 DEF Open
        <4> QED
          BY <1>1, <1>7, <4>1 DEF WorksOnDraft, DraftGoesOn
      <3>4. CASE \E t \in Turn : draft.open /\ draft' = Open(Append(draft.state, t))
        <4>1. PICK t \in Turn : draft.open /\ draft' = Open(Append(draft.state, t))
          BY <3>4
        <4>2. draft'.state = Append(draft.state, t)
          BY <4>1 DEF Open
        <4> QED
          BY <1>7, <2>1, <4>1, <4>2 DEF WorksOnDraft, DraftGoesOn
      <3> QED
        BY <1>7, <3>1, <3>2, <3>3, <3>4 DEF WorksOnDraft
    <2> QED
      BY <1>2, <1>7, <2>2 DEF KernelInvariant, NothingRunsDown
  <1> QED
    BY <1>3, <1>4, <1>5, <1>6, <1>7, KernelStep

\* A published turn is never undone (state-kernel.ts commit): even when turns
\* overlap, stages outlive their turns and drafts are taken over, what is
\* published continues what was.
THEOREM KernelKeepsTurns == Spec => KernelNeverLosesTurns
PROOF
  <1>1. Init => KernelInvariant
    <2> SUFFICES ASSUME Init PROVE KernelInvariant
      OBVIOUS
    <2>1. TypeOK
      BY InitType
    <2>2. up /\ ~draft.open
      BY DEF Init, Closed
    <2> QED
      BY <2>1, <2>2 DEF KernelInvariant, DraftGoesOn, NothingRunsDown
  <1>2. KernelInvariant /\ [Next]_vars => KernelInvariant'
    BY KernelNext
  <1>3. KernelInvariant /\ [Next]_vars => (up /\ up' => Continues(auth', auth))
    <2> SUFFICES ASSUME KernelInvariant, [Next]_vars, up, up'
                 PROVE  Continues(auth', auth)
      OBVIOUS
    <2>1. Continues(auth, auth)
      BY LenProperties DEF KernelInvariant, TypeOK, History, Continues
    <2>2. ~Crash /\ ~Reload
      BY DEF Crash, Reload
    <2> QED
      BY <2>1, <2>2, KernelStep
         DEF WorksOnDraft, Publishes, DraftView, KernelInvariant, DraftGoesOn
  <1> QED
    BY <1>1, <1>2, <1>3, PTL DEF Spec, KernelNeverLosesTurns
=============================================================================
