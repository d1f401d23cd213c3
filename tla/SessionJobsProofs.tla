-------------------------- MODULE SessionJobsProofs --------------------------
(***************************************************************************)
(* Proofs of what commits once. With an orderly host a scheduled system    *)
(* turn commits at most once: through drains that put turns back, failing  *)
(* stages, crashes and reloads of older queues. An action that its host    *)
(* retries commits again at most as often as an answer was lost: to a      *)
(* crash, or to an exception at the end of a committed turn. Both rest on  *)
(* the invariant of SessionSerialProofs, the second one also on the bound  *)
(* of the map of answers of SessionProofs.                                 *)
(***************************************************************************)
EXTENDS SessionSerialProofs

JobsIn(h) == {h[i].job : i \in DOMAIN h} \ {NoJob}

OnceIn(h) ==
  \A i, j \in DOMAIN h : h[i].job # NoJob /\ h[i].job = h[j].job => i = j

Distinct(q) == \A i, j \in DOMAIN q : q[i] = q[j] => i = j

\* A job is in one place of a history, an inline and a background queue, and
\* was scheduled.
Apart(h, q, r) ==
  /\ OnceIn(h) /\ Distinct(q) /\ Distinct(r)
  /\ JobsIn(h) \cap Range(q) = {} /\ JobsIn(h) \cap Range(r) = {}
  /\ Range(q) \cap Range(r) = {}
  /\ (JobsIn(h) \cup Range(q) \cup Range(r)) \cap fresh = {}

SnapshotApart(s) == Apart(s.state, s.inlineQ, s.bgQ)

Elsewhere == JobsIn(auth) \cup Range(inlineQ) \cup Range(bgQ) \cup fresh

\* The turns left to drain, which only a client has that holds the session, are
\* nowhere else, ...
BatchApart(a) ==
  /\ Distinct(batch[a]) /\ Range(batch[a]) \cap Elsewhere = {}
  /\ batch[a] # <<>> => Holds(a) /\ a \in Clients

\* ... nor is the job that runs, until it is published.
RunsApart(a) ==
  /\ pc[a] \in DraftPhases /\ turn[a].job # NoJob =>
       turn[a].job \notin Elsewhere \cup Range(batch[a])
  /\ pc[a] = "wait" => turn[a].job = NoJob

JobInvariant ==
  /\ Apart(auth, inlineQ, bgQ) /\ SnapshotApart(snap)
  /\ ~up => bgQ = <<>>
  /\ \A a \in Actors :
       SnapshotApart(unit[a].snap) /\ BatchApart(a) /\ RunsApart(a)

-----------------------------------------------------------------------------
(* Sequences of jobs                                                       *)

LEMMA ConcatDistinct ==
  ASSUME NEW s \in Seq(Jobs), NEW t \in Seq(Jobs), Distinct(s), Distinct(t),
         Range(s) \cap Range(t) = {}
  PROVE  Distinct(s \o t) /\ Range(s \o t) = Range(s) \cup Range(t)
PROOF
  <1>1. /\ s \o t \in Seq(Jobs) /\ Len(s \o t) = Len(s) + Len(t)
        /\ Len(s) \in Nat /\ Len(t) \in Nat
        /\ DOMAIN s = 1..Len(s) /\ DOMAIN t = 1..Len(t)
        /\ DOMAIN (s \o t) = 1..(Len(s) + Len(t))
        /\ \A i \in 1..(Len(s) + Len(t)) :
             (s \o t)[i] = IF i <= Len(s) THEN s[i] ELSE t[i - Len(s)]
    BY ConcatProperties, LenProperties
  <1>2. \A i \in 1..(Len(s) + Len(t)) :
          \/ i \in 1..Len(s) /\ (s \o t)[i] = s[i]
          \/ i - Len(s) \in 1..Len(t) /\ (s \o t)[i] = t[i - Len(s)] /\ i > Len(s)
    BY <1>1
  <1>3. Distinct(s \o t)
    <2> SUFFICES ASSUME NEW i \in 1..(Len(s) + Len(t)), NEW j \in 1..(Len(s) + Len(t)),
                        (s \o t)[i] = (s \o t)[j]
                 PROVE  i = j
      BY <1>1 DEF Distinct
    <2>1. \A m \in 1..Len(s), n \in 1..Len(t) : s[m] # t[n]
      BY <1>1 DEF Range
    <2>2. CASE i \in 1..Len(s) /\ j \in 1..Len(s)
      BY <1>1, <1>2, <2>2 DEF Distinct
    <2>3. CASE i > Len(s) /\ j > Len(s)
      BY <1>1, <1>2, <2>3 DEF Distinct
    <2>4. CASE (i > Len(s) /\ j \in 1..Len(s)) \/ (j > Len(s) /\ i \in 1..Len(s))
      BY <1>1, <1>2, <2>1, <2>4
    <2> QED
      BY <1>1, <2>2, <2>3, <2>4
  <1>4. \A i \in 1..Len(s) : i \in 1..(Len(s) + Len(t)) /\ (s \o t)[i] = s[i]
    BY <1>1
  <1>5. \A i \in 1..Len(t) : /\ i + Len(s) \in 1..(Len(s) + Len(t))
                             /\ (s \o t)[i + Len(s)] = t[i]
    BY <1>1
  <1>6. Range(s \o t) = Range(s) \cup Range(t)
    <2>1. Range(s \o t) \subseteq Range(s) \cup Range(t)
      BY <1>1, <1>2 DEF Range
    <2>2. Range(s) \subseteq Range(s \o t)
      BY <1>1, <1>4 DEF Range
    <2>3. Range(t) \subseteq Range(s \o t)
      <3> SUFFICES ASSUME NEW i \in 1..Len(t)
                   PROVE  t[i] \in Range(s \o t)
        BY <1>1 DEF Range
      <3>1. i + Len(s) \in DOMAIN (s \o t) /\ (s \o t)[i + Len(s)] = t[i]
        BY <1>1, <1>5
      <3> QED
        BY <3>1 DEF Range
    <2> QED
      BY <2>1, <2>2, <2>3
  <1> QED
    BY <1>3, <1>6

LEMMA TakeDistinct ==
  ASSUME NEW s \in Seq(Jobs), s # <<>>, Distinct(s)
  PROVE  /\ Head(s) \in Jobs /\ Tail(s) \in Seq(Jobs) /\ Distinct(Tail(s))
         /\ Range(s) = Range(Tail(s)) \cup {Head(s)}
         /\ Head(s) \notin Range(Tail(s))
PROOF
  <1>1. /\ Len(s) \in Nat \ {0} /\ DOMAIN s = 1..Len(s) /\ Head(s) = s[1]
        /\ Tail(s) \in Seq(Jobs) /\ DOMAIN Tail(s) = 1..(Len(s) - 1)
        /\ \A i \in 1..(Len(s) - 1) : Tail(s)[i] = s[i + 1]
        /\ \A i \in 1..Len(s) : s[i] \in Jobs
    BY HeadTailProperties, LenProperties, EmptySeq
  <1>2. Head(s) \in Jobs
    BY <1>1
  <1>3. Distinct(Tail(s)) /\ Head(s) \notin Range(Tail(s))
    BY <1>1 DEF Distinct, Range
  <1>4. \A i \in 1..Len(s) : i = 1 \/ (i - 1 \in 1..(Len(s) - 1) /\ s[i] = Tail(s)[i - 1])
    BY <1>1
  <1>5. Range(s) = Range(Tail(s)) \cup {Head(s)}
    <2>1. \A i \in 1..Len(s) : s[i] = Head(s) \/ s[i] \in Range(Tail(s))
      BY <1>1, <1>4 DEF Range
    <2>2. \A i \in 1..(Len(s) - 1) : i + 1 \in 1..Len(s) /\ Tail(s)[i] = s[i + 1]
      BY <1>1
    <2>3. Head(s) \in Range(s)
      BY <1>1 DEF Range
    <2>4. Range(Tail(s)) \subseteq Range(s)
      BY <1>1, <2>2 DEF Range
    <2>5. Range(s) \subseteq Range(Tail(s)) \cup {Head(s)}
      BY <1>1, <2>1 DEF Range
    <2> QED
      BY <2>3, <2>4, <2>5
  <1> QED
    BY <1>1, <1>2, <1>3, <1>5

LEMMA AppendOnce ==
  ASSUME NEW h \in History, NEW t \in Turn, OnceIn(h),
         t.job # NoJob => t.job \notin JobsIn(h)
  PROVE  /\ OnceIn(Append(h, t))
         /\ JobsIn(Append(h, t)) = JobsIn(h) \cup ({t.job} \ {NoJob})
PROOF
  <1>1. /\ DOMAIN h = 1..Len(h) /\ Len(h) \in Nat
        /\ DOMAIN Append(h, t) = 1..(Len(h) + 1)
        /\ \A i \in 1..Len(h) : Append(h, t)[i] = h[i]
        /\ Append(h, t)[Len(h) + 1] = t
    BY AppendProperties, LenProperties DEF History
  <1>2. 1..(Len(h) + 1) = (1..Len(h)) \cup {Len(h) + 1}
    BY <1>1
  <1>3. JobsIn(Append(h, t)) = JobsIn(h) \cup ({t.job} \ {NoJob})
    BY <1>1, <1>2 DEF JobsIn
  <1>4. OnceIn(Append(h, t))
    BY <1>1, <1>2 DEF OnceIn, JobsIn
  <1> QED
    BY <1>3, <1>4

\* A turn schedules each of the jobs not yet scheduled at most once.
LEMMA OrdersDistinct ==
  ASSUME NEW S \in SUBSET Jobs, NEW s \in Orders(S)
  PROVE  s \in Seq(Jobs) /\ Distinct(s) /\ Range(s) \subseteq S
PROOF
  <1>1. s \in Seq(Jobs)
    BY SessionAssumption, OrdersType
  <1>2. Distinct(s) /\ Range(s) \subseteq S
    BY DEF Orders, Injection, IsInjective, Distinct, Range
  <1> QED
    BY <1>1, <1>2

-----------------------------------------------------------------------------
(* Steps                                                                   *)

\* A step that leaves histories and queues alone, drops units and batches or
\* keeps them, and begins no job.
LEMMA JobsQuiet ==
  ASSUME JobInvariant, UNCHANGED <<up, auth, inlineQ, bgQ, fresh, snap>>,
         \A x \in Actors :
           /\ unit'[x] \in {unit[x], NoUnit}
           /\ batch'[x] \in {batch[x], <<>>}
           /\ batch'[x] # <<>> => Holds(x)'
           /\ pc'[x] \in DraftPhases =>
                \/ turn'[x].job = NoJob
                \/ pc[x] \in DraftPhases /\ turn'[x] = turn[x]
           /\ pc'[x] = "wait" => turn'[x].job = NoJob
  PROVE  JobInvariant'
PROOF
  <1>1. Apart(auth, inlineQ, bgQ)' /\ SnapshotApart(snap)'
    BY DEF JobInvariant, Apart, SnapshotApart
  <1>2. \A x \in Actors : SnapshotApart(unit[x].snap)'
    <2> SUFFICES ASSUME NEW x \in Actors PROVE SnapshotApart(unit[x].snap)'
      OBVIOUS
    <2>1. SnapshotApart(EmptySnapshot)'
      BY DEF SnapshotApart, EmptySnapshot, Apart, OnceIn, Distinct, JobsIn, Range
    <2>2. SnapshotApart(unit[x].snap)
      BY DEF JobInvariant
    <2>3. CASE unit'[x] = unit[x]
      BY <2>2, <2>3 DEF SnapshotApart, Apart
    <2>4. CASE unit'[x] = NoUnit
      BY <2>1, <2>4 DEF NoUnit
    <2> QED
      BY <2>3, <2>4
  <1>3. Elsewhere' = Elsewhere
    BY DEF Elsewhere
  <1>4. \A x \in Actors : BatchApart(x)'
    <2> SUFFICES ASSUME NEW x \in Actors PROVE BatchApart(x)'
      OBVIOUS
    <2>1. BatchApart(x)
      BY DEF JobInvariant
    <2>2. Distinct(<<>>) /\ Range(<<>>) = {}
      BY DEF Distinct, Range
    <2> QED
      BY <1>3, <2>1, <2>2 DEF BatchApart
  <1>5. \A x \in Actors : RunsApart(x)'
    <2> SUFFICES ASSUME NEW x \in Actors PROVE RunsApart(x)'
      OBVIOUS
    <2>1. RunsApart(x)
      BY DEF JobInvariant
    <2>2. Range(batch'[x]) \subseteq Range(batch[x])
      BY DEF Range
    <2> QED
      BY <1>3, <2>1, <2>2 DEF RunsApart
  <1> QED
    BY <1>1, <1>2, <1>4, <1>5 DEF JobInvariant

\* The pump takes the first of a queue: nobody else holds the session.
LEMMA JobsStart ==
  ASSUME JobInvariant, NEW q \in Seq(Jobs), q # <<>>, NEW p \in [Actors -> Phases],
         NEW dr, NEW n, StartJob(p, q, auth', dr, n), ~dr.open, up',
         \A x \in Actors \ {Pump} : /\ p[x] \in {"idle", "wait"}
                                    /\ p[x] = "wait" => pc[x] = "wait",
         \A x \in Actors : batch[x] = <<>>,
         UNCHANGED <<fresh, snap, unit, batch>>, turn \in [Actors -> Turn],
         Apart(auth', inlineQ', q)
  PROVE  JobInvariant'
PROOF
  <1>0. Pump \in Actors
    BY DEF Actors
  <1>1. /\ bgQ' = Tail(q) /\ turn' = [turn EXCEPT ![Pump] = JobTurn(Head(q))]
        /\ pc' = [p EXCEPT ![Pump] = "work"]
    BY DEF StartJob, QueueAfterTaking, BeginFrom
  <1>2. /\ Head(q) \in Jobs /\ Distinct(Tail(q)) /\ Head(q) \notin Range(Tail(q))
        /\ Range(q) = Range(Tail(q)) \cup {Head(q)}
    BY TakeDistinct DEF Apart
  <1>3. Apart(auth, inlineQ, bgQ)'
    BY <1>1, <1>2 DEF Apart
  <1>4. SnapshotApart(snap)' /\ \A x \in Actors : SnapshotApart(unit[x].snap)'
    BY DEF JobInvariant, SnapshotApart, Apart
  <1>5. /\ Head(q) \notin Elsewhere'
        /\ Elsewhere' \cup {Head(q)} =
             JobsIn(auth') \cup Range(inlineQ') \cup Range(q) \cup fresh
    BY <1>1, <1>2 DEF Elsewhere, Apart
  <1>6. /\ pc'[Pump] = "work" /\ turn'[Pump].job = Head(q)
        /\ \A x \in Actors \ {Pump} : pc'[x] = p[x] /\ turn'[x] = turn[x]
    BY <1>0, <1>1 DEF JobTurn
  <1>7. \A x \in Actors : BatchApart(x)'
    BY DEF BatchApart, Distinct, Range
  <1>8. \A x \in Actors : RunsApart(x)'
    <2> SUFFICES ASSUME NEW x \in Actors PROVE RunsApart(x)'
      OBVIOUS
    <2>1. CASE x = Pump
      <3>1. Range(batch'[x]) = {}
        BY DEF Range, Distinct
      <3> QED
        BY <1>2, <1>5, <1>6, <2>1, <3>1 DEF RunsApart
    <2>2. CASE x # Pump
      BY <1>6, <2>2 DEF RunsApart, DraftPhases, JobInvariant
    <2> QED
      BY <2>1, <2>2
  <1> QED
    BY <1>3, <1>4, <1>7, <1>8 DEF JobInvariant

\* While one actor holds the session, nobody else has turns left to drain.
LEMMA OnlyHolder ==
  ASSUME SerialInvariant, JobInvariant, NEW a \in Actors, Holds(a)
  PROVE  \A x \in Actors \ {a} : ~Holds(x) /\ batch[x] = <<>>
PROOF
  BY DEF SerialInvariant, BusyIsLock, JobInvariant, BatchApart

\* The holder's turn moves on, which neither publishes nor stores anything.
LEMMA JobsHeld ==
  ASSUME SerialInvariant, JobInvariant, NEW a \in Actors, NEW q \in TurnPhases,
         Holds(a), pc' = [pc EXCEPT ![a] = q],
         q \in DraftPhases => pc[a] \in DraftPhases,
         UNCHANGED <<up, auth, inlineQ, bgQ, fresh, snap, batch, turn>>,
         \A x \in Actors : unit'[x] \in {unit[x], NoUnit}
  PROVE  JobInvariant'
PROOF
  <1>1. pc \in [Actors -> Phases]
    BY DEF SerialInvariant, TypeOK
  <1>2. \A x \in Actors \ {a} : batch[x] = <<>>
    BY OnlyHolder
  <1>3. pc'[a] = q /\ \A x \in Actors \ {a} : pc'[x] = pc[x]
    BY <1>1
  <1>4. Holds(a)'
    BY <1>3 DEF Holds, InTurn
  <1>5. q # "wait"
    BY DEF TurnPhases, DraftPhases
  <1>6. \A x \in Actors :
          /\ batch'[x] # <<>> => Holds(x)'
          /\ pc'[x] \in DraftPhases => pc[x] \in DraftPhases
          /\ pc'[x] = "wait" => turn'[x].job = NoJob
    BY <1>2, <1>3, <1>4, <1>5 DEF JobInvariant, RunsApart
  <1> QED
    BY <1>6, JobsQuiet

LEMMA JobsPipeline ==
  ASSUME OrderlyHost, SerialInvariant, JobInvariant, NEW a \in Actors, Pipeline(a)
  PROVE  JobInvariant'
PROOF
  <1> USE DEF pipelineFrame, bookVars, storeVars, GoTo
  <1>1. /\ turn[a] \in Turn /\ auth \in History /\ pc \in [Actors -> Phases]
        /\ inlineQ \in Seq(Jobs) /\ bgQ \in Seq(Jobs) /\ fresh \subseteq Jobs
        /\ unit \in [Actors -> Unit]
    BY DEF SerialInvariant, TypeOK
  <1>2. pc[a] \in TurnPhases \ Results
    BY DEF Pipeline, Validate, ValidateWithoutDraft, StageFails, StageTimeout,
           BuildUnit, CommitTurn, SaveSnapshot, AppendJournal, PersistFails,
           KernelCommit, KernelCommitFails, Finish, EndThrows, Finishing, Results,
           TurnPhases, DraftPhases
  <1>3. Holds(a) /\ \A x \in Actors \ {a} : ~Holds(x) /\ batch[x] = <<>>
    BY <1>2, OnlyHolder DEF Holds, InTurn
  <1>0. up
    BY <1>2 DEF SerialInvariant, DownIsIdle, TurnPhases, DraftPhases
  <1>4. /\ Apart(auth, inlineQ, bgQ) /\ SnapshotApart(snap) /\ (~up => bgQ = <<>>)
        /\ \A x \in Actors :
             SnapshotApart(unit[x].snap) /\ BatchApart(x) /\ RunsApart(x)
    BY DEF JobInvariant
  <1>5. CASE Validate(a) \/ ValidateWithoutDraft(a) \/ StageFails(a) \/ PersistFails(a)
             \/ KernelCommitFails(a)
    <2>1. \E q \in {"drafted", "rejecting"} :
            /\ pc' = [pc EXCEPT ![a] = q]
            /\ q \in DraftPhases => pc[a] \in DraftPhases
      BY <1>5 DEF Validate, ValidateWithoutDraft, StageFails, PersistFails,
                  KernelCommitFails, DraftPhases
    <2>2. /\ UNCHANGED <<up, auth, inlineQ, bgQ, fresh, snap, batch, turn>>
          /\ unit' \in {unit, [unit EXCEPT ![a] = NoUnit]}
      BY <1>5 DEF Validate, ValidateWithoutDraft, StageFails, PersistFails,
                  KernelCommitFails
    <2>3. \A x \in Actors : unit'[x] \in {unit[x], NoUnit}
      BY <1>1, <2>2
    <2> QED
      BY <1>3, <2>1, <2>2, <2>3, JobsHeld DEF TurnPhases, DraftPhases
  <1>6. CASE StageTimeout(a) \/ SaveSnapshot(a) \/ AppendJournal(a)
    BY <1>6 DEF StageTimeout, SaveSnapshot, AppendJournal, OrderlyHost, SerialInvariant,
                PhasesInUse
  <1>7. CASE BuildUnit(a)
    <2>1. /\ pc[a] = "drafted" /\ pc' = [pc EXCEPT ![a] = "persist"]
          /\ UNCHANGED <<up, auth, inlineQ, bgQ, fresh, snap, batch, turn>>
      BY <1>7 DEF BuildUnit
    <2>2. DraftView = Append(auth, turn[a])
      BY <2>1 DEF SerialInvariant, DraftIsOwn, DraftView, Open, DraftPhases
    <2>3. /\ unit'[a].snap.state = Append(auth, turn[a])
          /\ unit'[a].snap.inlineQ = inlineQ /\ unit'[a].snap.bgQ = bgQ
          /\ \A x \in Actors \ {a} : unit'[x] = unit[x]
      BY <1>1, <1>7, <2>2 DEF BuildUnit
    <2>4. turn[a].job # NoJob => turn[a].job \notin Elsewhere
      BY <1>4, <2>1 DEF RunsApart, DraftPhases
    <2>5. Apart(Append(auth, turn[a]), inlineQ, bgQ)
      BY <1>1, <1>4, <2>4, AppendOnce DEF Apart, Elsewhere
    <2>6. \A x \in Actors : SnapshotApart(unit[x].snap)'
      BY <1>4, <2>1, <2>3, <2>5 DEF SnapshotApart, Apart
    <2>7. pc'[a] = "persist" /\ \A x \in Actors \ {a} : pc'[x] = pc[x]
      BY <1>1, <2>1
    <2>8. Elsewhere' = Elsewhere
      BY <2>1 DEF Elsewhere
    <2>9. \A x \in Actors : BatchApart(x)'
      BY <1>3, <1>4, <2>1, <2>7, <2>8
         DEF BatchApart, Holds, InTurn, TurnPhases, DraftPhases
    <2>10. \A x \in Actors : RunsApart(x)'
      BY <1>4, <2>1, <2>7, <2>8 DEF RunsApart, DraftPhases
    <2>11. Apart(auth, inlineQ, bgQ)' /\ SnapshotApart(snap)'
      BY <1>4, <2>1 DEF Apart, SnapshotApart
    <2> QED
      BY <1>0, <2>1, <2>6, <2>9, <2>10, <2>11 DEF JobInvariant
  <1>8. CASE CommitTurn(a)
    <2>1. /\ pc[a] = "persist" /\ pc' = [pc EXCEPT ![a] = "flushed"]
          /\ snap' = unit[a].snap /\ unit' = [unit EXCEPT ![a] = NoUnit]
          /\ UNCHANGED <<up, auth, inlineQ, bgQ, fresh, batch, turn>>
      BY <1>8 DEF CommitTurn
    <2>2. SnapshotApart(snap)'
      BY <1>4, <2>1 DEF SnapshotApart, Apart
    <2>3. pc'[a] = "flushed" /\ \A x \in Actors \ {a} : pc'[x] = pc[x]
      BY <1>1, <2>1
    <2>4. SnapshotApart(EmptySnapshot)'
      BY DEF SnapshotApart, EmptySnapshot, Apart, OnceIn, Distinct, JobsIn, Range
    <2>5. /\ unit'[a].snap = EmptySnapshot
          /\ \A x \in Actors \ {a} : unit'[x] = unit[x]
      BY <1>1, <2>1 DEF NoUnit
    <2>6. \A x \in Actors : SnapshotApart(unit[x].snap)'
      <3> SUFFICES ASSUME NEW x \in Actors PROVE SnapshotApart(unit[x].snap)'
        OBVIOUS
      <3>1. CASE x = a
        BY <2>4, <2>5, <3>1 DEF SnapshotApart
      <3>2. CASE x # a
        BY <1>4, <2>1, <2>5, <3>2 DEF SnapshotApart, Apart
      <3> QED
        BY <3>1, <3>2
    <2>7. Elsewhere' = Elsewhere
      BY <2>1 DEF Elsewhere
    <2>8. \A x \in Actors : BatchApart(x)' /\ RunsApart(x)'
      BY <1>3, <1>4, <2>1, <2>3, <2>7
         DEF BatchApart, RunsApart, Holds, InTurn, TurnPhases, DraftPhases
    <2>9. Apart(auth, inlineQ, bgQ)'
      BY <1>4, <2>1 DEF Apart
    <2> QED
      BY <1>0, <2>1, <2>2, <2>6, <2>8, <2>9 DEF JobInvariant
  <1>9. CASE KernelCommit(a)
    <2>1. /\ pc[a] = "flushed" /\ pc' = [pc EXCEPT ![a] = "after"]
          /\ UNCHANGED <<up, inlineQ, bgQ, fresh, snap, unit, batch, turn>>
          /\ auth' = draft.state
      BY <1>9 DEF KernelCommit
    <2>2. auth' = Append(auth, turn[a])
      BY <2>1 DEF SerialInvariant, DraftIsOwn, Open, DraftPhases
    <2>3. turn[a].job # NoJob => turn[a].job \notin Elsewhere \cup Range(batch[a])
      BY <1>4, <2>1 DEF RunsApart, DraftPhases
    <2>4. /\ OnceIn(auth') /\ JobsIn(auth') = JobsIn(auth) \cup ({turn[a].job} \ {NoJob})
      BY <1>1, <1>4, <2>2, <2>3, AppendOnce DEF Apart, Elsewhere
    <2>5. Apart(auth, inlineQ, bgQ)'
      BY <1>4, <2>1, <2>3, <2>4 DEF Apart, Elsewhere
    <2>6. Elsewhere' = Elsewhere \cup ({turn[a].job} \ {NoJob})
      BY <2>1, <2>4 DEF Elsewhere
    <2>7. pc'[a] = "after" /\ \A x \in Actors \ {a} : pc'[x] = pc[x]
      BY <1>1, <2>1
    <2>8. BatchApart(a)' /\ RunsApart(a)'
      BY <1>4, <2>1, <2>3, <2>6, <2>7
         DEF BatchApart, RunsApart, Holds, InTurn, TurnPhases, DraftPhases
    <2>9. \A x \in Actors \ {a} : BatchApart(x)' /\ RunsApart(x)'
      BY <1>3, <1>4, <2>1, <2>7
         DEF BatchApart, RunsApart, Holds, InTurn, TurnPhases, DraftPhases, Distinct,
             Range
    <2>10. SnapshotApart(snap)' /\ \A x \in Actors : SnapshotApart(unit[x].snap)'
      BY <1>4, <2>1 DEF SnapshotApart, Apart
    <2> QED
      BY <1>0, <2>1, <2>5, <2>8, <2>9, <2>10 DEF JobInvariant
  <1>10. CASE Finish(a)
    <2>1. /\ pc[a] \in {"after", "rejecting"}
          /\ UNCHANGED <<up, auth, snap, unit, batch, turn>>
      BY <1>10 DEF Finish, Finishing, SerialInvariant, PhasesInUse
    <2>2. PICK q \in {"committed", "rejected"} : pc' = [pc EXCEPT ![a] = q]
      BY <1>10 DEF Finish
    <2>3. PICK asInline \in Orders(Schedulable(a)), asBg \in Orders(Schedulable(a)) :
            /\ Range(asInline) \cap Range(asBg) = {}
            /\ inlineQ' = inlineQ \o asInline /\ bgQ' = bgQ \o asBg
            /\ fresh' = fresh \ (Range(asInline) \cup Range(asBg))
      BY <1>10 DEF Finish
    <2>4. Schedulable(a) \in SUBSET Jobs /\ Schedulable(a) \subseteq fresh
      BY <1>1 DEF Schedulable
    <2>5. /\ asInline \in Seq(Jobs) /\ Distinct(asInline) /\ Range(asInline) \subseteq fresh
          /\ asBg \in Seq(Jobs) /\ Distinct(asBg) /\ Range(asBg) \subseteq fresh
      BY <2>4, OrdersDistinct
    <2>6. /\ Distinct(inlineQ') /\ Range(inlineQ') = Range(inlineQ) \cup Range(asInline)
          /\ Distinct(bgQ') /\ Range(bgQ') = Range(bgQ) \cup Range(asBg)
      BY <1>1, <1>4, <2>3, <2>5, ConcatDistinct DEF Apart
    <2>7. Apart(auth, inlineQ, bgQ)'
      BY <1>4, <2>1, <2>3, <2>5, <2>6 DEF Apart
    <2>8. Elsewhere' \subseteq Elsewhere
      BY <2>1, <2>3, <2>5, <2>6 DEF Elsewhere
    <2>9. pc'[a] = q /\ \A x \in Actors \ {a} : pc'[x] = pc[x]
      BY <1>1, <2>2
    <2>10. \A x \in Actors : BatchApart(x)' /\ RunsApart(x)'
      BY <1>3, <1>4, <2>1, <2>8, <2>9
         DEF BatchApart, RunsApart, Holds, InTurn, TurnPhases, DraftPhases
    <2>11. SnapshotApart(snap)' /\ \A x \in Actors : SnapshotApart(unit[x].snap)'
      BY <1>4, <2>1, <2>3 DEF SnapshotApart, Apart
    <2> QED
      BY <1>0, <2>1, <2>7, <2>10, <2>11 DEF JobInvariant
  <1>11. CASE EndThrows(a)
    <2>1. /\ pc[a] \in {"after", "rejecting"} /\ pc' = [pc EXCEPT ![a] = "threw"]
          /\ UNCHANGED <<up, auth, inlineQ, bgQ, fresh, snap, unit, batch, turn>>
      BY <1>11 DEF EndThrows, liveVars
    <2> QED
      BY <1>3, <2>1, JobsHeld DEF TurnPhases, DraftPhases
  <1> QED
    BY <1>5, <1>6, <1>7, <1>8, <1>9, <1>10, <1>11 DEF Pipeline

LEMMA JobsCaller ==
  ASSUME OrderlyHost, SerialInvariant, JobInvariant, NEW c \in Clients, Caller(c)
  PROVE  JobInvariant'
PROOF
  <1> USE DEF bookVars, storeVars, liveVars, GoTo
  <1>1. /\ c \in Actors /\ Pump \in Actors /\ c # Pump
        /\ pc \in [Actors -> Phases] /\ turn \in [Actors -> Turn]
        /\ inlineQ \in Seq(Jobs) /\ bgQ \in Seq(Jobs)
        /\ batch \in [Actors -> Seq(Jobs)]
    BY SessionAssumption DEF Actors, SerialInvariant, TypeOK
  <1>2. /\ Apart(auth, inlineQ, bgQ) /\ SnapshotApart(snap) /\ (~up => bgQ = <<>>)
        /\ \A x \in Actors :
             SnapshotApart(unit[x].snap) /\ BatchApart(x) /\ RunsApart(x)
    BY DEF JobInvariant
  <1>3. HostTurn.job = NoJob
    BY DEF HostTurn
  <1>4. CASE FindIdle(c)
    BY <1>4 DEF FindIdle, OrderlyHost
  <1>5. CASE Claim(c)
    <2>1. /\ pc[c] = "wait" /\ ~busy
          /\ turn' = [turn EXCEPT ![c] = turn[c]]
          /\ UNCHANGED <<up, auth, inlineQ, bgQ, fresh, snap, unit, batch>>
          /\ \E q \in {"work", "refused"} : pc' = [pc EXCEPT ![c] = q]
      BY <1>5 DEF Claim, SessionIdle, Begin, BeginFrom, OrderlyHost
    <2>2. turn' = turn /\ turn[c].job = NoJob
      BY <1>1, <1>2, <2>1 DEF RunsApart
    <2>3. \A x \in Actors : batch[x] = <<>>
      BY <1>2, <2>1 DEF BatchApart, SerialInvariant, BusyIsLock
    <2>4. pc'[c] # "wait" /\ \A x \in Actors \ {c} : pc'[x] = pc[x]
      BY <1>1, <2>1
    <2> QED
      BY <1>2, <2>1, <2>2, <2>3, <2>4, JobsQuiet DEF RunsApart
  <1>6. CASE WaitTimeout(c)
    <2>1. /\ pc[c] = "wait" /\ pc' = [pc EXCEPT ![c] = "idle"]
          /\ turn' = [turn EXCEPT ![c] = HostTurn]
          /\ UNCHANGED <<up, auth, inlineQ, bgQ, fresh, snap, unit, batch>>
      BY <1>6 DEF WaitTimeout
    <2>2. /\ pc'[c] = "idle" /\ turn'[c].job = NoJob
          /\ \A x \in Actors \ {c} : pc'[x] = pc[x] /\ turn'[x] = turn[x]
      BY <1>1, <1>3, <2>1
    <2>3. \A x \in Actors : batch'[x] # <<>> => Holds(x)'
      BY <1>2, <2>1, <2>2 DEF BatchApart, Holds, InTurn, TurnPhases, DraftPhases
    <2> QED
      BY <1>2, <2>1, <2>2, <2>3, JobsQuiet DEF RunsApart, DraftPhases
  <1>7. CASE PlayerReturns(c)
    <2>1. /\ pc[c] \in Results /\ pc' = [pc EXCEPT ![c] = "drain"]
          /\ turn' = [turn EXCEPT ![c] = HostTurn]
          /\ UNCHANGED <<up, auth, bgQ, fresh, snap, unit>>
      BY <1>7 DEF PlayerReturns, Results
    <2>2. /\ pc'[c] = "drain" /\ turn'[c].job = NoJob
          /\ \A x \in Actors \ {c} : pc'[x] = pc[x] /\ turn'[x] = turn[x]
      BY <1>1, <1>3, <2>1
    <2>3. \A x \in Actors \ {c} : batch[x] = <<>>
      BY <1>1, <2>1, OnlyHolder DEF Holds, InTurn, TurnPhases, Results
    <2>4. CASE pc[c] # "committed"
      <3>1. inlineQ' = inlineQ /\ batch' = [batch EXCEPT ![c] = <<>>]
        BY <1>7, <2>4 DEF PlayerReturns, Results
      <3>2. \A x \in Actors : batch'[x] = <<>>
        BY <1>1, <2>3, <3>1
      <3> QED
        BY <1>2, <2>1, <2>2, <3>1, <3>2, JobsQuiet DEF RunsApart, DraftPhases
    <2>5. CASE pc[c] = "committed"
      <3>1. inlineQ' = <<>> /\ batch' = [batch EXCEPT ![c] = inlineQ]
        BY <1>7, <2>5 DEF PlayerReturns, Results
      <3>2. /\ batch'[c] = inlineQ /\ \A x \in Actors \ {c} : batch'[x] = <<>>
            /\ Distinct(<<>>) /\ Range(<<>>) = {}
        BY <1>1, <2>3, <3>1 DEF Distinct, Range
      <3>3. Apart(auth, inlineQ, bgQ)'
        BY <1>2, <2>1, <3>1, <3>2 DEF Apart
      <3>4. Elsewhere' = JobsIn(auth) \cup Range(bgQ) \cup fresh
        BY <2>1, <3>1, <3>2 DEF Elsewhere
      <3>5. BatchApart(c)'
        BY <1>2, <2>2, <3>2, <3>4 DEF BatchApart, Apart, Holds
      <3>6. \A x \in Actors \ {c} : BatchApart(x)'
        BY <3>2 DEF BatchApart
      <3>7. \A x \in Actors : RunsApart(x)'
        <4>1. \A x \in Actors \ {c} : pc[x] \notin DraftPhases
          BY <1>1, <2>1, OnlyHolder DEF Holds, InTurn, TurnPhases, Results
        <4> QED
          BY <1>2, <2>2, <4>1 DEF RunsApart, DraftPhases
      <3>8. SnapshotApart(snap)' /\ \A x \in Actors : SnapshotApart(unit[x].snap)'
        BY <1>2, <2>1 DEF SnapshotApart, Apart
      <3> QED
        BY <1>2, <2>1, <3>3, <3>5, <3>6, <3>7, <3>8 DEF JobInvariant
    <2> QED
      BY <2>1, <2>4, <2>5
  <1>8. CASE DrainNext(c)
    <2>1. /\ pc[c] = "drain" /\ batch[c] # <<>>
          /\ turn' = [turn EXCEPT ![c] = JobTurn(Head(batch[c]))]
          /\ batch' = [batch EXCEPT ![c] = Tail(batch[c])]
          /\ UNCHANGED <<up, auth, inlineQ, bgQ, fresh, snap, unit>>
          /\ \E q \in {"work", "refused"} : pc' = [pc EXCEPT ![c] = q]
      BY <1>8 DEF DrainNext, Begin, BeginFrom
    <2>2. /\ turn'[c].job = Head(batch[c]) /\ pc'[c] \in {"work", "refused"}
          /\ batch'[c] = Tail(batch[c])
          /\ \A x \in Actors \ {c} : /\ pc'[x] = pc[x] /\ turn'[x] = turn[x]
                                     /\ batch'[x] = batch[x]
      BY <1>1, <2>1 DEF JobTurn
    <2>3. /\ Head(batch[c]) \in Jobs /\ Distinct(Tail(batch[c]))
          /\ Range(batch[c]) = Range(Tail(batch[c])) \cup {Head(batch[c])}
          /\ Head(batch[c]) \notin Range(Tail(batch[c]))
      BY <1>1, <1>2, <2>1, TakeDistinct DEF BatchApart
    <2>4. Elsewhere' = Elsewhere
      BY <2>1 DEF Elsewhere
    <2>5. BatchApart(c)' /\ RunsApart(c)'
      BY <1>1, <1>2, <2>2, <2>3, <2>4
         DEF BatchApart, RunsApart, Holds, InTurn, TurnPhases, DraftPhases
    <2>6. \A x \in Actors \ {c} : BatchApart(x)' /\ RunsApart(x)'
      BY <1>2, <2>2, <2>4 DEF BatchApart, RunsApart, Holds, InTurn
    <2>7. /\ Apart(auth, inlineQ, bgQ)' /\ SnapshotApart(snap)'
          /\ \A x \in Actors : SnapshotApart(unit[x].snap)'
      BY <1>2, <2>1 DEF SnapshotApart, Apart
    <2> QED
      BY <1>2, <2>1, <2>5, <2>6, <2>7 DEF JobInvariant
  <1>9. CASE DrainOverflow(c)
    <2>1. /\ pc[c] = "drain" /\ inlineQ' = batch[c] \o inlineQ
          /\ batch' = [batch EXCEPT ![c] = <<>>]
          /\ UNCHANGED <<up, auth, bgQ, fresh, snap, unit, pc, turn>>
      BY <1>9 DEF DrainOverflow, PutBack
    <2>2. \A x \in Actors \ {c} : batch[x] = <<>> /\ pc[x] \notin DraftPhases
      BY <1>1, <2>1, OnlyHolder DEF Holds, InTurn, TurnPhases
    <2>3. \A x \in Actors : batch'[x] = <<>> /\ Distinct(<<>>) /\ Range(<<>>) = {}
      BY <1>1, <2>1, <2>2 DEF Distinct, Range
    <2>4. /\ Distinct(batch[c]) /\ Range(batch[c]) \cap Elsewhere = {}
      BY <1>1, <1>2 DEF BatchApart
    <2>5. Distinct(inlineQ') /\ Range(inlineQ') = Range(batch[c]) \cup Range(inlineQ)
      BY <1>1, <1>2, <2>1, <2>4, ConcatDistinct DEF Apart, Elsewhere
    <2>6. Apart(auth, inlineQ, bgQ)'
      BY <1>2, <2>1, <2>4, <2>5 DEF Apart, Elsewhere
    <2>7. \A x \in Actors : BatchApart(x)'
      BY <2>3 DEF BatchApart
    <2>8. \A x \in Actors : RunsApart(x)'
      BY <1>2, <2>1, <2>2 DEF RunsApart, DraftPhases
    <2>9. SnapshotApart(snap)' /\ \A x \in Actors : SnapshotApart(unit[x].snap)'
      BY <1>2, <2>1 DEF SnapshotApart, Apart
    <2> QED
      BY <1>2, <2>1, <2>6, <2>7, <2>8, <2>9 DEF JobInvariant
  <1>10. CASE InlineReturns(c)
    <2>1. /\ pc' = [pc EXCEPT ![c] = "drain"] /\ turn' = [turn EXCEPT ![c] = HostTurn]
          /\ UNCHANGED <<up, auth, inlineQ, bgQ, fresh, snap, unit>>
          /\ batch' \in {batch, [batch EXCEPT ![c] = <<>>]}
      BY <1>1, <1>10 DEF InlineReturns, Results
    <2>2. /\ pc'[c] = "drain" /\ turn'[c].job = NoJob
          /\ \A x \in Actors \ {c} : pc'[x] = pc[x] /\ turn'[x] = turn[x]
          /\ \A x \in Actors : batch'[x] \in {batch[x], <<>>}
      BY <1>1, <1>3, <2>1
    <2>3. \A x \in Actors : batch'[x] # <<>> => Holds(x)'
      BY <1>2, <2>2 DEF BatchApart, Holds, InTurn
    <2> QED
      BY <1>2, <2>1, <2>2, <2>3, JobsQuiet DEF RunsApart, DraftPhases
  <1>11. CASE LeaveToPump(c)
    <2> DEFINE p == [pc EXCEPT ![c] = "idle"]
    <2>1. /\ pc[c] = "drain" /\ batch[c] = <<>> /\ bgQ # <<>>
          /\ StartJob(p, bgQ, auth, draft, 1)
          /\ UNCHANGED <<up, auth, inlineQ, fresh, snap, unit, batch>>
      BY <1>11 DEF LeaveToPump
    <2>2. ~draft.open /\ up /\ \A x \in Actors \ {c} : pc[x] \in {"idle", "wait"}
      BY <1>1, <2>1, NobodyElse DEF Holds, DraftPhases
    <2>3. \A x \in Actors : batch[x] = <<>>
      BY <1>1, <2>1, OnlyHolder DEF Holds
    <2>4. /\ p \in [Actors -> Phases] /\ p[c] = "idle"
          /\ \A x \in Actors \ {c} : p[x] = pc[x]
      BY <1>1 DEF Phases
    <2> HIDE DEF p
    <2> QED
      BY <1>1, <1>2, <2>1, <2>2, <2>3, <2>4, JobsStart
  <1>12. CASE Leave(c)
    <2>1. /\ batch[c] = <<>> /\ pc' = [pc EXCEPT ![c] = "idle"]
          /\ UNCHANGED <<up, auth, inlineQ, bgQ, fresh, snap, unit, batch, turn>>
      BY <1>12 DEF Leave
    <2>2. pc'[c] = "idle" /\ \A x \in Actors \ {c} : pc'[x] = pc[x]
      BY <1>1, <2>1
    <2>3. \A x \in Actors : batch'[x] # <<>> => Holds(x)'
      BY <1>2, <2>1, <2>2 DEF BatchApart, Holds, InTurn
    <2> QED
      BY <1>2, <2>1, <2>2, <2>3, JobsQuiet DEF RunsApart, DraftPhases
  <1> QED
    BY <1>4, <1>5, <1>6, <1>7, <1>8, <1>9, <1>10, <1>11, <1>12 DEF Caller

LEMMA JobsOtherSteps ==
  ASSUME OrderlyHost, SerialInvariant, JobInvariant,
         \/ SubmitSystemTurn \/ OpsReturns \/ PumpContinues \/ PumpStops
         \/ Zombie \/ ReadForSave \/ WriteSave \/ Crash \/ Reload
  PROVE  JobInvariant'
PROOF
  <1> USE DEF bookVars, storeVars, liveVars, callVars, GoTo
  <1>1. /\ Pump \in Actors /\ Ops \in Actors
        /\ pc \in [Actors -> Phases] /\ turn \in [Actors -> Turn]
        /\ inlineQ \in Seq(Jobs) /\ bgQ \in Seq(Jobs) /\ snap.bgQ \in Seq(Jobs)
        /\ Pump \notin Clients /\ Ops \notin Clients
    BY SessionAssumption DEF Actors, SerialInvariant, TypeOK, Snapshot
  <1>2. /\ Apart(auth, inlineQ, bgQ) /\ SnapshotApart(snap) /\ (~up => bgQ = <<>>)
        /\ \A x \in Actors :
             SnapshotApart(unit[x].snap) /\ BatchApart(x) /\ RunsApart(x)
    BY DEF JobInvariant
  <1>3. HostTurn.job = NoJob
    BY DEF HostTurn
  <1>4. CASE SubmitSystemTurn
    <2>1. /\ ~busy /\ turn' = [turn EXCEPT ![Ops] = HostTurn]
          /\ UNCHANGED <<up, auth, inlineQ, bgQ, fresh, snap, unit, batch>>
          /\ \E q \in {"work", "refused"} : pc' = [pc EXCEPT ![Ops] = q]
      BY <1>4 DEF SubmitSystemTurn, SystemTurnAllowed, Begin, BeginFrom
    <2>2. \A x \in Actors : batch[x] = <<>>
      BY <1>2, <2>1 DEF BatchApart, SerialInvariant, BusyIsLock
    <2>3. /\ pc'[Ops] # "wait" /\ turn'[Ops].job = NoJob
          /\ \A x \in Actors \ {Ops} : pc'[x] = pc[x] /\ turn'[x] = turn[x]
      BY <1>1, <1>3, <2>1
    <2> QED
      BY <1>2, <2>1, <2>2, <2>3, JobsQuiet DEF RunsApart
  <1>5. CASE OpsReturns
    <2>1. /\ pc[Ops] \in Results /\ pc' = [pc EXCEPT ![Ops] = "idle"]
          /\ UNCHANGED <<up, auth, inlineQ, bgQ, fresh, snap, unit, batch, turn>>
      BY <1>5 DEF OpsReturns, Results
    <2>2. pc'[Ops] = "idle" /\ \A x \in Actors \ {Ops} : pc'[x] = pc[x]
      BY <1>1, <2>1
    <2>3. \A x \in Actors \ {Ops} : batch[x] = <<>>
      BY <1>1, <2>1, OnlyHolder DEF Holds, InTurn, TurnPhases, Results
    <2>4. batch[Ops] = <<>>
      BY <1>1, <1>2 DEF BatchApart
    <2> QED
      BY <1>2, <2>1, <2>2, <2>3, <2>4, JobsQuiet DEF RunsApart, DraftPhases
  <1>6. CASE PumpContinues
    <2>1. /\ pc[Pump] = "committed" /\ bgQ # <<>>
          /\ StartJob(pc, bgQ, auth, draft, ran[Pump] + 1)
          /\ UNCHANGED <<up, auth, inlineQ, fresh, snap, unit, batch>>
      BY <1>6 DEF PumpContinues
    <2>2. Holds(Pump) /\ pc[Pump] \notin DraftPhases
      BY <2>1 DEF Holds, InTurn, TurnPhases, DraftPhases
    <2>3. ~draft.open /\ up /\ \A x \in Actors \ {Pump} : pc[x] \in {"idle", "wait"}
      BY <1>1, <2>2, NobodyElse
    <2>4. \A x \in Actors : batch[x] = <<>>
      BY <1>1, <1>2, <2>2, OnlyHolder DEF BatchApart
    <2> QED
      BY <1>1, <1>2, <2>1, <2>3, <2>4, JobsStart
  <1>7. CASE PumpStops
    <2>1. /\ pc[Pump] \in Results
          /\ pc' = [pc EXCEPT ![Pump] = "idle"]
          /\ turn' = [turn EXCEPT ![Pump] = HostTurn]
          /\ UNCHANGED <<up, auth, inlineQ, bgQ, fresh, snap, unit, batch>>
      BY <1>7 DEF PumpStops, Results
    <2>2. pc'[Pump] = "idle" /\ \A x \in Actors \ {Pump} : pc'[x] = pc[x] /\ turn'[x] = turn[x]
      BY <1>1, <2>1
    <2>3. \A x \in Actors : batch[x] = <<>>
      BY <1>1, <1>2, <2>1, OnlyHolder DEF BatchApart, Holds, InTurn, TurnPhases, Results
    <2> QED
      BY <1>2, <2>1, <2>2, <2>3, JobsQuiet DEF RunsApart, DraftPhases
  <1>8. CASE Zombie \/ WriteSave
    BY <1>8 DEF Zombie, WriteSave, SerialInvariant, PhasesInUse
  <1>9. CASE ReadForSave
    BY <1>9 DEF ReadForSave, OrderlyHost, SerialInvariant, TypeOK
  <1>10. CASE Crash
    <2>1. /\ auth' = <<>> /\ inlineQ' = <<>> /\ bgQ' = <<>>
          /\ UNCHANGED <<fresh, snap>>
          /\ \A x \in Actors : /\ pc'[x] = "idle" /\ batch'[x] = <<>>
                               /\ unit'[x].snap = EmptySnapshot
      BY <1>10 DEF Crash, NoUnit
    <2>2. /\ Distinct(<<>>) /\ OnceIn(<<>>) /\ Range(<<>>) = {} /\ JobsIn(<<>>) = {}
      BY DEF Distinct, OnceIn, Range, JobsIn
    <2>3. Apart(auth, inlineQ, bgQ)' /\ SnapshotApart(EmptySnapshot)'
      BY <2>1, <2>2 DEF Apart, SnapshotApart, EmptySnapshot
    <2>4. \A x \in Actors : SnapshotApart(unit[x].snap)'
      BY <2>1, <2>3 DEF SnapshotApart
    <2>5. \A x \in Actors : BatchApart(x)' /\ RunsApart(x)'
      BY <2>1, <2>2 DEF BatchApart, RunsApart, DraftPhases
    <2>6. SnapshotApart(snap)'
      BY <1>2, <2>1 DEF SnapshotApart, Apart
    <2> QED
      BY <2>1, <2>3, <2>4, <2>5, <2>6 DEF JobInvariant
  <1>11. CASE Reload
    <2>1. /\ ~up /\ up' /\ auth' = snap.state /\ inlineQ' = snap.inlineQ
          /\ UNCHANGED <<fresh, snap, unit, batch>>
      BY <1>11 DEF Reload, LoadedState
    <2>2. (\A x \in Actors : pc[x] = "idle") /\ ~draft.open
      BY <2>1 DEF SerialInvariant, DownIsIdle
    <2>3. \A x \in Actors : batch[x] = <<>>
      BY <1>2, <2>2 DEF BatchApart, Holds, InTurn, TurnPhases, DraftPhases
    <2>4. Apart(auth', inlineQ', snap.bgQ)
      BY <1>2, <2>1 DEF SnapshotApart
    <2>5. CASE snap.bgQ = <<>>
      <3>1. UNCHANGED <<bgQ, pc, turn>>
        BY <1>11, <2>5 DEF Reload
      <3>2. bgQ' = snap.bgQ
        BY <1>2, <2>1, <2>5, <3>1
      <3>3. Apart(auth, inlineQ, bgQ)' /\ SnapshotApart(snap)'
        BY <1>2, <2>1, <2>4, <3>2 DEF SnapshotApart, Apart
      <3>4. \A x \in Actors : BatchApart(x)' /\ RunsApart(x)'
        BY <2>1, <2>2, <2>3, <3>1 DEF BatchApart, RunsApart, DraftPhases, Distinct, Range
      <3>5. \A x \in Actors : SnapshotApart(unit[x].snap)'
        BY <1>2, <2>1 DEF SnapshotApart, Apart
      <3> QED
        BY <2>1, <3>3, <3>4, <3>5 DEF JobInvariant
    <2>6. CASE snap.bgQ # <<>>
      <3>1. StartJob(pc, snap.bgQ, auth', draft, 1)
        BY <1>11, <2>1, <2>6 DEF Reload, LoadedState
      <3> QED
        BY <1>1, <2>1, <2>2, <2>3, <2>4, <2>6, <3>1, JobsStart
    <2> QED
      BY <2>5, <2>6
  <1> QED
    BY <1>4, <1>5, <1>6, <1>7, <1>8, <1>9, <1>10, <1>11

LEMMA JobsInit == Init => JobInvariant
PROOF
  <1> SUFFICES ASSUME Init PROVE JobInvariant
    OBVIOUS
  <1>1. /\ auth = <<>> /\ inlineQ = <<>> /\ bgQ = <<>> /\ snap = EmptySnapshot
        /\ \A x \in Actors : /\ pc[x] = "idle" /\ batch[x] = <<>>
                             /\ unit[x].snap = EmptySnapshot
    BY DEF Init, NoUnit
  <1>2. Distinct(<<>>) /\ OnceIn(<<>>) /\ Range(<<>>) = {} /\ JobsIn(<<>>) = {}
    BY DEF Distinct, OnceIn, Range, JobsIn
  <1>3. Apart(auth, inlineQ, bgQ) /\ SnapshotApart(EmptySnapshot)
    BY <1>1, <1>2 DEF Apart, SnapshotApart, EmptySnapshot
  <1>4. \A x \in Actors : BatchApart(x) /\ RunsApart(x)
    BY <1>1, <1>2 DEF BatchApart, RunsApart, DraftPhases
  <1> QED
    BY <1>1, <1>3, <1>4 DEF JobInvariant

LEMMA JobsNext ==
  ASSUME OrderlyHost, SerialInvariant, JobInvariant, [Next]_vars
  PROVE  JobInvariant'
PROOF
  <1> USE DEF bookVars, storeVars, liveVars, callVars, GoTo
  <1>1. /\ pc \in [Actors -> Phases] /\ turn \in [Actors -> Turn]
        /\ Clients \subseteq Actors
    BY DEF Actors, SerialInvariant, TypeOK
  <1>2. \A x \in Actors : BatchApart(x) /\ RunsApart(x)
    BY DEF JobInvariant
  <1>3. ASSUME UNCHANGED <<liveVars, callVars, fresh, snap>> PROVE JobInvariant'
    BY <1>2, <1>3, JobsQuiet DEF BatchApart, RunsApart, Holds, InTurn
  <1>4. ASSUME NEW c \in Clients, NEW k \in Keys \cup {NoKey}, Submit(c, k)
        PROVE  JobInvariant'
    <2>1. /\ pc[c] = "idle" /\ pc' = [pc EXCEPT ![c] = "wait"]
          /\ turn' = [turn EXCEPT ![c] = PlayerTurn(k)]
          /\ UNCHANGED <<up, auth, inlineQ, bgQ, fresh, snap, unit, batch>>
      BY <1>4 DEF Submit
    <2>2. /\ pc'[c] = "wait" /\ turn'[c].job = NoJob
          /\ \A x \in Actors \ {c} : pc'[x] = pc[x] /\ turn'[x] = turn[x]
      BY <1>1, <2>1 DEF PlayerTurn
    <2>3. batch[c] = <<>>
      BY <1>1, <1>2, <2>1 DEF BatchApart, Holds, InTurn, TurnPhases, DraftPhases
    <2>4. \A x \in Actors : batch'[x] # <<>> => Holds(x)'
      BY <1>2, <2>1, <2>2, <2>3 DEF BatchApart, Holds, InTurn
    <2>5. \A x \in Actors :
            /\ pc'[x] \in DraftPhases => pc[x] \in DraftPhases /\ turn'[x] = turn[x]
            /\ pc'[x] = "wait" => turn'[x].job = NoJob
      BY <1>2, <2>2 DEF RunsApart, DraftPhases
    <2> QED
      BY <2>1, <2>4, <2>5, JobsQuiet
  <1>5. CASE UNCHANGED vars
    BY <1>3, <1>5 DEF vars
  <1>6. CASE \E c \in Clients, k \in Keys \cup {NoKey} : ReplayAnswer(c, k)
    BY <1>3, <1>6 DEF ReplayAnswer
  <1>7. CASE \/ \E c \in Clients : Caller(c)
             \/ \E a \in Actors : Pipeline(a)
    BY <1>7, JobsCaller, JobsPipeline
  <1>8. CASE \/ SubmitSystemTurn \/ OpsReturns \/ PumpContinues \/ PumpStops
             \/ Zombie \/ ReadForSave \/ WriteSave \/ Crash \/ Reload
    BY <1>8, JobsOtherSteps
  <1> QED
    BY <1>4, <1>5, <1>6, <1>7, <1>8 DEF Next

-----------------------------------------------------------------------------
\* A job is always in one place only: scheduled by a committed turn
\* (session-runtime.ts pendingSystemTurns), taken by a drain or by the pump,
\* running, or in the history; and the same in whatever the store holds.
THEOREM JobsApart ==
  ASSUME OrderlyHost PROVE Spec => []JobInvariant
PROOF
  <1>1. Init => JobInvariant
    BY JobsInit
  <1>2. SerialInvariant /\ JobInvariant /\ [Next]_vars => JobInvariant'
    BY OrderlyHost, JobsNext
  <1> QED
    BY <1>1, <1>2, SerialSession, PTL DEF Spec

\* A scheduled system turn commits at most once, also after a crash: the
\* snapshot of a commit (turn-pipeline.ts stageCommit) carries the queue from
\* which the turn that commits was taken before it ran.
THEOREM JobsCommitOnce ==
  ASSUME OrderlyHost PROVE Spec => []JobCommitsAtMostOnce
PROOF
  <1>1. JobInvariant => JobCommitsAtMostOnce
    BY DEF JobInvariant, SnapshotApart, Apart, OnceIn, JobCommitsAtMostOnce
  <1> QED
    BY <1>1, JobsApart, PTL
-----------------------------------------------------------------------------
(* An action that is retried commits again only when a crash has forgotten *)
(* its answer, or an exception after its commit has kept it from its       *)
(* caller. What may be lost so is counted: the turns of a history that     *)
(* repeat a key, and the keys that may still be repeated because no answer *)
(* is known for them.                                                      *)

KeysIn(h) == {h[i].key : i \in DOMAIN h} \ {NoKey}

RepeatsIn(h) ==
  {i \in DOMAIN h : h[i].key # NoKey /\ \E j \in 1..(i - 1) : h[j].key = h[i].key}

\* The keys whose answer is the one of a committed turn.
Answered(m) == {e.key : e \in {f \in m : f.ok}}

\* A published turn whose caller has not remembered its answer yet.
Returns(a) == pc[a] \in {"after", "committed"} /\ turn[a].key # NoKey
Returning  == {turn[a].key : a \in {b \in Actors : Returns(b)}}
Known      == Answered(idem) \cup Returning

Debt(h, K) == Cardinality(RepeatsIn(h)) + Cardinality(KeysIn(h) \ K)

\* A key that is under way is one client's, and has no answer yet.
KeyIsOwn(a) ==
  turn[a].key # NoKey =>
    /\ a \in Clients /\ turn[a].job = NoJob /\ pc[a] \notin {"idle", "drain"}
    /\ ~Remembered(turn[a].key)
    /\ \A b \in Actors : turn[b].key = turn[a].key => b = a

\* Every crash forgets one answer at most: the one of the turn stored last,
\* which its own snapshot lacks and the next one contains. Every exception at
\* the end of a committed turn loses the answer of that turn.
KeyInvariant ==
  /\ \A a \in Actors : KeyIsOwn(a) /\ (pc[a] = "persist" => unit[a].snap.idem = idem)
  /\ up => Debt(auth, Known) <= crashes + lost
  /\ Debt(snap.state, Answered(snap.idem)) <= crashes + lost + (IF up THEN 1 ELSE 0)

\* What a host does that waits for an answer before it asks again, with a map
\* that has room for every key it uses.
KeysFit == ~RetriesOverlap /\ IsFiniteSet(Keys) /\ Cardinality(Keys) <= IdemLimit

-----------------------------------------------------------------------------
(* Counting                                                                *)

LEMMA DebtIsFinite ==
  ASSUME IsFiniteSet(Keys), NEW h \in History, NEW K
  PROVE  /\ IsFiniteSet(RepeatsIn(h)) /\ IsFiniteSet(KeysIn(h) \ K)
         /\ Cardinality(RepeatsIn(h)) \in Nat
         /\ Cardinality(KeysIn(h) \ K) \in Nat
PROOF
  <1>1. DOMAIN h = 1..Len(h) /\ Len(h) \in Nat /\ \A i \in DOMAIN h : h[i] \in Turn
    BY LenProperties, ElementOfSeq DEF History
  <1>2. KeysIn(h) \ K \in SUBSET Keys
    BY <1>1 DEF KeysIn, Turn
  <1>3. RepeatsIn(h) \in SUBSET (1..Len(h)) /\ IsFiniteSet(1..Len(h))
    BY <1>1, FS_Interval DEF RepeatsIn
  <1>4. IsFiniteSet(RepeatsIn(h)) /\ IsFiniteSet(KeysIn(h) \ K)
    BY <1>2, <1>3, FS_Subset
  <1> QED
    BY <1>4, FS_CardinalityType

LEMMA DebtIsNat ==
  ASSUME IsFiniteSet(Keys), NEW h \in History, NEW K
  PROVE  /\ Debt(h, K) \in Nat
         /\ Cardinality(RepeatsIn(h)) \in Nat
         /\ Cardinality(RepeatsIn(h)) <= Debt(h, K)
PROOF
  <1>1. Cardinality(RepeatsIn(h)) \in Nat /\ Cardinality(KeysIn(h) \ K) \in Nat
    BY DebtIsFinite
  <1> QED
    BY <1>1 DEF Debt

\* A turn with a key that is not known adds one to what is owed; once its
\* answer is known, nothing: either it was owed as a key, or it is new.
LEMMA DebtOfAppend ==
  ASSUME IsFiniteSet(Keys), NEW h \in History, NEW t \in Turn, NEW K, t.key \notin K
  PROVE  LET g == Append(h, t)
         IN  /\ Debt(g, K \cup ({t.key} \ {NoKey})) = Debt(h, K)
             /\ Debt(g, K) <= Debt(h, K) + 1
             /\ Cardinality(RepeatsIn(g)) <= Debt(h, K)
PROOF
  <1> DEFINE g == Append(h, t)
             n == Len(h)
             R == RepeatsIn(h)
             F == KeysIn(h) \ K
  <1>1. /\ n \in Nat /\ DOMAIN h = 1..n /\ DOMAIN g = 1..(n + 1) /\ g \in History
        /\ \A i \in 1..n : g[i] = h[i]
        /\ g[n + 1] = t
    BY AppendProperties, LenProperties DEF History
  <1>2. 1..(n + 1) = (1..n) \cup {n + 1} /\ n + 1 \notin 1..n
    BY <1>1
  <1>3. KeysIn(g) = KeysIn(h) \cup ({t.key} \ {NoKey})
    BY <1>1, <1>2 DEF KeysIn
  <1>4. \A i \in 1..n : i \in RepeatsIn(g) <=> i \in R
    <2> SUFFICES ASSUME NEW i \in 1..n PROVE i \in RepeatsIn(g) <=> i \in R
      OBVIOUS
    <2>1. \A j \in 1..(i - 1) : j \in 1..n
      BY <1>1
    <2> QED
      BY <1>1, <1>2, <2>1 DEF RepeatsIn
  <1>5. n + 1 \in RepeatsIn(g) <=> t.key \in KeysIn(h)
    <2>1. (n + 1) - 1 = n
      BY <1>1
    <2>2. n + 1 \in RepeatsIn(g) <=> t.key # NoKey /\ \E j \in 1..n : g[j].key = t.key
      BY <1>1, <1>2, <2>1 DEF RepeatsIn
    <2> QED
      BY <1>1, <2>2 DEF KeysIn
  <1>6. RepeatsIn(g) = IF t.key \in KeysIn(h) THEN R \cup {n + 1} ELSE R
    <2>1. RepeatsIn(g) \subseteq (1..n) \cup {n + 1} /\ R \subseteq 1..n
      BY <1>1, <1>2 DEF RepeatsIn
    <2>2. \A i \in RepeatsIn(g) : i \in R \/ (i = n + 1 /\ t.key \in KeysIn(h))
      BY <1>4, <1>5, <2>1
    <2>3. R \subseteq RepeatsIn(g)
      BY <1>4, <2>1
    <2> HIDE DEF g, n, R
    <2>4. CASE t.key \in KeysIn(h)
      BY <1>5, <2>2, <2>3, <2>4
    <2>5. CASE t.key \notin KeysIn(h)
      BY <2>2, <2>3, <2>5
    <2> QED
      BY <2>4, <2>5
  <1>7. n + 1 \notin R
    BY <1>1, <1>2 DEF RepeatsIn
  <1>8. /\ IsFiniteSet(R) /\ IsFiniteSet(F)
        /\ Cardinality(R) \in Nat /\ Cardinality(F) \in Nat
        /\ Debt(h, K) = Cardinality(R) + Cardinality(F)
        /\ \A L : Debt(g, L) = Cardinality(RepeatsIn(g)) + Cardinality(KeysIn(g) \ L)
    BY DebtIsFinite DEF Debt
  <1>9. NoKey \notin KeysIn(h)
    BY DEF KeysIn
  <1> HIDE DEF g, n, R
  <1>10. CASE t.key \in KeysIn(h)
    <2>1. Cardinality(RepeatsIn(g)) = Cardinality(R) + 1
      BY <1>6, <1>7, <1>8, <1>10, FS_AddElement
    <2>2. /\ KeysIn(g) \ K = F /\ t.key \in F
          /\ KeysIn(g) \ (K \cup ({t.key} \ {NoKey})) = F \ {t.key}
      BY <1>3, <1>9, <1>10
    <2>3. Cardinality(F \ {t.key}) = Cardinality(F) - 1 /\ Cardinality(F) >= 1
      <3> HIDE DEF F
      <3>1. Cardinality(F \ {t.key}) = Cardinality(F) - 1 /\ IsFiniteSet(F \ {t.key})
        BY <1>8, <2>2, FS_RemoveElement
      <3>2. Cardinality(F \ {t.key}) \in Nat
        BY <3>1, FS_CardinalityType
      <3> QED
        BY <1>8, <3>1, <3>2
    <2> HIDE DEF F
    <2> QED
      BY <1>8, <2>1, <2>2, <2>3 DEF g
  <1>11. CASE t.key \notin KeysIn(h)
    <2>1. RepeatsIn(g) = R
      BY <1>6, <1>11
    <2>2. KeysIn(g) \ (K \cup ({t.key} \ {NoKey})) = F
      BY <1>3, <1>9, <1>11
    <2>3. KeysIn(g) \ K \in {F, F \cup {t.key}}
      BY <1>3
    <2>4. Cardinality(KeysIn(g) \ K) <= Cardinality(F) + 1
      <3> HIDE DEF F
      <3>1. /\ IsFiniteSet(F) /\ Cardinality(F) \in Nat
            /\ KeysIn(g) \ K = F \/ KeysIn(g) \ K = F \cup {t.key}
        BY <1>8, <2>3
      <3>2. Cardinality(F \cup {t.key}) \in {Cardinality(F), Cardinality(F) + 1}
        BY <3>1, FS_AddElement
      <3>3. CASE KeysIn(g) \ K = F
        BY <3>1, <3>3
      <3>4. CASE KeysIn(g) \ K = F \cup {t.key}
        <4>1. Cardinality(KeysIn(g) \ K) \in {Cardinality(F), Cardinality(F) + 1}
          BY <3>2, <3>4
        <4> HIDE DEF g
        <4> QED
          BY <3>1, <4>1
      <3> QED
        BY <3>1, <3>3, <3>4
    <2>5. Cardinality(KeysIn(g) \ K) \in Nat
      BY <1>1, DebtIsFinite
    <2> HIDE DEF F
    <2> QED
      BY <1>8, <2>1, <2>2, <2>4, <2>5 DEF g
  <1> QED
    BY <1>10, <1>11

\* A key that is known no longer may be owed again.
LEMMA DebtOfForgotten ==
  ASSUME IsFiniteSet(Keys), NEW h \in History, NEW K, NEW k
  PROVE  Debt(h, K) <= Debt(h, K \cup {k}) + 1
PROOF
  <1> DEFINE F == KeysIn(h) \ K
             G == KeysIn(h) \ (K \cup {k})
  <1>1. /\ IsFiniteSet(F) /\ IsFiniteSet(G) /\ Cardinality(RepeatsIn(h)) \in Nat
        /\ Cardinality(F) \in Nat /\ Cardinality(G) \in Nat
    BY DebtIsFinite
  <1>2. F \subseteq G \cup {k}
    OBVIOUS
  <1>3. Cardinality(F) <= Cardinality(G) + 1
    <2> HIDE DEF F, G
    <2>1. /\ IsFiniteSet(G \cup {k})
          /\ Cardinality(G \cup {k}) \in {Cardinality(G), Cardinality(G) + 1}
      BY <1>1, FS_AddElement
    <2>2. Cardinality(F) <= Cardinality(G \cup {k})
      BY <1>2, <2>1, FS_Subset
    <2> QED
      BY <1>1, <2>1, <2>2
  <1>4. Debt(h, K) = Cardinality(RepeatsIn(h)) + Cardinality(F)
    BY DEF Debt
  <1>5. Debt(h, K \cup {k}) = Cardinality(RepeatsIn(h)) + Cardinality(G)
    BY DEF Debt
  <1> HIDE DEF F, G
  <1> QED
    BY <1>1, <1>3, <1>4, <1>5

\* Renumbering moves answers and keeps what they say.
LEMMA RenumberKeeps ==
  ASSUME NEW S \in SUBSET Answer
  PROVE  /\ Answered(Renumber(S)) = Answered(S)
         /\ {e.key : e \in Renumber(S)} = {e.key : e \in S}
PROOF
  <1> DEFINE move == [e \in S |->
               [e EXCEPT !.at = Cardinality({f \in S : f.at <= e.at})]]
  <1>1. Renumber(S) = {move[e] : e \in S}
    BY DEF Renumber
  <1>2. \A e \in S : move[e].key = e.key /\ move[e].ok = e.ok
    BY DEF Answer
  <1> HIDE DEF move
  <1> QED
    BY <1>1, <1>2 DEF Answered

\* A new answer finds room, so that no older one leaves.
LEMMA RememberAdds ==
  ASSUME SessionAssumption, KeysFit, idem \in Answers, BoundedMap(idem),
         NEW k \in Keys \cup {NoKey}, NEW ok \in BOOLEAN, k = NoKey \/ ~Remembered(k)
  PROVE  /\ Answered(Remember(k, ok)) =
              Answered(idem) \cup (IF ok THEN {k} \ {NoKey} ELSE {})
         /\ {e.key : e \in Remember(k, ok)} =
              {e.key : e \in idem} \cup ({k} \ {NoKey})
PROOF
  <1>1. CASE k = NoKey
    BY <1>1 DEF Remember
  <1>2. CASE k # NoKey
    <2> DEFINE others == Keys \ {k}
               keyOf  == [e \in idem |-> e.key]
               new    == [key |-> k, ok |-> ok, at |-> Cardinality(idem) + 1]
    <2>1. idem \subseteq Answer /\ IsFiniteSet(idem) /\ Cardinality(idem) \in Nat
      BY FS_CardinalityType DEF Answers
    <2>2. /\ IsFiniteSet(others) /\ Cardinality(others) = Cardinality(Keys) - 1
          /\ Cardinality(Keys) \in Nat /\ Cardinality(others) \in Nat
      BY <1>2, FS_RemoveElement, FS_CardinalityType DEF KeysFit
    <2>3. keyOf \in Injection(idem, others)
      BY <1>2, <2>1
         DEF Injection, IsInjective, Remembered, Answer, BoundedMap, OneAnswerPerKey
    <2>4. Cardinality(idem) <= Cardinality(others)
      <3> HIDE DEF others, keyOf
      <3> QED
        BY <2>2, <2>3, FS_Injection
    <2>5. MapHasRoom
      BY <2>1, <2>2, <2>4 DEF MapHasRoom, KeysFit, SessionAssumption
    <2>6. Remember(k, ok) = Renumber({new} \cup idem)
      BY <1>2, <2>5 DEF Remember
    <2>7. {new} \cup idem \in SUBSET Answer
      BY <1>2, <2>1 DEF Answer
    <2>8. new.key = k /\ new.ok = ok
      OBVIOUS
    <2> HIDE DEF new
    <2>9. Answered({new} \cup idem) = Answered(idem) \cup (IF ok THEN {k} ELSE {})
      BY <2>8 DEF Answered
    <2>10. {e.key : e \in {new} \cup idem} = {e.key : e \in idem} \cup {k}
      BY <2>8
    <2> DEFINE all == {new} \cup idem
    <2>11. /\ Answered(Renumber(all)) = Answered(all)
           /\ {e.key : e \in Renumber(all)} = {e.key : e \in all}
      <3> HIDE DEF all
      <3> QED
        BY <2>7, RenumberKeeps DEF all
    <2> QED
      BY <1>2, <2>6, <2>9, <2>10, <2>11
  <1> QED
    BY <1>1, <1>2
-----------------------------------------------------------------------------
(* Steps                                                                   *)

\* While somebody holds the session, or nobody does, no other turn's answer is
\* on its way.
LEMMA KnownOfHolder ==
  ASSUME SerialInvariant, NEW a \in Actors, Holds(a)
  PROVE  Known = Answered(idem) \cup (IF Returns(a) THEN {turn[a].key} ELSE {})
PROOF
  <1>1. \A b \in Actors \ {a} : ~Returns(b)
    BY DEF SerialInvariant, BusyIsLock, Holds, InTurn, TurnPhases, Returns
  <1> QED
    BY <1>1 DEF Known, Returning

\* A step that leaves histories and answers alone: no turn gets a key, none
\* that returns is dropped, and a unit that waits for the store was built now or
\* before.
LEMMA KeysQuiet ==
  ASSUME KeyInvariant, UNCHANGED <<up, auth, idem, snap, crashes, lost>>,
         \A x \in Actors :
           /\ turn'[x] = turn[x] \/ turn'[x].key = NoKey
           /\ turn'[x].key # NoKey => pc'[x] \notin {"idle", "drain"}
           /\ Returns(x)' <=> Returns(x)
           /\ Returns(x) => turn'[x].key = turn[x].key
           /\ pc'[x] = "persist" => unit'[x].snap.idem = idem
  PROVE  KeyInvariant'
PROOF
  <1>1. Returning' = Returning
    BY DEF Returning
  <1>2. Known' = Known
    BY <1>1 DEF Known, Answered
  <1>3. /\ Debt(auth, Known)' = Debt(auth, Known)
        /\ Debt(snap.state, Answered(snap.idem))' = Debt(snap.state, Answered(snap.idem))
    BY <1>2 DEF Debt, RepeatsIn, KeysIn, Answered
  <1>4. \A x \in Actors : KeyIsOwn(x)'
    BY DEF KeyInvariant, KeyIsOwn, Remembered
  <1> QED
    BY <1>3, <1>4 DEF KeyInvariant

\* An actor's turn moves on, to its end or to a step before it.
LEMMA KeysMove ==
  ASSUME KeyInvariant, pc \in [Actors -> Phases], NEW a \in Actors, NEW q,
         pc' = [pc EXCEPT ![a] = q],
         UNCHANGED <<up, auth, idem, snap, crashes, lost, turn>>,
         \A x \in Actors : unit'[x] \in {unit[x], NoUnit},
         turn[a].key # NoKey => q \notin {"idle", "drain"},
         q \in {"after", "committed"} <=> pc[a] \in {"after", "committed"},
         q # "persist",
         \A x \in Actors \ {a} : unit'[x] = unit[x]
  PROVE  KeyInvariant'
PROOF
  <1>1. pc'[a] = q /\ \A x \in Actors \ {a} : pc'[x] = pc[x]
    OBVIOUS
  <1>2. \A x \in Actors :
          /\ turn'[x].key # NoKey => pc'[x] \notin {"idle", "drain"}
          /\ Returns(x)' <=> Returns(x)
          /\ pc'[x] = "persist" => unit'[x].snap.idem = idem
    BY <1>1 DEF KeyInvariant, KeyIsOwn, Returns
  <1> QED
    BY <1>2, KeysQuiet

LEMMA KeysPipeline ==
  ASSUME OrderlyHost, KeysFit, SerialInvariant, KeyInvariant, NEW a \in Actors,
         Pipeline(a)
  PROVE  KeyInvariant'
PROOF
  <1> USE DEF pipelineFrame, bookVars, storeVars, GoTo
  <1>1. /\ turn[a] \in Turn /\ auth \in History /\ pc \in [Actors -> Phases]
        /\ unit \in [Actors -> Unit] /\ crashes \in Nat /\ lost \in Nat /\ snap \in Snapshot
        /\ snap.state \in History
    BY DEF SerialInvariant, TypeOK, Snapshot
  <1>2. pc[a] \in TurnPhases \ Results
    BY DEF Pipeline, Validate, ValidateWithoutDraft, StageFails, StageTimeout,
           BuildUnit, CommitTurn, SaveSnapshot, AppendJournal, PersistFails,
           KernelCommit, KernelCommitFails, Finish, EndThrows, Finishing, Results,
           TurnPhases, DraftPhases
  <1>3. Holds(a) /\ up
    BY <1>2 DEF Holds, InTurn, SerialInvariant, DownIsIdle, TurnPhases, DraftPhases
  <1>4. /\ Debt(auth, Known) <= crashes + lost
        /\ Debt(snap.state, Answered(snap.idem)) <= crashes + lost + 1
        /\ KeyIsOwn(a) /\ (pc[a] = "persist" => unit[a].snap.idem = idem)
    BY <1>3 DEF KeyInvariant
  <1>5. turn[a].key \notin Answered(idem)
    BY <1>1, <1>4, SessionAssumption
       DEF KeyIsOwn, Remembered, Answered, SerialInvariant, TypeOK, Answers, Answer
  <1>6. pc[a] # "after" => Known = Answered(idem)
    BY <1>2, <1>3, KnownOfHolder DEF Returns, Results
  <1>7. CASE Validate(a) \/ ValidateWithoutDraft(a) \/ StageFails(a) \/ PersistFails(a)
             \/ KernelCommitFails(a) \/ Finish(a)
    <2>1. \E q \in {"drafted", "rejecting", "committed", "rejected"} :
            /\ pc' = [pc EXCEPT ![a] = q]
            /\ q \in {"after", "committed"} <=> pc[a] \in {"after", "committed"}
      BY <1>7 DEF Validate, ValidateWithoutDraft, StageFails, PersistFails,
                  KernelCommitFails, Finish, Finishing
    <2>2. /\ UNCHANGED <<up, auth, idem, snap, crashes, lost, turn>>
          /\ unit' \in {unit, [unit EXCEPT ![a] = NoUnit]}
      BY <1>7 DEF Validate, ValidateWithoutDraft, StageFails, PersistFails,
                  KernelCommitFails, Finish
    <2>3. /\ \A x \in Actors : unit'[x] \in {unit[x], NoUnit}
          /\ \A x \in Actors \ {a} : unit'[x] = unit[x]
      BY <1>1, <2>2
    <2> QED
      BY <1>1, <2>1, <2>2, <2>3, KeysMove
  <1>8. CASE StageTimeout(a) \/ SaveSnapshot(a) \/ AppendJournal(a)
    BY <1>8 DEF StageTimeout, SaveSnapshot, AppendJournal, OrderlyHost, SerialInvariant,
                PhasesInUse
  <1>9. CASE BuildUnit(a)
    <2>1. /\ pc[a] = "drafted" /\ pc' = [pc EXCEPT ![a] = "persist"]
          /\ UNCHANGED <<up, auth, idem, snap, crashes, lost, turn>>
          /\ unit'[a].snap.idem = idem
          /\ \A x \in Actors \ {a} : unit'[x] = unit[x]
      BY <1>1, <1>9 DEF BuildUnit
    <2>2. pc'[a] = "persist" /\ \A x \in Actors \ {a} : pc'[x] = pc[x]
      BY <1>1, <2>1
    <2>3. \A x \in Actors :
            /\ turn'[x].key # NoKey => pc'[x] \notin {"idle", "drain"}
            /\ Returns(x)' <=> Returns(x)
            /\ pc'[x] = "persist" => unit'[x].snap.idem = idem
      BY <2>1, <2>2 DEF KeyInvariant, KeyIsOwn, Returns
    <2> QED
      BY <2>1, <2>3, KeysQuiet
  <1>10. CASE CommitTurn(a)
    <2>1. /\ pc[a] = "persist" /\ snap' = unit[a].snap
          /\ pc' = [pc EXCEPT ![a] = "flushed"]
          /\ UNCHANGED <<up, auth, idem, crashes, lost, turn>>
          /\ unit' = [unit EXCEPT ![a] = NoUnit]
      BY <1>10 DEF CommitTurn
    <2>2. snap'.state = Append(auth, turn[a]) /\ snap'.idem = idem
      BY <1>4, <2>1 DEF SerialInvariant, UnitIsOwn
    <2>3. Debt(Append(auth, turn[a]), Answered(idem)) <= Debt(auth, Answered(idem)) + 1
      BY <1>1, <1>5, DebtOfAppend DEF KeysFit
    <2>4. Debt(snap.state, Answered(snap.idem))' <= crashes' + lost' + (IF up' THEN 1 ELSE 0)
      <3>1. Debt(snap.state, Answered(snap.idem))'
              = Debt(Append(auth, turn[a]), Answered(idem))
        BY <2>2 DEF Debt, RepeatsIn, KeysIn, Answered
      <3>2. Known = Answered(idem)
        BY <1>6, <2>1
      <3>3. Debt(auth, Known) \in Nat /\ Debt(Append(auth, turn[a]), Answered(idem)) \in Nat
        <4>1. Append(auth, turn[a]) \in History
          BY <1>1, AppendProperties DEF History
        <4> QED
          BY <1>1, <4>1, DebtIsNat DEF KeysFit
      <3> QED
        BY <1>1, <1>3, <1>4, <2>1, <2>3, <3>1, <3>2, <3>3
    <2>5. /\ pc'[a] = "flushed" /\ \A x \in Actors \ {a} : pc'[x] = pc[x]
          /\ \A x \in Actors \ {a} : unit'[x] = unit[x]
      BY <1>1, <2>1
    <2>6. \A x \in Actors : Returns(x)' <=> Returns(x)
      BY <2>1, <2>5 DEF Returns
    <2>7. Known' = Known
      BY <2>1, <2>6 DEF Known, Returning, Answered
    <2>8. Debt(auth, Known)' = Debt(auth, Known)
      BY <2>1, <2>7 DEF Debt, RepeatsIn, KeysIn
    <2>9. \A x \in Actors :
            KeyIsOwn(x)' /\ (pc'[x] = "persist" => unit'[x].snap.idem = idem')
      BY <2>1, <2>5 DEF KeyInvariant, KeyIsOwn, Remembered
    <2> QED
      BY <1>4, <2>1, <2>4, <2>8, <2>9 DEF KeyInvariant
  <1>11. CASE KernelCommit(a)
    <2>1. /\ pc[a] = "flushed" /\ auth' = draft.state
          /\ pc' = [pc EXCEPT ![a] = "after"]
          /\ UNCHANGED <<up, idem, snap, crashes, lost, turn, unit>>
      BY <1>11 DEF KernelCommit
    <2>2. auth' = Append(auth, turn[a])
      BY <2>1 DEF SerialInvariant, DraftIsOwn, DraftPhases, Open
    <2>3. pc'[a] = "after" /\ \A x \in Actors \ {a} : pc'[x] = pc[x]
      BY <1>1, <2>1
    <2>4. Known = Answered(idem) /\ \A x \in Actors \ {a} : ~Returns(x)
      BY <1>3, <1>6, <2>1
         DEF SerialInvariant, BusyIsLock, Holds, InTurn, TurnPhases, Returns
    <2>5. Known' = Answered(idem) \cup ({turn[a].key} \ {NoKey})
      <3>1. Returning' = {turn[a].key} \ {NoKey}
        BY <2>1, <2>3, <2>4 DEF Returning, Returns
      <3> QED
        BY <2>1, <3>1 DEF Known, Answered
    <2>6. Debt(auth, Known)' = Debt(auth, Known)
      <3>1. Debt(auth, Known)' =
              Debt(Append(auth, turn[a]), Answered(idem) \cup ({turn[a].key} \ {NoKey}))
        BY <2>2, <2>5 DEF Debt, RepeatsIn, KeysIn
      <3>2. Debt(Append(auth, turn[a]), Answered(idem) \cup ({turn[a].key} \ {NoKey}))
              = Debt(auth, Answered(idem))
        BY <1>1, <1>5, DebtOfAppend DEF KeysFit
      <3> QED
        BY <2>4, <3>1, <3>2
    <2>7. Debt(snap.state, Answered(snap.idem))' = Debt(snap.state, Answered(snap.idem))
      BY <2>1 DEF Debt, RepeatsIn, KeysIn, Answered
    <2>8. \A x \in Actors :
            KeyIsOwn(x)' /\ (pc'[x] = "persist" => unit'[x].snap.idem = idem')
      BY <2>1, <2>3 DEF KeyInvariant, KeyIsOwn, Remembered
    <2> QED
      BY <1>3, <1>4, <2>1, <2>6, <2>7, <2>8 DEF KeyInvariant
  <1>12. CASE EndThrows(a) /\ (pc[a] # "after" \/ turn[a].key = NoKey)
    <2>1. /\ pc' = [pc EXCEPT ![a] = "threw"] /\ lost' \in {lost, lost + 1}
          /\ UNCHANGED <<up, auth, idem, snap, crashes, turn, unit>>
      BY <1>12 DEF EndThrows, liveVars
    <2>2. pc'[a] = "threw" /\ \A x \in Actors \ {a} : pc'[x] = pc[x]
      BY <1>1, <2>1
    <2>3. /\ pc[a] \notin {"committed"}
          /\ \A x \in Actors : Returns(x)' <=> Returns(x)
      BY <1>2, <1>12, <2>1, <2>2 DEF Returns, Results
    <2>4. Known' = Known
      BY <2>1, <2>3 DEF Known, Returning, Answered
    <2>5. /\ Debt(auth, Known)' = Debt(auth, Known)
          /\ Debt(snap.state, Answered(snap.idem))' = Debt(snap.state, Answered(snap.idem))
      BY <2>1, <2>4 DEF Debt, RepeatsIn, KeysIn, Answered
    <2>6. \A x \in Actors :
            KeyIsOwn(x)' /\ (pc'[x] = "persist" => unit'[x].snap.idem = idem')
      BY <2>1, <2>2 DEF KeyInvariant, KeyIsOwn, Remembered
    <2>7. Debt(auth, Known) \in Nat /\ Debt(snap.state, Answered(snap.idem)) \in Nat
      BY <1>1, DebtIsNat DEF KeysFit
    <2> QED
      BY <1>1, <1>3, <1>4, <2>1, <2>5, <2>6, <2>7 DEF KeyInvariant
  <1>13. CASE EndThrows(a) /\ pc[a] = "after" /\ turn[a].key # NoKey
    <2>1. /\ pc' = [pc EXCEPT ![a] = "threw"] /\ lost' = lost + 1
          /\ UNCHANGED <<up, auth, idem, snap, crashes, turn, unit>>
      BY <1>4, <1>13 DEF EndThrows, liveVars, IsPlayer, KeyIsOwn
    <2>2. pc'[a] = "threw" /\ \A x \in Actors \ {a} : pc'[x] = pc[x]
      BY <1>1, <2>1
    <2>3. Known = Answered(idem) \cup {turn[a].key} /\ \A x \in Actors \ {a} : ~Returns(x)
      BY <1>3, <1>13, KnownOfHolder
         DEF SerialInvariant, BusyIsLock, Holds, InTurn, TurnPhases, Returns
    <2>4. Known' = Answered(idem)
      <3>1. Returning' = {}
        BY <2>1, <2>2, <2>3 DEF Returning, Returns
      <3> QED
        BY <2>1, <3>1 DEF Known, Answered
    <2>5. Debt(auth, Known)' <= Debt(auth, Known) + 1
      <3>1. Debt(auth, Known)' = Debt(auth, Answered(idem))
        BY <2>1, <2>4 DEF Debt, RepeatsIn, KeysIn
      <3> QED
        BY <1>1, <2>3, <3>1, DebtOfForgotten DEF KeysFit
    <2>6. /\ Debt(auth, Known) \in Nat /\ Debt(auth, Known)' \in Nat
          /\ Debt(snap.state, Answered(snap.idem)) \in Nat
      <3>1. Debt(auth, Known)' = Debt(auth, Answered(idem))
        BY <2>1, <2>4 DEF Debt, RepeatsIn, KeysIn
      <3> QED
        BY <1>1, <3>1, DebtIsNat DEF KeysFit
    <2>7. Debt(snap.state, Answered(snap.idem))' = Debt(snap.state, Answered(snap.idem))
      BY <2>1 DEF Debt, RepeatsIn, KeysIn, Answered
    <2>8. \A x \in Actors :
            KeyIsOwn(x)' /\ (pc'[x] = "persist" => unit'[x].snap.idem = idem')
      BY <2>1, <2>2 DEF KeyInvariant, KeyIsOwn, Remembered
    <2>9. /\ Debt(auth, Known)' <= crashes' + lost'
          /\ Debt(snap.state, Answered(snap.idem))' <= crashes' + lost' + 1
      BY <1>1, <1>4, <2>1, <2>5, <2>6, <2>7
    <2> QED
      BY <1>3, <2>1, <2>8, <2>9 DEF KeyInvariant
  <1> QED
    BY <1>7, <1>8, <1>9, <1>10, <1>11, <1>12, <1>13 DEF Pipeline
LEMMA KeysCaller ==
  ASSUME OrderlyHost, KeysFit, SerialInvariant, MapsAreBounded, KeyInvariant,
         NEW c \in Clients, Caller(c)
  PROVE  KeyInvariant'
PROOF
  <1> USE DEF bookVars, storeVars, liveVars, callVars, GoTo
  <1>1. /\ c \in Actors /\ c # Pump /\ Pump \in Actors /\ Pump \notin Clients
        /\ pc \in [Actors -> Phases] /\ turn \in [Actors -> Turn]
        /\ turn[c] \in Turn /\ idem \in Answers
    BY SessionAssumption DEF Actors, SerialInvariant, TypeOK
  <1>2. \A x \in Actors :
          KeyIsOwn(x) /\ (pc[x] = "persist" => unit[x].snap.idem = idem)
    BY DEF KeyInvariant
  <1>3. HostTurn.key = NoKey /\ \A j : JobTurn(j).key = NoKey
    BY DEF HostTurn, JobTurn
  <1>4. ASSUME NEW t \in {turn[c], HostTurn} \cup {JobTurn(j) : j \in Jobs},
               NEW q \in {"work", "refused", "idle", "drain"},
               pc[c] \in {"wait", "drain", "threw"} \/ turn[c].job # NoJob,
               t.key # NoKey => q \notin {"idle", "drain"},
               turn' = [turn EXCEPT ![c] = t], pc' = [pc EXCEPT ![c] = q],
               UNCHANGED <<up, auth, idem, snap, crashes, lost, unit>>
        PROVE  KeyInvariant'
    <2>1. /\ pc'[c] = q /\ turn'[c] = t
          /\ \A x \in Actors \ {c} : pc'[x] = pc[x] /\ turn'[x] = turn[x]
      BY <1>1, <1>4
    <2>2. ~Returns(c) /\ ~Returns(c)'
      BY <1>1, <1>2, <1>4, <2>1 DEF Returns, KeyIsOwn
    <2>3. \A x \in Actors :
            /\ turn'[x] = turn[x] \/ turn'[x].key = NoKey
            /\ turn'[x].key # NoKey => pc'[x] \notin {"idle", "drain"}
            /\ Returns(x)' <=> Returns(x)
            /\ Returns(x) => turn'[x].key = turn[x].key
            /\ pc'[x] = "persist" => unit'[x].snap.idem = idem
      BY <1>2, <1>3, <1>4, <2>1, <2>2 DEF Returns, KeyIsOwn
    <2> QED
      BY <1>4, <2>3, KeysQuiet
  <1>5. CASE FindIdle(c)
    BY <1>5 DEF FindIdle, OrderlyHost
  <1>6. CASE Claim(c)
    <2>1. /\ pc[c] = "wait" /\ turn' = [turn EXCEPT ![c] = turn[c]]
          /\ \E q \in {"work", "refused"} : pc' = [pc EXCEPT ![c] = q]
          /\ UNCHANGED <<up, auth, idem, snap, crashes, lost, unit>>
      BY <1>6 DEF Claim, Begin, BeginFrom, OrderlyHost
    <2> QED
      BY <1>4, <2>1
  <1>7. CASE WaitTimeout(c)
    <2>1. /\ pc[c] = "wait" /\ turn' = [turn EXCEPT ![c] = HostTurn]
          /\ pc' = [pc EXCEPT ![c] = "idle"]
          /\ UNCHANGED <<up, auth, idem, snap, crashes, lost, unit>>
      BY <1>7 DEF WaitTimeout
    <2> QED
      BY <1>3, <1>4, <2>1
  <1>threw. CASE PlayerReturns(c) /\ pc[c] = "threw"
    <2>1. /\ turn' = [turn EXCEPT ![c] = HostTurn] /\ pc' = [pc EXCEPT ![c] = "drain"]
          /\ UNCHANGED <<up, auth, idem, snap, crashes, lost, unit>>
      BY <1>threw DEF PlayerReturns, AnswersAfter
    <2> QED
      BY <1>3, <1>4, <1>threw, <2>1
  <1>8. CASE PlayerReturns(c) /\ pc[c] # "threw"
    <2> DEFINE k == turn[c].key
               ok == pc[c] = "committed"
    <2>1. /\ pc[c] \in {"committed", "rejected"}
          /\ idem' = Remember(k, ok)
          /\ turn' = [turn EXCEPT ![c] = HostTurn] /\ pc' = [pc EXCEPT ![c] = "drain"]
          /\ UNCHANGED <<up, auth, snap, crashes, lost, unit>>
      BY <1>8 DEF PlayerReturns, AnswersAfter, Results
    <2>2. /\ pc'[c] = "drain" /\ turn'[c] = HostTurn
          /\ \A x \in Actors \ {c} : pc'[x] = pc[x] /\ turn'[x] = turn[x]
      BY <1>1, <2>1
    <2>3. Holds(c)
      BY <2>1 DEF Holds, InTurn, TurnPhases
    <2>4. /\ k \in Keys \cup {NoKey} /\ ok \in BOOLEAN
          /\ k = NoKey \/ ~Remembered(k)
      BY <1>1, <1>2 DEF Turn, KeyIsOwn
    <2> HIDE DEF k, ok
    <2>5. /\ Answered(idem') = Answered(idem) \cup (IF ok THEN {k} \ {NoKey} ELSE {})
          /\ {e.key : e \in idem'} = {e.key : e \in idem} \cup ({k} \ {NoKey})
      BY <1>1, <2>1, <2>4, RememberAdds, SessionAssumption DEF MapsAreBounded
    <2>6. \A x \in Actors \ {c} : ~Holds(x)
      BY <1>1, <2>3 DEF SerialInvariant, BusyIsLock
    <2>7. \A x \in Actors : ~Returns(x)'
      BY <1>3, <2>2, <2>6 DEF Returns, Holds, InTurn, TurnPhases
    <2>8. Known' = Answered(idem')
      BY <2>7 DEF Known, Returning, Answered
    <2>9. Known = Answered(idem) \cup (IF ok THEN {k} \ {NoKey} ELSE {})
      BY <1>1, <2>1, <2>3, KnownOfHolder DEF Returns, k, ok
    <2>10. Debt(auth, Known)' = Debt(auth, Known)
      BY <2>1, <2>5, <2>8, <2>9 DEF Debt, RepeatsIn, KeysIn
    <2>11. Debt(snap.state, Answered(snap.idem))' = Debt(snap.state, Answered(snap.idem))
      BY <2>1 DEF Debt, RepeatsIn, KeysIn, Answered
    <2>12. \A x \in Actors : KeyIsOwn(x)'
      <3> SUFFICES ASSUME NEW x \in Actors, turn'[x].key # NoKey PROVE KeyIsOwn(x)'
        BY DEF KeyIsOwn
      <3>1. x # c /\ turn'[x] = turn[x] /\ pc'[x] = pc[x] /\ KeyIsOwn(x)
        BY <1>2, <1>3, <2>2
      <3>2. turn[x].key # k
        BY <1>1, <3>1 DEF KeyIsOwn, k
      <3>3. turn[x].key \notin {e.key : e \in idem}
        BY <3>1 DEF KeyIsOwn, Remembered
      <3>4. turn[x].key \notin {e.key : e \in idem'}
        BY <2>5, <3>2, <3>3
      <3>5. ~Remembered(turn[x].key)'
        BY <3>1, <3>4 DEF Remembered
      <3>6. \A b \in Actors : turn'[b].key = turn'[x].key => b = x
        BY <1>3, <2>2, <3>1 DEF KeyIsOwn
      <3> QED
        BY <3>1, <3>5, <3>6 DEF KeyIsOwn
    <2>13. \A x \in Actors : pc'[x] # "persist"
      BY <2>2, <2>6 DEF Holds, InTurn, TurnPhases, DraftPhases
    <2> QED
      BY <2>1, <2>10, <2>11, <2>12, <2>13 DEF KeyInvariant
  <1>9. CASE DrainNext(c)
    <2>1. /\ pc[c] = "drain" /\ batch[c] # <<>>
          /\ turn' = [turn EXCEPT ![c] = JobTurn(Head(batch[c]))]
          /\ \E q \in {"work", "refused"} : pc' = [pc EXCEPT ![c] = q]
          /\ UNCHANGED <<up, auth, idem, snap, crashes, lost, unit>>
      BY <1>9 DEF DrainNext, Begin, BeginFrom
    <2>2. Head(batch[c]) \in Jobs
      BY <1>1, <2>1, HeadTailProperties DEF SerialInvariant, TypeOK
    <2> QED
      BY <1>3, <1>4, <2>1, <2>2
  <1>10. CASE DrainOverflow(c)
    BY <1>2, <1>10, KeysQuiet DEF DrainOverflow, KeyIsOwn, Returns
  <1>11. CASE InlineReturns(c)
    <2>1. /\ turn[c].job # NoJob /\ turn' = [turn EXCEPT ![c] = HostTurn]
          /\ pc' = [pc EXCEPT ![c] = "drain"]
          /\ UNCHANGED <<up, auth, idem, snap, crashes, lost, unit>>
      BY <1>11 DEF InlineReturns, Results, IsPlayer
    <2> QED
      BY <1>3, <1>4, <2>1
  <1>12. CASE LeaveToPump(c)
    <2>1. /\ pc[c] = "drain" /\ pc[Pump] = "idle"
          /\ turn' = [turn EXCEPT ![Pump] = JobTurn(Head(bgQ))]
          /\ \E q \in {"work", "refused"} :
               pc' = [[pc EXCEPT ![c] = "idle"] EXCEPT ![Pump] = q]
          /\ UNCHANGED <<up, auth, idem, snap, crashes, lost, unit>>
      BY <1>12 DEF LeaveToPump, StartJob, BeginFrom
    <2>2. /\ pc'[c] = "idle" /\ pc'[Pump] \in {"work", "refused"}
          /\ turn'[Pump].key = NoKey /\ turn'[c] = turn[c]
          /\ \A x \in Actors \ {c, Pump} : pc'[x] = pc[x] /\ turn'[x] = turn[x]
      BY <1>1, <1>3, <2>1
    <2>3. \A x \in Actors :
            /\ turn'[x] = turn[x] \/ turn'[x].key = NoKey
            /\ turn'[x].key # NoKey => pc'[x] \notin {"idle", "drain"}
            /\ Returns(x)' <=> Returns(x)
            /\ Returns(x) => turn'[x].key = turn[x].key
            /\ pc'[x] = "persist" => unit'[x].snap.idem = idem
      BY <1>1, <1>2, <2>1, <2>2 DEF Returns, KeyIsOwn
    <2> QED
      BY <2>1, <2>3, KeysQuiet
  <1>13. CASE Leave(c)
    <2>1. /\ pc[c] = "drain" /\ pc' = [pc EXCEPT ![c] = "idle"]
          /\ UNCHANGED <<up, auth, idem, snap, crashes, lost, unit, turn>>
      BY <1>13 DEF Leave
    <2>2. turn' = [turn EXCEPT ![c] = turn[c]] /\ turn[c].key = NoKey
      BY <1>1, <1>2, <2>1 DEF KeyIsOwn
    <2> QED
      BY <1>4, <2>1, <2>2
  <1> QED
    BY <1>5, <1>6, <1>7, <1>8, <1>9, <1>10, <1>11, <1>12, <1>13,
       <1>threw DEF Caller
LEMMA KeysOtherSteps ==
  ASSUME OrderlyHost, KeysFit, SerialInvariant, KeyInvariant,
         \/ SubmitSystemTurn \/ OpsReturns \/ PumpContinues \/ PumpStops
         \/ Zombie \/ ReadForSave \/ WriteSave \/ Crash \/ Reload
  PROVE  KeyInvariant'
PROOF
  <1> USE DEF bookVars, storeVars, liveVars, callVars, GoTo
  <1>1. /\ Pump \in Actors /\ Ops \in Actors /\ Pump \notin Clients /\ Ops \notin Clients
        /\ pc \in [Actors -> Phases] /\ turn \in [Actors -> Turn] /\ crashes \in Nat /\ lost \in Nat
        /\ snap.state \in History /\ snap.idem \subseteq Answer
    BY SessionAssumption DEF Actors, SerialInvariant, TypeOK, Snapshot, Answers
  <1>2. \A x \in Actors :
          KeyIsOwn(x) /\ (pc[x] = "persist" => unit[x].snap.idem = idem)
    BY DEF KeyInvariant
  <1>3. HostTurn.key = NoKey /\ \A j : JobTurn(j).key = NoKey
    BY DEF HostTurn, JobTurn
  <1>4. \A x \in {Pump, Ops} : turn[x].key = NoKey
    BY <1>1, <1>2 DEF KeyIsOwn
  <1>5. ASSUME NEW a \in {Pump, Ops}, NEW t, t.key = NoKey,
               NEW q \in {"work", "refused", "idle"},
               turn' = [turn EXCEPT ![a] = t], pc' = [pc EXCEPT ![a] = q],
               UNCHANGED <<up, auth, idem, snap, crashes, lost, unit>>
        PROVE  KeyInvariant'
    <2>1. /\ pc'[a] = q /\ turn'[a] = t
          /\ \A x \in Actors \ {a} : pc'[x] = pc[x] /\ turn'[x] = turn[x]
      BY <1>1, <1>5
    <2>2. \A x \in Actors :
            /\ turn'[x] = turn[x] \/ turn'[x].key = NoKey
            /\ turn'[x].key # NoKey => pc'[x] \notin {"idle", "drain"}
            /\ Returns(x)' <=> Returns(x)
            /\ Returns(x) => turn'[x].key = turn[x].key
            /\ pc'[x] = "persist" => unit'[x].snap.idem = idem
      BY <1>2, <1>4, <1>5, <2>1 DEF Returns, KeyIsOwn
    <2> QED
      BY <1>5, <2>2, KeysQuiet
  <1>6. CASE SubmitSystemTurn
    <2>1. /\ turn' = [turn EXCEPT ![Ops] = HostTurn]
          /\ \E q \in {"work", "refused"} : pc' = [pc EXCEPT ![Ops] = q]
          /\ UNCHANGED <<up, auth, idem, snap, crashes, lost, unit>>
      BY <1>6 DEF SubmitSystemTurn, Begin, BeginFrom
    <2> QED
      BY <1>3, <1>5, <2>1
  <1>7. CASE OpsReturns
    <2>1. /\ turn' = [turn EXCEPT ![Ops] = turn[Ops]]
          /\ pc' = [pc EXCEPT ![Ops] = "idle"]
          /\ UNCHANGED <<up, auth, idem, snap, crashes, lost, unit>>
      BY <1>1, <1>7 DEF OpsReturns, Results
    <2> QED
      BY <1>4, <1>5, <2>1
  <1>8. CASE PumpContinues
    <2>1. /\ turn' = [turn EXCEPT ![Pump] = JobTurn(Head(bgQ))]
          /\ \E q \in {"work", "refused"} : pc' = [pc EXCEPT ![Pump] = q]
          /\ UNCHANGED <<up, auth, idem, snap, crashes, lost, unit>>
      BY <1>8 DEF PumpContinues, StartJob, BeginFrom
    <2> QED
      BY <1>3, <1>5, <2>1
  <1>9. CASE PumpStops
    <2>1. /\ turn' = [turn EXCEPT ![Pump] = HostTurn]
          /\ pc' = [pc EXCEPT ![Pump] = "idle"]
          /\ UNCHANGED <<up, auth, idem, snap, crashes, lost, unit>>
      BY <1>9 DEF PumpStops, Results
    <2> QED
      BY <1>3, <1>5, <2>1
  <1>10. CASE Zombie \/ WriteSave
    BY <1>10 DEF Zombie, WriteSave, SerialInvariant, PhasesInUse
  <1>11. CASE ReadForSave
    BY <1>11 DEF ReadForSave, OrderlyHost, SerialInvariant, TypeOK
  <1>12. CASE Crash
    <2>1. /\ up /\ ~up' /\ crashes' = crashes + 1 /\ UNCHANGED snap
          /\ lost' = lost
          /\ \A x \in Actors : pc'[x] = "idle" /\ turn'[x].key = NoKey
      BY <1>3, <1>12 DEF Crash
    <2>2. Debt(snap.state, Answered(snap.idem))' = Debt(snap.state, Answered(snap.idem))
      BY <2>1 DEF Debt, RepeatsIn, KeysIn, Answered
    <2>3. Debt(snap.state, Answered(snap.idem)) <= crashes + lost + 1
      BY <2>1 DEF KeyInvariant
    <2> QED
      <3>1. Debt(snap.state, Answered(snap.idem)) \in Nat
        BY <1>1, DebtIsNat DEF KeysFit
      <3>2. Debt(snap.state, Answered(snap.idem))' <= crashes' + lost' + 0
        BY <1>1, <2>1, <2>2, <2>3, <3>1
      <3> QED
        BY <2>1, <3>2 DEF KeyInvariant, KeyIsOwn
  <1>13. CASE Reload
    <2>1. /\ ~up /\ up' /\ auth' = snap.state
          /\ idem' = Renumber({e \in snap.idem : e.ok})
          /\ UNCHANGED <<snap, unit, crashes, lost>>
      BY <1>13 DEF Reload, LoadedState
    <2>2. \A x \in Actors : pc[x] = "idle" /\ turn[x].key = NoKey
      BY <1>2, <2>1 DEF SerialInvariant, DownIsIdle, KeyIsOwn
    <2>3. \/ UNCHANGED <<pc, turn>>
          \/ \E q \in {"work", "refused"} :
               /\ turn' = [turn EXCEPT ![Pump] = JobTurn(Head(snap.bgQ))]
               /\ pc' = [pc EXCEPT ![Pump] = q]
      BY <1>13 DEF Reload, StartJob, BeginFrom
    <2>4. \A x \in Actors :
            turn'[x].key = NoKey /\ pc'[x] \notin {"persist", "after", "committed"}
      BY <1>1, <1>3, <2>2, <2>3
    <2>5. Known' = Answered(snap.idem)
      <3> DEFINE kept == {e \in snap.idem : e.ok}
      <3>1. kept \in SUBSET Answer /\ Answered(kept) = Answered(snap.idem)
        BY <1>1 DEF Answered
      <3> HIDE DEF kept
      <3>2. Answered(Renumber(kept)) = Answered(snap.idem)
        BY <3>1, RenumberKeeps
      <3>3. Returning' = {}
        BY <2>4 DEF Returning, Returns
      <3> QED
        BY <2>1, <3>2, <3>3 DEF Known, Answered, kept
    <2>6. /\ Debt(auth, Known)' = Debt(snap.state, Answered(snap.idem))
          /\ Debt(snap.state, Answered(snap.idem))'
               = Debt(snap.state, Answered(snap.idem))
      BY <2>1, <2>5 DEF Debt, RepeatsIn, KeysIn, Answered
    <2>7. Debt(snap.state, Answered(snap.idem)) <= crashes + lost
      <3>1. Debt(snap.state, Answered(snap.idem)) <= crashes + lost + 0
        BY <2>1 DEF KeyInvariant
      <3> QED
        BY <1>1, <3>1
    <2>8. Debt(snap.state, Answered(snap.idem)) \in Nat
      BY <1>1, DebtIsNat DEF KeysFit
    <2>9. Debt(snap.state, Answered(snap.idem)) <= crashes + lost + 1
      BY <1>1, <2>7, <2>8
    <2> QED
      BY <2>1, <2>4, <2>6, <2>7, <2>9 DEF KeyInvariant, KeyIsOwn
  <1> QED
    BY <1>6, <1>7, <1>8, <1>9, <1>10, <1>11, <1>12, <1>13

LEMMA KeysInit == ASSUME KeysFit, Init PROVE KeyInvariant
PROOF
  <1>1. /\ auth = <<>> /\ snap = EmptySnapshot /\ idem = {} /\ crashes = 0 /\ lost = 0 /\ up
        /\ \A x \in Actors : pc[x] = "idle" /\ turn[x].key = NoKey
    BY DEF Init, HostTurn
  <1>2. RepeatsIn(<<>>) = {} /\ KeysIn(<<>>) = {}
    BY DEF RepeatsIn, KeysIn
  <1>3. \A K : Debt(<<>>, K) = 0
    <2> SUFFICES ASSUME NEW K PROVE Debt(<<>>, K) = 0
      OBVIOUS
    <2>1. KeysIn(<<>>) \ K = {}
      BY <1>2
    <2>2. Cardinality(RepeatsIn(<<>>)) = 0 /\ Cardinality(KeysIn(<<>>) \ K) = 0
      BY <1>2, <2>1, FS_EmptySet
    <2> QED
      BY <2>2 DEF Debt
  <1>4. snap.state = <<>>
    BY <1>1 DEF EmptySnapshot
  <1>5. /\ Debt(auth, Known) <= crashes + lost
        /\ Debt(snap.state, Answered(snap.idem)) <= crashes + lost + 1
    BY <1>1, <1>3, <1>4
  <1> QED
    BY <1>1, <1>5 DEF KeyInvariant, KeyIsOwn

LEMMA KeysNext ==
  ASSUME OrderlyHost, KeysFit, SerialInvariant, MapsAreBounded, KeyInvariant,
         [Next]_vars
  PROVE  KeyInvariant'
PROOF
  <1> USE DEF bookVars, storeVars, liveVars, callVars, GoTo
  <1>1. /\ pc \in [Actors -> Phases] /\ turn \in [Actors -> Turn]
        /\ Clients \subseteq Actors
    BY DEF Actors, SerialInvariant, TypeOK
  <1>2. \A x \in Actors :
          KeyIsOwn(x) /\ (pc[x] = "persist" => unit[x].snap.idem = idem)
    BY DEF KeyInvariant
  <1>3. ASSUME UNCHANGED <<liveVars, callVars, crashes, lost, snap>> PROVE KeyInvariant'
    BY <1>2, <1>3, KeysQuiet DEF KeyIsOwn, Returns
  <1>4. ASSUME NEW c \in Clients, NEW k \in Keys \cup {NoKey}, Submit(c, k)
        PROVE  KeyInvariant'
    <2>1. /\ pc[c] = "idle" /\ pc' = [pc EXCEPT ![c] = "wait"] /\ ~Remembered(k)
          /\ k = NoKey \/ \A d \in Clients : turn[d].key # k
          /\ turn' = [turn EXCEPT ![c] = PlayerTurn(k)]
          /\ UNCHANGED <<up, auth, idem, crashes, lost, snap, unit>>
      BY <1>4 DEF Submit, KeysFit
    <2>2. /\ pc'[c] = "wait" /\ turn'[c].key = k /\ turn'[c].job = NoJob
          /\ \A x \in Actors \ {c} : pc'[x] = pc[x] /\ turn'[x] = turn[x]
      BY <1>1, <2>1 DEF PlayerTurn
    <2>3. \A x \in Actors : /\ Returns(x)' <=> Returns(x)
                            /\ Returns(x) => turn'[x] = turn[x]
      BY <1>1, <2>1, <2>2 DEF Returns
    <2>4. Known' = Known
      BY <2>1, <2>3 DEF Known, Returning, Answered
    <2>5. /\ Debt(auth, Known)' = Debt(auth, Known)
          /\ Debt(snap.state, Answered(snap.idem))' = Debt(snap.state, Answered(snap.idem))
      BY <2>1, <2>4 DEF Debt, RepeatsIn, KeysIn, Answered
    <2>6. k # NoKey => \A x \in Actors \ {c} : turn'[x].key # k
      BY <1>2, <2>1, <2>2 DEF KeyIsOwn
    <2>7. \A x \in Actors : KeyIsOwn(x)'
      <3> SUFFICES ASSUME NEW x \in Actors PROVE KeyIsOwn(x)'
        OBVIOUS
      <3>1. CASE x = c
        BY <2>1, <2>2, <2>6, <3>1 DEF KeyIsOwn, Remembered
      <3>2. CASE x # c
        BY <1>2, <2>1, <2>2, <2>6, <3>2 DEF KeyIsOwn, Remembered
      <3> QED
        BY <3>1, <3>2
    <2>8. \A x \in Actors : pc'[x] = "persist" => unit'[x].snap.idem = idem'
      BY <1>2, <2>1, <2>2
    <2> QED
      BY <2>1, <2>5, <2>7, <2>8 DEF KeyInvariant
  <1>5. CASE UNCHANGED vars
    BY <1>3, <1>5 DEF vars
  <1>6. CASE \E c \in Clients, k \in Keys \cup {NoKey} : ReplayAnswer(c, k)
    BY <1>3, <1>6 DEF ReplayAnswer
  <1>7. CASE \/ \E c \in Clients : Caller(c)
             \/ \E a \in Actors : Pipeline(a)
    BY <1>7, KeysCaller, KeysPipeline
  <1>8. CASE \/ SubmitSystemTurn \/ OpsReturns \/ PumpContinues \/ PumpStops
             \/ Zombie \/ ReadForSave \/ WriteSave \/ Crash \/ Reload
    BY <1>8, KeysOtherSteps
  <1> QED
    BY <1>4, <1>5, <1>6, <1>7, <1>8 DEF Next

-----------------------------------------------------------------------------
\* What crashes and exceptions account for, in memory and in the store
\* (session-runtime.ts submitAction, rememberIdempotency, loadSession).
THEOREM KeysAccounted ==
  ASSUME OrderlyHost, KeysFit PROVE Spec => []KeyInvariant
PROOF
  <1>1. Init => KeyInvariant
    BY KeysFit, KeysInit
  <1>2. SerialInvariant /\ AnswersInvariant /\ KeyInvariant /\ [Next]_vars
          => KeyInvariant'
    BY OrderlyHost, KeysFit, KeysNext DEF AnswersInvariant
  <1> QED
    BY <1>1, <1>2, SerialSession, AnswersKept, PTL DEF Spec

\* An action that is retried with the same clientActionId commits again at most
\* as often as the process has crashed or an end interceptor has thrown after a
\* commit (turn-pipeline.ts stageCommit stores the answers of the turns before,
\* session-runtime.ts submitAction looks them up and remembers no exception).
THEOREM ActionsRepeatOnlyUnanswered ==
  ASSUME OrderlyHost, KeysFit PROVE Spec => []ActionRepeatsOnlyUnanswered
PROOF
  <1>1. ASSUME SerialInvariant, KeyInvariant PROVE ActionRepeatsOnlyUnanswered
    <2>1. /\ auth \in History /\ snap.state \in History /\ crashes \in Nat /\ lost \in Nat
          /\ turn \in [Actors -> Turn] /\ idem \in Answers
      BY <1>1 DEF SerialInvariant, TypeOK, Snapshot
    <2>2. RepeatedActions = RepeatsIn(snap.state)
      BY DEF RepeatedActions, RepeatsIn
    <2>3. Cardinality(RepeatsIn(snap.state)) \in Nat
      BY <2>1, DebtIsNat DEF KeysFit
    <2>4. CASE ~up
      <3>1. Debt(snap.state, Answered(snap.idem)) <= crashes + lost + 0
        BY <1>1, <2>4 DEF KeyInvariant
      <3>2. /\ Debt(snap.state, Answered(snap.idem)) \in Nat
            /\ Cardinality(RepeatsIn(snap.state))
                 <= Debt(snap.state, Answered(snap.idem))
        BY <2>1, DebtIsNat DEF KeysFit
      <3> QED
        BY <2>1, <2>2, <2>3, <3>1, <3>2 DEF ActionRepeatsOnlyUnanswered
    <2>5. CASE up /\ \A a \in Actors : pc[a] # "flushed"
      <3>1. auth = snap.state
        BY <1>1, <2>5 DEF SerialInvariant, StoreInStep
      <3>2. Debt(auth, Known) <= crashes + lost
        BY <1>1, <2>5 DEF KeyInvariant
      <3>3. /\ Debt(auth, Known) \in Nat
            /\ Cardinality(RepeatsIn(auth)) <= Debt(auth, Known)
        BY <2>1, DebtIsNat DEF KeysFit
      <3> QED
        BY <2>1, <2>2, <2>3, <3>1, <3>2, <3>3 DEF ActionRepeatsOnlyUnanswered
    <2>6. CASE up /\ \E a \in Actors : pc[a] = "flushed"
      <3> PICK a \in Actors : pc[a] = "flushed"
        BY <2>6
      <3>1. snap.state = Append(auth, turn[a]) /\ turn[a] \in Turn
        BY <1>1, <2>1 DEF SerialInvariant, StoreInStep
      <3>2. Known = Answered(idem)
        BY <1>1, KnownOfHolder
           DEF Holds, InTurn, TurnPhases, DraftPhases, Returns
      <3>3. turn[a].key \notin Answered(idem)
        BY <1>1, <2>1, <3>1, SessionAssumption
           DEF KeyInvariant, KeyIsOwn, Remembered, Answered, Answers, Answer
      <3>4. Cardinality(RepeatsIn(snap.state)) <= Debt(auth, Answered(idem))
        BY <2>1, <3>1, <3>3, DebtOfAppend DEF KeysFit
      <3>5. Debt(auth, Answered(idem)) <= crashes + lost
        BY <1>1, <2>6, <3>2 DEF KeyInvariant
      <3>6. Debt(auth, Answered(idem)) \in Nat
        BY <2>1, DebtIsNat DEF KeysFit
      <3> QED
        BY <2>1, <2>2, <2>3, <3>4, <3>5, <3>6 DEF ActionRepeatsOnlyUnanswered
    <2> QED
      BY <2>4, <2>5, <2>6
  <1> QED
    BY <1>1, SerialSession, KeysAccounted, PTL
=============================================================================
