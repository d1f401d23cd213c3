----------------------------- MODULE PlayProofs -----------------------------
(***************************************************************************)
(* Proofs about the play page and its host, for every set of submissions,  *)
(* of clients and of system turns, every limit of the host, and any number *)
(* of faults. The invariant has one part about the host, HostOK, and one   *)
(* about the page, PageOK, which needs of the host only what is published. *)
(***************************************************************************)
EXTENDS PlayProperties, SequenceTheorems, FiniteSetTheorems, TLAPS

-----------------------------------------------------------------------------
(* The host                                                                *)

Ended == {"committed", "rejected"}
Announcement ==
  [type : {"started", "delta", "passage", "committed", "rejected"}, turn : TurnIds]
Told(pub) == {pub[k] : k \in DOMAIN pub}

HostTyped ==
  /\ sub \in [Submits -> {"new", "waiting", "running", "ended"}]
  /\ captured \in [Submits -> TurnIds \cup {None}]
  /\ answer \in [Submits -> {"none", "pending", "accepted", "error"}]
  /\ named \in [Submits -> TurnIds \cup {None}]
  /\ activeTurns \in 0..MaxConcurrent
  /\ jobs \in [TurnIds -> {"none", "running", "committed", "rejected"}]
  /\ engine \in [turn : TurnIds \cup {None}, phase : {"idle", "running", "closing", "left"}]
  /\ outcome \in [TurnIds -> {"none", "committed", "rejected", "threw"}]
  /\ deltas \in 0..MaxDeltas /\ narrator \in [Submits -> {"none", "adrift", "late"}]
  /\ lastPassage \in Submits \cup {None} /\ published \in Seq(Submits)
  /\ stream \in {"opening", "open", "lost"} /\ silent \in BOOLEAN /\ events \in Seq(Announcement)

\* The turn that runs has not ended, and one that is an action's has the action
\* wait for it; the action has taken some turn for its own.
EngineFits ==
  /\ engine.phase \in {"idle", "left"} <=> engine.turn = None
  /\ engine.phase = "running" => outcome[engine.turn] = "none"
  /\ engine.phase = "closing" => outcome[engine.turn] \in Ended
  /\ \A i \in Submits :
       /\ engine.turn = i => sub[i] = "running"
       /\ sub[i] = "running" =>
            captured[i] # None /\ (engine.turn # i => outcome[i] \in Ended)
       /\ sub[i] \in {"new", "waiting"} => outcome[i] = "none"
       /\ outcome[i] = "threw" => sub[i] = "ended"
       /\ \A j \in Submits : sub[i] = "running" /\ sub[j] = "running" => i = j

\* What was published is what committed, once each, the last being the
\* session's; the stream tells of no other passage.
PublishedFits ==
  /\ \A j, k \in DOMAIN published : published[j] = published[k] => j = k
  /\ \A t \in Told(published) : outcome[t] # "none"
  /\ lastPassage = IF published = <<>> THEN None ELSE published[Len(published)]
  /\ \A k \in DOMAIN events :
       events[k].type = "passage" => events[k].turn \in Told(published)

\* What a job says: an action's what became of it, once it has ended; until then
\* it runs if a 202 named it, and that of a module's turn for ever.
Says(t) ==
  IF t \in Submits /\ sub[t] = "ended" THEN outcome[t]
  ELSE IF \E i \in Submits : named[i] = t THEN "running" ELSE "none"

\* An action's turn was taken for someone's own only if it began; a 202 names the
\* turn that was taken, or that of the action when this has ended.
JobsFit ==
  /\ \A t \in Submits : (\E i \in Submits : captured[i] = t) =>
       /\ sub[t] \in {"running", "ended"}
       /\ sub[t] = "ended" => outcome[t] # "none"
  /\ \A i \in Submits :
       /\ named[i] \in {None, captured[i]} \/ (named[i] = i /\ sub[i] = "ended")
       /\ answer[i] # "accepted" => named[i] = None
       /\ answer[i] = "none" <=> sub[i] = "new"
  /\ \A t \in TurnIds : ~ThrewFor(t) => jobs[t] = Says(t)

HostOK == HostTyped /\ EngineFits /\ PublishedFits /\ JobsFit


\* Events are added at the end, or not at all.
LEMMA BroadcastsAppend ==
  ASSUME NEW evs \in Seq(Announcement), Broadcast(evs),
         events \in Seq(Announcement)
  PROVE  /\ events' \in Seq(Announcement)
         /\ \A k \in DOMAIN events' :
              \/ k \in DOMAIN events /\ events'[k] = events[k]
              \/ \E j \in DOMAIN evs : events'[k] = evs[j]
<1>1. CASE stream = "open"
  <2>1. events' = events \o evs  BY <1>1 DEF Broadcast
  <2>2. /\ events' \in Seq(Announcement) /\ Len(events') = Len(events) + Len(evs)
        /\ \A k \in 1..Len(events') :
             events'[k] = IF k <= Len(events) THEN events[k] ELSE evs[k - Len(events)]
    BY <2>1
  <2>3. \A k \in 1..Len(events') : k > Len(events) => k - Len(events) \in DOMAIN evs
    BY <2>2
  <2> QED  BY <2>2, <2>3
<1>2. CASE stream # "open"  BY <1>2 DEF Broadcast
<1> QED  BY <1>1, <1>2

\* A turn that starts may be taken by the actions that wait.
LEMMA StartsAreTaken ==
  ASSUME NEW t \in TurnIds, HostTyped, EngineFits, Starts(t)
  PROVE  /\ captured' \in [Submits -> TurnIds \cup {None}]
         /\ engine' = [turn |-> t, phase |-> "running"] /\ deltas' \in 0..MaxDeltas
         /\ events' \in Seq(Announcement)
         /\ \A k \in DOMAIN events' : events'[k].type = "passage" =>
              k \in DOMAIN events /\ events'[k] = events[k]
         /\ \A i \in Submits :
              /\ captured'[i] \in {captured[i], t}
              /\ captured[i] # None => captured'[i] = captured[i]
              /\ captured'[i] # captured[i] => Subscribed(i)
              /\ Subscribed(i) => captured'[i] # None
<1> USE HostTurnsAssumption
<1> DEFINE evs == <<Event("started", t)>>
<1>1. evs \in Seq(Announcement)  BY DEF Event, Announcement
<1>2. Broadcast(evs)  BY DEF Starts
<1>3. \A j \in DOMAIN evs : evs[j].type = "started"  BY DEF Event
<1>4. events \in Seq(Announcement)  BY DEF HostTyped
<1> HIDE DEF evs
<1>5. /\ events' \in Seq(Announcement)
      /\ \A k \in DOMAIN events' :
           \/ k \in DOMAIN events /\ events'[k] = events[k]
           \/ \E j \in DOMAIN evs : events'[k] = evs[j]
  BY <1>1, <1>2, <1>4, BroadcastsAppend
<1>6. t # None  BY DEF TurnIds
<1>7. /\ engine' = [turn |-> t, phase |-> "running"] /\ deltas' = 0
      /\ captured' = [i \in Submits |->
           IF Subscribed(i) /\ captured[i] = None THEN t ELSE captured[i]]
  BY DEF Starts
<1>8. captured \in [Submits -> TurnIds \cup {None}]  BY DEF HostTyped
<1> QED  BY <1>3, <1>5, <1>6, <1>7, <1>8

\* What was said of the jobs holds while they, and what is known of their actions,
\* stay.
LEMMA JobsStay ==
  ASSUME JobsFit, UNCHANGED <<sub, captured, answer, named, jobs>>,
         \A i \in Submits : sub[i] = "ended" => outcome'[i] = outcome[i],
         \A i \in Submits : outcome[i] = "threw" => outcome'[i] = "threw"
  PROVE  JobsFit'
<1>1. \A t \in TurnIds : ~ThrewFor(t)' => ~ThrewFor(t)  BY DEF ThrewFor
<1>2. \A t \in TurnIds : Says(t)' = Says(t)  BY DEF Says
<1> QED  BY <1>1, <1>2 DEF JobsFit

LEMMA SubmitKeepsHost ==
  ASSUME HostOK, NEW i \in Submits, SubmitArrives(i)
  PROVE  HostOK'
<1> USE HostTurnsAssumption DEF HostOK, serviceVars, engineVars, streamVars
<1>1. HostTyped'
  <2>1. /\ sub' \in [Submits -> {"new", "waiting", "running", "ended"}]
        /\ answer' \in [Submits -> {"none", "pending", "accepted", "error"}]
    BY DEF HostTyped, SubmitArrives
  <2>2. activeTurns' \in 0..MaxConcurrent  BY DEF HostTyped, SubmitArrives, HasSlot
  <2> QED  BY <2>1, <2>2 DEF HostTyped, SubmitArrives
<1>2. EngineFits'  BY DEF HostTyped, EngineFits, SubmitArrives, Ended
<1>3. PublishedFits'  BY DEF PublishedFits, SubmitArrives, Told
<1>4. JobsFit'
  <2>1. /\ jobs' = jobs /\ outcome' = outcome /\ captured' = captured /\ named' = named
        /\ \A t \in Submits : sub'[t] = IF t = i THEN sub'[i] ELSE sub[t]
        /\ sub[i] = "new" /\ sub'[i] \in {"waiting", "ended"}
        /\ \A j \in Submits : j # i => answer'[j] = answer[j]
        /\ answer'[i] \in {"pending", "error"}
    BY DEF SubmitArrives, HostTyped
  <2>2. /\ ~\E j \in Submits : captured[j] = i
        /\ ~\E j \in Submits : named[j] = i
    <3>1. ~\E j \in Submits : captured[j] = i  BY <2>1 DEF JobsFit
    <3>2. i # None  OBVIOUS
    <3> QED  BY <2>1, <3>1, <3>2 DEF JobsFit
  <2>3. named[i] = None  BY <2>1 DEF JobsFit
  <2>4. outcome[i] = "none"  BY <2>1 DEF EngineFits
  <2>5. \A t \in TurnIds : ThrewFor(t)' <=> ThrewFor(t)  BY <2>1 DEF ThrewFor
  <2>6. \A t \in TurnIds : Says(t)' = Says(t)
    BY <2>1, <2>2, <2>4 DEF Says
  <2>7. \A t \in TurnIds : ~ThrewFor(t)' => jobs'[t] = Says(t)'
    BY <2>1, <2>5, <2>6 DEF JobsFit
  <2>8. \A t \in Submits : (\E j \in Submits : captured'[j] = t) =>
          /\ sub'[t] \in {"running", "ended"}
          /\ sub'[t] = "ended" => outcome'[t] # "none"
    BY <2>1, <2>2 DEF JobsFit
  <2>9. \A j \in Submits :
          /\ named'[j] \in {None, captured'[j]} \/ (named'[j] = j /\ sub'[j] = "ended")
          /\ answer'[j] # "accepted" => named'[j] = None
          /\ answer'[j] = "none" <=> sub'[j] = "new"
    BY <2>1, <2>3 DEF JobsFit
  <2> QED  BY <2>7, <2>8, <2>9 DEF JobsFit
<1> QED  BY <1>1, <1>2, <1>3, <1>4

LEMMA PlayerTurnKeepsHost ==
  ASSUME HostOK, NEW i \in Submits, StartPlayerTurn(i)
  PROVE  HostOK'
<1> USE HostTurnsAssumption DEF HostOK, serviceVars, engineVars, streamVars
<1>1. i \in TurnIds  BY DEF TurnIds
<1>2. Starts(i)  BY DEF StartPlayerTurn
<1>3. /\ captured' \in [Submits -> TurnIds \cup {None}]
      /\ engine' = [turn |-> i, phase |-> "running"] /\ deltas' \in 0..MaxDeltas
      /\ events' \in Seq(Announcement)
      /\ \A k \in DOMAIN events' : events'[k].type = "passage" =>
           k \in DOMAIN events /\ events'[k] = events[k]
      /\ \A j \in Submits :
           /\ captured'[j] \in {captured[j], i}
           /\ captured[j] # None => captured'[j] = captured[j]
           /\ captured'[j] # captured[j] => Subscribed(j)
           /\ Subscribed(j) => captured'[j] # None
  BY <1>1, <1>2, StartsAreTaken
<1>4. /\ sub[i] = "waiting" /\ \A j \in Submits : sub[j] # "running"
      /\ sub' = [sub EXCEPT ![i] = "running"] /\ jobs' = jobs /\ outcome' = outcome
  BY DEF StartPlayerTurn, Busy
<1>5. HostTyped'  BY <1>1, <1>3 DEF HostTyped, StartPlayerTurn
<1>6. EngineFits'
  <2>1. outcome[i] = "none"  BY <1>4 DEF EngineFits
  <2>2. Subscribed(i) /\ i # None  BY <1>4 DEF Subscribed
  <2> QED  BY <1>3, <1>4, <2>1, <2>2 DEF EngineFits, HostTyped
<1>7. PublishedFits'  BY <1>3 DEF PublishedFits, StartPlayerTurn, Told
<1>8. JobsFit'
  <2>1. /\ jobs' = jobs /\ outcome' = outcome /\ named' = named /\ answer' = answer
        /\ \A t \in Submits : sub'[t] = sub[t] \/ (t = i /\ sub'[t] = "running")
    BY <1>4 DEF HostTyped, StartPlayerTurn
  <2>2. \A t \in TurnIds : ~ThrewFor(t)' => ~ThrewFor(t)
    BY <1>3, <1>4, <2>1 DEF ThrewFor, EngineFits, Subscribed
  <2>3. \A t \in TurnIds : Says(t)' = Says(t)  BY <1>4, <2>1 DEF Says, HostTyped
  <2>4. \A t \in TurnIds : ~ThrewFor(t)' => jobs'[t] = Says(t)'
    BY <2>1, <2>2, <2>3 DEF JobsFit
  <2>5. \A t \in Submits : (\E j \in Submits : captured'[j] = t) =>
          /\ sub'[t] \in {"running", "ended"}
          /\ sub'[t] = "ended" => outcome'[t] # "none"
    BY <1>1, <1>3, <1>4, <2>1 DEF JobsFit, HostTyped
  <2>6. \A j \in Submits :
          /\ named'[j] \in {None, captured'[j]} \/ (named'[j] = j /\ sub'[j] = "ended")
          /\ answer'[j] # "accepted" => named'[j] = None
          /\ answer'[j] = "none" <=> sub'[j] = "new"
    BY <1>3, <1>4, <2>1 DEF JobsFit, HostTyped
  <2> QED  BY <2>4, <2>5, <2>6 DEF JobsFit
<1> QED  BY <1>5, <1>6, <1>7, <1>8

LEMMA SystemTurnKeepsHost ==
  ASSUME HostOK, NEW s \in SystemTurns, StartSystemTurn(s)
  PROVE  HostOK'
<1> USE HostTurnsAssumption DEF HostOK, serviceVars, engineVars, streamVars
<1>1. s \in TurnIds /\ s \notin Submits /\ s # None  BY DEF TurnIds
<1>2. Starts(s)  BY DEF StartSystemTurn
<1>3. /\ captured' \in [Submits -> TurnIds \cup {None}]
      /\ engine' = [turn |-> s, phase |-> "running"] /\ deltas' \in 0..MaxDeltas
      /\ events' \in Seq(Announcement)
      /\ \A k \in DOMAIN events' : events'[k].type = "passage" =>
           k \in DOMAIN events /\ events'[k] = events[k]
      /\ \A j \in Submits :
           /\ captured'[j] \in {captured[j], s}
           /\ captured[j] # None => captured'[j] = captured[j]
           /\ captured'[j] # captured[j] => Subscribed(j)
           /\ Subscribed(j) => captured'[j] # None
  BY <1>1, <1>2, StartsAreTaken
<1>4. /\ engine.turn = None /\ outcome[s] = "none"
      /\ sub' = sub /\ jobs' = jobs /\ outcome' = outcome
  BY DEF StartSystemTurn, Starts
<1>5. HostTyped'  BY <1>1, <1>3 DEF HostTyped, StartSystemTurn
<1>6. EngineFits'  BY <1>1, <1>3, <1>4 DEF EngineFits, Idle, Subscribed
<1>7. PublishedFits'  BY <1>3 DEF PublishedFits, StartSystemTurn, Told
<1>8. JobsFit'
  <2>1. /\ jobs' = jobs /\ outcome' = outcome /\ named' = named /\ answer' = answer
        /\ \A t \in Submits : sub'[t] = sub[t]
    BY <1>4 DEF HostTyped, StartSystemTurn
  <2>2. \A t \in TurnIds : ~ThrewFor(t)' => ~ThrewFor(t)
    BY <1>3, <1>4, <2>1 DEF ThrewFor, EngineFits, Subscribed
  <2>3. \A t \in TurnIds : Says(t)' = Says(t)  BY <1>4, <2>1 DEF Says, HostTyped
  <2>4. \A t \in TurnIds : ~ThrewFor(t)' => jobs'[t] = Says(t)'
    BY <2>1, <2>2, <2>3 DEF JobsFit
  <2>5. \A t \in Submits : (\E j \in Submits : captured'[j] = t) =>
          /\ sub'[t] \in {"running", "ended"}
          /\ sub'[t] = "ended" => outcome'[t] # "none"
    BY <1>1, <1>3, <1>4, <2>1 DEF JobsFit, HostTyped
  <2>6. \A j \in Submits :
          /\ named'[j] \in {None, captured'[j]} \/ (named'[j] = j /\ sub'[j] = "ended")
          /\ answer'[j] # "accepted" => named'[j] = None
          /\ answer'[j] = "none" <=> sub'[j] = "new"
    BY <1>3, <1>4, <2>1 DEF JobsFit, HostTyped
  <2> QED  BY <2>4, <2>5, <2>6 DEF JobsFit
<1> QED  BY <1>5, <1>6, <1>7, <1>8

LEMMA DeltaKeepsHost ==
  ASSUME HostOK, StreamDelta
  PROVE  HostOK'
<1> USE HostTurnsAssumption DEF HostOK, serviceVars, engineVars, streamVars
<1> DEFINE evs == <<Event("delta", engine.turn)>>
<1>1. evs \in Seq(Announcement) /\ \A j \in DOMAIN evs : evs[j].type = "delta"
  BY DEF Event, Announcement, StreamDelta, TurnIds
<1>2. Broadcast(evs)  BY DEF StreamDelta
<1> HIDE DEF evs
<1>3. /\ events' \in Seq(Announcement)
      /\ \A k \in DOMAIN events' : events'[k].type = "passage" =>
           k \in DOMAIN events /\ events'[k] = events[k]
  BY <1>1, <1>2, BroadcastsAppend DEF HostTyped
<1>4. HostTyped'  BY <1>3 DEF HostTyped, StreamDelta
<1>5. EngineFits'  BY DEF EngineFits, StreamDelta
<1>6. PublishedFits'  BY <1>3 DEF PublishedFits, StreamDelta, Told
<1>7. JobsFit'  BY JobsStay DEF StreamDelta
<1> QED  BY <1>4, <1>5, <1>6, <1>7

LEMMA LateDeltaKeepsHost ==
  ASSUME HostOK, NEW t \in Submits, LateDelta(t)
  PROVE  HostOK'
<1> USE HostTurnsAssumption DEF HostOK, serviceVars, engineVars, streamVars
<1> DEFINE evs == <<Event("delta", t)>>
<1>1. evs \in Seq(Announcement) /\ \A j \in DOMAIN evs : evs[j].type = "delta"
  BY DEF Event, Announcement, LateDelta, TurnIds
<1>2. Broadcast(evs)  BY DEF LateDelta
<1> HIDE DEF evs
<1>3. /\ events' \in Seq(Announcement)
      /\ \A k \in DOMAIN events' : events'[k].type = "passage" =>
           k \in DOMAIN events /\ events'[k] = events[k]
  BY <1>1, <1>2, BroadcastsAppend DEF HostTyped
<1>4. HostTyped'  BY <1>3 DEF HostTyped, LateDelta
<1>5. EngineFits'  BY DEF EngineFits, LateDelta
<1>6. PublishedFits'  BY <1>3 DEF PublishedFits, LateDelta, Told
<1>7. JobsFit'  BY JobsStay DEF LateDelta
<1> QED  BY <1>4, <1>5, <1>6, <1>7

LEMMA CommitKeepsHost ==
  ASSUME HostOK, CommitTurn
  PROVE  /\ HostOK'
         /\ \/ published' = published
            \/ \E t \in Submits : t \notin Told(published)
                                 /\ published' = Append(published, t)
<1> USE HostTurnsAssumption DEF HostOK, serviceVars, engineVars, streamVars
<1> DEFINE t == engine.turn
<1>1. engine.phase = "running" /\ t # None /\ t \in TurnIds /\ outcome[t] = "none"
  BY DEF CommitTurn, EngineFits, HostTyped
<1>2. /\ sub' = sub /\ captured' = captured /\ jobs' = jobs /\ stream' = stream
      /\ engine' = [engine EXCEPT !.phase = "closing"]
      /\ outcome' = [outcome EXCEPT ![t] = "committed"]
  BY DEF CommitTurn
<1>3. /\ events' \in Seq(Announcement)
      /\ \A k \in DOMAIN events' : events'[k].type = "passage" =>
           \/ k \in DOMAIN events /\ events'[k] = events[k]
           \/ t \in Submits /\ events'[k].turn = t
  <2>1. CASE t \in Submits
    <3> DEFINE evs == <<Event("passage", t), Event("committed", t)>>
    <3>1. evs \in Seq(Announcement) /\ \A j \in DOMAIN evs : evs[j].turn = t
      BY <1>1 DEF Event, Announcement
    <3>2. Broadcast(evs)  BY <2>1 DEF CommitTurn
    <3> HIDE DEF evs
    <3> QED  BY <2>1, <3>1, <3>2, BroadcastsAppend DEF HostTyped
  <2>2. CASE t \notin Submits
    <3> DEFINE evs == <<Event("committed", t)>>
    <3>1. evs \in Seq(Announcement) /\ \A j \in DOMAIN evs : evs[j].type = "committed"
      BY <1>1 DEF Event, Announcement
    <3>2. Broadcast(evs)  BY <2>2 DEF CommitTurn
    <3> HIDE DEF evs
    <3> QED  BY <3>1, <3>2, BroadcastsAppend DEF HostTyped
  <2> QED  BY <2>1, <2>2
<1>4. /\ t \in Submits => lastPassage' = t /\ published' = Append(published, t)
                           /\ t \notin Told(published)
      /\ t \notin Submits => lastPassage' = lastPassage /\ published' = published
  BY <1>1 DEF CommitTurn, PublishedFits
<1> HIDE DEF t
<1>5. HostTyped'
  <2>1. published' \in Seq(Submits) /\ lastPassage' \in Submits \cup {None}
    <3>1. CASE t \in Submits
      <4>1. published \in Seq(Submits)  BY DEF HostTyped
      <4>2. Append(published, t) \in Seq(Submits)  BY <3>1, <4>1
      <4> QED  BY <1>4, <3>1, <4>2
    <3>2. CASE t \notin Submits  BY <1>4, <3>2 DEF HostTyped
    <3> QED  BY <3>1, <3>2
  <2>2. engine' \in [turn : TurnIds \cup {None}, phase : {"idle", "running", "closing", "left"}]
    BY <1>2 DEF HostTyped
  <2>3. outcome' \in [TurnIds -> {"none", "committed", "rejected", "threw"}]
    BY <1>1, <1>2 DEF HostTyped
  <2>4. deltas' = deltas /\ answer' = answer /\ activeTurns' = activeTurns
        /\ named' = named /\ narrator' = narrator
        /\ silent' = (silent \/ stream # "open")
    BY DEF CommitTurn
  <2> QED  BY <1>2, <1>3, <2>1, <2>2, <2>3, <2>4 DEF HostTyped
<1>6. EngineFits'
  <2>1. engine'.turn = t /\ engine'.phase = "closing"
    BY <1>2 DEF HostTyped, t
  <2>2. \A u \in TurnIds : outcome'[u] = IF u = t THEN "committed" ELSE outcome[u]
    BY <1>1, <1>2 DEF HostTyped
  <2> QED  BY <1>1, <1>2, <2>1, <2>2 DEF EngineFits, Ended, TurnIds, t
<1>7. PublishedFits'
  <2>1. \A u \in TurnIds : outcome'[u] = IF u = t THEN "committed" ELSE outcome[u]
    BY <1>1, <1>2 DEF HostTyped
  <2>2. published \in Seq(Submits)  BY DEF HostTyped
  <2>3. CASE t \notin Submits
    BY <1>2, <1>3, <1>4, <2>1, <2>2, <2>3 DEF PublishedFits, Told
  <2>4. CASE t \in Submits
    <3>1. /\ Len(published') = Len(published) + 1 /\ published' # <<>>
          /\ DOMAIN published' = DOMAIN published \cup {Len(published) + 1}
          /\ \A k \in DOMAIN published : published'[k] = published[k]
          /\ published'[Len(published) + 1] = t
      BY <1>4, <2>2, <2>4
    <3>2. Told(published') = Told(published) \cup {t}  BY <3>1 DEF Told
    <3>3. \A k \in DOMAIN published : published[k] # t
      BY <1>4, <2>4 DEF Told
    <3>4. \A j, k \in DOMAIN published' : published'[j] = published'[k] => j = k
      BY <3>1, <3>3 DEF PublishedFits
    <3>5. \A u \in Told(published') : outcome'[u] # "none"
      <4>1. Told(published) \subseteq TurnIds  BY <2>2 DEF Told, TurnIds
      <4> QED  BY <1>1, <2>1, <3>2, <4>1 DEF PublishedFits
    <3>6. \A k \in DOMAIN events' :
            events'[k].type = "passage" => events'[k].turn \in Told(published')
      BY <1>3, <3>2 DEF PublishedFits
    <3> QED  BY <1>4, <2>4, <3>1, <3>4, <3>5, <3>6 DEF PublishedFits, Told
  <2> QED  BY <2>3, <2>4
<1>8. JobsFit'
  <2>1. \A u \in Submits : outcome'[u] # outcome[u] => u = t
    BY <1>1, <1>2 DEF HostTyped, TurnIds
  <2>2. t \in Submits => sub[t] = "running"  BY DEF EngineFits, t
  <2>3. t \in Submits => outcome[t] # "threw"  BY <2>2 DEF EngineFits
  <2>4. answer' = answer /\ named' = named  BY DEF CommitTurn
  <2> QED  BY <1>2, <2>1, <2>2, <2>3, <2>4, JobsStay
<1> QED  BY <1>4, <1>5, <1>6, <1>7, <1>8

LEMMA RejectKeepsHost ==
  ASSUME HostOK, RejectTurn
  PROVE  HostOK'
<1> USE HostTurnsAssumption DEF HostOK, serviceVars, engineVars, streamVars
<1> DEFINE t == engine.turn
           evs == <<Event("rejected", t)>>
<1>1. t # None /\ t \in TurnIds /\ outcome[t] # "threw"
  BY DEF RejectTurn, EngineFits, HostTyped, Ended
<1>2. /\ sub' = sub /\ captured' = captured /\ jobs' = jobs /\ stream' = stream
      /\ engine' = [engine EXCEPT !.phase = "closing"]
      /\ outcome' = [outcome EXCEPT ![t] = "rejected"]
      /\ published' = published /\ lastPassage' = lastPassage
      /\ deltas' = deltas /\ answer' = answer /\ activeTurns' = activeTurns
      /\ silent' = (silent \/ stream # "open")
  BY DEF RejectTurn
<1>3. /\ events' \in Seq(Announcement)
      /\ \A k \in DOMAIN events' : events'[k].type = "passage" =>
           k \in DOMAIN events /\ events'[k] = events[k]
  <2>1. evs \in Seq(Announcement) /\ \A j \in DOMAIN evs : evs[j].type = "rejected"
    BY <1>1 DEF Event, Announcement
  <2>2. Broadcast(evs)  BY DEF RejectTurn
  <2> HIDE DEF evs
  <2> QED  BY <2>1, <2>2, BroadcastsAppend DEF HostTyped
<1> HIDE DEF t, evs
<1>4. \A u \in TurnIds : outcome'[u] = IF u = t THEN "rejected" ELSE outcome[u]
  BY <1>1, <1>2 DEF HostTyped
<1>5. HostTyped'
  <2>1. engine' \in [turn : TurnIds \cup {None}, phase : {"idle", "running", "closing", "left"}]
    BY <1>2 DEF HostTyped
  <2>2. outcome' \in [TurnIds -> {"none", "committed", "rejected", "threw"}]
    BY <1>1, <1>2 DEF HostTyped
  <2>3. narrator' \in [Submits -> {"none", "adrift", "late"}]
    BY DEF RejectTurn, HostTyped
  <2>4. named' = named  BY DEF RejectTurn
  <2> QED  BY <1>2, <1>3, <2>1, <2>2, <2>3, <2>4 DEF HostTyped
<1>6. EngineFits'
  <2>1. engine'.turn = t /\ engine'.phase = "closing"
    BY <1>2 DEF HostTyped, t
  <2> QED  BY <1>1, <1>2, <1>4, <2>1 DEF EngineFits, Ended, TurnIds, t
<1>7. PublishedFits'
  <2>1. Told(published) \subseteq TurnIds  BY DEF HostTyped, Told, TurnIds
  <2> QED  BY <1>2, <1>3, <1>4, <2>1 DEF PublishedFits, Told
<1>8. JobsFit'
  <2>1. \A u \in Submits : outcome'[u] # outcome[u] => u = t
    BY <1>1, <1>2 DEF HostTyped, TurnIds
  <2>2. t \in Submits => sub[t] = "running"  BY DEF EngineFits, t
  <2>3. t \in Submits => outcome[t] # "threw"  BY <2>2 DEF EngineFits
  <2>4. answer' = answer /\ named' = named  BY DEF RejectTurn
  <2> QED  BY <1>2, <2>1, <2>2, <2>3, <2>4, JobsStay
<1> QED  BY <1>5, <1>6, <1>7, <1>8

\* A slot is given back.
LEMMA ReleasedSlot == ASSUME NEW n \in 0..MaxConcurrent
                      PROVE  Released(n) \in 0..MaxConcurrent
BY HostTurnsAssumption DEF Released

LEMMA ReturnKeepsHost ==
  ASSUME HostOK, NEW i \in Submits, ActionReturns(i)
  PROVE  HostOK'
<1> USE HostTurnsAssumption DEF HostOK, serviceVars, engineVars, streamVars
<1>1. /\ sub[i] = "running" /\ engine = Idle /\ i \in TurnIds
      /\ sub' = [sub EXCEPT ![i] = "ended"]
      /\ jobs' = [jobs EXCEPT ![i] = outcome[i]]
      /\ activeTurns' = Released(activeTurns)
      /\ outcome' = outcome /\ captured' = captured /\ engine' = engine
  BY DEF ActionReturns, Settle, TurnIds
<1>2. engine.turn = None /\ outcome[i] \in Ended  BY <1>1 DEF EngineFits, Idle
<1>3. HostTyped'
  <2>1. activeTurns' \in 0..MaxConcurrent  BY <1>1, ReleasedSlot DEF HostTyped
  <2>2. /\ sub' \in [Submits -> {"new", "waiting", "running", "ended"}]
        /\ jobs' \in [TurnIds -> {"none", "running", "committed", "rejected"}]
    BY <1>1, <1>2 DEF HostTyped, Ended
  <2> QED  BY <2>1, <2>2 DEF HostTyped, ActionReturns
<1>4. EngineFits'  BY <1>1, <1>2 DEF EngineFits, HostTyped
<1>5. PublishedFits'  BY DEF PublishedFits, ActionReturns, Told
<1>6. JobsFit'
  <2>1. /\ \A u \in Submits : sub'[u] = IF u = i THEN "ended" ELSE sub[u]
        /\ \A u \in TurnIds : jobs'[u] = IF u = i THEN outcome[i] ELSE jobs[u]
    BY <1>1 DEF HostTyped, TurnIds
  <2>4. /\ named' = named /\ answer' = answer
        /\ \A u \in Submits : outcome'[u] # outcome[u] => u = i
    BY <1>1 DEF ActionReturns, HostTyped
  <2>5. \A u \in TurnIds : ~ThrewFor(u)' => ~ThrewFor(u)
    BY <1>1 DEF ThrewFor
  <2>6. \A u \in TurnIds : ~ThrewFor(u)' => jobs'[u] = Says(u)'
    BY <1>1, <1>2, <2>1, <2>4, <2>5 DEF JobsFit, Says
  <2>7. \A u \in Submits : (\E j \in Submits : captured'[j] = u) =>
          /\ sub'[u] \in {"running", "ended"}
          /\ sub'[u] = "ended" => outcome'[u] # "none"
    BY <1>1, <1>2, <2>1, <2>4, <2>5 DEF JobsFit, Ended
  <2>8. \A j \in Submits :
          /\ named'[j] \in {None, captured'[j]} \/ (named'[j] = j /\ sub'[j] = "ended")
          /\ answer'[j] # "accepted" => named'[j] = None
          /\ answer'[j] = "none" <=> sub'[j] = "new"
    BY <1>1, <1>2, <2>1, <2>4, <2>5 DEF JobsFit
  <2> QED  BY <2>6, <2>7, <2>8 DEF JobsFit
<1> QED  BY <1>3, <1>4, <1>5, <1>6

LEMMA RefusalKeepsHost ==
  ASSUME HostOK, NEW i \in Submits, ActionRefused(i)
  PROVE  HostOK'
<1> USE HostTurnsAssumption DEF HostOK, serviceVars, engineVars, streamVars
<1>1. /\ sub[i] = "waiting" /\ i \in TurnIds
      /\ sub' = [sub EXCEPT ![i] = "ended"]
      /\ jobs' = [jobs EXCEPT ![i] = "rejected"]
      /\ outcome' = [outcome EXCEPT ![i] = "rejected"]
      /\ activeTurns' = Released(activeTurns) /\ silent' = TRUE
      /\ captured' = captured /\ engine' = engine
  BY DEF ActionRefused, Settle, TurnIds
<1>2. engine.turn # i /\ outcome[i] = "none"  BY <1>1 DEF EngineFits
<1>3. HostTyped'
  <2>1. activeTurns' \in 0..MaxConcurrent  BY <1>1, ReleasedSlot DEF HostTyped
  <2>2. /\ sub' \in [Submits -> {"new", "waiting", "running", "ended"}]
        /\ jobs' \in [TurnIds -> {"none", "running", "committed", "rejected"}]
        /\ outcome' \in [TurnIds -> {"none", "committed", "rejected", "threw"}]
    BY <1>1 DEF HostTyped
  <2> QED  BY <1>1, <2>1, <2>2 DEF HostTyped, ActionRefused
<1>4. /\ \A u \in Submits : sub'[u] = IF u = i THEN "ended" ELSE sub[u]
      /\ \A u \in TurnIds :
           /\ jobs'[u] = IF u = i THEN "rejected" ELSE jobs[u]
           /\ outcome'[u] = IF u = i THEN "rejected" ELSE outcome[u]
  BY <1>1 DEF HostTyped, TurnIds
<1>5. EngineFits'
  <2>1. engine.turn \in TurnIds \cup {None} /\ Submits \subseteq TurnIds
    BY DEF HostTyped, TurnIds
  <2>2. engine.turn # None => outcome'[engine.turn] = outcome[engine.turn]
    BY <1>2, <1>4, <2>1
  <2>3. engine.phase \in {"running", "closing"} => engine.turn # None
    BY DEF EngineFits
  <2> QED  BY <1>1, <1>2, <1>4, <2>1, <2>2, <2>3 DEF EngineFits, Ended
<1>6. PublishedFits'
  <2>1. Told(published) \subseteq TurnIds  BY DEF HostTyped, Told, TurnIds
  <2> QED  BY <1>4, <2>1 DEF PublishedFits, ActionRefused, Told
<1>7. JobsFit'
  <2>1. Submits \subseteq TurnIds  BY DEF TurnIds
  <2>4. /\ named' = named /\ answer' = answer
        /\ \A u \in Submits : outcome'[u] # outcome[u] => u = i
    BY <1>1 DEF ActionRefused, HostTyped
  <2>5. \A u \in TurnIds : ~ThrewFor(u)' => ~ThrewFor(u)
    BY <1>1, <1>2, <1>4, <2>1 DEF ThrewFor
  <2>6. \A u \in TurnIds : ~ThrewFor(u)' => jobs'[u] = Says(u)'
    BY <1>1, <1>2, <1>4, <2>1, <2>4, <2>5 DEF JobsFit, Says
  <2>7. \A u \in Submits : (\E j \in Submits : captured'[j] = u) =>
          /\ sub'[u] \in {"running", "ended"}
          /\ sub'[u] = "ended" => outcome'[u] # "none"
    BY <1>1, <1>2, <1>4, <2>1, <2>4, <2>5 DEF JobsFit, Ended
  <2>8. \A j \in Submits :
          /\ named'[j] \in {None, captured'[j]} \/ (named'[j] = j /\ sub'[j] = "ended")
          /\ answer'[j] # "accepted" => named'[j] = None
          /\ answer'[j] = "none" <=> sub'[j] = "new"
    BY <1>1, <1>2, <1>4, <2>1, <2>4, <2>5 DEF JobsFit
  <2> QED  BY <2>6, <2>7, <2>8 DEF JobsFit
<1> QED  BY <1>3, <1>5, <1>6, <1>7

LEMMA ThrowKeepsHost ==
  ASSUME HostOK, NEW i \in Submits, ActionThrows(i)
  PROVE  HostOK'
<1> USE HostTurnsAssumption DEF HostOK, serviceVars, engineVars, streamVars
<1> DEFINE c == captured[i]
           u == engine.turn
<1>1. /\ sub[i] = "running" /\ u # None /\ engine' = [turn |-> None, phase |-> "left"]
      /\ activeTurns' = Released(activeTurns) /\ silent' \in BOOLEAN
      /\ UNCHANGED <<captured, answer, named, deltas, narrator, lastPassage,
                     published, stream, events>>
  BY DEF ActionThrows, Settle, HostTyped
<1>2. /\ c # None /\ c \in TurnIds /\ i \in TurnIds /\ u \in TurnIds
      /\ u \in Submits => u = i
  BY <1>1 DEF EngineFits, HostTyped, TurnIds
<1>3. /\ sub' = [sub EXCEPT ![i] = "ended"]
      /\ jobs' = [jobs EXCEPT ![c] = "rejected"]
      /\ outcome' = [outcome EXCEPT ![i] = "threw", ![u] = "threw"]
  BY DEF ActionThrows, Settle
<1> HIDE DEF c, u
<1>4. HostTyped'
  <2>1. activeTurns' \in 0..MaxConcurrent  BY <1>1, ReleasedSlot DEF HostTyped
  <2>2. /\ sub' \in [Submits -> {"new", "waiting", "running", "ended"}]
        /\ jobs' \in [TurnIds -> {"none", "running", "committed", "rejected"}]
        /\ outcome' \in [TurnIds -> {"none", "committed", "rejected", "threw"}]
    BY <1>2, <1>3 DEF HostTyped
  <2>3. engine' \in [turn : TurnIds \cup {None}, phase : {"idle", "running", "closing", "left"}]
    BY <1>1
  <2> QED  BY <1>1, <2>1, <2>2, <2>3 DEF HostTyped
<1>5. /\ \A v \in Submits : sub'[v] = IF v = i THEN "ended" ELSE sub[v]
      /\ \A v \in TurnIds :
           /\ jobs'[v] = IF v = c THEN "rejected" ELSE jobs[v]
           /\ outcome'[v] = IF v = i \/ v = u THEN "threw" ELSE outcome[v]
  BY <1>2, <1>3 DEF HostTyped
<1>6. Submits \subseteq TurnIds  BY DEF TurnIds
<1>7. EngineFits'
  <2>1. engine'.turn = None /\ engine'.phase = "left"  BY <1>1
  <2>2. \A j \in Submits : engine.turn = j => j = i  BY <1>2 DEF u
  <2>3. \A j \in Submits : sub[j] = "running" => j = i  BY <1>1 DEF EngineFits
  <2>4. outcome'[i] = "threw"  BY <1>2, <1>5
  <2>5. \A j \in Submits : j # i => outcome'[j] = outcome[j]
    BY <1>2, <1>5, <1>6
  <2> QED  BY <1>1, <1>5, <2>1, <2>3, <2>4, <2>5 DEF EngineFits
<1>8. PublishedFits'
  <2>1. Told(published) \subseteq TurnIds  BY DEF HostTyped, Told, TurnIds
  <2> QED  BY <1>1, <1>5, <2>1 DEF PublishedFits, Told
<1>9. JobsFit'
  <2>1. \A v \in Submits : outcome'[v] = IF v = i THEN "threw" ELSE outcome[v]
    BY <1>2, <1>5, <1>6
  <2>5. \A v \in TurnIds : ~ThrewFor(v)' => ~ThrewFor(v) /\ v # i /\ v # c
    BY <1>1, <2>1 DEF ThrewFor, c
  <2>6. \A v \in TurnIds : ~ThrewFor(v)' => jobs'[v] = Says(v)'
    BY <1>1, <1>5, <2>1, <2>5 DEF JobsFit, Says
  <2>7. \A v \in Submits : (\E j \in Submits : captured'[j] = v) =>
          /\ sub'[v] \in {"running", "ended"}
          /\ sub'[v] = "ended" => outcome'[v] # "none"
    BY <1>1, <1>5, <2>1 DEF JobsFit
  <2>8. \A j \in Submits :
          /\ named'[j] \in {None, captured'[j]} \/ (named'[j] = j /\ sub'[j] = "ended")
          /\ answer'[j] # "accepted" => named'[j] = None
          /\ answer'[j] = "none" <=> sub'[j] = "new"
    BY <1>1, <1>5 DEF JobsFit
  <2> QED  BY <2>6, <2>7, <2>8 DEF JobsFit
<1> QED  BY <1>4, <1>7, <1>8, <1>9

LEMMA AcceptKeepsHost ==
  ASSUME HostOK, NEW i \in Submits, Accept(i)
  PROVE  HostOK'
<1> USE HostTurnsAssumption DEF HostOK, serviceVars, engineVars, streamVars
<1> DEFINE c == captured[i]
<1>1. UNCHANGED <<sub, captured, activeTurns, engine, outcome, deltas, narrator,
                  lastPassage, published, stream, events, silent>>
  BY DEF Accept
<1>2. /\ answer[i] = "pending" /\ answer' \in [Submits -> {"none", "pending", "accepted", "error"}]
      /\ \A j \in Submits : j # i => answer'[j] = answer[j] /\ named'[j] = named[j]
      /\ answer'[i] \in {"accepted", "error"}
      /\ \/ /\ c # None /\ named'[i] = c /\ answer'[i] = "accepted"
            /\ \/ jobs[c] # "none" /\ jobs' = jobs
               \/ jobs[c] = "none" /\ jobs' = [jobs EXCEPT ![c] = "running"]
         \/ /\ sub[i] = "ended" /\ named'[i] = i /\ answer'[i] = "accepted"
            /\ jobs' = jobs
         \/ named'[i] = named[i] /\ jobs' = jobs
  <2>1. /\ answer \in [Submits -> {"none", "pending", "accepted", "error"}]
        /\ named \in [Submits -> TurnIds \cup {None}]
    BY DEF HostTyped
  <2>2. answer[i] = "pending"  BY DEF Accept
  <2>3. CASE /\ captured[i] # None
             /\ answer' = [answer EXCEPT ![i] = "accepted"]
             /\ named' = [named EXCEPT ![i] = captured[i]]
             /\ jobs' = IF NotFinished(captured[i])
                        THEN [jobs EXCEPT ![captured[i]] = "running"] ELSE jobs
    BY <2>1, <2>2, <2>3 DEF NotFinished
  <2>4. CASE /\ sub[i] = "ended" /\ answer' = [answer EXCEPT ![i] = "accepted"]
             /\ named' = [named EXCEPT ![i] = i] /\ jobs' = jobs
    BY <2>1, <2>2, <2>4
  <2>5. CASE /\ answer' = [answer EXCEPT ![i] = "error"]
             /\ named' = named /\ jobs' = jobs
    BY <2>1, <2>2, <2>5
  <2> QED  BY <2>3, <2>4, <2>5 DEF Accept
<1>3. HostTyped'
  <2>1. named' \in [Submits -> TurnIds \cup {None}]
    BY DEF HostTyped, Accept, TurnIds
  <2>2. jobs' \in [TurnIds -> {"none", "running", "committed", "rejected"}]
    BY <1>2 DEF HostTyped
  <2> QED  BY <1>1, <1>2, <2>1, <2>2 DEF HostTyped
<1>4. EngineFits'  BY <1>1 DEF EngineFits
<1>5. PublishedFits'  BY <1>1 DEF PublishedFits, Told
<1>6. JobsFit'
  <2>1. named[i] = None  BY <1>2 DEF JobsFit
  <2>2. \A t \in TurnIds : ThrewFor(t)' <=> ThrewFor(t)  BY <1>1 DEF ThrewFor
  <2>3. ASSUME NEW t \in TurnIds, ~ThrewFor(t)  PROVE jobs'[t] = Says(t)'
    <3>1. jobs[t] = Says(t)  BY <2>3 DEF JobsFit
    <3>2. CASE t \in Submits /\ sub[t] = "ended"
      <4>1. Says(t)' = outcome[t] /\ jobs[t] = outcome[t]
        BY <1>1, <3>1, <3>2 DEF Says
      <4>2. t = c => outcome[t] # "none"  BY <3>2 DEF JobsFit, c
      <4>3. jobs'[t] = jobs[t]  BY <1>2, <4>1, <4>2 DEF HostTyped
      <4> QED  BY <4>1, <4>3
    <3>3. CASE ~(t \in Submits /\ sub[t] = "ended")
      <4>1. /\ jobs[t] = IF \E j \in Submits : named[j] = t THEN "running" ELSE "none"
            /\ Says(t)' = IF \E j \in Submits : named'[j] = t THEN "running" ELSE "none"
        BY <1>1, <3>1, <3>3 DEF Says
      <4>2. t # None  BY DEF TurnIds
      <4>3. CASE named'[i] = t
        <5>1. t = c /\ c # None  BY <1>2, <2>1, <3>3, <4>2, <4>3
        <5>2. jobs[t] \in {"none", "running"}  BY <4>1
        <5>3. jobs'[t] = "running"
          BY <1>2, <2>1, <3>3, <4>2, <4>3, <5>1, <5>2 DEF HostTyped
        <5> QED  BY <4>1, <4>3, <5>3
      <4>4. CASE named'[i] # t
        <5>1. (\E j \in Submits : named'[j] = t) <=> \E j \in Submits : named[j] = t
          BY <1>2, <2>1, <4>2, <4>4
        <5>2. jobs'[t] = jobs[t]  BY <1>2, <4>4 DEF HostTyped
        <5> QED  BY <4>1, <5>1, <5>2
      <4> QED  BY <4>3, <4>4
    <3> QED  BY <3>2, <3>3
  <2>4. \A j \in Submits :
          /\ named'[j] \in {None, captured'[j]} \/ (named'[j] = j /\ sub'[j] = "ended")
          /\ answer'[j] # "accepted" => named'[j] = None
          /\ answer'[j] = "none" <=> sub'[j] = "new"
    BY <1>1, <1>2, <2>1 DEF JobsFit, c
  <2>5. \A t \in Submits : (\E j \in Submits : captured'[j] = t) =>
          /\ sub'[t] \in {"running", "ended"}
          /\ sub'[t] = "ended" => outcome'[t] # "none"
    BY <1>1 DEF JobsFit
  <2> QED  BY <2>2, <2>3, <2>4, <2>5 DEF JobsFit
<1> QED  BY <1>3, <1>4, <1>5, <1>6

\* The rest of the host's steps touch the stream or end a turn.
LEMMA TurnEndKeepsHost ==
  ASSUME HostOK, TurnIsOver
  PROVE  HostOK'
<1> USE HostTurnsAssumption DEF HostOK, serviceVars, engineVars, streamVars
<1>1. HostTyped'  BY DEF HostTyped, TurnIsOver, Idle
<1>2. EngineFits'  BY DEF EngineFits, TurnIsOver, Idle, Ended
<1>3. PublishedFits'  BY DEF PublishedFits, TurnIsOver, Told
<1>4. JobsFit'  BY JobsStay DEF TurnIsOver
<1> QED  BY <1>1, <1>2, <1>3, <1>4

\* Of the host, the page takes events and gives none.
LEMMA StreamKeepsHost ==
  ASSUME HostOK, stream' \in {"opening", "open", "lost"},
         events' \in {events, <<>>} \/ (events # <<>> /\ events' = Tail(events)),
         UNCHANGED <<serviceVars, engineVars, silent>>
  PROVE  HostOK'
<1> USE HostTurnsAssumption DEF HostOK, serviceVars, engineVars, streamVars
<1>1. /\ events' \in Seq(Announcement)
      /\ \A k \in DOMAIN events' : \E j \in DOMAIN events : events'[k] = events[j]
  <2>1. events \in Seq(Announcement)  BY DEF HostTyped
  <2>2. CASE events' = events  BY <2>1, <2>2
  <2>3. CASE events' = <<>>
    <3>1. <<>> \in Seq(Announcement) /\ DOMAIN <<>> = {}  OBVIOUS
    <3> QED  BY <2>3, <3>1, Zenon
  <2>4. CASE events # <<>> /\ events' = Tail(events)
    <3>1. /\ Tail(events) \in Seq(Announcement)
          /\ Len(Tail(events)) = Len(events) - 1
          /\ \A k \in 1..(Len(events) - 1) : Tail(events)[k] = events[k + 1]
      BY <2>1, <2>4
    <3>2. /\ Len(events) \in Nat /\ DOMAIN events = 1..Len(events)
          /\ DOMAIN Tail(events) = 1..Len(Tail(events))
      BY <2>1, <3>1
    <3>3. \A k \in 1..(Len(events) - 1) : k + 1 \in 1..Len(events)
      BY <3>2
    <3> QED  BY <2>4, <3>1, <3>2, <3>3
  <2> QED  BY <2>2, <2>3, <2>4
<1>2. HostTyped'  BY <1>1 DEF HostTyped
<1>3. EngineFits'  BY DEF EngineFits
<1>4. PublishedFits'  BY <1>1 DEF PublishedFits, Told
<1>5. JobsFit'  BY JobsStay
<1> QED  BY <1>2, <1>3, <1>4, <1>5

-----------------------------------------------------------------------------
(* The page                                                                *)

PageTyped ==
  /\ busy \in BOOLEAN /\ hydrated \in {"no", "loaded", "failed"}
  /\ messages \in Seq(Bubble) /\ stored \in Seq(Bubble)
  /\ draft \in {"none", "held", "stale", "lost"} /\ finalized \in BOOLEAN
  /\ shown \in Submits \cup {None} /\ pending \in Submits \cup {None}
  /\ composer \in Submits \cup {None}
  /\ posts \subseteq Submits /\ views \subseteq View
  /\ faults \in 0..MaxFaults /\ overtaken \in BOOLEAN

\* One view of the load is on its way, and only before the page has loaded; from
\* then on the transcript is the stored one.
LoadFits ==
  /\ \A v, w \in views : v.why = "load" /\ w.why = "load" => v = w
  /\ \A v \in views : v.why = "load" => hydrated = "no"
  /\ hydrated = "loaded" => messages = stored

PlaceIn(pub, t) == CHOOSE k \in DOMAIN pub : pub[k] = t
UpTo(pub, msgs, t) ==
  \A k \in DOMAIN msgs :
    IsNarrator(msgs[k]) =>
      /\ msgs[k].of \in Told(pub) /\ t \in Told(pub)
      /\ PlaceIn(pub, msgs[k].of) <= PlaceIn(pub, t)
Sorted(pub, msgs) ==
  \A a, b \in DOMAIN msgs :
    a < b /\ IsNarrator(msgs[a]) /\ IsNarrator(msgs[b])
    => PlaceIn(pub, msgs[a].of) < PlaceIn(pub, msgs[b].of)

\* What the page has shown last, and what views bring, was published.
ShownFits ==
  /\ shown \in Told(published) \cup {None}
  /\ \A v \in views : v.at = "back" => v.passage \in Told(published) \cup {None}

\* The transcripts are in order, and end with what was shown last; a load that
\* is answered, if nothing was shown since, brings the end of the stored one.
TranscriptFits ==
  /\ Sorted(published, messages) /\ Sorted(published, stored)
  /\ UpTo(published, messages, shown) /\ UpTo(published, stored, lastPassage)
  /\ shown # None => UpTo(published, stored, shown)
  /\ shown = None =>
       \A v \in views : v.why = "load" /\ v.at = "back" =>
         UpTo(published, stored, v.passage)

PageOK == PageTyped /\ LoadFits /\ ShownFits /\ (~overtaken => TranscriptFits)
PlayInvariant == HostOK /\ PageOK

-----------------------------------------------------------------------------
(* Transcripts                                                             *)

\* w is what is left of msgs when some bubbles are taken out of it.
Drawn(w, msgs) ==
  \E f \in [DOMAIN w -> DOMAIN msgs] :
    /\ \A n \in DOMAIN w : w[n] = msgs[f[n]]
    /\ \A a, b \in DOMAIN w : a < b => f[a] < f[b]

\* The places of kept positions are distinct, in their order, and all taken.
LEMMA PlacesOfKept ==
  ASSUME NEW n \in Nat, NEW kept \in SUBSET (1..n)
  PROVE  LET Rank(k) == Cardinality({j \in kept : j <= k}) IN
         /\ IsFiniteSet(kept) /\ Cardinality(kept) \in Nat
         /\ \A k \in kept : Rank(k) \in 1..Cardinality(kept)
         /\ \A j, k \in kept : j < k => Rank(j) < Rank(k)
         /\ \A r \in 1..Cardinality(kept) : \E k \in kept : Rank(k) = r
<1> DEFINE Rank(k) == Cardinality({j \in kept : j <= k})
           c == Cardinality(kept)
           Upto(x) == {y \in kept : y <= x}
<1>1. IsFiniteSet(kept) /\ c \in Nat
  <2>1. IsFiniteSet(1..n)  BY FS_Interval
  <2> QED  BY <2>1, FS_Subset, FS_CardinalityType
<1>2. \A k \in kept : IsFiniteSet(Upto(k)) /\ Cardinality(Upto(k)) \in 1..c
  <2> SUFFICES ASSUME NEW k \in kept
               PROVE  IsFiniteSet(Upto(k)) /\ Cardinality(Upto(k)) \in 1..c
    OBVIOUS
  <2>1. /\ IsFiniteSet(Upto(k)) /\ Cardinality(Upto(k)) <= c
        /\ Cardinality(Upto(k)) \in Nat
    BY <1>1, FS_Subset, FS_CardinalityType
  <2>2. k \in Upto(k)  OBVIOUS
  <2>3. Cardinality(Upto(k)) # 0  BY <2>1, <2>2, FS_EmptySet
  <2> HIDE DEF Upto, c
  <2> QED  BY <1>1, <2>1, <2>3
<1>3. \A j, k \in kept : j < k => Cardinality(Upto(j)) < Cardinality(Upto(k))
  <2> SUFFICES ASSUME NEW j \in kept, NEW k \in kept, j < k
               PROVE  Cardinality(Upto(j)) < Cardinality(Upto(k))
    OBVIOUS
  <2>1. Upto(j) \subseteq Upto(k) /\ k \in Upto(k) /\ k \notin Upto(j)
    <3>1. kept \subseteq Nat /\ j \in Nat /\ k \in Nat /\ ~(k <= j)  OBVIOUS
    <3>2. \A y \in kept : y <= j => y <= k  BY <3>1
    <3>3. Upto(j) \subseteq Upto(k)  BY <3>2, Zenon
    <3>4. k \in Upto(k)  BY <3>1
    <3> QED  BY <3>1, <3>3, <3>4
  <2>2. Upto(j) # Upto(k)  BY <2>1
  <2>3. /\ Cardinality(Upto(j)) <= Cardinality(Upto(k))
        /\ Cardinality(Upto(k)) = Cardinality(Upto(j)) => Upto(k) = Upto(j)
    BY <1>2, <2>1, FS_Subset
  <2>4. Cardinality(Upto(j)) \in Nat /\ Cardinality(Upto(k)) \in Nat
    BY <1>2, FS_CardinalityType
  <2> QED  BY <2>2, <2>3, <2>4
<1>4. \A k \in kept : Rank(k) = Cardinality(Upto(k))  OBVIOUS
<1> HIDE DEF Upto, c, Rank
<1>5. \A k \in kept : Rank(k) \in 1..c  BY <1>2, <1>4
<1>6. \A j, k \in kept : j < k => Rank(j) < Rank(k)  BY <1>3, <1>4
<1>7. \A r \in 1..c : \E k \in kept : Rank(k) = r
  <2> DEFINE f == [k \in kept |-> Rank(k)]
  <2>1. IsFiniteSet(1..c) /\ Cardinality(1..c) = c  BY <1>1, FS_Interval
  <2>2. f \in [kept -> 1..c]  BY <1>5
  <2>3. \A j, k \in kept : f[j] = f[k] => j = k
    <3> SUFFICES ASSUME NEW j \in kept, NEW k \in kept, f[j] = f[k]  PROVE j = k
      OBVIOUS
    <3>1. Rank(j) = Rank(k) /\ Rank(j) \in Nat  BY <1>5
    <3>2. j \in Nat /\ k \in Nat  OBVIOUS
    <3> QED  BY <1>6, <3>1, <3>2
  <2>4. f \in Injection(kept, 1..c)  BY <2>2, <2>3 DEF Injection, IsInjective
  <2>5. f \in Surjection(kept, 1..c)  BY <1>1, <2>1, <2>4, FS_Injection DEF c
  <2> QED  BY <2>5 DEF Surjection
<1> QED  BY <1>1, <1>5, <1>6, <1>7 DEF c, Rank

\* A filter keeps the other bubbles, in their order.
LEMMA WithoutDraws ==
  ASSUME NEW msgs \in Seq(Bubble), NEW m
  PROVE  /\ Without(msgs, m) \in Seq(Bubble) /\ Drawn(Without(msgs, m), msgs)
         /\ \A k \in DOMAIN msgs : msgs[k] # m =>
              \E n \in DOMAIN Without(msgs, m) : Without(msgs, m)[n] = msgs[k]
<1> DEFINE kept == {k \in DOMAIN msgs : msgs[k] # m}
           Rank(k) == Cardinality({j \in kept : j <= k})
           c == Cardinality(kept)
           f == [n \in 1..c |-> CHOOSE k \in kept : Rank(k) = n]
           w == [n \in 1..c |-> msgs[CHOOSE k \in kept : Rank(k) = n]]
<1>1. Len(msgs) \in Nat /\ DOMAIN msgs = 1..Len(msgs)  OBVIOUS
<1>2. /\ IsFiniteSet(kept) /\ c \in Nat
      /\ \A k \in kept : Rank(k) \in 1..c
      /\ \A j, k \in kept : j < k => Rank(j) < Rank(k)
      /\ \A r \in 1..c : \E k \in kept : Rank(k) = r
  <2>1. kept \in SUBSET (1..Len(msgs))  BY <1>1
  <2> HIDE DEF kept
  <2> QED  BY <1>1, <2>1, PlacesOfKept
<1>3. Without(msgs, m) = w  BY DEF Without
<1>4. kept \subseteq DOMAIN msgs /\ kept \subseteq Nat
      /\ \A k \in DOMAIN msgs : msgs[k] # m => k \in kept
  BY <1>1
<1> HIDE DEF kept, Rank, c
<1>5. \A n \in 1..c : f[n] \in kept /\ Rank(f[n]) = n /\ w[n] = msgs[f[n]]
  BY <1>2
<1>6. DOMAIN w = 1..c /\ f \in [DOMAIN w -> DOMAIN msgs]  BY <1>4, <1>5
<1>7. \A k \in kept : f[Rank(k)] = k
  <2> SUFFICES ASSUME NEW k \in kept  PROVE f[Rank(k)] = k
    OBVIOUS
  <2>1. f[Rank(k)] \in kept /\ Rank(f[Rank(k)]) = Rank(k) /\ Rank(k) \in 1..c
    BY <1>2, <1>5
  <2> HIDE DEF f
  <2> QED  BY <1>2, <1>4, <2>1
<1> HIDE DEF f
<1>8. \A a, b \in 1..c : a < b => f[a] < f[b]
  <2> SUFFICES ASSUME NEW a \in 1..c, NEW b \in 1..c, a < b  PROVE f[a] < f[b]
    OBVIOUS
  <2>1. f[a] \in Nat /\ f[b] \in Nat /\ f[a] \in kept /\ f[b] \in kept
        /\ Rank(f[a]) = a /\ Rank(f[b]) = b
    BY <1>4, <1>5
  <2> QED  BY <1>2, <2>1
<1>9. w \in Seq(Bubble)
  <2>1. \A n \in 1..c : w[n] \in Bubble  BY <1>4, <1>5
  <2>2. w \in [1..c -> Bubble]  BY <2>1
  <2> HIDE DEF w
  <2> QED  BY <1>2, <2>2
<1>10. Drawn(w, msgs)
  <2>1. \A n \in DOMAIN w : w[n] = msgs[f[n]]  BY <1>5, <1>6
  <2>2. \A a, b \in DOMAIN w : a < b => f[a] < f[b]  BY <1>6, <1>8
  <2> HIDE DEF w
  <2> QED  BY <1>6, <2>1, <2>2 DEF Drawn
<1>11. \A k \in DOMAIN msgs : msgs[k] # m => \E n \in DOMAIN w : w[n] = msgs[k]
  <2> SUFFICES ASSUME NEW k \in DOMAIN msgs, msgs[k] # m
               PROVE  \E n \in DOMAIN w : w[n] = msgs[k]
    OBVIOUS
  <2>1. k \in kept /\ Rank(k) \in 1..c  BY <1>2, <1>4
  <2>2. w[Rank(k)] = msgs[k]  BY <1>5, <1>7, <2>1
  <2> QED  BY <1>6, <2>1, <2>2
<1> QED  BY <1>3, <1>9, <1>10, <1>11

\* Taking bubbles out, or adding one of the player, leaves the order.
LEMMA DrawnKeepsOrder ==
  ASSUME NEW pub, NEW msgs \in Seq(Bubble), NEW w \in Seq(Bubble), Drawn(w, msgs)
  PROVE  /\ Sorted(pub, msgs) => Sorted(pub, w)
         /\ \A t : UpTo(pub, msgs, t) => UpTo(pub, w, t)
<1>1. PICK f \in [DOMAIN w -> DOMAIN msgs] :
        /\ \A n \in DOMAIN w : w[n] = msgs[f[n]]
        /\ \A a, b \in DOMAIN w : a < b => f[a] < f[b]
  BY DEF Drawn
<1>2. \A n \in DOMAIN w : f[n] \in DOMAIN msgs  OBVIOUS
<1>3. Sorted(pub, msgs) => Sorted(pub, w)  BY <1>1, <1>2 DEF Sorted
<1>4. \A t : UpTo(pub, msgs, t) => UpTo(pub, w, t)  BY <1>1, <1>2 DEF UpTo
<1> QED  BY <1>3, <1>4

LEMMA PlayerKeepsOrder ==
  ASSUME NEW pub, NEW msgs \in Seq(Bubble), NEW i \in Submits
  PROVE  /\ Append(msgs, You(i)) \in Seq(Bubble)
         /\ Sorted(pub, msgs) => Sorted(pub, Append(msgs, You(i)))
         /\ \A t : UpTo(pub, msgs, t) => UpTo(pub, Append(msgs, You(i)), t)
<1> DEFINE b == You(i)
           w == Append(msgs, b)
<1>1. b \in Bubble /\ ~IsNarrator(b)  BY DEF You, Bubble, IsNarrator
<1> HIDE DEF b
<1>2. /\ w \in Seq(Bubble) /\ DOMAIN w = DOMAIN msgs \cup {Len(msgs) + 1}
      /\ w[Len(msgs) + 1] = b /\ \A k \in DOMAIN msgs : w[k] = msgs[k]
  BY <1>1
<1> HIDE DEF w
<1>3. \A k \in DOMAIN w : IsNarrator(w[k]) => k \in DOMAIN msgs /\ w[k] = msgs[k]
  BY <1>1, <1>2
<1>4. Sorted(pub, msgs) => Sorted(pub, w)  BY <1>3 DEF Sorted
<1>5. \A t : UpTo(pub, msgs, t) => UpTo(pub, w, t)  BY <1>3 DEF UpTo
<1> QED  BY <1>2, <1>4, <1>5 DEF w, b

\* A passage may be added after the earlier ones.
LEMMA PassageKeepsOrder ==
  ASSUME NEW pub \in Seq(Submits), NEW msgs \in Seq(Bubble), NEW t \in Told(pub),
         PlaceIn(pub, t) \in Nat, Sorted(pub, msgs),
         \A k \in DOMAIN msgs : IsNarrator(msgs[k]) =>
           /\ msgs[k].of \in Told(pub) /\ PlaceIn(pub, msgs[k].of) \in Nat
           /\ PlaceIn(pub, msgs[k].of) < PlaceIn(pub, t)
  PROVE  /\ Append(msgs, Narrator(t)) \in Seq(Bubble)
         /\ Sorted(pub, Append(msgs, Narrator(t)))
         /\ UpTo(pub, Append(msgs, Narrator(t)), t)
<1> DEFINE b == Narrator(t)
           w == Append(msgs, b)
<1>1. b \in Bubble /\ b.of = t  BY DEF Narrator, Bubble, Told
<1> HIDE DEF b
<1>2. /\ w \in Seq(Bubble) /\ DOMAIN w = 1..(Len(msgs) + 1) /\ Len(msgs) \in Nat
      /\ DOMAIN msgs = 1..Len(msgs)
      /\ w[Len(msgs) + 1] = b /\ \A k \in 1..Len(msgs) : w[k] = msgs[k]
  BY <1>1
<1> HIDE DEF w
<1>3. Sorted(pub, w)
  <2> SUFFICES ASSUME NEW x \in DOMAIN w, NEW y \in DOMAIN w, x < y,
                      IsNarrator(w[x]), IsNarrator(w[y])
               PROVE  PlaceIn(pub, w[x].of) < PlaceIn(pub, w[y].of)
    BY DEF Sorted
  <2>1. x \in DOMAIN msgs /\ w[x] = msgs[x]  BY <1>2
  <2>2. CASE y \in DOMAIN msgs  BY <1>2, <2>1, <2>2 DEF Sorted
  <2>3. CASE y \notin DOMAIN msgs
    <3>1. w[y].of = t  BY <1>1, <1>2, <2>3
    <3> QED  BY <2>1, <3>1
  <2> QED  BY <2>2, <2>3
<1>4. UpTo(pub, w, t)
  <2> SUFFICES ASSUME NEW x \in DOMAIN w, IsNarrator(w[x])
               PROVE  w[x].of \in Told(pub) /\ PlaceIn(pub, w[x].of) <= PlaceIn(pub, t)
    BY DEF UpTo
  <2>1. CASE x \in DOMAIN msgs
    <3>1. w[x] = msgs[x]  BY <1>2, <2>1
    <3> QED  BY <2>1, <3>1
  <2>2. CASE x \notin DOMAIN msgs
    <3>1. w[x].of = t  BY <1>1, <1>2, <2>2
    <3> QED  BY <3>1
  <2> QED  BY <2>1, <2>2
<1> QED  BY <1>2, <1>3, <1>4 DEF w, b

Once(pub) == \A j, k \in DOMAIN pub : pub[j] = pub[k] => j = k

\* Each published passage has one place, and the last one the last.
LEMMA PlacesOfPublished ==
  ASSUME NEW pub \in Seq(Submits), Once(pub)
  PROVE  /\ \A t \in Told(pub) :
              PlaceIn(pub, t) \in 1..Len(pub) /\ pub[PlaceIn(pub, t)] = t
         /\ \A k \in 1..Len(pub) : PlaceIn(pub, pub[k]) = k
         /\ Told(pub) \subseteq Submits
<1>1. DOMAIN pub = 1..Len(pub) /\ \A k \in 1..Len(pub) : pub[k] \in Submits
  OBVIOUS
<1>2. \A t \in Told(pub) :
        PlaceIn(pub, t) \in 1..Len(pub) /\ pub[PlaceIn(pub, t)] = t
  BY <1>1 DEF Told, PlaceIn
<1>3. \A k \in 1..Len(pub) : pub[k] \in Told(pub)  BY <1>1 DEF Told
<1>4. \A k \in 1..Len(pub) : PlaceIn(pub, pub[k]) = k
  BY <1>1, <1>2, <1>3 DEF Once
<1> QED  BY <1>1, <1>2, <1>4 DEF Told

\* The places stay when one more is published.
LEMMA PublishingKeepsOrder ==
  ASSUME NEW pub \in Seq(Submits), Once(pub), NEW t \in Submits, t \notin Told(pub)
  PROVE  LET new == Append(pub, t) IN
         /\ new \in Seq(Submits) /\ Once(new) /\ Told(new) = Told(pub) \cup {t}
         /\ \A msgs, u : UpTo(pub, msgs, u) => UpTo(new, msgs, u) /\ UpTo(new, msgs, t)
         /\ \A msgs, u : UpTo(pub, msgs, u) /\ Sorted(pub, msgs) => Sorted(new, msgs)
<1> DEFINE new == Append(pub, t)
           n == Len(pub)
<1>1. /\ n \in Nat /\ new \in Seq(Submits) /\ Len(new) = n + 1 /\ new[n + 1] = t
      /\ \A k \in 1..n : new[k] = pub[k]
      /\ DOMAIN pub = 1..n /\ DOMAIN new = 1..(n + 1)
  OBVIOUS
<1> HIDE DEF new, n
<1>2. Told(new) = Told(pub) \cup {t}  BY <1>1 DEF Told
<1>3. Once(new)
  <2>1. \A k \in 1..n : pub[k] # t  BY <1>1 DEF Told
  <2> QED  BY <1>1, <2>1 DEF Once
<1>4. /\ \A u \in Told(pub) : PlaceIn(pub, u) \in 1..n /\ pub[PlaceIn(pub, u)] = u
      /\ \A k \in 1..(n + 1) : PlaceIn(new, new[k]) = k
  BY <1>1, <1>3, PlacesOfPublished DEF n
<1>5. \A u \in Told(pub) : PlaceIn(new, u) = PlaceIn(pub, u)
  <2> SUFFICES ASSUME NEW u \in Told(pub)  PROVE PlaceIn(new, u) = PlaceIn(pub, u)
    OBVIOUS
  <2>1. PlaceIn(pub, u) \in 1..n /\ new[PlaceIn(pub, u)] = u  BY <1>1, <1>4
  <2>2. PlaceIn(pub, u) \in 1..(n + 1)  BY <1>1, <2>1
  <2> QED  BY <1>4, <2>1, <2>2
<1>6. PlaceIn(new, t) = n + 1  BY <1>1, <1>4
<1>7. \A msgs, u : UpTo(pub, msgs, u) => UpTo(new, msgs, u) /\ UpTo(new, msgs, t)
  <2> SUFFICES ASSUME NEW msgs, NEW u, UpTo(pub, msgs, u)
               PROVE  UpTo(new, msgs, u) /\ UpTo(new, msgs, t)
    OBVIOUS
  <2>1. \A k \in DOMAIN msgs : IsNarrator(msgs[k]) =>
          /\ msgs[k].of \in Told(new) /\ u \in Told(new)
          /\ PlaceIn(new, msgs[k].of) <= PlaceIn(new, u)
    BY <1>2, <1>5 DEF UpTo
  <2>2. \A k \in DOMAIN msgs : IsNarrator(msgs[k]) =>
          /\ t \in Told(new) /\ PlaceIn(new, msgs[k].of) <= PlaceIn(new, t)
    BY <1>1, <1>2, <1>4, <1>5, <1>6 DEF UpTo
  <2> QED  BY <2>1, <2>2 DEF UpTo
<1>8. \A msgs, u : UpTo(pub, msgs, u) /\ Sorted(pub, msgs) => Sorted(new, msgs)
  BY <1>5 DEF UpTo, Sorted
<1> QED  BY <1>1, <1>2, <1>3, <1>7, <1>8 DEF new

-----------------------------------------------------------------------------
(* The steps of the page                                                   *)

\* The passage of the session is the latest of those published.
LEMMA LatestIsLast ==
  ASSUME HostOK
  PROVE  /\ published \in Seq(Submits) /\ Once(published)
         /\ Told(published) \subseteq Submits /\ None \notin Told(published)
         /\ lastPassage \in Told(published) \cup {None}
         /\ \A t \in Told(published) :
              /\ PlaceIn(published, t) \in Nat
              /\ PlaceIn(published, t) \in DOMAIN published
              /\ published[PlaceIn(published, t)] = t
         /\ \A w, t : UpTo(published, w, t) => UpTo(published, w, lastPassage)
         /\ \A w, t : UpTo(published, w, None) => UpTo(published, w, t)
<1> DEFINE n == Len(published)
<1>1. published \in Seq(Submits) /\ Once(published)
  BY DEF HostOK, HostTyped, PublishedFits, Once
<1>2. /\ \A t \in Told(published) :
           PlaceIn(published, t) \in 1..n /\ published[PlaceIn(published, t)] = t
      /\ \A k \in 1..n : PlaceIn(published, published[k]) = k
      /\ Told(published) \subseteq Submits
  BY <1>1, PlacesOfPublished
<1>3. n \in Nat /\ DOMAIN published = 1..n /\ (published = <<>> <=> n = 0)
  BY <1>1
<1> HIDE DEF n
<1>4. None \notin Told(published)  BY <1>2, HostTurnsAssumption
<1>5. lastPassage = IF published = <<>> THEN None ELSE published[n]
  BY DEF HostOK, PublishedFits, n
<1>6. lastPassage \in Told(published) \cup {None}  BY <1>3, <1>5 DEF Told
<1>7. \A t \in Told(published) :
        lastPassage \in Told(published)
        /\ PlaceIn(published, t) <= PlaceIn(published, lastPassage)
  <2> SUFFICES ASSUME NEW t \in Told(published)
               PROVE  lastPassage \in Told(published)
                      /\ PlaceIn(published, t) <= PlaceIn(published, lastPassage)
    OBVIOUS
  <2>1. PlaceIn(published, t) \in 1..n  BY <1>2
  <2>2. n \in 1..n /\ lastPassage = published[n]  BY <1>3, <1>5, <2>1
  <2>3. PlaceIn(published, lastPassage) = n  BY <1>2, <2>2
  <2>4. lastPassage \in Told(published)  BY <1>3, <2>2 DEF Told
  <2> QED  BY <1>3, <2>1, <2>3, <2>4
<1>8. \A w, t : UpTo(published, w, t) => UpTo(published, w, lastPassage)
  BY <1>7 DEF UpTo
<1>9. \A w, t : UpTo(published, w, None) => UpTo(published, w, t)
  BY <1>4 DEF UpTo
<1>10. \A t \in Told(published) :
         PlaceIn(published, t) \in Nat /\ PlaceIn(published, t) \in DOMAIN published
  BY <1>2, <1>3
<1> QED  BY <1>1, <1>2, <1>4, <1>6, <1>8, <1>9, <1>10

\* When what is said is one passage, it is the latest bubble of the narrator.
LEMMA LastSaidIsLast ==
  ASSUME messages \in Seq(Bubble), LastSaid # None
  PROVE  \E k \in DOMAIN messages :
           /\ IsNarrator(messages[k]) /\ messages[k].of = LastSaid
           /\ \A j \in DOMAIN messages : IsNarrator(messages[j]) => j <= k
<1> DEFINE said == {k \in DOMAIN messages : IsNarrator(messages[k])}
           Rank(k) == Cardinality({j \in said : j <= k})
           c == Cardinality(said)
<1>1. Len(messages) \in Nat /\ said \in SUBSET (1..Len(messages))
  OBVIOUS
<1>2. said # {} /\ LastSaid = messages[CHOOSE k \in said : \A j \in said : j <= k].of
  BY DEF LastSaid
<1> HIDE DEF said
<1>3. /\ IsFiniteSet(said) /\ c \in Nat
      /\ \A k \in said : Rank(k) \in 1..c
      /\ \A j, k \in said : j < k => Rank(j) < Rank(k)
      /\ \A r \in 1..c : \E k \in said : Rank(k) = r
  BY <1>1, PlacesOfKept
<1> HIDE DEF Rank, c
<1>4. c \in 1..c  BY <1>2, <1>3
<1>5. PICK k \in said : Rank(k) = c  BY <1>3, <1>4
<1>6. \A j \in said : j <= k
  <2> SUFFICES ASSUME NEW j \in said  PROVE j <= k
    OBVIOUS
  <2>1. j \in Nat /\ k \in Nat /\ Rank(j) \in 1..c  BY <1>1, <1>3
  <2> QED  BY <1>3, <1>5, <2>1
<1>7. (CHOOSE x \in said : \A j \in said : j <= x) \in said
      /\ \A j \in said : j <= (CHOOSE x \in said : \A y \in said : y <= x)
  BY <1>6
<1> QED  BY <1>2, <1>7 DEF said

\* What is kept, when nothing new is shown, is as ordered as the transcript.
LEMMA KeepFits ==
  ASSUME HostOK, TranscriptFits, NEW w,
         Sorted(published, messages) => Sorted(published, w),
         \A t : UpTo(published, messages, t) => UpTo(published, w, t),
         Keep(w), shown' = shown, published' = published, lastPassage' = lastPassage,
         shown \in Told(published) \cup {None}
  PROVE  TranscriptFits'
<1>1. messages' = w /\ stored' = w  BY DEF Keep
<1>2. Sorted(published, w) /\ UpTo(published, w, shown)  BY DEF TranscriptFits
<1>3. UpTo(published, w, lastPassage)  BY <1>2, LatestIsLast
<1>4. shown = None => \A t : UpTo(published, w, t)  BY <1>2, LatestIsLast
<1> HIDE DEF Keep
<1> QED  BY <1>1, <1>2, <1>3, <1>4 DEF TranscriptFits

\* A passage that is told is shown, after those that were published before it,
\* unless a later one was told already.
LEMMA FinalizeFits ==
  ASSUME HostOK, PageOK, NEW t \in Told(published), Finalize(t),
         published' = published, lastPassage' = lastPassage
  PROVE  /\ messages' \in Seq(Bubble) /\ stored' = messages'
         /\ shown' = t /\ draft' = "none" /\ overtaken' \in BOOLEAN
         /\ finalized' \in BOOLEAN /\ pending' \in Submits \cup {None}
         /\ ~overtaken' => TranscriptFits'
<1>1. /\ published \in Seq(Submits) /\ Once(published)
      /\ Told(published) \subseteq Submits /\ None \notin Told(published)
      /\ \A u \in Told(published) :
           /\ PlaceIn(published, u) \in Nat
           /\ PlaceIn(published, u) \in DOMAIN published
           /\ published[PlaceIn(published, u)] = u
  BY LatestIsLast
<1>2. messages \in Seq(Bubble) /\ shown \in Told(published) \cup {None}
  BY DEF PageOK, PageTyped, ShownFits
<1>3. draft' = "none" /\ overtaken' = (overtaken \/ IsLate(t))  BY DEF Finalize
<1>4. overtaken' \in BOOLEAN  BY <1>3 DEF PageOK, PageTyped
<1>5. CASE AlreadyShown(t)
  <2>1. /\ Keep(messages) /\ shown' = shown /\ shown = t
        /\ finalized' = finalized /\ pending' = pending
    BY <1>5 DEF Finalize, AlreadyShown
  <2>2. ~overtaken' => TranscriptFits
    BY <1>3 DEF PageOK
  <2>3. ~overtaken' => TranscriptFits'
    BY <1>2, <2>1, <2>2, KeepFits
  <2>4. finalized' \in BOOLEAN /\ pending' \in Submits \cup {None}
    BY <2>1 DEF PageOK, PageTyped
  <2> QED  BY <1>2, <1>3, <1>4, <2>1, <2>3, <2>4 DEF Keep
<1>6. CASE ~AlreadyShown(t)
  <2> DEFINE w == WithPassage(messages, t)
  <2>1. /\ shown' = t /\ finalized' = TRUE /\ pending' = None /\ shown # t
        /\ messages' = w /\ stored' = w
    BY <1>6 DEF Finalize, AlreadyShown, Keep
  <2>2. /\ w \in Seq(Bubble)
        /\ ~overtaken' => Sorted(published, w) /\ UpTo(published, w, t)
    <3>1. CASE draft # "held" /\ LastSaid = t
      <4>1. w = messages  BY <3>1 DEF WithPassage
      <4>2. LastSaid # None  BY <1>1, <3>1
      <4>3. PICK k \in DOMAIN messages :
              /\ IsNarrator(messages[k]) /\ messages[k].of = t
              /\ \A j \in DOMAIN messages : IsNarrator(messages[j]) => j <= k
        BY <1>2, <3>1, <4>2, LastSaidIsLast
      <4>4. ~overtaken' => Sorted(published, messages) /\ UpTo(published, messages, shown)
        BY <1>3 DEF PageOK, TranscriptFits
      <4>5. ASSUME ~overtaken'  PROVE UpTo(published, messages, t)
        <5> SUFFICES ASSUME NEW j \in DOMAIN messages, IsNarrator(messages[j])
                     PROVE  /\ messages[j].of \in Told(published)
                            /\ PlaceIn(published, messages[j].of) <= PlaceIn(published, t)
          BY DEF UpTo
        <5>1. messages[j].of \in Told(published)  BY <4>4, <4>5 DEF UpTo
        <5>2. j \in Nat /\ k \in Nat /\ j <= k  BY <1>2, <4>3
        <5>3. CASE j = k  BY <1>1, <4>3, <5>1, <5>3
        <5>4. CASE j < k
          <6>1. PlaceIn(published, messages[j].of) < PlaceIn(published, messages[k].of)
            BY <4>3, <4>4, <4>5, <5>4 DEF Sorted
          <6> QED  BY <1>1, <4>3, <5>1, <6>1
        <5> QED  BY <5>2, <5>3, <5>4
      <4> QED  BY <1>2, <4>1, <4>4, <4>5
    <3>2. CASE ~(draft # "held" /\ LastSaid = t)
      <4>1. w = Append(messages, Narrator(t))  BY <3>2 DEF WithPassage
      <4>2. w \in Seq(Bubble)
        <5>1. Narrator(t) \in Bubble  BY <1>1 DEF Narrator, Bubble
        <5> QED  BY <1>2, <4>1, <5>1
      <4>3. ASSUME ~overtaken'  PROVE Sorted(published, w) /\ UpTo(published, w, t)
        <5>1. Sorted(published, messages) /\ UpTo(published, messages, shown)
          BY <1>3, <4>3 DEF PageOK, TranscriptFits
        <5>2. ASSUME shown # None
              PROVE  PlaceIn(published, shown) < PlaceIn(published, t)
          <6> DEFINE k == PlaceIn(published, shown)
                     j == PlaceIn(published, t)
          <6>1. /\ k \in Nat /\ k \in DOMAIN published /\ published[k] = shown
                /\ j \in Nat /\ j \in DOMAIN published /\ published[j] = t
            BY <1>1, <1>2, <5>2
          <6>2. j # k  BY <2>1, <6>1
          <6>3. ~\E x \in 1..(k - 1) : published[x] = t
            BY <1>3, <4>3, <6>1 DEF IsLate
          <6>4. j \notin 1..(k - 1)  BY <6>1, <6>3
          <6>5. j \in 1..Len(published)  BY <1>1, <6>1
          <6> HIDE DEF j, k
          <6>6. k < j  BY <6>1, <6>2, <6>4, <6>5
          <6> QED  BY <6>6 DEF j, k
        <5>3. \A k \in DOMAIN messages : IsNarrator(messages[k]) =>
                /\ messages[k].of \in Told(published)
                /\ PlaceIn(published, messages[k].of) \in Nat
                /\ PlaceIn(published, messages[k].of) < PlaceIn(published, t)
          <6> SUFFICES ASSUME NEW k \in DOMAIN messages, IsNarrator(messages[k])
                       PROVE  /\ messages[k].of \in Told(published)
                              /\ PlaceIn(published, messages[k].of) \in Nat
                              /\ PlaceIn(published, messages[k].of) < PlaceIn(published, t)
            OBVIOUS
          <6>1. /\ messages[k].of \in Told(published) /\ shown \in Told(published)
                /\ PlaceIn(published, messages[k].of) <= PlaceIn(published, shown)
            BY <5>1 DEF UpTo
          <6>2. shown # None  BY <1>1, <6>1
          <6> QED  BY <1>1, <5>2, <6>1, <6>2
        <5>4. PlaceIn(published, t) \in Nat  BY <1>1
        <5> QED  BY <1>1, <1>2, <4>1, <5>1, <5>3, <5>4, PassageKeepsOrder
      <4> QED  BY <4>2, <4>3
    <3> QED  BY <3>1, <3>2
  <2> HIDE DEF w
  <2>3. UpTo(published, w, t) => UpTo(published, w, lastPassage)
    BY LatestIsLast
  <2>4. t # None  BY <1>1
  <2>5. ~overtaken' => TranscriptFits'
    BY <2>1, <2>2, <2>3, <2>4 DEF TranscriptFits
  <2> QED  BY <1>3, <1>4, <2>1, <2>2, <2>5
<1> QED  BY <1>5, <1>6

\* A rejection takes the pending bubble back.
LEMMA RejectionFits ==
  ASSUME HostOK, PageOK, RejectPending, overtaken' = overtaken,
         published' = published, lastPassage' = lastPassage
  PROVE  /\ messages' \in Seq(Bubble) /\ stored' = messages' /\ shown' = shown
         /\ draft' = "none" /\ busy' = FALSE /\ finalized' = TRUE /\ pending' = None
         /\ composer' \in Submits \cup {None}
         /\ ~overtaken' => TranscriptFits'
<1> DEFINE w == Without(messages, You(pending))
<1>1. /\ Keep(w) /\ shown' = shown /\ draft' = "none" /\ busy' = FALSE
      /\ finalized' = TRUE /\ pending' = None
      /\ composer' = IF pending = None THEN composer ELSE pending
  BY DEF RejectPending, DropsPending
<1>2. /\ messages \in Seq(Bubble) /\ shown \in Told(published) \cup {None}
      /\ pending \in Submits \cup {None} /\ composer \in Submits \cup {None}
  BY DEF PageOK, PageTyped, ShownFits
<1>3. w \in Seq(Bubble) /\ Drawn(w, messages)  BY <1>2, WithoutDraws
<1> HIDE DEF w
<1>4. /\ Sorted(published, messages) => Sorted(published, w)
      /\ \A t : UpTo(published, messages, t) => UpTo(published, w, t)
  BY <1>2, <1>3, DrawnKeepsOrder
<1>5. ~overtaken' => TranscriptFits  BY DEF PageOK
<1>6. ~overtaken' => TranscriptFits'  BY <1>1, <1>2, <1>4, <1>5, KeepFits
<1> QED  BY <1>1, <1>2, <1>3, <1>6 DEF Keep

\* Views that leave, and new ones that were just sent, change nothing.
LEMMA ViewsFit ==
  ASSUME PageOK, published' = published,
         shown' \in Told(published) \cup {None},
         \A v \in views' : v \in views \/ v.at = "sent"
  PROVE  ShownFits'
BY DEF PageOK, ShownFits

LEMMA SubmittingKeepsPage ==
  ASSUME HostOK, PageOK, NEW i \in Submits, SubmitText(i)
  PROVE  PageOK'
<1> DEFINE w == Append(messages, You(i))
<1>1. /\ Keep(w) /\ hydrated # "no" /\ posts' = posts \cup {i} /\ busy' = TRUE
      /\ finalized' = FALSE /\ draft' = "none" /\ pending' = i /\ composer' = None
      /\ UNCHANGED <<hostVars, hydrated, shown, views, faults, overtaken>>
  BY DEF SubmitText
<1>2. published' = published /\ lastPassage' = lastPassage  BY <1>1 DEF hostVars, serviceVars, engineVars, streamVars
<1>3. messages \in Seq(Bubble) /\ shown \in Told(published) \cup {None}
  BY DEF PageOK, PageTyped, ShownFits
<1>4. /\ w \in Seq(Bubble)
      /\ Sorted(published, messages) => Sorted(published, w)
      /\ \A t : UpTo(published, messages, t) => UpTo(published, w, t)
  BY <1>3, PlayerKeepsOrder
<1> HIDE DEF w
<1>5. PageTyped'  BY <1>1, <1>4 DEF PageOK, PageTyped, Keep
<1>6. LoadFits'  BY <1>1 DEF PageOK, LoadFits, Keep
<1>7. ShownFits'  BY <1>1, <1>2, <1>3, ViewsFit
<1>8. ~overtaken' => TranscriptFits'
  <2>1. ~overtaken' => TranscriptFits  BY <1>1 DEF PageOK
  <2> QED  BY <1>1, <1>2, <1>3, <1>4, <2>1, KeepFits
<1> QED  BY <1>5, <1>6, <1>7, <1>8 DEF PageOK

\* What is shown does not change: an answer, a start, a delta, a commit.
LEMMA SameTranscriptKeepsPage ==
  ASSUME HostOK, PageOK, PageTyped',
         UNCHANGED <<published, lastPassage, messages, stored, shown, overtaken>>,
         \A v \in views' : v \in views \/ (v.at = "sent" /\ v.why = "commit"),
         \/ hydrated' = hydrated
         \/ hydrated' = "failed" /\ \A v \in views' : v.why # "load"
  PROVE  PageOK'
<1>1. LoadFits'  BY DEF PageOK, LoadFits
<1>2. shown \in Told(published) \cup {None}  BY DEF PageOK, ShownFits
<1>3. ShownFits'  BY <1>2, ViewsFit
<1>4. ~overtaken' => TranscriptFits'  BY DEF PageOK, TranscriptFits
<1> QED  BY <1>1, <1>3, <1>4 DEF PageOK

LEMMA RejectingKeepsPage ==
  ASSUME HostOK, PageOK, RejectPending, posts' \subseteq posts,
         faults' \in 0..MaxFaults,
         UNCHANGED <<published, lastPassage, hydrated, views, overtaken>>
  PROVE  PageOK'
<1>1. /\ messages' \in Seq(Bubble) /\ stored' = messages' /\ shown' = shown
      /\ draft' = "none" /\ busy' = FALSE /\ finalized' = TRUE /\ pending' = None
      /\ composer' \in Submits \cup {None}
      /\ ~overtaken' => TranscriptFits'
  BY RejectionFits
<1>2. shown \in Told(published) \cup {None}  BY DEF PageOK, ShownFits
<1>3. PageTyped'  BY <1>1 DEF PageOK, PageTyped
<1>4. LoadFits'  BY <1>1 DEF PageOK, LoadFits
<1>5. ShownFits'  BY <1>1, <1>2, ViewsFit
<1> QED  BY <1>1, <1>3, <1>4, <1>5 DEF PageOK

LEMMA FinalizingKeepsPage ==
  ASSUME HostOK, PageOK, NEW t \in Told(published), Finalize(t),
         views' \subseteq views,
         UNCHANGED <<published, lastPassage, busy, hydrated, composer, posts, faults>>
  PROVE  PageOK'
<1>1. /\ messages' \in Seq(Bubble) /\ stored' = messages'
      /\ shown' = t /\ draft' = "none" /\ overtaken' \in BOOLEAN
      /\ finalized' \in BOOLEAN /\ pending' \in Submits \cup {None}
      /\ ~overtaken' => TranscriptFits'
  BY FinalizeFits
<1>2. t \in Submits  BY LatestIsLast
<1>3. PageTyped'  BY <1>1, <1>2 DEF PageOK, PageTyped
<1>4. LoadFits'  BY <1>1 DEF PageOK, LoadFits
<1>5. ShownFits'  BY <1>1, ViewsFit
<1> QED  BY <1>1, <1>3, <1>4, <1>5 DEF PageOK

LEMMA AnswerKeepsPage ==
  ASSUME HostOK, PageOK, NEW i \in Submits, AnswerArrives(i)
  PROVE  PageOK'
<1>1. /\ posts' = posts \ {i} /\ published' = published
      /\ lastPassage' = lastPassage
      /\ UNCHANGED <<hydrated, views, faults, overtaken>>
  BY DEF AnswerArrives, hostVars, serviceVars, engineVars, streamVars
<1>2. CASE answer[i] = "error"
  <2>1. RejectPending  BY <1>2 DEF AnswerArrives
  <2>2. faults' \in 0..MaxFaults  BY <1>1 DEF PageOK, PageTyped
  <2> QED  BY <1>1, <2>1, <2>2, RejectingKeepsPage
<1>3. CASE answer[i] # "error"
  <2>1. UNCHANGED <<busy, finalized, draft, pending, messages, stored, composer,
                    shown>>
    BY <1>3 DEF AnswerArrives
  <2>2. PageTyped'  BY <1>1, <2>1 DEF PageOK, PageTyped
  <2> QED  BY <1>1, <2>1, <2>2, SameTranscriptKeepsPage
<1> QED  BY <1>2, <1>3

LEMMA FaultsAreBounded == ASSUME PageOK, Fault  PROVE faults' \in 0..MaxFaults
BY PlayClientAssumption DEF PageOK, PageTyped, Fault

LEMMA PostFailureKeepsPage ==
  ASSUME HostOK, PageOK, NEW i \in Submits, PostFails(i)
  PROVE  PageOK'
<1>1. /\ posts' \subseteq posts /\ RejectPending
      /\ UNCHANGED <<published, lastPassage, hydrated, views, overtaken>>
  BY DEF PostFails, hostVars, serviceVars, engineVars, streamVars
<1>2. faults' \in 0..MaxFaults  BY FaultsAreBounded DEF PostFails
<1> QED  BY <1>1, <1>2, RejectingKeepsPage

\* The event that is handled tells of a turn, and of a passage only when it was
\* published.
LEMMA EventKeepsPage ==
  ASSUME HostOK, PageOK, Receive
  PROVE  PageOK'
<1> DEFINE e == Head(events)
<1>1. UNCHANGED <<published, lastPassage, hydrated, posts, faults>>
  BY DEF Receive, engineVars
<1>2. e \in Announcement /\ (e.type = "passage" => e.turn \in Told(published))
  <2>1. events \in Seq(Announcement) /\ events # <<>>
    BY DEF HostOK, HostTyped, Receive
  <2>2. 1 \in DOMAIN events /\ e = events[1] /\ e \in Announcement  BY <2>1
  <2> QED  BY <2>2 DEF HostOK, PublishedFits
<1>3. e.turn \in TurnIds  BY <1>2 DEF Announcement
<1>4. \/ e.type = "started" /\ OnStarted
      \/ e.type = "delta" /\ OnDelta
      \/ e.type = "passage" /\ OnPassage(e.turn)
      \/ e.type = "committed" /\ OnCommitted(e.turn)
      \/ e.type = "rejected" /\ OnRejected(e.turn)
      \/ UNCHANGED told
  BY DEF Receive
<1> HIDE DEF e
<1>5. CASE UNCHANGED told
  <2>1. PageTyped'  BY <1>1, <1>5 DEF PageOK, PageTyped, told
  <2> QED  BY <1>1, <1>5, <2>1, SameTranscriptKeepsPage DEF told
<1>6. CASE OnStarted
  <2>1. PageTyped'  BY <1>1, <1>6 DEF PageOK, PageTyped, OnStarted
  <2> QED  BY <1>1, <1>6, <2>1, SameTranscriptKeepsPage DEF OnStarted
<1>7. CASE OnDelta
  <2>1. PageTyped'  BY <1>1, <1>7 DEF PageOK, PageTyped, OnDelta
  <2> QED  BY <1>1, <1>7, <2>1, SameTranscriptKeepsPage DEF OnDelta
<1>8. CASE e.type = "passage" /\ OnPassage(e.turn)
  <2>1. Finalize(e.turn) /\ UNCHANGED <<busy, composer, views>>
    BY <1>8 DEF OnPassage
  <2> QED  BY <1>1, <1>2, <1>8, <2>1, FinalizingKeepsPage
<1>9. CASE OnCommitted(e.turn)
  <2>1. CASE e.turn \in Submits
    <3> DEFINE v == [why |-> "commit", of |-> e.turn, at |-> "sent", passage |-> None]
    <3>1. /\ views' = views \cup {v} /\ busy' = FALSE /\ pending' = None
          /\ UNCHANGED <<messages, stored, draft, finalized, shown, composer, overtaken>>
      BY <1>9, <2>1 DEF OnCommitted, Refetch
    <3>2. v \in View /\ v.at = "sent" /\ v.why = "commit"  BY <1>3 DEF View
    <3> HIDE DEF v
    <3>3. PageTyped'  BY <1>1, <3>1, <3>2 DEF PageOK, PageTyped
    <3> QED  BY <1>1, <3>1, <3>2, <3>3, SameTranscriptKeepsPage
  <2>2. CASE e.turn \notin Submits  BY <1>5, <1>9, <2>2 DEF OnCommitted
  <2> QED  BY <2>1, <2>2
<1>10. CASE OnRejected(e.turn)
  <2>1. CASE IsPlayerTurn(e.turn)
    <3>1. RejectPending /\ UNCHANGED <<views, overtaken>>
      BY <1>10, <2>1 DEF OnRejected
    <3>2. faults' \in 0..MaxFaults  BY <1>1 DEF PageOK, PageTyped
    <3> QED  BY <1>1, <3>1, <3>2, RejectingKeepsPage
  <2>2. CASE ~IsPlayerTurn(e.turn)  BY <1>5, <1>10, <2>2 DEF OnRejected
  <2> QED  BY <2>1, <2>2
<1> QED  BY <1>4, <1>5, <1>6, <1>7, <1>8, <1>9, <1>10

LEMMA ServingKeepsPage ==
  ASSUME HostOK, PageOK, NEW v \in views, ViewServed(v)
  PROVE  PageOK'
<1> DEFINE b == [v EXCEPT !.at = "back", !.passage = lastPassage]
<1>1. /\ views' = (views \ {v}) \cup {b}
      /\ published' = published /\ lastPassage' = lastPassage
      /\ UNCHANGED <<busy, hydrated, messages, draft, finalized, shown, pending,
                     composer, stored, posts, faults, overtaken>>
  BY DEF ViewServed, hostVars, serviceVars, engineVars, streamVars
<1>2. lastPassage \in Told(published) \cup {None} /\ Told(published) \subseteq Submits
  BY LatestIsLast
<1>3. b \in View /\ b.why = v.why /\ b.passage = lastPassage
  <2>1. v \in View  BY DEF PageOK, PageTyped
  <2> QED  BY <1>2, <2>1 DEF View
<1> HIDE DEF b
<1>4. PageTyped'  BY <1>1, <1>3 DEF PageOK, PageTyped
<1>5. LoadFits'  BY <1>1, <1>3 DEF PageOK, LoadFits
<1>6. ShownFits'  BY <1>1, <1>2, <1>3 DEF PageOK, ShownFits
<1>7. ~overtaken' => TranscriptFits'
  BY <1>1, <1>3 DEF PageOK, TranscriptFits
<1> QED  BY <1>4, <1>5, <1>6, <1>7 DEF PageOK

\* The load takes what is stored, which ends with what was shown, or with what
\* the view brings.
LEMMA LoadKeepsPage ==
  ASSUME HostOK, PageOK, NEW v \in views, LoadArrives(v)
  PROVE  PageOK'
<1> DEFINE p == v.passage
<1>1. /\ v.why = "load" /\ v.at = "back" /\ views' = views \ {v}
      /\ hydrated' = "loaded" /\ overtaken' = (overtaken \/ shown \notin {None, p})
      /\ published' = published /\ lastPassage' = lastPassage
      /\ UNCHANGED <<busy, finalized, pending, composer, posts, faults>>
      /\ draft' = IF draft = "held" THEN "lost"
                  ELSE IF draft = "stale" THEN "none" ELSE draft
  BY DEF LoadArrives, hostVars, serviceVars, engineVars, streamVars
<1>2. /\ published \in Seq(Submits) /\ Once(published)
      /\ Told(published) \subseteq Submits /\ None \notin Told(published)
      /\ \A u \in Told(published) : PlaceIn(published, u) \in Nat
      /\ \A w, t : UpTo(published, w, t) => UpTo(published, w, lastPassage)
  BY LatestIsLast
<1>3. /\ stored \in Seq(Bubble) /\ shown \in Told(published) \cup {None}
      /\ p \in Told(published) \cup {None}
  BY <1>1 DEF PageOK, PageTyped, ShownFits
<1>4. \A w \in views' : w.why # "load"  BY <1>1 DEF PageOK, LoadFits
<1>5. ASSUME ~overtaken'
      PROVE  /\ Sorted(published, stored) /\ UpTo(published, stored, lastPassage)
             /\ UpTo(published, stored, p) /\ shown \in {None, p}
  <2>1. TranscriptFits /\ shown \in {None, p}  BY <1>1, <1>5 DEF PageOK
  <2>2. CASE shown = None  BY <1>1, <2>1, <2>2 DEF TranscriptFits
  <2>3. CASE shown # None  BY <2>1, <2>3 DEF TranscriptFits
  <2> QED  BY <2>1, <2>2, <2>3
<1>6. /\ messages' = stored' /\ messages' \in Seq(Bubble)
      /\ shown' \in Told(published) \cup {None}
      /\ ~overtaken' => /\ Sorted(published, messages')
                        /\ UpTo(published, messages', shown')
                        /\ UpTo(published, messages', lastPassage)
  <2>1. CASE stored # <<>>
    <3>1. messages' = stored /\ shown' = p /\ stored' = stored
      BY <2>1 DEF LoadArrives
    <3> QED  BY <1>3, <1>5, <3>1
  <2>2. CASE stored = <<>> /\ p # None
    <3> DEFINE w == Append(stored, Narrator(p))
    <3>1. messages' = w /\ stored' = w /\ shown' = p
      BY <2>2 DEF LoadArrives, Keep
    <3>2. p \in Told(published) /\ DOMAIN stored = {}  BY <1>3, <2>2
    <3>3. Sorted(published, stored)  BY <3>2 DEF Sorted
    <3>4. /\ w \in Seq(Bubble) /\ Sorted(published, w) /\ UpTo(published, w, p)
      BY <1>2, <1>3, <3>2, <3>3, PassageKeepsOrder
    <3> HIDE DEF w, p
    <3> QED  BY <1>2, <3>1, <3>2, <3>4
  <2>3. CASE stored = <<>> /\ p = None
    <3>1. messages' = stored /\ stored' = stored /\ shown' = shown
      BY <2>3 DEF LoadArrives
    <3> QED  BY <1>3, <1>5, <2>3, <3>1
  <2> QED  BY <2>1, <2>2, <2>3
<1> HIDE DEF p
<1>7. PageTyped'
  <2>1. shown' \in Submits \cup {None}  BY <1>2, <1>6
  <2>2. overtaken' \in BOOLEAN  BY <1>1 DEF PageOK, PageTyped
  <2>3. draft' \in {"none", "held", "stale", "lost"}  BY <1>1 DEF PageOK, PageTyped
  <2> QED  BY <1>1, <1>6, <2>1, <2>2, <2>3 DEF PageOK, PageTyped
<1>8. LoadFits'  BY <1>4, <1>6 DEF LoadFits
<1>9. ShownFits'  BY <1>1, <1>6, ViewsFit
<1>10. ~overtaken' => TranscriptFits'
  BY <1>1, <1>4, <1>6 DEF TranscriptFits
<1> QED  BY <1>7, <1>8, <1>9, <1>10 DEF PageOK

LEMMA CommitViewKeepsPage ==
  ASSUME HostOK, PageOK, NEW v \in views, CommitViewArrives(v)
  PROVE  PageOK'
<1>1. /\ v.at = "back" /\ views' \subseteq views
      /\ UNCHANGED <<published, lastPassage, busy, hydrated, composer, posts, faults>>
  BY DEF CommitViewArrives, hostVars, serviceVars, engineVars, streamVars
<1>2. CASE v.passage = None
  <2>1. UNCHANGED <<messages, stored, draft, finalized, shown, pending, overtaken>>
    BY <1>2 DEF CommitViewArrives
  <2>2. PageTyped'  BY <1>1, <2>1 DEF PageOK, PageTyped
  <2> QED  BY <1>1, <2>1, <2>2, SameTranscriptKeepsPage
<1>3. CASE v.passage # None
  <2>1. v.passage \in Told(published) /\ Finalize(v.passage)
    BY <1>1, <1>3 DEF CommitViewArrives, PageOK, ShownFits
  <2> QED  BY <1>1, <2>1, FinalizingKeepsPage
<1> QED  BY <1>2, <1>3

LEMMA DropKeepsPage ==
  ASSUME HostOK, PageOK, NEW v \in views, ViewDropped(v)
  PROVE  PageOK'
<1>1. /\ views' = views \ {v}
      /\ hydrated' = IF v.why = "load" THEN "failed" ELSE hydrated
      /\ UNCHANGED <<published, lastPassage, busy, messages, draft, finalized, shown,
                     pending, composer, stored, posts, overtaken>>
  BY DEF ViewDropped, hostVars, serviceVars, engineVars, streamVars
<1>2. faults' \in 0..MaxFaults  BY FaultsAreBounded DEF ViewDropped
<1>3. PageTyped'  BY <1>1, <1>2 DEF PageOK, PageTyped
<1>4. \/ hydrated' = hydrated
      \/ hydrated' = "failed" /\ \A w \in views' : w.why # "load"
  BY <1>1 DEF PageOK, LoadFits
<1> QED  BY <1>1, <1>3, <1>4, SameTranscriptKeepsPage

LEMMA ReloadKeepsPage ==
  ASSUME HostOK, PageOK, Reload
  PROVE  PageOK'
<1>1. /\ busy' = FALSE /\ hydrated' = "no" /\ messages' = <<>> /\ draft' = "none"
      /\ finalized' = FALSE /\ shown' = None /\ pending' = None /\ composer' = None
      /\ posts' = {} /\ views' = {LoadView}
      /\ UNCHANGED <<published, lastPassage, stored, overtaken>>
  BY DEF Reload, engineVars
<1>2. faults' \in 0..MaxFaults  BY FaultsAreBounded DEF Reload
<1>3. LoadView \in View /\ LoadView.at = "sent"  BY DEF LoadView, View
<1>4. <<>> \in Seq(Bubble) /\ DOMAIN <<>> = {}  OBVIOUS
<1>5. PageTyped'  BY <1>1, <1>2, <1>3, <1>4 DEF PageOK, PageTyped
<1>6. LoadFits'  BY <1>1 DEF LoadFits
<1>7. ShownFits'  BY <1>1, <1>3 DEF ShownFits
<1>8. ~overtaken' => TranscriptFits'
  <2>1. Sorted(published, <<>>) /\ UpTo(published, <<>>, None)
    BY <1>4 DEF Sorted, UpTo
  <2> QED  BY <1>1, <1>3, <2>1 DEF PageOK, TranscriptFits
<1> QED  BY <1>5, <1>6, <1>7, <1>8 DEF PageOK

\* A step of the host may publish one more passage, and leaves the page.
LEMMA HostLeavesPage ==
  ASSUME HostOK, PageOK, UNCHANGED pageVars, faults' \in 0..MaxFaults,
         \/ published' = published /\ lastPassage' = lastPassage
         \/ \E t \in Submits : t \notin Told(published) /\ lastPassage' = t
                              /\ published' = Append(published, t)
  PROVE  PageOK'
<1>1. PageTyped'  BY DEF PageOK, PageTyped, pageVars
<1>2. LoadFits'  BY DEF PageOK, LoadFits, pageVars
<1>3. CASE published' = published /\ lastPassage' = lastPassage
  <2>1. ShownFits'  BY <1>3 DEF PageOK, ShownFits, pageVars
  <2>2. ~overtaken' => TranscriptFits'
    BY <1>3 DEF PageOK, TranscriptFits, pageVars
  <2> QED  BY <1>1, <1>2, <2>1, <2>2 DEF PageOK
<1>4. ASSUME NEW t \in Submits, t \notin Told(published), lastPassage' = t,
             published' = Append(published, t)
      PROVE  PageOK'
  <2> DEFINE new == Append(published, t)
  <2>1. published \in Seq(Submits) /\ Once(published)  BY LatestIsLast
  <2>2. /\ Told(new) = Told(published) \cup {t}
        /\ \A msgs, u :
             UpTo(published, msgs, u) => UpTo(new, msgs, u) /\ UpTo(new, msgs, t)
        /\ \A msgs, u :
             UpTo(published, msgs, u) /\ Sorted(published, msgs) => Sorted(new, msgs)
    BY <1>4, <2>1, PublishingKeepsOrder
  <2>3. published' = new  BY <1>4
  <2> HIDE DEF new
  <2>4. ShownFits'  BY <2>2, <2>3 DEF PageOK, ShownFits, pageVars
  <2>5. ~overtaken' => TranscriptFits'
    <3> SUFFICES ASSUME ~overtaken'  PROVE TranscriptFits'
      OBVIOUS
    <3>1. TranscriptFits  BY DEF PageOK, pageVars
    <3>2. Sorted(new, messages) /\ Sorted(new, stored)  BY <2>2, <3>1 DEF TranscriptFits
    <3>3. /\ UpTo(new, messages, shown) /\ UpTo(new, stored, t)
          /\ shown # None => UpTo(new, stored, shown)
          /\ shown = None =>
               \A v \in views : v.why = "load" /\ v.at = "back" =>
                 UpTo(new, stored, v.passage)
      BY <2>2, <3>1 DEF TranscriptFits
    <3> QED  BY <1>4, <2>3, <3>2, <3>3 DEF TranscriptFits, pageVars
  <2> QED  BY <1>1, <1>2, <2>4, <2>5 DEF PageOK
<1> QED  BY <1>3, <1>4

-----------------------------------------------------------------------------
(* The specification                                                       *)

LEMMA InitHost == PlayInit => HostOK
<1> SUFFICES ASSUME PlayInit PROVE HostOK
  OBVIOUS
<1> USE HostTurnsAssumption DEF PlayInit, HostInit
<1>1. <<>> \in Seq(Submits) /\ <<>> \in Seq(Announcement) /\ DOMAIN <<>> = {}
  OBVIOUS
<1>2. HostTyped
  <2>1. activeTurns \in 0..MaxConcurrent /\ deltas \in 0..MaxDeltas  OBVIOUS
  <2>2. engine \in [turn : TurnIds \cup {None}, phase : {"idle", "running", "closing", "left"}]
    BY DEF Idle
  <2>3. published \in Seq(Submits) /\ events \in Seq(Announcement)  BY <1>1
  <2>4. /\ sub \in [Submits -> {"new", "waiting", "running", "ended"}]
        /\ captured \in [Submits -> TurnIds \cup {None}]
        /\ answer \in [Submits -> {"none", "pending", "accepted", "error"}]
        /\ named \in [Submits -> TurnIds \cup {None}]
        /\ narrator \in [Submits -> {"none", "adrift", "late"}]
        /\ jobs \in [TurnIds -> {"none", "running", "committed", "rejected"}]
        /\ outcome \in [TurnIds -> {"none", "committed", "rejected", "threw"}]
    OBVIOUS
  <2>5. /\ lastPassage \in Submits \cup {None} /\ silent \in BOOLEAN
        /\ stream \in {"opening", "open", "lost"}
    OBVIOUS
  <2> QED  BY <2>1, <2>2, <2>3, <2>4, <2>5 DEF HostTyped
<1>3. EngineFits  BY DEF EngineFits, Idle, TurnIds
<1>4. PublishedFits  BY <1>1 DEF PublishedFits, Told
<1>5. JobsFit  BY DEF JobsFit, Says, TurnIds
<1> QED  BY <1>2, <1>3, <1>4, <1>5 DEF HostOK

LEMMA InitPage == PlayInit => PageOK
<1> SUFFICES ASSUME PlayInit PROVE PageOK
  OBVIOUS
<1> USE PlayClientAssumption DEF PlayInit, HostInit
<1>1. <<>> \in Seq(Bubble) /\ DOMAIN <<>> = {}  OBVIOUS
<1>2. LoadView \in View /\ LoadView.at = "sent"  BY DEF LoadView, View
<1>3. PageTyped
  <2>1. messages \in Seq(Bubble) /\ stored \in Seq(Bubble)  BY <1>1
  <2>2. posts \subseteq Submits /\ views \subseteq View  BY <1>2
  <2>3. faults \in 0..MaxFaults  OBVIOUS
  <2>4. /\ busy \in BOOLEAN /\ hydrated \in {"no", "loaded", "failed"}
        /\ draft \in {"none", "held", "stale", "lost"} /\ finalized \in BOOLEAN
        /\ shown \in Submits \cup {None} /\ pending \in Submits \cup {None}
        /\ composer \in Submits \cup {None} /\ overtaken \in BOOLEAN
    OBVIOUS
  <2> QED  BY <2>1, <2>2, <2>3, <2>4 DEF PageTyped
<1>4. LoadFits  BY DEF LoadFits
<1>5. ShownFits  BY <1>2 DEF ShownFits
<1>6. TranscriptFits  BY <1>1, <1>2 DEF TranscriptFits, Sorted, UpTo
<1> QED  BY <1>3, <1>4, <1>5, <1>6 DEF PageOK

LEMMA NextKeepsHost == HostOK /\ [PlayNext]_playVars => HostOK'
<1> SUFFICES ASSUME HostOK, [PlayNext]_playVars PROVE HostOK'
  OBVIOUS
<1>1. CASE UNCHANGED hostVars
  <2>1. stream' = stream /\ stream \in {"opening", "open", "lost"}
    BY <1>1 DEF hostVars, serviceVars, engineVars, streamVars, HostOK, HostTyped
  <2> QED  BY <1>1, <2>1, StreamKeepsHost DEF hostVars, serviceVars, engineVars, streamVars
<1>2. CASE EngineProgress
  BY <1>2, PlayerTurnKeepsHost, ReturnKeepsHost, CommitKeepsHost, TurnEndKeepsHost
  DEF EngineProgress
<1>3. CASE StreamDelta  BY <1>3, DeltaKeepsHost
<1>4. CASE StreamOpens  BY <1>4, StreamKeepsHost DEF StreamOpens
<1>5. CASE StreamLost  BY <1>5, StreamKeepsHost DEF StreamLost
<1>6. CASE RejectTurn  BY <1>6, RejectKeepsHost
<1>7. ASSUME NEW i \in Submits,
             Accept(i) \/ LateDelta(i) \/ ActionThrows(i) \/ ActionRefused(i)
      PROVE  HostOK'
  BY <1>7, AcceptKeepsHost, LateDeltaKeepsHost, ThrowKeepsHost, RefusalKeepsHost
<1>8. ASSUME NEW s \in SystemTurns, StartSystemTurn(s)  PROVE HostOK'
  BY <1>8, SystemTurnKeepsHost
<1>9. ASSUME NEW i \in Submits, PostArrives(i)  PROVE HostOK'
  BY <1>9, SubmitKeepsHost DEF PostArrives
<1>10. CASE Receive
  <2>1. stream' \in {"opening", "open", "lost"}
    BY <1>10 DEF Receive, HostOK, HostTyped
  <2> QED  BY <1>10, <2>1, StreamKeepsHost DEF Receive
<1>11. CASE Reload  BY <1>11, StreamKeepsHost DEF Reload
<1>12. ASSUME NEW i \in Submits, SubmitText(i) \/ AnswerArrives(i) \/ PostFails(i)
       PROVE  HostOK'
  BY <1>1, <1>12 DEF SubmitText, AnswerArrives, PostFails
<1>13. ASSUME NEW v \in views,
              ViewServed(v) \/ LoadArrives(v) \/ CommitViewArrives(v) \/ ViewDropped(v)
       PROVE  HostOK'
  BY <1>1, <1>13 DEF ViewServed, LoadArrives, CommitViewArrives, ViewDropped
<1>14. CASE UNCHANGED playVars  BY <1>1, <1>14 DEF playVars
<1> QED
  BY <1>2, <1>3, <1>4, <1>5, <1>6, <1>7, <1>8, <1>9, <1>10, <1>11, <1>12, <1>13, <1>14
  DEF PlayNext, HostStep, HostFault, ViewArrives

\* What a step of the host does to the passages.
LEMMA HostPublishes ==
  ASSUME HostOK, HostStep \/ HostFault
  PROVE  \/ published' = published /\ lastPassage' = lastPassage
         \/ \E t \in Submits : t \notin Told(published) /\ lastPassage' = t
                              /\ published' = Append(published, t)
<1>1. CASE CommitTurn
  <2>1. /\ engine.phase = "running" /\ outcome[engine.turn] = "none"
    BY <1>1 DEF CommitTurn, HostOK, EngineFits
  <2>2. CASE engine.turn \in Submits
    <3>1. engine.turn \notin Told(published)  BY <2>1 DEF HostOK, PublishedFits
    <3> QED  BY <1>1, <2>2, <3>1 DEF CommitTurn
  <2>3. CASE engine.turn \notin Submits  BY <1>1, <2>3 DEF CommitTurn
  <2> QED  BY <2>2, <2>3
<1>2. CASE ~CommitTurn
  BY <1>2 DEF HostStep, HostFault, EngineProgress, StartPlayerTurn, ActionReturns,
     TurnIsOver, StreamDelta, LateDelta, StreamOpens, Accept, StartSystemTurn, StreamLost,
     RejectTurn, ActionThrows, ActionRefused, serviceVars, engineVars, streamVars
<1> QED  BY <1>1, <1>2

LEMMA NextKeepsPage == HostOK /\ PageOK /\ [PlayNext]_playVars => PageOK'
<1> SUFFICES ASSUME HostOK, PageOK, [PlayNext]_playVars PROVE PageOK'
  OBVIOUS
<1>1. faults \in 0..MaxFaults  BY DEF PageOK, PageTyped
<1>2. CASE HostStep /\ UNCHANGED clientVars
  BY <1>1, <1>2, HostPublishes, HostLeavesPage DEF clientVars
<1>3. CASE HostFault /\ Fault /\ UNCHANGED pageVars
  BY <1>3, HostPublishes, HostLeavesPage, FaultsAreBounded
<1>4. ASSUME NEW i \in Submits,
             SubmitText(i) \/ PostArrives(i) \/ AnswerArrives(i) \/ PostFails(i)
      PROVE  PageOK'
  <2>1. CASE PostArrives(i)
    <3>1. UNCHANGED pageVars /\ faults' = faults
          /\ published' = published /\ lastPassage' = lastPassage
      BY <2>1 DEF PostArrives, SubmitArrives, clientVars, engineVars
    <3> QED  BY <1>1, <3>1, HostLeavesPage
  <2> QED  BY <1>4, <2>1, SubmittingKeepsPage, AnswerKeepsPage, PostFailureKeepsPage
<1>5. CASE Receive  BY <1>5, EventKeepsPage
<1>6. ASSUME NEW v \in views,
             ViewServed(v) \/ LoadArrives(v) \/ CommitViewArrives(v) \/ ViewDropped(v)
      PROVE  PageOK'
  BY <1>6, ServingKeepsPage, LoadKeepsPage, CommitViewKeepsPage, DropKeepsPage
<1>7. CASE Reload  BY <1>7, ReloadKeepsPage
<1>8. CASE UNCHANGED playVars
  <2>1. UNCHANGED pageVars /\ faults' = faults
        /\ published' = published /\ lastPassage' = lastPassage
    BY <1>8 DEF playVars, clientVars, hostVars, serviceVars, engineVars, streamVars
  <2> QED  BY <1>1, <2>1, HostLeavesPage
<1> QED
  BY <1>2, <1>3, <1>4, <1>5, <1>6, <1>7, <1>8 DEF PlayNext, ViewArrives

THEOREM PlayIsSound == PlaySpec => []PlayInvariant
<1>1. PlayInit => PlayInvariant  BY InitHost, InitPage DEF PlayInvariant
<1>2. PlayInvariant /\ [PlayNext]_playVars => PlayInvariant'
  BY NextKeepsHost, NextKeepsPage DEF PlayInvariant
<1> QED  BY <1>1, <1>2, PTL DEF PlaySpec

\* Every variable of the host and of the page has its type.
THEOREM PlayTyped == PlaySpec => []PlayTypeOK
<1>1. PlayInvariant => PlayTypeOK
  BY DEF PlayInvariant, HostOK, PageOK, HostTyped, PageTyped, PlayTypeOK
<1> QED  BY <1>1, PlayIsSound, PTL

\* The job of an action's turn says what submitAction returned, once it has, and
\* that of a module's turn which a 202 named says for ever that it runs; but for
\* a turn that threw and the one it had taken.
THEOREM JobsAreTrue == PlaySpec => []JobsTellTheOutcome
<1>1. PlayInvariant => JobsTellTheOutcome
  BY DEF PlayInvariant, HostOK, JobsFit, Says, JobsTellTheOutcome
<1> QED  BY <1>1, PlayIsSound, PTL

\* The transcript has every passage once, in the order of their publication,
\* as long as no source tells a passage after another source told a later one.
THEOREM TranscriptIsOrdered == PlaySpec => []TranscriptKeepsOrder
<1>1. PlayInvariant => TranscriptKeepsOrder
  BY DEF PlayInvariant, PageOK, TranscriptFits, Sorted, PlaceIn, PlaceOf,
     TranscriptKeepsOrder
<1> QED  BY <1>1, PlayIsSound, PTL

\* Once the page has loaded, no passage leaves the stored transcript: only the
\* bubble of a rejected submission does.
THEOREM PassagesAreKept == PlaySpec => TranscriptKeepsPassages
<1> DEFINE Kept == \A m \in DOMAIN stored : IsNarrator(stored[m]) =>
                     \E n \in DOMAIN stored' : stored'[n] = stored[m]
<1>1. ASSUME PlayInvariant, PlayInvariant', [PlayNext]_playVars,
             hydrated = "loaded", hydrated' = "loaded"
      PROVE  Kept
  <2>1. /\ messages \in Seq(Bubble) /\ messages = stored
        /\ \A v \in views : v.why # "load"
    BY <1>1 DEF PlayInvariant, PageOK, PageTyped, LoadFits
  <2>2. CASE stored' = stored  BY <2>2
  <2>3. ASSUME NEW b, stored' = Append(messages, b)  PROVE Kept
    <3>1. \A m \in DOMAIN messages :
            m \in DOMAIN Append(messages, b) /\ Append(messages, b)[m] = messages[m]
      BY <2>1
    <3> QED  BY <2>1, <2>3, <3>1
  <2>4. CASE RejectPending
    <3>1. stored' = Without(messages, You(pending))
      BY <2>4 DEF RejectPending, Keep, DropsPending
    <3>2. \A m \in DOMAIN messages : IsNarrator(messages[m]) => messages[m] # You(pending)
      BY DEF IsNarrator, You
    <3>3. \A m \in DOMAIN messages : messages[m] # You(pending) =>
            \E n \in DOMAIN Without(messages, You(pending)) :
              Without(messages, You(pending))[n] = messages[m]
      BY <2>1, WithoutDraws
    <3> QED  BY <2>1, <3>1, <3>2, <3>3
  <2>5. ASSUME NEW t, Finalize(t)  PROVE Kept
    <3>1. stored' \in {messages, WithPassage(messages, t)}  BY <2>5 DEF Finalize, Keep
    <3>2. stored' \in {messages, Append(messages, Narrator(t))}
      BY <3>1 DEF WithPassage
    <3> QED  BY <2>1, <2>2, <2>3, <3>2
  <2> HIDE DEF Kept
  <2>6. CASE HostStep /\ UNCHANGED clientVars
    BY <2>2, <2>6 DEF clientVars, pageVars
  <2>7. CASE HostFault /\ Fault /\ UNCHANGED pageVars  BY <2>2, <2>7 DEF pageVars
  <2>8. ASSUME NEW i \in Submits, SubmitText(i)  PROVE Kept
    BY <2>3, <2>8 DEF SubmitText, Keep
  <2>9. ASSUME NEW i \in Submits, PostArrives(i)  PROVE Kept
    BY <2>2, <2>9 DEF PostArrives, clientVars, pageVars
  <2>10. ASSUME NEW i \in Submits, AnswerArrives(i) \/ PostFails(i)  PROVE Kept
    BY <2>2, <2>4, <2>10 DEF AnswerArrives, PostFails
  <2>11. CASE Receive
    BY <2>2, <2>4, <2>5, <2>11 DEF Receive, OnStarted, OnDelta, OnPassage,
       OnCommitted, OnRejected, told
  <2>12. ASSUME NEW v \in views, ViewServed(v) \/ ViewDropped(v)  PROVE Kept
    BY <2>2, <2>12 DEF ViewServed, ViewDropped
  <2>13. ASSUME NEW v \in views, LoadArrives(v)  PROVE Kept
    BY <2>1, <2>13 DEF LoadArrives
  <2>14. ASSUME NEW v \in views, CommitViewArrives(v)  PROVE Kept
    BY <2>2, <2>5, <2>14 DEF CommitViewArrives
  <2>15. CASE Reload  BY <1>1, <2>15 DEF Reload
  <2>16. CASE UNCHANGED playVars  BY <2>2, <2>16 DEF playVars, clientVars, pageVars
  <2> QED
    BY <1>1, <2>6, <2>7, <2>8, <2>9, <2>10, <2>11, <2>12, <2>13, <2>14, <2>15, <2>16
    DEF PlayNext, ViewArrives
<1>2. PlayInvariant /\ PlayInvariant' /\ [PlayNext]_playVars =>
        [hydrated = "loaded" /\ hydrated' = "loaded" => Kept]_playVars
  BY <1>1
<1> QED  BY <1>2, PlayIsSound, PTL DEF PlaySpec, TranscriptKeepsPassages
=============================================================================
