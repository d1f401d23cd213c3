--------------------------- MODULE PlayProperties ---------------------------
(***************************************************************************)
(* What a player may rely on, between the page, the host and the engine.   *)
(***************************************************************************)
EXTENDS PlayClient

View == [why : {"load", "commit"}, of : TurnIds \cup {None},
         at : {"sent", "back"}, passage : Submits \cup {None}]
Bubble == [who : {"user", "assistant"}, of : Submits]

\* Every variable of the host and of the page has its type.
PlayTypeOK ==
  /\ sub \in [Submits -> {"new", "waiting", "running", "ended"}]
  /\ captured \in [Submits -> TurnIds \cup {None}]
  /\ answer \in [Submits -> {"none", "pending", "accepted", "error"}]
  /\ named \in [Submits -> TurnIds \cup {None}]
  /\ activeTurns \in 0..MaxConcurrent
  /\ jobs \in [TurnIds -> {"none", "running", "committed", "rejected"}]
  /\ engine \in [turn : TurnIds \cup {None}, phase : {"idle", "running", "closing", "left"}]
  /\ outcome \in [TurnIds -> {"none", "committed", "rejected", "threw"}]
  /\ deltas \in 0..MaxDeltas /\ narrator \in [Submits -> {"none", "adrift", "late"}]
  /\ lastPassage \in Submits \cup {None}
  /\ published \in Seq(Submits) /\ stream \in {"opening", "open", "lost"}
  /\ silent \in BOOLEAN /\ busy \in BOOLEAN /\ hydrated \in {"no", "loaded", "failed"}
  /\ messages \in Seq(Bubble) /\ stored \in Seq(Bubble)
  /\ draft \in {"none", "held", "stale", "lost"} /\ finalized \in BOOLEAN
  /\ {shown, pending, composer} \subseteq Submits \cup {None}
  /\ posts \subseteq Submits /\ views \subseteq View
  /\ faults \in 0..MaxFaults /\ overtaken \in BOOLEAN

\* Did the action throw, or one that had taken this turn for its own?
ThrewFor(t) == \E i \in Submits : outcome[i] = "threw" /\ (t = i \/ t = captured[i])

\* What a client reads that polls the job of the turn its 202 names, however the
\* 202, the events and the ends of other actions interleave. An action's job
\* runs until submitAction returns, and then says what it returned: the 202 of a
\* fast turn, or of another action that took it for its own, never undoes that.
\* A module's turn that was taken for an action's own has a job that runs for
\* ever, since nobody ends it. A turn that threw is told of another's job.
JobsTellTheOutcome ==
  \A t \in TurnIds : ~ThrewFor(t) =>
    jobs[t] = IF t \in Submits /\ sub[t] = "ended" THEN outcome[t]
              ELSE IF \E i \in Submits : named[i] = t THEN "running" ELSE "none"

PlaceOf(t) == CHOOSE k \in DOMAIN published : published[k] = t

\* However its three sources interleave (the event, the view fetched after the
\* commit, the view of the page load), the transcript has a passage once, and
\* the passages in the order they were published, unless one source tells a
\* passage when another has told a later one.
TranscriptKeepsOrder ==
  ~overtaken =>
    \A a, b \in DOMAIN messages :
      a < b /\ IsNarrator(messages[a]) /\ IsNarrator(messages[b])
      => PlaceOf(messages[a].of) < PlaceOf(messages[b].of)

\* Once the page has loaded what is stored, no passage leaves the stored
\* transcript: not by a rejection, not by a passage that is told twice. (Before
\* that, and after a load that failed, whatever is kept replaces it.)
TranscriptKeepsPassages ==
  [][hydrated = "loaded" /\ hydrated' = "loaded" =>
       \A m \in DOMAIN stored : IsNarrator(stored[m]) =>
         \E n \in DOMAIN stored' : stored'[n] = stored[m]]_playVars

\* The page that waits for a turn is released, by a commit, a rejection or a
\* refused request, unless the stream broke, the action ended in silence, or the
\* narrator of a rejected turn was heard after it and no turn of a player began
\* since.
PlayerIsReleased ==
  busy ~> \/ ~busy \/ silent \/ stream = "lost"
          \/ \E t \in Submits : narrator[t] = "late"
=============================================================================
