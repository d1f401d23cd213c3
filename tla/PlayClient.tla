------------------------------ MODULE PlayClient ------------------------------
(***************************************************************************)
(* The play page of one session in a browser (useSessionPlay.ts): it loads *)
(* the view, listens to the event stream, submits, and keeps a transcript  *)
(* in local storage. What is shown of a turn is abstracted to its name;    *)
(* hints, timers and layout are left out. Others submit to the session too.*)
(***************************************************************************)
EXTENDS HostTurns, FiniteSets

CONSTANTS
  Others,       \* submissions of another client
  MaxFaults     \* bound: turns that fail, lost requests and streams, reloads

ASSUME PlayClientAssumption == Others \subseteq Submits /\ MaxFaults \in Nat

VARIABLES
  busy,
  hydrated,      \* has the page loaded, or failed to?
  messages,      \* bubbles of the player and of the narrator
  draft,         \* the streaming bubble, if its id is held, or else stale
  finalized,     \* finalizedTurnRef
  shown,         \* lastPassageIdRef
  pending,       \* pendingUserIdRef and pendingTextRef
  composer,      \* the text put back into the composer
  stored,        \* the transcript in local storage
  posts,         \* own actions whose answer the page waits for
  views,         \* GET /sessions/:id on their way
  faults,
  overtaken      \* was a passage told after a later one, by another channel?

pageVars == <<busy, hydrated, messages, draft, finalized, shown, pending,
              composer, stored, posts, views, overtaken>>
clientVars == <<pageVars, faults>>
playVars == <<hostVars, clientVars>>

You(i) == [who |-> "user", of |-> i]
Narrator(t) == [who |-> "assistant", of |-> t]
IsNarrator(m) == m.who = "assistant"

\* messages.filter: all but m, in their order.
Without(msgs, m) ==
  LET kept == {k \in DOMAIN msgs : msgs[k] # m}
      Rank(k) == Cardinality({j \in kept : j <= k})
  IN  [n \in 1..Cardinality(kept) |-> msgs[CHOOSE k \in kept : Rank(k) = n]]

\* The passage of the last bubble of the narrator.
LastSaid ==
  LET said == {k \in DOMAIN messages : IsNarrator(messages[k])}
  IN  IF said = {} THEN None
      ELSE messages[CHOOSE k \in said : \A j \in said : j <= k].of

\* commitMessages: in memory and in local storage.
Keep(msgs) == messages' = msgs /\ stored' = msgs

Fault == faults < MaxFaults /\ faults' = faults + 1

LoadView == [why |-> "load", of |-> None, at |-> "sent", passage |-> None]

PlayInit ==
  /\ HostInit
  /\ busy = FALSE /\ hydrated = "no" /\ messages = <<>> /\ draft = "none"
  /\ finalized = FALSE /\ shown = None /\ pending = None /\ composer = None
  /\ stored = <<>> /\ posts = {} /\ views = {LoadView}
  /\ faults = 0 /\ overtaken = FALSE

ForgetsShown(t) == FALSE      \* mutant
AlreadyShown(t) == shown = t

WithPassage(msgs, t) ==
  IF draft # "held" /\ LastSaid = t THEN msgs ELSE Append(msgs, Narrator(t))

IsLate(t) == \E k \in DOMAIN published :
  shown = published[k] /\ \E j \in 1..(k - 1) : published[j] = t

\* finalizeAssistant: the passage takes the place of the draft, or is added
\* unless it was the last one said.
Finalize(t) ==
  /\ draft' = "none" /\ overtaken' = (overtaken \/ IsLate(t))
  /\ IF AlreadyShown(t)
     THEN Keep(messages) /\ UNCHANGED <<shown, finalized, pending>>
     ELSE /\ shown' = t /\ finalized' = TRUE /\ pending' = None
          /\ Keep(WithPassage(messages, t))

DropsLast(msgs) == SubSeq(msgs, 1, Len(msgs) - 1)    \* mutant
DropsPending(msgs) == Without(msgs, You(pending))

\* rejectPendingTurn: the pending bubble goes, its text returns.
RejectPending ==
  /\ busy' = FALSE /\ finalized' = TRUE /\ draft' = "none" /\ pending' = None
  /\ Keep(DropsPending(messages))
  /\ composer' = IF pending = None THEN composer ELSE pending
  /\ UNCHANGED shown

SubmitText(i) ==
  /\ i \notin Others /\ sub[i] = "new" /\ i \notin posts
  /\ hydrated # "no" /\ ~busy
  /\ \A m \in DOMAIN messages : messages[m] # You(i)
  /\ busy' = TRUE /\ finalized' = FALSE /\ draft' = "none" /\ pending' = i
  /\ composer' = None
  /\ Keep(Append(messages, You(i)))
  /\ posts' = posts \cup {i}
  /\ UNCHANGED <<hostVars, hydrated, shown, views, faults, overtaken>>

PostArrives(i) ==
  /\ i \in posts \cup Others
  /\ SubmitArrives(i)
  /\ UNCHANGED clientVars

\* The answer to POST /actions is there; a 202 says nothing more.
AnswerArrives(i) ==
  /\ i \in posts /\ answer[i] \in {"accepted", "error"}
  /\ posts' = posts \ {i}
  /\ IF answer[i] = "error" THEN RejectPending
     ELSE UNCHANGED <<busy, finalized, draft, pending, messages, stored,
                      composer, shown>>
  /\ UNCHANGED <<hostVars, hydrated, views, faults, overtaken>>

\* The request or its answer is lost: fetch throws.
PostFails(i) ==
  /\ i \in posts
  /\ Fault
  /\ posts' = posts \ {i}
  /\ RejectPending
  /\ UNCHANGED <<hostVars, hydrated, views, overtaken>>

\* What an event may change.
told == <<busy, finalized, draft, pending, messages, stored, composer, shown,
          views, overtaken>>

OnStarted ==
  /\ busy' = TRUE /\ finalized' = FALSE
  /\ draft' = IF draft \in {"held", "stale"} THEN "stale" ELSE "none"
  /\ UNCHANGED <<messages, stored, shown, pending, composer, views, overtaken>>

OnDelta ==
  /\ busy' = TRUE
  /\ draft' = IF finalized \/ draft = "lost" THEN draft ELSE "held"
  /\ UNCHANGED <<messages, stored, finalized, shown, pending, composer, views,
                 overtaken>>

Refetch(t) ==
  views' = views \cup {[why |-> "commit", of |-> t, at |-> "sent", passage |-> None]}

OnPassage(t) ==
  Finalize(t) /\ UNCHANGED <<busy, composer, views>>

\* That of a system turn fetches the view too, of which only the title is used.
OnCommitted(t) ==
  IF t \in Submits
  THEN /\ busy' = FALSE /\ pending' = None /\ Refetch(t)
       /\ UNCHANGED <<messages, stored, draft, finalized, shown, composer,
                      overtaken>>
  ELSE UNCHANGED told

NeverRejects(t) == FALSE      \* mutant: the stream's rejection is ignored
IsPlayerTurn(t) == t \in Submits

OnRejected(t) ==
  IF IsPlayerTurn(t) THEN RejectPending /\ UNCHANGED <<views, overtaken>>
  ELSE UNCHANGED told

\* The next event of the stream.
Receive ==
  LET e == Head(events) IN
  /\ events # <<>> /\ events' = Tail(events)
  /\ \/ e.type = "started" /\ e.turn \in Submits /\ OnStarted
     \/ e.type = "delta" /\ OnDelta
     \/ e.type = "passage" /\ OnPassage(e.turn)
     \/ e.type = "committed" /\ OnCommitted(e.turn)
     \/ e.type = "rejected" /\ OnRejected(e.turn)
     \/ /\ e.type = "started" /\ e.turn \notin Submits
        /\ UNCHANGED told
  /\ UNCHANGED <<serviceVars, engineVars, stream, silent, hydrated, posts, faults>>

\* The host answers a GET with the passage of that moment.
ViewServed(v) ==
  /\ v \in views /\ v.at = "sent"
  /\ views' = (views \ {v}) \cup {[v EXCEPT !.at = "back", !.passage = lastPassage]}
  /\ UNCHANGED <<hostVars, busy, hydrated, messages, draft, finalized, shown,
                 pending, composer, stored, posts, faults, overtaken>>

\* load: what is stored wins over the view, whose passage only seeds an empty
\* transcript.
LoadArrives(v) ==
  /\ v \in views /\ v.why = "load" /\ v.at = "back"
  /\ views' = views \ {v} /\ hydrated' = "loaded"
  /\ draft' = IF draft = "held" THEN "lost"
              ELSE IF draft = "stale" THEN "none" ELSE draft
  /\ IF stored # <<>>
     THEN messages' = stored /\ shown' = v.passage /\ UNCHANGED stored
     ELSE IF v.passage # None
     THEN Keep(<<Narrator(v.passage)>>) /\ shown' = v.passage
     ELSE messages' = <<>> /\ UNCHANGED <<stored, shown>>
  /\ overtaken' = (overtaken \/ shown \notin {None, v.passage})
  /\ UNCHANGED <<hostVars, busy, finalized, pending, composer, posts, faults>>

CommitViewArrives(v) ==
  /\ v \in views /\ v.why = "commit" /\ v.at = "back"
  /\ views' = views \ {v}
  /\ IF v.passage = None
     THEN UNCHANGED <<messages, stored, draft, finalized, shown, pending,
                      overtaken>>
     ELSE Finalize(v.passage)
  /\ UNCHANGED <<hostVars, busy, hydrated, composer, posts, faults>>

\* A GET that fails.
ViewDropped(v) ==
  /\ v \in views /\ v.at = "sent"
  /\ Fault
  /\ views' = views \ {v}
  /\ hydrated' = IF v.why = "load" THEN "failed" ELSE hydrated
  /\ UNCHANGED <<hostVars, busy, messages, draft, finalized, shown, pending,
                 composer, stored, posts, overtaken>>

\* The page is loaded again: its requests and its stream are gone, the
\* transcript is in local storage.
Reload ==
  /\ Fault
  /\ busy' = FALSE /\ hydrated' = "no" /\ messages' = <<>> /\ draft' = "none"
  /\ finalized' = FALSE /\ shown' = None /\ pending' = None /\ composer' = None
  /\ posts' = {} /\ views' = {LoadView}
  /\ stream' = "opening" /\ events' = <<>>
  /\ UNCHANGED <<serviceVars, engineVars, silent, stored, overtaken>>

HostStep ==
  \/ EngineProgress \/ StreamDelta \/ StreamOpens
  \/ \E i \in Submits : Accept(i) \/ LateDelta(i)
  \/ \E s \in SystemTurns : StartSystemTurn(s)

HostFault == StreamLost \/ RejectTurn \/ \E i \in Submits : ActionThrows(i) \/ ActionRefused(i)

ViewArrives ==
  \E v \in views : ViewServed(v) \/ LoadArrives(v) \/ CommitViewArrives(v)

PlayNext ==
  \/ HostStep /\ UNCHANGED clientVars
  \/ HostFault /\ Fault /\ UNCHANGED pageVars
  \/ \E i \in Submits : SubmitText(i) \/ PostArrives(i) \/ AnswerArrives(i)
                        \/ PostFails(i)
  \/ Receive \/ ViewArrives \/ \E v \in views : ViewDropped(v)
  \/ Reload

\* The engine ends what it has started, the network delivers what is neither
\* lost nor failed, and the page handles what has arrived.
PlaySpec ==
  /\ PlayInit /\ [][PlayNext]_playVars
  /\ WF_playVars(EngineProgress /\ UNCHANGED clientVars)
  /\ \A i \in Submits : WF_playVars(PostArrives(i)) /\ WF_playVars(AnswerArrives(i))
                        /\ WF_playVars(Accept(i) /\ UNCHANGED clientVars)
  /\ WF_playVars(Receive) /\ WF_playVars(ViewArrives)
  /\ WF_playVars(StreamOpens /\ UNCHANGED clientVars)
=============================================================================
