--------------------------- MODULE TurnProperties ---------------------------
(***************************************************************************)
(* What one turn must guarantee, whatever the modules contribute.          *)
(***************************************************************************)
EXTENDS TurnStages

StageNames == {StageIds[i] : i \in DOMAIN StageIds}
AllCommands == Commands \cup {Bump}
AllTasks == Tasks \cup {"action.interpret", "narrative.write"}

StagesTypeOK ==
  /\ config \in Configs /\ kind \in Kinds /\ stage \in StageNames
  /\ step \in StageSteps \cup {"start", "rejecting", "end", "events", "done",
                               "escaped"}
  /\ outcome \in {"pending", "committed", "rejected"}
  /\ failure \in StageNames \cup {"none"}
  /\ {proposed, accepted, dropped, published, journal} \subseteq
       SUBSET AllCommands
  /\ {late, brought, unseen} \subseteq SUBSET Commands
  /\ draft \in [open : BOOLEAN, cmds : SUBSET AllCommands]
  /\ queued \subseteq Tasks /\ ran \subseteq AllTasks /\ failed \subseteq Tasks
  /\ round \in Nat /\ verdict \in {"none", "ok", "overruled"}
  /\ scheduled \subseteq Modules /\ told \subseteq {"committed", "rejected"}

\* Every variable of the turn, and of its dispatch of events, has its type.
TurnTypeOK == StagesTypeOK /\ EventsTypeOK

\* A turn that was announced as committed has published exactly the commands
\* its journal entry and its result name, so a replay of the journal rebuilds
\* the state, with the commands of the materialize window too. Each of them its
\* module may propose, unless a conflict resolver answered with it.
PublishedIsAccepted ==
  "committed" \in told =>
    /\ published = accepted
    /\ config.perTurn => journal = accepted
    /\ published \subseteq Permitted \cup {Bump} \cup brought
    /\ kind \in {"player", "system"} => Bump \in published \cup dropped
    /\ kind = "restore" => Bump \notin published

\* Full atomicity up to the commit stage: a turn that fails in another stage,
\* or in an AFTER stage that may not fail at all, leaves no state, no journal
\* entry, no announcement and no draft behind.
RejectedLeavesNothing ==
  outcome = "rejected" /\ failure # "commit" =>
    /\ published = {} /\ journal = {} /\ "committed" \notin told
    /\ ~draft.open

\* A committed turn has done what was asked of it: each proposed command is
\* applied, or a resolver or decorator took it out, or it was proposed when its
\* window no longer led to a dry-apply; each task that an interceptor, planner
\* or contributor queued was run, and none of the required ones has failed.
OnlyLateWorkIsLost ==
  outcome = "committed" =>
    /\ proposed \subseteq accepted \cup late
    /\ queued = {} /\ failed = {}

\* Although a key is resolved before the next is seen, two commands on one key
\* are never both applied, unless one of them is a resolver's own answer, which
\* nobody checks, or was taken in after the look: a validator's, or one of the
\* materialize window. Without a resolver there is no such answer.
NoClashUnseen ==
  /\ \A i \in DOMAIN ConflictKeys :
       \A c, d \in (accepted \ (brought \cup unseen)) \cap ConflictKeys[i] : c = d
  /\ brought # {} => config.resolver

\* The critics are asked at most once more than the retries; under the "fail"
\* policy no passage is committed that they rejected.
CriticsDecide ==
  /\ round <= config.retries
  /\ outcome = "committed" /\ kind = "player" =>
       \/ verdict = "ok"
       \/ verdict = "overruled" /\ ~config.strict /\ round = config.retries

\* KindsKeepTheirRights: agents are disabled on restore turns, on each of the
\* paths that ask one (the interpreter, the queues of four stages, the
\* narrator); and only player turns may ask for system turns, by scheduler or
\* event handler, or the drain of system turns would feed itself.
KindsKeepTheirRights ==
  /\ kind = "restore" => ran = {}
  /\ pending # {} => kind = "player"

\* Whatever fails, times out or cascades, a turn that has started ends: with
\* a result, or by an exception of an end interceptor.
TurnEnds == step = "before" ~> step \in {"done", "escaped"}
=============================================================================
