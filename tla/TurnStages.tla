----------------------------- MODULE TurnStages -----------------------------
(***************************************************************************)
(* One turn through the stages of the pipeline (turn-pipeline.ts): the     *)
(* interceptors around each stage, the agent tasks they queue, the         *)
(* commands that are proposed, resolved, dry-applied and committed, the    *)
(* narrator and its critics, and the events delivered at the end.          *)
(*                                                                         *)
(* What modules contribute is a choice: a set of commands, of tasks, an    *)
(* error. A state is abstracted to the set of commands applied since S0. A *)
(* stage that outlives its timeout is SessionRuntime's subject, not this   *)
(* module's: here a stage that times out does nothing more.                *)
(***************************************************************************)
EXTENDS EventDispatch, FiniteSets

CONSTANTS
  Kinds,        \* the kinds of turn that run
  Commands,     \* commands modules may come up with
  Permitted,    \* those whose module may propose to their slice
  ConflictKeys, \* the registered conflict keys, each the commands it matches
  Tasks,        \* agent tasks of modules
  Required,     \* those not marked optional
  Catalog,      \* registered action types
  Configs       \* the engine configurations turns run under

Bump == "core.bumpTurn"

\* resolver: is a ConflictResolver registered?  interpret: is action.interpret
\* enabled?  retries: maxNarrativeCriticRetries  strict: criticPolicy "fail"
\* perTurn: persistence policy "per_turn"
Config == [resolver : BOOLEAN, interpret : BOOLEAN, retries : Nat,
           strict : BOOLEAN, perTurn : BOOLEAN]

ASSUME TurnAssumption ==
  /\ Kinds \subseteq {"player", "system", "restore"}
  /\ Bump \notin Commands /\ Permitted \subseteq Commands
  /\ IsFiniteSet(Commands)
  /\ ConflictKeys \in Seq(SUBSET Commands)
  /\ Required \subseteq Tasks
  /\ Configs \subseteq Config

VARIABLES
  config,    \* the configuration, fixed at Init
  kind,      \* scratch.kind
  stage,     \* the stage that runs
  step,      \* where in the stage, or in the turn's end
  outcome,   \* scratch.outcome
  failure,   \* scratch.failure: the stage that failed
  proposed,  \* scratch.proposedCommands
  accepted,  \* scratch.acceptedCommands
  dropped,   \* commands a conflict resolver or decorator took out
  late,      \* commands proposed when nothing will apply them any more
  brought,   \* commands a conflict resolver answered with
  unseen,    \* commands taken in after the conflicts were looked at
  draft,     \* the commands applied to the draft, and whether it is open
  published, \* the commands in the authoritative state
  journal,   \* the commands of the journal entry
  queued,    \* scratch.queuedTasks
  ran,       \* tasks that were executed
  failed,    \* required tasks that failed
  round, verdict,  \* the critics' loop
  scheduled, \* scratch.scheduledSystemTurns
  told       \* terminal events published

flowVars == <<config, kind, stage, step, outcome, failure>>
lookVars == <<brought, unseen>>
commandVars == <<proposed, accepted, dropped, late, lookVars, draft, published,
                 journal>>
agentVars == <<queued, ran, failed, round, verdict>>
turnVars == <<flowVars, commandVars, agentVars, scheduled, told>>

-----------------------------------------------------------------------------
StageIds == <<"begin", "normalize", "intent", "guard", "plan", "propose",
              "validate_commands", "narrate", "present", "commit", "after">>

Closed == [open |-> FALSE, cmds |-> {}]

\* The windows runStage opens; materialize opens the first once more.
ProposeOpenTooLong ==   \* mutant: never closed before the narrator
  stage \in {"propose", "validate_commands", "narrate"}
ProposeOpen == stage \in {"propose", "validate_commands"}
AgentQueueOpen == stage \in {"plan", "propose", "narrate"}

StageSteps == {"before", "predrain", "body", "plandrain", "voices",
               "brief", "writing", "materialize", "after", "postdrain"}
InStage == step \in StageSteps
AtBody(s) == stage = s /\ step = "body"

SameStage(s) == s   \* mutant
StageAfter(s) ==
  StageIds[1 + CHOOSE i \in 1..(Len(StageIds) - 1) : StageIds[i] = s]

AfterMayReject == FALSE   \* mutant: an AFTER error is like any other
AfterIsIgnored == stage = "after" /\ outcome = "committed"

\* A stage returns an error: the draft is discarded and onRejected runs; in
\* AFTER it is only a warning.
StageFails ==
  IF AfterIsIgnored
  THEN step' = "end" /\ UNCHANGED <<outcome, failure, draft>>
  ELSE /\ failure' = stage /\ outcome' = "rejected"
       /\ draft' = Closed /\ step' = "rejecting"

\* onError interceptors, which run when a body fails, change no outcome.
StageGoesOn(next) == step' = next /\ UNCHANGED <<outcome, failure, draft>>

\* The stage is done: on to the next, commit deciding the turn.
StageEnds ==
  /\ outcome' = IF stage = "commit" THEN "committed" ELSE outcome
  /\ IF stage = "after" THEN step' = "end" /\ UNCHANGED stage
     ELSE step' = "before" /\ stage' = StageAfter(stage)

keepFlow == <<config, kind, stage, outcome, failure>>

TurnInit ==
  /\ config \in Configs
  /\ kind \in Kinds /\ stage = "begin" /\ step = "start"
  /\ outcome = "pending" /\ failure = "none"
  /\ proposed = {} /\ accepted = {} /\ dropped = {} /\ late = {}
  /\ brought = {} /\ unseen = {}
  /\ draft = Closed /\ published = {} /\ journal = {}
  /\ queued = {} /\ ran = {} /\ failed = {}
  /\ round = 0 /\ verdict = "none"
  /\ scheduled = {} /\ told = {}
  /\ EventsInit

\* run: the orchestrator's turn, the trace, turn.started, and the draft. A
\* draft that cannot be opened is SessionRuntime's case.
Start ==
  /\ step = "start" /\ step' = "before"
  /\ draft' = [open |-> TRUE, cmds |-> {}]
  /\ UNCHANGED <<keepFlow, proposed, accepted, dropped, late, lookVars,
                 published, journal, agentVars, scheduled, told, evVars>>

-----------------------------------------------------------------------------
(* Around a stage: interceptors and the tasks they queue                   *)

AtInterceptors == InStage /\ step \in {"before", "after"}

EnqueueAgentTask(t) ==
  /\ AtInterceptors /\ AgentQueueOpen
  /\ t \notin queued \cup ran
  /\ queued' = queued \cup {t}
  /\ UNCHANGED <<flowVars, commandVars, ran, failed, round, verdict,
                 scheduled, told, evVars>>

\* After the body of validate_commands the window is still open, but the
\* commands have been applied.
EnqueueCommands(c) ==
  /\ AtInterceptors /\ ProposeOpen
  /\ c \in Permitted \ (proposed \cup accepted \cup dropped)
  /\ proposed' = proposed \cup {c}
  /\ late' = IF stage = "validate_commands" /\ step = "after"
             THEN late \cup {c} ELSE late
  /\ UNCHANGED <<flowVars, accepted, dropped, lookVars, draft, published,
                 journal, agentVars, scheduled, told, evVars>>

\* A reject effect, a missing permission, a window that is closed.
InterceptorFails ==
  /\ AtInterceptors
  /\ StageFails
  /\ UNCHANGED <<config, kind, stage, proposed, accepted, dropped, late,
                 lookVars, published, journal, agentVars, scheduled, told, evVars>>

\* Before-interceptors are done; agent stages other than plan drain first.
BeforeDone ==
  /\ InStage /\ step = "before"
  /\ step' = IF AgentQueueOpen /\ stage # "plan" THEN "predrain" ELSE "body"
  /\ UNCHANGED <<keepFlow, commandVars, agentVars, scheduled, told, evVars>>

DrainsAfterBody == AgentQueueOpen

AfterDone ==
  /\ InStage /\ step = "after"
  /\ IF DrainsAfterBody
     THEN step' = "postdrain" /\ UNCHANGED <<stage, outcome>>
     ELSE StageEnds
  /\ UNCHANGED <<config, kind, failure, commandVars, agentVars, scheduled,
                 told, evVars>>

MayRunAgents(k) == k # "restore"

RequiredFailed(f) == f \cap Required # {}

StepAfterDrain ==
  [predrain |-> "body", plandrain |-> "after", voices |-> "brief"]

\* drainQueuedAgents: the queue is emptied; a required task that fails stops
\* the turn.
Drain(p) ==
  /\ InStage /\ step = p
  /\ queued' = {}
  /\ \E f \in SUBSET IF MayRunAgents(kind) THEN queued ELSE {} :
       /\ ran' = IF MayRunAgents(kind) THEN ran \cup queued ELSE ran
       /\ failed' = failed \cup (f \cap Required)
       /\ IF RequiredFailed(f) THEN StageFails /\ UNCHANGED stage
          ELSE /\ UNCHANGED <<failure, draft>>
               /\ IF p = "postdrain" THEN StageEnds
                  ELSE /\ step' = StepAfterDrain[p]
                       /\ UNCHANGED <<stage, outcome>>
  /\ UNCHANGED <<config, kind, proposed, accepted, dropped, late, published,
                 lookVars, journal, round, verdict, scheduled, told, evVars>>

\* withTimeout: the stage is over, whatever it was waiting for.
StageTimeout ==
  /\ InStage
  /\ StageFails
  /\ UNCHANGED <<config, kind, stage, proposed, accepted, dropped, late,
                 lookVars, published, journal, agentVars, scheduled, told, evVars>>

-----------------------------------------------------------------------------
(* The bodies of the stages                                                *)

keepTurn == <<config, kind, dropped, late, lookVars, published, journal,
              scheduled, told, evVars>>

\* A body without effect on what is modelled: it goes on to its
\* after-interceptors, or one of its handlers stops the turn.
PlainBody(s) ==
  /\ AtBody(s)
  /\ StageGoesOn("after") \/ StageFails
  /\ UNCHANGED <<keepTurn, stage, proposed, accepted, agentVars>>

SetUp == PlainBody("begin")
Intent == PlainBody("intent")

\* Prerequisites, declared costs, guards, soft guards, policies.
Guard == PlainBody("guard")

Builtin == {"noop", "system", "free_text"}
RawTypes == IF kind = "system" THEN {"system"} ELSE {"noop", "free_text"}

\* Normalizers and classifiers may rename the action, then the interpreting
\* agent where it is enabled; the type must end up in the catalog. A missing
\* text, an ambiguous entity or a failing handler or agent stops the turn.
Normalize ==
  /\ AtBody("normalize")
  /\ \E raw \in RawTypes, named, heard \in Catalog \cup {"none", "stray"} :
       LET type == IF named = "none" THEN raw ELSE named
           asks == /\ config.interpret /\ MayRunAgents(kind)
                   /\ type = "free_text"
           last == IF asks /\ heard # "none" THEN heard ELSE type
       IN /\ ran' = IF asks THEN ran \cup {"action.interpret"} ELSE ran
          /\ \/ last \in Catalog \cup Builtin /\ StageGoesOn("after")
             \/ StageFails
  /\ UNCHANGED <<keepTurn, stage, proposed, accepted, queued, failed, round,
                 verdict>>

FreshTasks == Tasks \ (queued \cup ran)
FreshCommands == Commands \ (proposed \cup accepted \cup dropped)

\* Planners and task contributors queue tasks, behind those of the
\* interceptors; a restore turn plans nothing.
Plan ==
  /\ AtBody("plan")
  /\ \/ ~MayRunAgents(kind) /\ StageGoesOn("after") /\ UNCHANGED queued
     \/ /\ MayRunAgents(kind) /\ StageGoesOn("plandrain")
        /\ \E ts \in SUBSET FreshTasks : queued' = queued \cup ts
     \/ MayRunAgents(kind) /\ StageFails /\ UNCHANGED queued
  /\ UNCHANGED <<keepTurn, stage, proposed, accepted, ran, failed, round,
                 verdict>>

\* bumpTurn first, then the contributors' commands; decorators replace the
\* list, and every command of a module must be permitted in the end.
Propose ==
  /\ AtBody("propose")
  /\ \E cs \in SUBSET FreshCommands :
       LET own == IF kind = "restore" THEN {} ELSE {Bump}
           all == proposed \cup own \cup cs
       IN \/ /\ cs \subseteq Permitted /\ StageGoesOn("after")
             /\ \E out \in SUBSET all :
                  proposed' = out /\ dropped' = dropped \cup (all \ out)
          \/ StageFails /\ UNCHANGED <<proposed, dropped>>
  /\ UNCHANGED <<config, kind, stage, accepted, late, lookVars, published,
                 journal, agentVars, scheduled, told, evVars>>

ClashOfThree(cs) == Cardinality(cs) > 2    \* mutant: "matching.length <= 2"
Clash(cs) == Cardinality(cs) > 1

AsProposed(cs) == [cmds |-> cs, own |-> {}]

\* What a resolver returns takes the place of the commands that clash. Nothing
\* looks at it again: not at the permissions, nor at this key or an earlier one.
ResolvedFor(key, r) ==
  IF ~Clash(r.cmds \cap key) THEN {r}
  ELSE {[cmds |-> (r.cmds \ key) \cup kept, own |-> r.own \cup kept] :
          kept \in SUBSET Commands}

\* resolveConflicts goes through the keys in order, each on the result of
\* the keys before it.
Resolutions(cs) ==
  LET upTo[n \in 0..Len(ConflictKeys)] ==
        IF n = 0 THEN {AsProposed(cs)}
        ELSE UNION {ResolvedFor(ConflictKeys[n], r) : r \in upTo[n - 1]}
  IN upTo[Len(ConflictKeys)]

Unresolved(cs) ==
  /\ ~config.resolver
  /\ \E i \in DOMAIN ConflictKeys : Clash(cs \cap ConflictKeys[i])

Proposable(r) == SUBSET ((FreshCommands \cap Permitted) \ r.cmds)

\* The window is open, so each of the handlers may propose: what a resolver that
\* was asked proposes "aside" goes with the list its answer r replaces; the
\* validators' loop takes in "more"; the "tail", from invariants and simulators,
\* comes after the dry-apply.
DryApply(r, aside, more, tail) ==
  /\ more \cap tail = {} /\ aside \cap (more \cup tail) = {}
  /\ r = AsProposed(proposed) => aside = {}
  /\ r.cmds = {} => more = {}
  /\ accepted' = r.cmds \cup more
  /\ draft' = [draft EXCEPT !.cmds = r.cmds \cup more]
  /\ proposed' = r.cmds \cup more \cup tail
  /\ dropped' = dropped \cup ((proposed \cup aside) \ r.cmds)
  /\ late' = late \cup tail
  /\ brought' = r.own /\ unseen' = more

\* Conflicts, validators, one dry-apply of the whole list, then invariants and
\* simulators.
Validate ==
  /\ AtBody("validate_commands")
  /\ \/ StageFails /\ UNCHANGED <<proposed, accepted, dropped, late, lookVars>>
     \/ /\ ~Unresolved(proposed)
        /\ \E r \in Resolutions(proposed) :
             \E aside \in Proposable(r), more \in Proposable(r),
                tail \in Proposable(r) : DryApply(r, aside, more, tail)
        /\ step' = "after" /\ UNCHANGED <<outcome, failure>>
  /\ UNCHANGED <<config, kind, stage, published, journal, agentVars, scheduled,
                 told, evVars>>

\* Only a player turn has a narrator; task contributors may add voices.
Narrate ==
  /\ AtBody("narrate")
  /\ \/ kind # "player" /\ StageGoesOn("after") /\ UNCHANGED queued
     \/ /\ kind = "player" /\ StageGoesOn("voices")
        /\ \E ts \in SUBSET FreshTasks : queued' = queued \cup ts
     \/ kind = "player" /\ StageFails /\ UNCHANGED queued
  /\ UNCHANGED <<keepTurn, stage, proposed, accepted, ran, failed, round,
                 verdict>>

\* Policies, localization, context, style and prompt sections of the modules
\* make the brief; each of them may stop the turn before the narrator is asked.
Brief ==
  /\ InStage /\ step = "brief"
  /\ StageGoesOn("writing") \/ StageFails
  /\ UNCHANGED <<keepTurn, stage, proposed, accepted, agentVars>>

OneRetryMore == round <= config.retries   \* mutant
RetriesLeft == round < config.retries

\* One round: narrative.write answers and the critics read its prose. A
\* rejection is sent back while the budget lasts; then the policy decides.
Write ==
  /\ InStage /\ step = "writing"
  /\ ran' = ran \cup {"narrative.write"}
  /\ \/ StageFails /\ UNCHANGED <<round, verdict>>
     \/ StageGoesOn("after") /\ verdict' = "ok" /\ UNCHANGED round
     \/ /\ RetriesLeft /\ StageGoesOn("writing")
        /\ round' = round + 1 /\ UNCHANGED verdict
     \/ /\ ~RetriesLeft /\ ~config.strict
        /\ StageGoesOn("after") /\ verdict' = "overruled" /\ UNCHANGED round
  /\ UNCHANGED <<keepTurn, stage, proposed, accepted, queued, failed>>

\* The passage is assembled from the prose.
Present ==
  /\ AtBody("present")
  /\ StageGoesOn("materialize") \/ StageFails
  /\ UNCHANGED <<keepTurn, stage, proposed, accepted, agentVars>>

AcceptedOfValidateOnly(cs) == accepted    \* mutant: not added to the journal
AcceptedWith(cs) == accepted \cup cs

\* Commands that need the passage: permitted, validated and applied on top
\* of the draft, without a second look at conflicts. What a contributor
\* proposes through its context, instead of returning it, comes too late.
Materialize ==
  /\ InStage /\ step = "materialize"
  /\ \E cs \in SUBSET FreshCommands,
        aside \in SUBSET (FreshCommands \cap Permitted) :
       /\ cs \cap aside = {}
       /\ proposed' = proposed \cup aside /\ late' = late \cup aside
       /\ \/ /\ cs \subseteq Permitted /\ step' = "after"
             /\ draft' = [draft EXCEPT !.cmds = @ \cup cs]
             /\ accepted' = AcceptedWith(cs) /\ unseen' = unseen \cup cs
             /\ UNCHANGED <<outcome, failure>>
          \/ StageFails /\ UNCHANGED <<accepted, unseen>>
  /\ UNCHANGED <<config, kind, stage, dropped, brought, published, journal,
                 agentVars, scheduled, told, evVars>>

\* The commit unit is stored, the draft published, the turn announced. The
\* steps between are SessionRuntime's.
Commit ==
  /\ AtBody("commit")
  /\ \/ StageFails /\ UNCHANGED <<published, journal, told>>
     \/ /\ journal' = IF config.perTurn THEN accepted ELSE journal
        /\ published' = draft.cmds /\ draft' = Closed
        /\ told' = told \cup {"committed"}
        /\ step' = "after" /\ UNCHANGED <<outcome, failure>>
  /\ UNCHANGED <<config, kind, stage, proposed, accepted, dropped, late, lookVars,
                 agentVars, scheduled, evVars>>

\* afterCommit hooks only observe; a player turn may ask for system turns.
After ==
  /\ AtBody("after")
  /\ step' = "after"
  /\ \E ms \in SUBSET Modules :
       scheduled' = IF kind = "player" THEN scheduled \cup ms ELSE scheduled
  /\ UNCHANGED <<keepFlow, commandVars, agentVars, told, evVars>>

-----------------------------------------------------------------------------
(* The end of the turn                                                     *)

\* runOnRejected observes the failure.
OnRejected ==
  /\ step = "rejecting" /\ step' = "end"
  /\ UNCHANGED <<keepFlow, commandVars, agentVars, scheduled, told, evVars>>

\* Errors of turn.end and end interceptors are ignored, but one that throws
\* leaves run() with no result.
EndInterceptorThrows ==
  /\ step = "end" /\ step' = "escaped"
  /\ UNCHANGED <<keepFlow, commandVars, agentVars, scheduled, told, evVars>>

\* finishCommitted and finishRejected up to the events of modules; the turns
\* the after stage scheduled join the session's queue.
Finish ==
  /\ step = "end" /\ step' = "events"
  /\ draft' = IF outcome = "rejected" THEN Closed ELSE draft
  /\ told' = IF outcome = "rejected" THEN told \cup {"rejected"} ELSE told
  /\ \E es \in Emissions :
       StartDispatch(es, kind = "player",
                     IF outcome = "committed" THEN scheduled ELSE {})
  /\ UNCHANGED <<keepFlow, proposed, accepted, dropped, late, lookVars,
                 published, journal, agentVars, scheduled>>

\* The trace is finalized and the result returned.
Return ==
  /\ step = "events" /\ evStep = "done" /\ step' = "done"
  /\ UNCHANGED <<keepFlow, commandVars, agentVars, scheduled, told, evVars>>

TurnNext ==
  \/ Start \/ BeforeDone \/ AfterDone \/ InterceptorFails \/ StageTimeout
  \/ \E t \in Tasks : EnqueueAgentTask(t)
  \/ \E c \in Commands : EnqueueCommands(c)
  \/ \E p \in {"predrain", "plandrain", "voices", "postdrain"} : Drain(p)
  \/ SetUp \/ Normalize \/ Intent \/ Guard \/ Plan \/ Propose \/ Validate
  \/ Narrate \/ Brief \/ Write \/ Present \/ Materialize \/ Commit \/ After
  \/ OnRejected \/ EndInterceptorThrows \/ Finish \/ Return
  \/ EventsNext /\ UNCHANGED turnVars

turnAndEvents == <<turnVars, evVars>>
TurnSpec ==
  TurnInit /\ [][TurnNext]_turnAndEvents /\ WF_turnAndEvents(TurnNext)
=============================================================================
