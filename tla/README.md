# rpenginext in TLA+

rpenginext is a turn-based role-playing engine. A host (the HTTP API, the CLI, a
test) submits player actions to a *session*; each action runs as one *turn*
through a pipeline of stages (interpret, plan, propose commands, validate,
narrate, present, commit, after), which ends by publishing a new world state
together with a passage of text and a journal entry, or leaves everything as it
was. Turns may schedule *system turns*, which run before the answer (inline) or
behind it (background). Modules contribute what the turns do; a host process
loads them, and a browser plays through the host.

What is hard about this program is not the text: everything above happens in one
event loop, between awaits, with one draft per session, one orchestrator and one
tracer for all of them, a store that can fail, timeouts that do not cancel what
they time out, retries, background work, and a page that learns of all this by
three channels that overtake one another. This project models that, checks it
with TLC and proves the main guarantees with TLAPS.

## Inventory

| Component | State it keeps | Operations | What is hard | What makes it correct | Modelled in |
|---|---|---|---|---|---|
| **Session runtime** `core/session/session-runtime.ts` | live sessions; per session `busy`, `backgroundPumping`, `pendingSystemTurns`, `idempotency` | `submitAction`, `submitSystemTurn`, inline drain, pump, `save`, `startSession`, `loadSession`, `stopSession` | a lock made of booleans across awaits; retries; a queue with two consumers | one turn at a time; every call answered; an action and a job committed once | `SessionRuntime`, `HostSessions` |
| **State kernel** `core/state/state-kernel.ts` | `authoritative`, one `draft` | `beginTurn`, `dryApply`, `commit`, `discard` | one draft shared by whoever calls | the draft is the running turn's own | `SessionRuntime`, `TurnStages` |
| **Turn pipeline** `core/pipeline` | per-turn scratch | `run`, 12 stages, `finish*`, event dispatch | interceptors and tasks before and after each stage; commands that arrive late; caps | what is published was accepted; a rejected turn leaves nothing; every turn ends | `TurnStages`, `EventDispatch` |
| **Agent orchestrator, tool loop** `core/agents` | `activeCtx`, `activeTaskId`, `lastToolCalls`, per engine | `beginTurn`, `executeMany`, `requestAgent`, `invokeTool` | turns of different sessions share these fields | a task ends once, within its bounds, for its own session | `AgentTasks`, `EngineTurns` |
| **Turn tracer** `core/tracing/turn-tracer.ts` | one root document per engine | `open`, `openFollowUp`, `record*`, `finalize` | the same sharing | a dossier has what its turn did | `TurnTracer`, `EngineTurns` |
| **Persistence ports** `persistence/sqlite` | snapshot, journal | `commitTurn`; or `save` + `appendJournal` | failure between two writes | the journal is the history | `SessionRuntime`, `HostSessions` |
| **Journal replay, slice migrations** `core/state` | – | pure | versions that come and go with the modules | slices keep their data | `HostSessions` |
| **Registry, capability graph** `core/registry`, `create-engine.ts` | modules, contribution index | `boot`, `startAll`, `stopAll` | checks in an order; failure half-way | nothing is owned twice or left dangling; what was started is stopped | `ModuleRegistry` |
| **Module SDK** `module-sdk/src/compile` | – | from a definition to bindings, manifest, tokens | what a handler may do at which moment | denials and permissions take effect | `ModuleCompiler`, `ModuleMoments` |
| **Host bootstrap** `host-bootstrap`, `apps/api/src/main.ts` | pool of modules, database | discover, resolve, start, stop | failure half-way, signals | an orderly stop leaves nothing running | `HostBoot` |
| **API host** `apps/api/src/services`, `sse-hub.ts` | jobs, `attached`, `activeTurns`, rows | submit, create, attach, save, delete | a turn id captured from an event; check, then await | a job tells the outcome; attached sessions are live | `HostTurns`, `HostSessions` |
| **Play page** `apps/web/…/useSessionPlay.ts` | transcript, draft, pending, stored transcript | load, submit, events, fetches | three sources of the same passage in any order | the transcript is in order and keeps its passages; the player is released | `PlayClient` |
| **Domain modules** `packages/modules` | slices | reducers, background jobs | jobs that work on copies of the slices; failing jobs; restarts | no pair is forgotten; a circling scene is ended | `StoryModules`, `StoryMemory` |
| **Event bus, LLM adapters, prompts, CLI, other pages, scaffolding** | – | I/O, text | – | – | – |

How they interact: hosts call the session runtime. The runtime calls
`pipeline.run` with `busy` set and appends to or splices the queue the pipeline
also appends to; the pipeline drives the session's kernel and writes through the
persistence port; the background pump is a detached promise the runtime starts
in `submitAction`'s `finally` and at load. The orchestrator, the tracer and the
event bus are shared by all sessions of an engine. The API host listens to the
event bus for the turns of its jobs and copies its events to the browser.

The hazards of all these parts, each at its line and with the properties that
are about it, are in `PROJECT.json`.

## Modules

```
SerialHistory  <=  SessionRuntime                    one session
EventDispatch  <-  TurnStages                        one turn
AgentTasks     <-  EngineTurns, which INSTANCEs TurnTracer
HostTurns      <-  PlayClient                        host and page
ModuleCompiler <-  ModuleRegistry <- HostBoot   <-  HostSessions
               <-  ModuleMoments                <-
               <-  StoryModules                 (definitions for MCLifecycle)
StoryMemory                                          the story modules' slices
```

(`<-`: extended by; `<=`: implemented by.) Each of the six specifications has a
module of properties (`SessionProperties`, `TurnProperties`, `EngineProperties`,
`PlayProperties`, `LifecycleProperties`, `StoryProperties`) and an instance for
TLC (`MC…`). They cut the program at its own seams: `SessionRuntime` knows a turn
by the phases the session can see and `TurnStages` knows one turn by its stages;
`HostSessions` takes a turn as one step, because `SessionRuntime` shows that turns
are serial, and looks at processes, modules and the store instead; `StoryMemory`
takes turns as serial too and looks at what the modules keep over many of them.

### One session: `SessionRuntime`

#### How `SessionRuntime` corresponds to the code

*A step is the code between two awaits.* The program is single-threaded, so
interleavings happen exactly there. In particular, reading S0, opening the draft
and setting `busy` before them form one step (`BeginFrom`, `Claim`), the pump goes
from one job to the next in one step (`PumpContinues`), and the `finally` of
`submitAction` claims the pump before it releases `busy` in one step
(`LeaveToPump`). Where the model cuts a synchronous stretch in two
(`PlayerReturns`, `DrainNext`, `DrainOverflow`, `Leave`) it only adds
interleavings. The other way round, `Finish` is one step although
`finishCommitted` and `finishRejected` await hooks: what the hooks change is the
queue, and the phase before it can last as long as it likes. An `end` interceptor
that throws (`EndThrows`) leaves `run` with an exception, before `finishCommitted`,
also when the turn has committed: its caller remembers no answer.

*State.* The world state is the sequence of turns whose commands it contains;
its length is the revision, as `core.bumpTurn` adds one per player or system
turn. `pendingSystemTurns` is kept as its two subsequences by mode, since no code
depends on the order between them. The idempotency map is a set of answers with
their insertion order in a field, because eviction goes by that order. `pc` says
where each actor is; actors are the clients, one host that calls
`submitSystemTurn`, and the pump.

| Code | Actions |
|---|---|
| `submitAction` | `Submit`, `ReplayAnswer`, `FindIdle`, `Claim`, `WaitTimeout`, `PlayerReturns`, `Leave`, `LeaveToPump` |
| `drainInlineSystemTurns` | `DrainNext`, `DrainOverflow`, `InlineReturns` |
| `submitSystemTurn` | `SubmitSystemTurn`, `OpsReturns` |
| `pumpBackgroundJobs` | `LeaveToPump`, `PumpContinues`, `PumpStops`, `Reload` |
| `TurnPipeline.run`, its stages | `Validate`, `ValidateWithoutDraft`, `StageFails`, `StageTimeout`, `Finish`, `EndThrows` |
| `stageCommit` | `BuildUnit`, `CommitTurn`, `SaveSnapshot`, `AppendJournal`, `PersistFails`, `KernelCommit`, `KernelCommitFails` |
| a stage that outlives `withTimeout` | `ZombieValidates`, `ZombieWrites`, `ZombieCommits` |
| `save` | `ReadForSave`, `WriteSave` |
| process exit, `loadSession` | `Crash`, `Reload` |

*Callers in one tick.* Between the idle check of `submitAction` and its claim
lies one microtask. Two calls made in the same tick (`Promise.all` in the same
process) can both pass the check; calls that arrive as separate requests or
timer callbacks cannot, as the microtasks of one callback drain before the next
callback runs. The constant `SameTick` chooses between the two worlds.

*Timeouts.* `withTimeout` races the stage against a timer and does not cancel the
loser, so a timed-out stage goes on as a *zombie*: a validate stage awaiting a
module's validator, or a present stage awaiting a module of its materialize window,
later applies its commands to whatever draft is open, a commit stage awaiting the
store later stores and publishes. With the sqlite port that ships with the engine the
write is synchronous and the second case cannot arise; it needs a port that really
waits, which the interface allows. A stage that times out anywhere else leaves nothing
behind that touches the kernel, and is an ordinary failure (`StageFails`); what a
narrator left running still does is in `HostTurns`.

*Left out on purpose:* the text and content of turns, commands one by one, module
hooks (their failures are `StageFails`; what they schedule is any selection of
the jobs not yet scheduled), post-narrative commands (folded into `Validate`),
the manual persistence policy, the restore turn that a load of a store without
any passage runs (`Reload` is guarded to stores with a turn), session hydrators,
boot commands (`Init` is the state after `startSession`). What happens stage by
stage, an after-interceptor that fails the commit stage among it, is
`TurnStages`; `stopSession` and a second load of a live session are
`HostSessions`. A crash and timeouts are not combined in a run: of
the stored answers `Reload` keeps those of committed turns, which is what
`loadSession` does through the stored passages.

#### Its abstract specification

`SerialHistory` has two variables, the history the store holds and the history
the live session has published, and two actions: a turn is flushed onto a
published history, and a flushed history is published. Nothing is ever removed.
`SessionProperties` instantiates it with `durable <- snap.state` and
`visible <- IF up THEN auth ELSE snap.state`: while the process is down nothing
is visible but the store.

### One turn: `TurnStages`, `EventDispatch`

A turn is a walk through `StageIds`; in each stage `step` goes from the
interceptors before it over the first drain of agent tasks, the body, the
interceptors after it and the second drain to the next stage. Interceptors may
fail, enqueue tasks or enqueue commands, each only in the windows
`applyInterceptorEffect` leaves open (`ProposeOpen`, `AgentQueueOpen`). A state is
the set of commands applied since S0; the draft is `draft.cmds`. Commands differ in
whether their module may propose them (`Permitted`) and in the conflict keys they
match. The bodies are `SetUp`, `Normalize`, `Intent`, `Guard`, `Plan`, `Propose`,
`Validate`, `Narrate`, `Present`, `Materialize`, `Commit` and `After`. `Validate`
goes through `Resolutions`, which resolves one key after the other; `Narrate` asks
the critics in rounds. `StageTimeout` ends a stage, and the stage does nothing
after it: those that do are `SessionRuntime`'s zombies.

`Finish` and `Return` end the turn; in between `EventDispatch` delivers what it
emitted: `TakeEvent`, `Deliver` to one subscriber after the other, `Cascade` of what
they emit, `CutBurst`. Whether a schedule made in a handler is booked depends on the kind
of turn (`BooksSchedules`).

A resolver's answer is taken as it is: `ResolvedFor` lets it be any commands, on the
key, on one resolved before, or such as no module may propose. The proposal window
is open in the whole of `validate_commands`, so `DryApply` also takes what its handlers
propose: a resolver's proposals go with the list that its answer replaces, validators'
are applied with the rest although the conflicts have been looked at, those of
invariants and simulators come too late.

Ghosts: `late` are the commands that were enqueued when no dry-apply followed;
`brought` those that a resolver answered with, `unseen` those taken in after the
conflicts were looked at; `told` are the announcements.

### One engine: `AgentTasks`, `TurnTracer`, `EngineTurns`

The orchestrator's fields are one active context, one active task and one list of
tool calls, whoever's turn it is. A task is asked by `executeMany` (together, up to
`MaxParallel`), by an interceptor or by `requestAgent`; it is answered by a mock, by
the adapter (which repairs a bad answer up to `MaxRepairs` times) or by the tool
loop (up to `MaxRounds` rounds per attempt). `EngineTurns` opens and closes turns, one
at a time within a session (`Before`), and records into the tracer. `crowded` is a
ghost: the turns that met another session's turn, or a task that outlived its own.

`TurnTracer` has the root document, the follow-up being recorded, the sections of
the follow-ups that are done, and the files. A follow-up turn attaches to the root
if that has a path (`CanAttach`), whatever session it belongs to.

### Host and page: `HostTurns`, `PlayClient`

A submission has the name of its turn. `SubmitArrives` is `submit` up to the call of
the engine; `Starts` gives the turn to every listener that has none, so a job may
be given a turn of a module; `Accept` is the 202, which names that turn. `RejectTurn`
by a timeout of `narrate` leaves the narrator running, whose `LateDelta` may come after
the rejection, on the engine's active context. The events go to the stream if it
is open when they are published. On the page, `Finalize` is `finalizeAssistant`,
`RejectPending` is `rejectPendingTurn`, `Keep` is `commitMessages` (which stores the
transcript too). `Receive` handles one event, `LoadArrives` and `CommitViewArrives`
the answers to the fetches. `Reload` forgets all but the stored transcript.

Ghosts: `published` (passages in the order of their commits), `named` (the turn of a
202), `narrator` (has that of a rejected turn been heard again?), `silent` (an action
ended and no event told the page), `overtaken` (one channel told a passage when
another had told a later one).

### Processes, modules, sessions: `ModuleCompiler` … `HostSessions`

A definition of a module is a record (`StoryModules` has those of the repository,
`MCLifecycle` more); `Compile` is `compileToModule` with `buildBindings` and
`buildManifestAndIr`: it gives the intermediate representation, the bindings and the
manifest, with a token for everything that is registered. `ModuleRegistry` boots a
list of them: `Boot` (clashes, lenient filter, priorities, capability graph),
`InstallModule` or `InstallFails`, `BindEvents`, `CheckConfigs`, `StartModule`,
`EngineReady`, `StopAll`. `HostBoot` is the process around it. `ModuleMoments` says
what the handlers of a set of modules may do in a turn (`Possible`), what is refused
(`TurnRefused`), what is written (`Writes`) and what is scheduled (`Scheduled`).
`HostSessions` has the sessions of one player: calls that create or load one, step by
step between their awaits, turns as one step, `save`, `delete`, and the journal's
replay. A slice is its schema version and the number of commands applied to it.

### The story: `StoryMemory`

The world is what the story modules keep: the number of pairs in working memory,
the summaries (each the pairs it covers and the pairs its text was asked to tell
of), the scene controller's state, the turn that set the outfit. `FreeText` is a
player's turn and queues the jobs of `JobsFor`: all that are due, or some of them, since
an `after` stage or a scheduler that fails is ignored. `JobStarts` takes the first job,
`JobCommits` and `JobRejected` end it, with its tool called once, twice or not at all.
`save()` reads the slices in `ReadForSave` and stores them in `WriteSave`, with the queue
that it finds then; `Restart` is the end of a process and the load after it. Player turns
of other kinds touch none of this and are left out.

Ghosts: `missed` (a summary that was due was not scheduled, or its task came to nothing,
and none was stored since), `torn` (a save stored slices with the queue of a later
moment), `log` (what the probes said).

## Runs

| Run | Shows | Expect |
|---|---|---|
| `session_serial` | clients in separate ticks, a host, the pump, failing stages, throwing end interceptors, a failing store, one crash: all safety properties and the refinement of `SerialHistory` | pass |
| `session_progress` | no system turn is rejected: a busy session becomes idle, a queued background turn commits; the idempotency map evicts and stays bounded | pass |
| `session_faults` | one-tick callers, timeouts, stale saves, a store without transactions: a live kernel still only moves forward and every call is answered | pass |
| `turn_pipeline` | one turn of each kind, every stage able to fail or to time out, interceptors, tasks, conflicts, critics, events | pass |
| `engine_agents` | turns of two sessions on one orchestrator and one tracer | pass |
| `host_play` | a page, another client and a module's turn on one host, with one fault | pass |
| `host_lifecycle` | two lifetimes of a host with good, bad and other module sets; sessions created, loaded, played, saved, deleted | pass |
| `story_memory` | three turns of a story with their jobs, failing schedulers and tasks, a save that overlaps them and a restart | pass |
| `session_same_tick` | two calls of one tick run two turns at once | violation |
| `session_lock_hangs` | a rejected background turn leaves the session busy for ever | violation |
| `session_retry` | a retry during the first attempt commits the action twice | violation |
| `session_stale_save` | `save()` during a turn overwrites the stored turn | violation |

The four violations are disagreements between the code and its documents,
described with both lines under "findings" in `PROJECT.json`.

### Properties of a session

Safety:

- `OneTurnAtATime`: clients, host and pump never run turns together.
- `DraftIsOwn`: the draft is S0, or S0 plus exactly the running turn's commands;
  none stays open between turns.
- `MemoryFollowsStore`: published and stored state agree unless a turn is between
  flush and `kernel.commit`.
- `JournalIsHistory`: the journal holds one entry per stored turn, in order, with
  gap-free revisions; this is what `replayJournal` needs.
- `ActionRepeatsOnlyUnanswered`: a retry after the answer, or after an exception, is
  committed at most once more per crash (the key of a turn is not in its own commit
  unit) and per committed turn whose end interceptors threw (`submitAction` remembers
  no answer of such a call).
- `AnswersAreBounded`: the idempotency map holds one answer per key and at most
  `idempotencyLimit` of them, and the key that leaves is the oldest.
- `JobCommitsAtMostOnce`: also when a crash brings back an older queue.
- `StoreNeverLosesTurns`, `KernelNeverLosesTurns` (action properties): the stored
  and the published history are only ever continued.
- `ImplementsSerialHistory`: the refinement.

Liveness under `Fairness`: `EveryCallAnswered`, `SessionBecomesIdle`,
`BackgroundJobCommits`.

### Properties of a turn (`TurnProperties`)

- `PublishedIsAccepted`: state, journal entry and result name the same commands.
- `RejectedLeavesNothing`: full atomicity, but for a failure of the commit stage
  itself, whose after-interceptors run when the turn is stored and published.
- `OnlyLateWorkIsLost`: a committed turn has applied every command that was
  proposed in time and run every task that was queued.
- `NoClashUnseen`: keys are resolved one after the other, and yet two commands on one
  key are applied only if a resolver answered with one of them or one was taken in after
  the conflicts were looked at; and no command is a resolver's where there is none.
- `KindsKeepTheirRights`: restore turns ask no agent, only player turns schedule.
- `CriticsDecide`: the retries are bounded, and a strict policy is kept.
- `EventCapsHold`: depth and burst.
- `TurnEnds` (liveness): with a result, or by an exception of an end interceptor.

### Properties of an engine (`EngineProperties`)

- `TasksEndOnce`: a bounded number of requests, one end, no stream buffer left.
- `LoneTurnsKeepToThemselves`: a turn that met no other has its tools work on its own
  context and its tasks announced to its own session.
- `TraceIsFaithful`: the dossier of such a turn has all that its tasks did, tool
  calls booked on their task; files of serial turns hold only their own items.
- `DossierOnlyGrows`: a file is only rewritten with more.

Turns of different sessions that meet do mix up each other's context and
dossier; the model has that, and these properties are about the turns that the
shared fields must not disturb.

### Properties of host and page (`PlayProperties`)

- `JobsTellTheOutcome`: what a poll of any turn's job tells. An action's job has its
  outcome once the action has ended, and keeps it. Before that, and for ever if it is
  the job of a module's turn that was taken for the action's own, it is "running" if a
  202 named it; no other turn has a job.
- `TranscriptKeepsOrder`: each passage once, in the order of the commits.
- `TranscriptKeepsPassages`: what a loaded page has stored is kept.
- `PlayerIsReleased` (liveness): a waiting page stops waiting, unless a narrator was
  heard after its turn was rejected.

Their premises name what the code does not guarantee: an action that throws,
channels that overtake one another, a load that failed, a silent end, a broken
stream (which the client never opens again).

### Properties of processes, modules and sessions (`LifecycleProperties`)

- `BootIsSound`: one owner for each token, every module within its manifest, no
  requirement and no subscription left dangling, the order of the priorities.
- `StopsWhatItStarted`: the running modules are a prefix of those with a start; a
  host that was asked to stop has stopped all and closed its database.
- `SlicesKeepTheirData`: a stored slice is what its seed and the journal's turns
  got into it, across saves, crashes, migrations and boots without its module;
  not said of a session that a load took back to an older snapshot than the stored
  one (`clashed`, see "Facts worth knowing").
- `ServedSessionsAreLive`: an attached session is live.

### Properties of the story (`StoryProperties`)

- `JobsAreFresh`: a job's copy of the slices is still true when its tool writes.
- `SummariesAreComplete`: no gap, no overlap, no chunk about other pairs than it was
  told of; and no pair outside both window and summaries, unless a due summary was
  not scheduled or its task came to nothing (neither is an error; the comment at
  `summary/src/index.ts:117` is true only of jobs that are queued and tasks that succeed).
  Both properties say nothing of slices that a save tore from their queue (`torn`).
- `ScenesArePressed`: a scene that goes in circles is pressed to its end however
  its probes name it; closed scenes are kept in order, up to the cap.

### Bounds

*Session.* Two clients, two keys, two jobs, at most four submitted turns and one crash
(`session_serial`): enough for a waiter behind a running turn behind a pumped job, for
a retry before and after a crash, and for both modes of scheduling. `IdemLimit` is the
number of keys there, so that a repeated action can only be the doing of a crash or of
a throw after the commit; in `session_progress` it is 1 with two keys, so that answers
are evicted. `MaxDrain` stands for the 16 in `drainInlineSystemTurns` and
`pumpBackgroundJobs`; it is 1 in `session_serial`, so that both limits are reached
with two jobs, and above the number of jobs in `session_progress`, since reaching the
pump's limit leaves the session busy just as a rejected job does. `MaxSaves = 1` where
`save()` is called at all: one save is enough to be stale. Clients, keys and jobs are
interchangeable model values, hence the symmetry set of the safety run; the liveness
runs use none.

*Turn.* One turn per behaviour; turns meet in `SessionRuntime`. Three commands (two
that clash on one of two keys, one that may not be proposed), an optional and a
required task, one event with one subscriber that may emit it again; `MaxDepth = 0`
and `MaxBurst = 2` with two emissions at a time reach both caps. Two
configurations: strict critics with a resolver, an interpreter and a journal per
turn, and neither of them.

*Engine.* A player turn with two tasks, a system turn that follows it with one, a
turn of another session with a task that is denied. `MCBound` stops a behaviour
in which turns have met from asking a third task; what the properties say of such
turns is little.

*Play.* One action of the page, one of another client, one system turn, one slot,
one fault (`MaxFaults`): a turn that fails, a request or the stream that is lost, or a
reload. A narrator streams one delta in its turn (`MaxDeltas`) and at most one late.
Two passages and three channels are enough for every overtaking.

*Lifecycle.* Two processes (`MaxBoots`), of every ordered pair of the sets in
`MCHosts` that matters: three with sessions, sixteen that fail, each at another
check, two that come up otherwise. One session id, two calls in flight, two turns
(`MaxTurns`). In a turn one handler does something that shows, with or without
another that ends the turn (`ActSets`). Calls are interchangeable, and only
invariants are checked.

*Story.* Three turns with `Window = Interval = 1` give three summaries, or one that was
missed and the next; `HistoryCap = 2`, `ClimaxBeats = 1` and `HardBeats = 2` are reached
within them. The verdicts are the three of `MCVerdicts`. At most one save is under way,
and only while there is a restart left to read it: one that spans a whole turn is enough
to tear, and one restart to run the torn queue.

### Fairness

*Session.* `Fairness` asks weak fairness of each actor's pipeline steps, of each waiting or
draining client, of the host's return and of the pump. That is what the event
loop gives: a continuation, timer or store reply that is due is run. Weak
fairness is enough for a waiting client because it either claims an idle session
or gives up by its timeout. Nothing is assumed of clients, hosts, faults, zombies,
saves, crashes or reloads.

*Turn.* `TurnSpec` has weak fairness of its next step: the event loop runs what is
due, and every stage has a timeout.

*Play.* The engine ends the turns it starts, requests and answers that are neither
lost nor failed arrive, events of an open stream are handled, the stream opens.
Nothing is assumed of the player, of faults and of turns that modules start.

The other specifications are checked for safety only.

## Proofs

Every safety invariant, every action property and the refinement that a passing run
checks is also a theorem that TLAPS checks for all values of the constants; they are
listed under "theorems" in `PROJECT.json`. The run shows that the property says
something (its mutants break it) and that the bounds reach the interesting cases, the
theorem that nothing depends on the bounds. The assumptions on the constants are
those that the modules name, which TLC evaluates in every run:

| Module | Assumes |
|---|---|
| `SessionRuntime` | clients, pump and host are different actors; jobs are finitely many; limits are positive |
| `EventDispatch`, `TurnStages` | an event's subscribers are a list, caps are numbers; commands are finitely many and `core.bumpTurn` is none of the modules'; required tasks are tasks; configurations have the shape of `config.turn` |
| `AgentTasks`, `EngineTurns` | every task belongs to a turn and takes one of the three ways to the model; rounds and slots are positive |
| `HostTurns`, `PlayClient` | actions and turns of modules are different turns; bounds are numbers |
| `HostBoot`, `HostSessions` | what a host is given as a list is one; the priority of a manifest is an integer (`manifest.ts`) |
| `StoryMemory` | the interval of the summary is not longer than the window; caps are positive; verdicts have their shape |

| Proofs | About |
|---|---|
| `SessionProofs` | one session, whatever its host does |
| `SessionSerialProofs`, `SessionJobsProofs` | one session with an orderly host: serial turns, what commits once |
| `TurnProofs` | one turn and its events |
| `EngineProofs` | one orchestrator and one tracer for the turns of all sessions |
| `PlayProofs` | one host and a page |
| `LifecycleProofs` | hosts, their modules and their sessions |
| `StoryProofs` | what modules remember over many turns |

### The session

Everything in the three modules about the session holds for all sets of clients and
keys, every finite set of jobs, all limits and all faults.

`TypeCorrect` needs no invariant but itself. Its interesting lemmas say that the
idempotency map stays a finite map (`RenumberType`, `RememberType`) and that what
turns schedule are sequences of jobs (`OrdersType`).

`AnswersBounded` also holds for every host. `AnswersAreBounded` is not inductive,
because a reload brings back the map of the store: `AnswersInvariant` says the
same of every copy of the map, in the commit units, in the stages that outlive
their turn and in the snapshot. Its core is `RenumberOrders` (after an eviction or
a reload the places count from 1 without a gap, and no answer is lost) and
`RememberBounded` (a full map loses exactly its oldest key).

`KernelKeepsTurns` holds for every host as well. That a published turn is not undone
rests on `KernelInvariant`: whatever draft is open continues the published state
(`DraftGoesOn`), whoever opened it and whoever wrote to it since, and without a
process nothing is left that could publish (`NothingRunsDown`). `KernelStep` sorts all
steps into those that work on the draft, those that publish it, and restarts.

The other safety theorems are stated for an *orderly host* (`OrderlyHost`): callers in
separate ticks, no stage that outlives its turn, no `save()` during the run, a
store with `commitTurn`. The violating runs show what breaks without the first
three; without `commitTurn`, a failure between the two writes leaves a stored turn
that memory does not have.
Rejections of turns, failing stages, a failing store, crashes and reloads are all
allowed. None of the properties is inductive alone: that turns exclude each other
depends on `busy` covering the drain as well as the turn; that the draft is the
turn's own depends on turns excluding each other; that memory and store agree
after `KernelCommit` depends on the draft, the unit built from it and the revision
the turn started from. `SerialInvariant` puts these together:

1. `PhasesInUse`: the phases of disorderly hosts do not occur;
2. `BusyIsLock`: whoever holds the session has set `busy`, and is alone;
3. `DraftIsOwn`;
4. `UnitIsOwn`: the unit about to be stored is the published state plus the turn,
   and its revisions follow the published one;
5. `StoreInStep`: the store is ahead by the flushed turn or not at all;
6. `DownIsIdle`: nothing runs without a process;
7. `JournalIsHistory`, whose step is the lemma `JournalOfAppend`.

`SerialPipeline`, `SerialCaller` and `SerialOtherSteps` show that each action keeps
it; `SerialBegin` and `SerialMove` carry the two recurring arguments (a turn begins
on an idle session; a holder moves on without touching kernel or store).
`SerialSession` is the resulting theorem, `TurnsExclude`, `DraftsAreOwn`,
`MemoryAndStoreAgree` and `JournalComplete` are its consequences, and
`ImplementsSerial` and `StoreKeepsTurns` add the step argument `SerialStep`: every
step of the session is a flush, a publication or a stutter.

`JobsCommitOnce` also needs an orderly host. `JobCommitsAtMostOnce` speaks of the stored
history alone; `JobInvariant` follows every job to where it can be: still unscheduled,
in one of the queues, among the turns a client has left to drain, running, or in a
history, and never in two of these at once (`Apart`, `BatchApart`, `RunsApart`). It has
to say the same of the snapshot in the store and of the units about to be stored
(`SnapshotApart`), as a reload brings their queues back. That nobody else drains or
runs a job meanwhile comes from `SerialInvariant`.

`ActionsRepeatOnlyUnanswered` is about actions that a host retries. The key of a turn
is remembered after its unit was built, so the snapshot of a turn lacks its own answer
and a crash before the next flush forgets it; a turn that throws after its commit
never has one. To show that nothing else does, `Debt` counts what these have to pay
for: the turns of a history that repeat a key, and the keys that may still be repeated
because no answer is known for them. A commit with a key that is not known turns the
second kind into the first, or adds a key whose answer is known once the caller
returns (`DebtOfAppend`); so `KeyInvariant` bounds the debt in memory by the crashes
and throws so far, and the debt in the store by one more while the session is up,
which is the one that the next crash adds. It also says that a key under way is one
client's and has no answer yet. Two hypotheses come with it (`KeysFit`): the host
waits for an answer or an exception before it asks again, without which
`session_retry` shows the action commit twice, and the map has room for its keys, as
the bound of the map (`AnswersKept`) is what shows that no answer is evicted.

### One turn

`TurnProofs` proves of `EventDispatch`, for every set of modules, every subscription
and all caps, that its types are kept, that events are dispatched in the order of
their depth (`BreadthFirst`: the queue never holds more than two depths, and the
deeper ones are behind), and `EventCapsHold`, which follows with the count of
what was taken so far.

It then proves all safety properties of the turn, for every configuration, every
finite set of commands, any conflict keys, tasks and numbers of retries.
`TurnInvariant` says stage by stage what a turn has achieved (`PastPropose`,
`PastValidate`, `PastNarrate`, `PastCommit`): which steps occur in which stage
(`StepsFit`), what the outcome can be there (`OutcomeFits`), that the draft is open
until the commit and holds what was accepted (`DraftFits`), that state, journal
entry and announcement come together (`CommitFits`), where each command is
(`CommandsFit`), that each stage that opens the queue of tasks also empties it, and
what the critics said (`AgentsFit`), and who may schedule (`SchedulesFit`). Each
property is a consequence of two or three of them. `TurnImplementsDispatch` shows
that a turn is a dispatch of its events, so `EventCapsHold` carries over.

`NoConflictUnseen` rests on a fact about an algorithm: going through the conflict
keys one after the other leaves none with two commands of which no resolver answered
with either, for any number of keys, overlapping or not (`ResolutionsApart`): what
an answer for one key adds on another is a resolver's own. What the validators and the
materialize window add later is in `unseen`. It is proved by the least counterexample
(`LeastNumber`, from the well-foundedness of the naturals), and so is that the
recursion over the keys defines a function at all (`KeysInOrder`).

### The story

`StoryProofs` proves `JobsAreFresh` and `SummariesAreComplete` for every window, interval
and verdict and stories of any length, with any number of saves
that overlap turns and of restarts. Both rest on `SummaryInvariant`: the types, the
freshness of the queue in memory, of the job that runs *and* of the queue in the store,
the chunks up to `summarized` in both (`ChunksOf`), and `DueIsQueued`: a summary that is
due has its job in the queue or with the pump, or was missed, which for the store has to
look at the memory too, as a crash takes the memory's jobs away. The core is `ToolStep`
with `FreshElsewhere`: a tool changes only what the jobs behind it, which are of other
kinds (`Fresh`), were not given. Of a save the proof needs only that what it stores is
torn, or the slices of the moment (`SameSlices`).

`CirclesEnd` proves `ScenesArePressed`. The property looks back over the log of probes,
the code keeps a clock and a level: `PressInvariant` says that the clock has counted at
least the probes in a row that found the scene near its end (`ClockCounts`), for every
number of them; that the open scene remembers the worst loop a probe found in it
(`LoopRemembered`); and that scenes are numbered as they begin and kept in that order
(`ScenesNumbered`), so that a probe that gives the circling scene a new name does not
start the clock again. It holds of the memory and of the store.

### The engine

`EngineProofs` proves of `EngineTurns`, for all turns, tasks and bounds, its types
(`EngineTyped`) and three properties. Two rest on `AgentInvariant`. `TasksAlwaysEndOnce`
needs to know how often a task can have asked in its attempts and rounds so far
(`AskedSoFar`), as the product of the two bounds is reached only through both.
`LoneTurnsAreApart` needs `ContextsApart`: of any two turns that are busy at once both
are crowded, and while a turn that met no other is under way, or its tasks still run,
the one active context is its own, or none once it has ended. `FilesNeverLose` rests
on `DossierInvariant`: the open document has all that its file has, and a turn that
has not begun has no file to be overwritten.

`DossiersAreFaithful` proves `TraceIsFaithful`, which has two halves. The first, that a
closing turn has all of its tasks in its dossier, needs to follow a tool call from the
task that makes it to the list the orchestrator keeps, to the turn that drains it, to
the document: `OpenIsTraced` says of a turn that met no other that it owns the open
document or its follow-up, and that each task that used tools has its call in the
dossier or still in the list, where it waits until the task is recorded;
`ClosingIsTraced` says what is left of that once no task is open. The second half, that
files have nothing of other turns, is `DossiersArePure`: as long as no two turns have
met, the document, its sections, the bucket of the follow-up and the list of calls are
of one turn each, and a rejected turn that is not to be written is in none of them.

### Host and page

`PlayProofs` has two invariants. `HostOK` is about the host alone: the turn that runs
is of an action that waits for it (`EngineFits`), what was published is what
committed, once each (`PublishedFits`), and of each turn what its job says (`Says`)
and which turn a 202 may name (`JobsFit`), except for a turn that threw. `JobsAreTrue`
follows. `PageOK` is about the page, and needs nothing of the host but what it has
published: a load has one view under way (`LoadFits`), what is shown was published
(`ShownFits`), and the transcript, the stored one and what a load brings are in the
order of publication and end with what was shown last (`TranscriptFits`). The last is
said only until one channel has been overtaken by another, as `TranscriptKeepsOrder`
is. The order of a list from which a bubble is taken and to which another is added is
what its lemmas are about (`WithoutDraws`, `PlacesOfKept`); `Without` and `LastSaid`
are written with the places of a list for that reason. `PassagesAreKept` is the action
property that no step drops a stored passage.

### Hosts, modules and sessions

`LifecycleProofs` goes through three layers, each kept on the strength of those before
it, `LifecycleInvariant`. `EngineOK`: what the registry installs, the owners of tokens
and the capabilities that are there, the modules started so far and those still to be
stopped. `EnginesAreSound` and `EnginesStopWhole` follow; their core is that the sort by
priority is one (`Place`), and that the modules running are those in the list up to the
place the start or the stop has reached (`Started`). `SessionsOK`: which sessions are
stored, live and attached, and where the requests for them are; `AttachedAreLive`
follows. `RecordsOK`: the journal counts the stored revisions, the stored slices have
exactly what seeds and journal wrote, what is live is a copy of the stored revision, and
what a load holds is a copy of that or an older one; `SlicesAreKept` follows. The ghost
`clashed` names the sessions that a load made live from an older snapshot than the
stored one, of which nothing is said: an earlier form of it, which only looked for two
loads at once, turned out not to be inductive, since a load may also be overtaken by the
turns of a session that another load has already made live.

### Only model-checked

The liveness properties (`EveryCallAnswered`, `SessionBecomesIdle`,
`BackgroundJobCommits`, `TurnEnds`, `PlayerIsReleased`): liveness under fairness is out
of the prover's reach. So are the four violations, which are counterexamples and need
no proof. Nothing that a recursion over data computes is proved by induction: for the
one recursive function that a theorem is about, the resolution of conflicts, the argument
goes by the least counterexample.

## Not modelled

- The text: prompts, briefs, passages, the documents of the tracer, wording.
- What commands do to a slice, beyond who may propose them and what they clash with.
- Players and ownership (guest tokens, rename, list), HTTP codes, validation of bodies.
- Chains of migrations; SQL; serialisation.
- The restore turn as part of a load, what session hydrators write.
- Hints, interim texts and timers of the play page; the other pages, the CLI.
- Several tool calls in one answer of a model, which `AgentTasks` takes as one; a host
  whose database fails to open when its engine is already up (`main.ts:26`).
- LLM adapters beyond the outcome of a request, scaffolding, the event bus itself.

## Facts worth knowing

Met while modelling; the models behave so, and no property denies it.

- A command enqueued by an after-interceptor of `validate_commands`, or proposed in
  `materialize` by `ctx.propose`, is announced and never applied.
- An after-interceptor that fails the commit stage rejects a turn that is stored.
- A required task that fails leaves the turn's tool calls for the next drain.
- Turns of different sessions share the active context: a tool task uses whichever
  context was set last.
- A module with a start that ran before one that throws is not stopped.
- A missing requirement ends the check of the capability graph before cycles are
  looked for; the lenient filter is one pass; modules start in the order of their
  priorities, which need not be the order of what they require.
- A slice whose schema does not carry `schemaVersion` counts as version 1 at every load.
- The seeds of a session are in no journal entry, and `matchesLive` of
  `replaySessionJournal` compares revisions only.
- Two requests for a session that is not attached both load it; the second load
  takes back what the first one's turns did.
- Deleting a session during its load leaves it live, unattached.
- An action whose turn commits and then throws in an `end` interceptor has no answer: a
  retry with the same key commits it again. If the pump's turn throws, nobody catches it,
  and the process may end by an unhandled rejection.
- Nothing looks at what a conflict resolver answers with: not at permissions, nor at
  conflicts on the same key or an earlier one. What it proposes by `ctx.propose` is lost;
  what a validator proposes is applied without a look at conflicts; what an invariant
  or simulator proposes is never applied.
- A 202 that names a module's turn (the first that started after the submission) leaves
  its poller with "running" for ever, although `docs/adr/0002` promises a result, with a poll as the
  fallback; the page is told by the events instead.
- A narrator that outlives its rejected turn may stream a delta after `turn.rejected`: the
  page is busy again until the next turn of a player ends, or a reload.
- `save()` during a turn stores the slices from before it with the queue from after it. A
  load of that runs jobs that speak of pairs the slices do not have.
- An `after` stage or a scheduler that fails is ignored, and with it a summary that was
  due: if that happens again before one is stored, a pair is in neither window nor summary.
- A summary tool called twice in one task rejects its turn, which stops the pump.
- A page whose first load fails stores the next transcript over the one it had.
- The event stream is not opened again when it breaks; an action refused without a
  turn (202, then nothing) leaves the page waiting.
