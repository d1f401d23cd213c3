--------------------------- MODULE ModuleCompiler ---------------------------
(***************************************************************************)
(* How the SDK turns an author's definition of a module into the module    *)
(* the engine installs (module-sdk/src/compile): the bindings with the     *)
(* handlers, the intermediate representation, and the manifest that        *)
(* declares what the module registers and contributes.                     *)
(*                                                                         *)
(* A definition is a record; a name is a tuple <<kind, name, ...>>, so     *)
(* that two names are equal when the program's strings are. Schemas,       *)
(* titles and the spelling of names are left out; of a slice's schema the  *)
(* model keeps whether it has the field schemaVersion ("stamps").          *)
(***************************************************************************)
EXTENDS Naturals, Sequences

CONSTANT None   \* an absent value

Core == <<"capability", "state-core">>   \* CORE_STATE_CAPABILITY

\* The only element of S, if it has one.
TheOf(S) == CHOOSE x \in S : TRUE

\* normalizeModuleDefinition: at most one state, one config, one access.
WellDefined(def) ==
  \A kind \in {"states", "configs", "reads"} :
    \A x, y \in def[kind] : x = y

\* The slice is named by the state capability, or by the module.
SliceName(def) ==
  IF def.states # {} /\ TheOf(def.states).name # None
  THEN TheOf(def.states).name ELSE def.id

\* buildBindings: what the handlers hang on. Tasks, tools and emitted events
\* carry the module's id; read models, slices and config keys do not.
Bindings(def) ==
  LET state == IF def.states = {} THEN {} ELSE {TheOf(def.states)} IN
  [slice  |-> IF state = {} THEN None ELSE SliceName(def),
   schema |-> IF state = {} THEN 1 ELSE TheOf(state).schema,
   stamps |-> \A s \in state : s.stamps,
   ops    |-> UNION {s.ops : s \in state},
   migrations |-> UNION {s.migrations : s \in state},
   config |-> IF def.configs = {} THEN None
              ELSE IF TheOf(def.configs) = None THEN SliceName(def)
              ELSE TheOf(def.configs),
   moments |-> def.moments,
   readModels |-> def.readModels,
   tasks |-> {[type |-> <<def.id, t.key>>, reason |-> t.reason]
                : t \in def.tasks},
   tools |-> {<<def.id, t>> : t \in def.tools},
   emits |-> {<<def.id, e>> : e \in def.emits},
   hears |-> {[name |-> <<h.module, h.event>>, does |-> h.does]
                : h \in def.hears}]

\* buildManifestAndIr, the IR: what the installer may install.
IR(def, b) ==
  [irVersion |-> 1, id |-> def.id, version |-> def.version,
   slice |-> b.slice, schema |-> b.schema, ops |-> b.ops,
   migrates |-> b.migrations # {}, config |-> b.config,
   moments |-> b.moments, readModels |-> b.readModels,
   tasks |-> b.tasks, tools |-> b.tools]

\* The registrations the manifest declares (its "registers"). A slice with
\* ops also declares every command under its name.
Registers(def, b) ==
  (IF b.slice = None THEN {} ELSE
     {<<"slice", b.slice>>}
     \cup {<<"command", b.slice, op>> : op \in b.ops}
     \cup (IF b.ops = {} THEN {} ELSE {<<"command", b.slice, "*">>})
     \cup (IF b.migrations = {} THEN {} ELSE {<<"migration", b.slice>>}))
  \cup (IF b.config = None THEN {} ELSE {<<"config", b.config>>})
  \cup def.provides
  \cup {<<"read-model", r>> : r \in b.readModels}
  \cup {<<"agent-task", t.type>> : t \in b.tasks}
  \cup {<<"agent-tool", t>> : t \in b.tools}
  \cup {<<"event-emit", e>> : e \in b.emits}
  \cup {<<"event-sub", h.name>> : h \in b.hears}

\* The port a moment of a definition is served by.
PortsOf ==
  [seed       |-> {"SessionBootstrap"},
   guard      |-> {"Guard"},
   soft       |-> {"SoftGuard"},
   invariant  |-> {"Invariant"},
   change     |-> {"TransitionContributor"},
   afterProse |-> {"PostNarrativeContributor"},
   committed  |-> {"AfterCommitHook", "SystemTurnScheduler"},
   rejected   |-> {"OnTurnRejected"},
   load       |-> {"SessionHydrator"},
   prompt     |-> {"NarrativePromptContributor"},
   context    |-> {"NarrativeContextProvider"},
   style      |-> {"NarrativeStyleProvider"},
   critic     |-> {"NarrativeCritic"},
   status     |-> {"StatusPanelProvider"},
   help       |-> {"HelpProvider"}]

Moments == DOMAIN PortsOf

\* The ports the manifest declares (its "contributes").
Contributes(b) ==
  UNION {PortsOf[m] : m \in b.moments}
  \cup (IF b.tools = {} THEN {} ELSE {"TransitionContributor", "AgentTool"})
  \cup (IF b.tasks = {} THEN {} ELSE {"AgentTaskContributor"})

Manifest(def, b) ==
  LET types == {<<"agent-task", t.type>> : t \in b.tasks} IN
  [id |-> def.id, version |-> def.version, priority |-> def.priority,
   enginesOk |-> TRUE,
   provides |-> def.provides \cup types,
   requires |-> def.requires \cup {Core},
   slices |-> IF b.slice = None THEN {} ELSE {b.slice},
   registers |-> Registers(def, b), contributes |-> Contributes(b)]

\* compileToModule.
Compile(def) ==
  LET b == Bindings(def) IN
  [manifest |-> Manifest(def, b), ir |-> IR(def, b), bindings |-> b,
   start |-> def.init, stop |-> def.shutdown, schedules |-> def.schedules]

-----------------------------------------------------------------------------
(* bindCompiledModule: what installing a module asks of the registry       *)

\* The structural check: an IR of another producer may not fit its bindings.
BindMismatch(m) ==
  LET ir == m.ir b == m.bindings IN
  \/ (ir.slice = None) # (b.slice = None) \/ ir.ops # b.ops
  \/ ir.moments # b.moments \/ ir.readModels # b.readModels
  \/ ir.tasks # b.tasks \/ ir.tools # b.tools
  \/ (ir.config = None) # (b.config = None)

\* Registrations that must be the only ones of their name: of the slice and
\* its commands, of the agents, of the read models, of the events.
StateTokens(m) ==
  LET ir == m.ir IN
  (IF ir.slice = None THEN {} ELSE
     {<<"slice", ir.slice>>} \cup {<<"command", ir.slice, op>> : op \in ir.ops})
  \cup (IF ir.config = None THEN {} ELSE {<<"config", ir.config>>})

AgentTokens(m) ==
  {<<"agent-task", t.type>> : t \in m.ir.tasks}
  \cup {<<"agent-tool", t>> : t \in m.ir.tools}

ReadModelTokens(m) == {<<"read-model", r>> : r \in m.ir.readModels}
EventTokens(m) == {<<"event-emit", e>> : e \in m.bindings.emits}

UniqueTokens(m) ==
  StateTokens(m) \cup AgentTokens(m) \cup ReadModelTokens(m) \cup EventTokens(m)

\* Registrations that may be repeated.
ListTokens(m) ==
  (IF m.ir.slice # None /\ m.ir.migrates
   THEN {<<"migration", m.ir.slice>>} ELSE {})
  \cup {<<"event-sub", h.name>> : h \in m.bindings.hears}

\* A task that no system turn starts adds no contributor.
Runnable(m) == {t \in m.ir.tasks : t.reason # None}

AddsPorts(m) ==
  UNION {PortsOf[x] : x \in m.ir.moments}
  \cup (IF m.ir.tools = {} THEN {} ELSE {"TransitionContributor", "AgentTool"})
  \cup (IF Runnable(m) = {} THEN {} ELSE {"AgentTaskContributor"})

\* A migration leads from its version straight to the current one.
MigrationsOf(m) ==
  {[slice |-> m.ir.slice, from |-> v, to |-> m.ir.schema]
     : v \in IF m.ir.slice # None /\ m.ir.migrates
             THEN m.bindings.migrations ELSE {}}
=============================================================================
