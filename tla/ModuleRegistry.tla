--------------------------- MODULE ModuleRegistry ---------------------------
(***************************************************************************)
(* The engine takes its modules in (core/src/registry, create-engine.ts):  *)
(* it checks them against each other, installs them one by one into the    *)
(* contribution index, binds events, starts them, and stops them at the    *)
(* end.                                                                    *)
(*                                                                         *)
(* Options of a boot: "strict" is strictManifest, "lenient" says that      *)
(* failOnMissingCapability is off, "badConfig" are the config keys whose   *)
(* host section its schema refuses, "prompts" whether the prompt profiles  *)
(* resolve. The host leaves strict on and lenient off (createHostRuntime). *)
(***************************************************************************)
EXTENDS ModuleCompiler, FiniteSets

VARIABLES
  phase,    \* where the boot, or the stop, is
  options,  \* the options of this boot
  todo,     \* modules still to install, or to start
  loaded,   \* the modules installed, in their order
  puts,     \* index: the tokens registered, each with its owner
  ports,    \* index: the ports served, each with its owner
  subs,     \* index: the event subscriptions
  caps,     \* index: the capabilities
  running   \* modules whose start was called and whose stop was not

registryVars ==
  <<phase, options, todo, loaded, puts, ports, subs, caps, running>>

Elems(s) == {s[i] : i \in DOMAIN s}
IdOf(m) == m.manifest.id
PriorityOf(m) == m.manifest.priority

NothingLoaded ==
  /\ loaded = <<>> /\ puts = {} /\ ports = {} /\ subs = {}
  /\ caps = {} /\ running = {}

RegistryInit ==
  /\ phase = "off" /\ todo = <<>> /\ NothingLoaded
  /\ options = [strict |-> TRUE, lenient |-> FALSE, badConfig |-> {},
                prompts |-> TRUE]

-----------------------------------------------------------------------------
(* boot: the checks before the first module is installed                   *)

\* Ids and slices are unique, and every module fits the engine.
ManifestsClash(ms) ==
  \/ \E i, j \in DOMAIN ms :
       /\ i # j
       /\ \/ IdOf(ms[i]) = IdOf(ms[j])
          \/ ms[i].manifest.slices \cap ms[j].manifest.slices # {}
  \/ \E i \in DOMAIN ms : ~ms[i].manifest.enginesOk

Provided(ms) == {Core} \cup UNION {ms[i].manifest.provides : i \in DOMAIN ms}

\* Where the modules are that a lenient boot keeps. One pass: a module stays
\* although the provider it needs was filtered out.
WithProviders(ms) ==
  {i \in DOMAIN ms : ms[i].manifest.requires \subseteq Provided(ms)}

\* Array.sort by priority, which is stable, of the modules at the places in
\* "kept".
Precedes(ms, j, i) ==
  \/ PriorityOf(ms[j]) < PriorityOf(ms[i])
  \/ PriorityOf(ms[j]) = PriorityOf(ms[i]) /\ j <= i
Place(ms, kept, i) == Cardinality({j \in kept : Precedes(ms, j, i)})
ByPriority(ms, kept) ==
  [k \in 1..Cardinality(kept) |-> ms[CHOOSE i \in kept : Place(ms, kept, i) = k]]

RequirementMissing(ms) ==
  \E i \in DOMAIN ms : ~(ms[i].manifest.requires \subseteq Provided(ms))

\* An edge leads to every other module that provides what is required; the
\* depth-first search finds a cycle iff some set of modules has no way out.
Needs(m, other) ==
  IdOf(m) # IdOf(other)
  /\ m.manifest.requires \cap other.manifest.provides # {}
HasCycle(ms) ==
  \E C \in SUBSET DOMAIN ms :
    C # {} /\ \A i \in C : \E j \in C : Needs(ms[i], ms[j])

Active(ms, opts) ==
  ByPriority(ms, IF opts.lenient THEN WithProviders(ms) ELSE DOMAIN ms)

\* A missing requirement ends the check of the graph before cycles are
\* looked for; a lenient boot goes on after it.
GraphRefused(ms, opts) ==
  IF RequirementMissing(ms) THEN ~opts.lenient ELSE HasCycle(ms)

BootFails ==
  /\ phase' = "failed" /\ todo' = <<>>
  /\ UNCHANGED <<options, loaded, puts, ports, subs, caps, running>>

Boot(ms, opts) ==
  /\ phase = "off"
  /\ options' = opts
  /\ caps' = {Core}
  /\ IF ManifestsClash(ms) \/ GraphRefused(Active(ms, opts), opts)
     THEN phase' = "failed" /\ todo' = <<>>
     ELSE phase' = "installing" /\ todo' = Active(ms, opts)
  /\ UNCHANGED <<loaded, puts, ports, subs, running>>

-----------------------------------------------------------------------------
(* Installing a module through its register context                        *)

\* requireRegister: an entry of "registers" covers a token that is equal to
\* it, of its kind, or under its wildcard.
Covers(entry, token) ==
  \/ entry = token \/ entry = <<token[1]>>
  \/ /\ Len(entry) = 3 /\ Len(token) = 3 /\ entry[3] = "*"
     /\ entry[1] = token[1] /\ entry[2] = token[2]
Declared(m, token) ==
  \E entry \in m.manifest.registers : Covers(entry, token)

\* putUnique.
NeverTaken(token) == FALSE   \* mutant: the last one to register wins
Taken(token) == \E p \in puts : p.token = token

\* The register functions: a token is declared, and a unique one is free.
TokenErrors(m) ==
  \/ \E t \in UniqueTokens(m) : Taken(t)
  \/ options.strict /\ \E t \in UniqueTokens(m) \cup ListTokens(m) :
                         ~Declared(m, t)

\* The add functions, of the ports: a port is declared (requireContribute).
PortErrors(m) ==
  options.strict /\ ~(AddsPorts(m) \subseteq m.manifest.contributes)

\* The first error of any registration fails the boot, whether the module
\* looked at it or not (takeErrors).
InstallErrors(m) == TokenErrors(m) \/ PortErrors(m)

IRUnfit(m) ==
  \/ m.ir.irVersion # 1 \/ IdOf(m) # m.ir.id
  \/ m.manifest.version # m.ir.version \/ BindMismatch(m)

InstallModule ==
  /\ phase = "installing" /\ todo # <<>>
  /\ ~IRUnfit(Head(todo)) /\ ~InstallErrors(Head(todo))
  /\ LET m == Head(todo) IN
     /\ puts' = puts \cup {[token |-> t, owner |-> IdOf(m)] : t \in UniqueTokens(m)}
     /\ ports' = ports \cup {[port |-> p, owner |-> IdOf(m)] : p \in AddsPorts(m)}
     /\ subs' = subs \cup {[name |-> h.name, does |-> h.does, owner |-> IdOf(m)]
                             : h \in m.bindings.hears}
     /\ caps' = caps \cup m.manifest.provides
     /\ loaded' = Append(loaded, m)
     /\ todo' = Tail(todo)
  /\ UNCHANGED <<phase, options, running>>

InstallFails ==
  /\ phase = "installing" /\ todo # <<>>
  /\ IRUnfit(Head(todo)) \/ InstallErrors(Head(todo))
  /\ BootFails

-----------------------------------------------------------------------------
(* validateEventBindings                                                   *)

Published(name) == \E p \in puts : p.token = <<"event-emit", name>>
LoadedId(id) == \E m \in Elems(loaded) : IdOf(m) = id

\* The name's prefix is the module that should publish it. If that module
\* is loaded, the name is a typo; if not, the subscription is inert. (A typo
\* in the prefix looks like a module that is not loaded.)
Mistyped(sub) == ~Published(sub.name) /\ LoadedId(sub.name[1])

BindEvents ==
  /\ phase = "installing" /\ todo = <<>>
  /\ ~\E sub \in subs : Mistyped(sub)
  /\ phase' = "bound"
  /\ subs' = {sub \in subs : Published(sub.name)}
  /\ UNCHANGED <<options, todo, loaded, puts, ports, caps, running>>

BindEventsFails ==
  /\ phase = "installing" /\ todo = <<>>
  /\ \E sub \in subs : Mistyped(sub)
  /\ BootFails

\* validateModuleConfigs.
ConfigRefused == \E p \in puts : p.token[1] = "config"
                                 /\ p.token[2] \in options.badConfig

CheckConfigs ==
  /\ phase = "bound"
  /\ IF ConfigRefused THEN BootFails
     ELSE /\ phase' = "starting" /\ todo' = loaded
          /\ UNCHANGED <<options, loaded, puts, ports, subs, caps, running>>

-----------------------------------------------------------------------------
(* startAll, and what createEngine does after it                           *)

\* A start that throws fails the boot. The modules started before it, and
\* what it started itself, are not stopped.
StartModule ==
  /\ phase = "starting" /\ todo # <<>>
  /\ running' = IF Head(todo).start = "none" THEN running
                ELSE running \cup {IdOf(Head(todo))}
  /\ IF Head(todo).start = "throws"
     THEN phase' = "failed" /\ todo' = <<>>
     ELSE phase' = phase /\ todo' = Tail(todo)
  /\ UNCHANGED <<options, loaded, puts, ports, subs, caps>>

EngineReady ==
  /\ phase = "starting" /\ todo = <<>>
  /\ phase' = IF options.prompts THEN "up" ELSE "failed"
  /\ UNCHANGED <<options, todo, loaded, puts, ports, subs, caps, running>>

-----------------------------------------------------------------------------
(* stopAll                                                                 *)

\* The last one first, which is the reverse order of the starts.
StopsFirst(ms) == 1          \* mutant: in the order of the starts
StopsNext(ms) == Len(ms)
Without(ms, i) == SubSeq(ms, 1, i - 1) \o SubSeq(ms, i + 1, Len(ms))

StopAll ==
  /\ phase = "up"
  /\ phase' = "stopping" /\ todo' = loaded
  /\ UNCHANGED <<options, loaded, puts, ports, subs, caps, running>>

\* A stop that throws is logged; the others are stopped all the same.
StopModule ==
  /\ phase = "stopping" /\ todo # <<>>
  /\ running' = running \ {IdOf(todo[StopsNext(todo)])}
  /\ todo' = Without(todo, StopsNext(todo))
  /\ UNCHANGED <<phase, options, loaded, puts, ports, subs, caps>>

Stopped ==
  /\ phase = "stopping" /\ todo = <<>>
  /\ phase' = "stopped"
  /\ UNCHANGED <<options, todo, loaded, puts, ports, subs, caps, running>>

\* A new process.
Discard ==
  /\ phase' = "off" /\ todo' = <<>>
  /\ loaded' = <<>> /\ puts' = {} /\ ports' = {} /\ subs' = {}
  /\ caps' = {} /\ running' = {} /\ UNCHANGED options

RegistryNext ==
  \/ InstallModule \/ InstallFails \/ BindEvents \/ BindEventsFails
  \/ CheckConfigs \/ StartModule \/ EngineReady
  \/ StopModule \/ Stopped
=============================================================================
