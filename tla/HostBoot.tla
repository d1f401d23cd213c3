------------------------------ MODULE HostBoot ------------------------------
(***************************************************************************)
(* The host process comes up and goes down (host-bootstrap, apps/api's     *)
(* main): environment, stories, database, the pool of modules, the list to *)
(* load, the engine.                                                       *)
(*                                                                         *)
(* A host configuration is a record: llm (the LLM settings are complete,   *)
(* or agents are mocked), stories, db (each opens), exclusive (a module    *)
(* list that replaces everything, or None), catalog (the first-party       *)
(* definitions), roots and explicit (where to discover modules),           *)
(* envModules, profile, enabled, disabled (host and environment), extra,   *)
(* and the engine's options.                                               *)
(***************************************************************************)
EXTENDS ModuleRegistry, Integers

CONSTANTS HostConfigs, MaxBoots   \* bound: processes that are started

VARIABLES
  hostPhase,  \* what the host process does
  host,       \* its configuration
  db,         \* is the engine's database open?
  ended,      \* how the last process ended
  boots       \* processes started

hostVars == <<hostPhase, host, db, ended, boots>>

HostInit ==
  /\ hostPhase = "down" /\ host = None /\ db = FALSE /\ ended = "none"
  /\ boots = 0 /\ RegistryInit

-----------------------------------------------------------------------------
(* The module pool                                                         *)

Packages(c) ==
  UNION {{<<i, p>> : p \in c.roots[i].packages} : i \in DOMAIN c.roots}
Candidates(c) == {q \in Packages(c) : q[2].decl = "module"}

\* discoverModulePool: only the default root may be missing; a package that
\* cannot be read is no module, a declaration that is wrong is an error.
DiscoveryFails(c) ==
  \/ \E i \in DOMAIN c.roots :
       \/ c.roots[i].dir = "unreadable"
       \/ c.roots[i].dir = "missing" /\ c.explicit
  \/ \E q \in Packages(c) : q[2].decl = "invalid"
  \/ \E q, r \in Candidates(c) : q # r /\ q[2].def.id = r[2].def.id

\* resolvePool: the catalog wins.
Pool(c) ==
  c.catalog \cup {q[2].def : q \in {r \in Candidates(c) :
                    \A d \in c.catalog : d.id # r[2].def.id}}

-----------------------------------------------------------------------------
(* The list of modules                                                     *)

Profile(p) ==
  CASE p = "core-book" -> <<"working-memory", "world-canon", "character">>
    [] p = "minimal" -> <<"working-memory">>
    [] OTHER -> <<>>

\* resolveMergedIds: RP_MODULES takes the place of the profile.
MergedIds(c) ==
  (IF c.envModules # None THEN c.envModules ELSE Profile(c.profile))
  \o c.enabled
\* What is at some places of a list, in its order.
At(list, places) ==
  [k \in 1..Cardinality(places) |->
     list[CHOOSE i \in places : Cardinality({j \in places : j <= i}) = k]]
FinalIds(c) ==
  At(MergedIds(c), {i \in DOMAIN MergedIds(c) :
                      MergedIds(c)[i] \notin c.disabled \cup c.envDisabled})

\* resolveHostModules and instantiateFromPool: a definition the SDK refuses
\* makes its factory throw.
ResolveFails(c) ==
  /\ c.exclusive = None
  /\ \/ Elems(c.enabled) \cap c.disabled # {}
     \/ \E i, j \in DOMAIN MergedIds(c) :
          i # j /\ MergedIds(c)[i] = MergedIds(c)[j]
     \/ \E id \in Elems(FinalIds(c)) :
          ~\E def \in Pool(c) : def.id = id /\ WellDefined(def)

\* (The instance of working-memory is made anew with the window that the
\* environment asks for; its definition is the same.)
ModuleList(c) ==
  (IF c.exclusive # None THEN c.exclusive
   ELSE [i \in DOMAIN FinalIds(c) |->
           Compile(CHOOSE def \in Pool(c) : def.id = FinalIds(c)[i])])
  \o c.extra

\* What is given as a list is one, and a manifest's priority is an integer.
IsList(list) == list \in Seq(Elems(list))
ASSUME HostAssumption ==
  \A c \in HostConfigs :
    /\ IsList(c.enabled) /\ IsList(c.extra)
    /\ c.envModules # None => IsList(c.envModules)
    /\ c.exclusive # None => IsList(c.exclusive)
    /\ \A def \in Pool(c) : def.priority \in Int
    /\ \A m \in Elems(c.extra) : PriorityOf(m) \in Int
    /\ c.exclusive # None => \A m \in Elems(c.exclusive) : PriorityOf(m) \in Int

\* Every module that some host may load.
Installable ==
  UNION {Elems(ModuleList(c)) : c \in {x \in HostConfigs : ~ResolveFails(x)}}

-----------------------------------------------------------------------------
\* main, createHostRuntime: nothing is open yet when these checks fail.
HostStart(c) ==
  /\ hostPhase = "down" /\ boots < MaxBoots
  /\ boots' = boots + 1
  /\ host' = c
  /\ Discard
  /\ IF c.llm /\ c.stories /\ c.db
     THEN hostPhase' = "resolving" /\ db' = TRUE /\ ended' = "none"
     ELSE hostPhase' = "down" /\ db' = FALSE /\ ended' = "failed"

HostFails ==
  /\ hostPhase' = "down" /\ db' = FALSE /\ ended' = "failed"
  /\ UNCHANGED <<host, boots>>

\* Discovery is skipped for an exclusive list.
HostResolves ==
  /\ hostPhase = "resolving"
  /\ IF (host.exclusive = None /\ DiscoveryFails(host)) \/ ResolveFails(host)
     THEN HostFails /\ UNCHANGED registryVars
     ELSE /\ hostPhase' = "booting" /\ Boot(ModuleList(host), host.options)
          /\ UNCHANGED <<host, db, ended, boots>>

HostBootFailed ==
  /\ hostPhase = "booting" /\ phase = "failed"
  /\ HostFails /\ UNCHANGED registryVars

HostReady ==
  /\ hostPhase = "booting" /\ phase = "up"
  /\ hostPhase' = "serving"
  /\ UNCHANGED <<host, db, ended, boots, registryVars>>

\* SIGINT, SIGTERM: the API stops, then the engine, then the database.
HostStops ==
  /\ hostPhase = "serving"
  /\ hostPhase' = "stopping" /\ StopAll
  /\ UNCHANGED <<host, db, ended, boots>>

HostStopped ==
  /\ hostPhase = "stopping" /\ phase = "stopped"
  /\ hostPhase' = "down" /\ db' = FALSE /\ ended' = "asked"
  /\ UNCHANGED <<host, boots, registryVars>>

HostCrashes ==
  /\ hostPhase = "serving"
  /\ hostPhase' = "down" /\ db' = FALSE /\ ended' = "crash"
  /\ Discard /\ UNCHANGED <<host, boots>>

HostBootNext ==
  \/ \E c \in HostConfigs : HostStart(c)
  \/ HostResolves \/ HostBootFailed \/ HostReady \/ HostStopped
  \/ RegistryNext /\ UNCHANGED hostVars
=============================================================================
