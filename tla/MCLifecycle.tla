---------------------------- MODULE MCLifecycle ----------------------------
(***************************************************************************)
(* Hosts that load the story modules, a memory module of later releases,   *)
(* modules that talk by events, and modules that do not fit.               *)
(***************************************************************************)
EXTENDS LifecycleProperties, StoryModules, TLC

\* A version of the memory module that may come later, with a second schema.
NextMemory(migrations) ==
  [WorkingMemory EXCEPT !.states =
     {[Slice("working_memory", {"append_pair"}) EXCEPT
         !.schema = 2, !.migrations = migrations]}]
\* Two modules that talk by events, one of them with a guard and with a start.
Rang == [module |-> "bell", event |-> "rang", does |-> "schedule"]
Bell == [Plain("bell", 5) EXCEPT !.emits = {"rang"}, !.init = "ok",
           !.moments = {"committed", "guard"}]
Porter == [Plain("porter", 6) EXCEPT !.hears = {Rang}, !.schedules = "open",
             !.init = "ok", !.shutdown = "throws",
             !.tasks = {[key |-> "open", reason |-> "open"]},
             !.tools = {"door"}, !.states = {Slice("doors", {"open"})}]

\* Modules that do not fit.
Twin == [Plain("twin", 30) EXCEPT !.readModels = {"working_memory.all"}]
Needy == [Plain("needy", 0) EXCEPT !.requires = {Capability("mood")}]
Mood == [Plain("mood", 3) EXCEPT !.provides = {Capability("mood")},
           !.requires = {Capability("time")}]
Time == [Plain("time", 3) EXCEPT !.provides = {Capability("time")},
           !.requires = {Capability("mood")}]
Typo == [Plain("typo", 30) EXCEPT !.hears = {[Rang EXCEPT !.event = "ring"]}]
Inert == [Plain("inert", 30) EXCEPT !.hears = {[Rang EXCEPT !.module = "gong"]}]
Broken == [Plain("broken", 30) EXCEPT !.init = "throws"]
TwoConfigs == [SceneController EXCEPT !.configs = {None, "other"}]
Foreign == [Compile(Inert) EXCEPT !.ir.readModels = {"sheet"}]
Undeclared == [Compile(Twin) EXCEPT !.manifest.registers = {},
                 !.ir.readModels = {"own"}, !.bindings.readModels = {"own"}]

Options == [strict |-> TRUE, lenient |-> FALSE, badConfig |-> {}, prompts |-> TRUE]

Found(decl, def) == [decl |-> decl, def |-> def]
Root(dir, packages) == [dir |-> dir, packages |-> packages]
Roots == <<Root("ok", {Found("module", SceneController), Found("absent", None)})>>

Base ==
  [llm |-> TRUE, stories |-> TRUE, db |-> TRUE, exclusive |-> None,
   catalog |-> MODULE_CATALOG, roots |-> Roots, explicit |-> FALSE,
   envModules |-> None, profile |-> "minimal", enabled |-> <<>>,
   disabled |-> {}, envDisabled |-> {}, extra |-> <<>>, options |-> Options]
Adding(ms) == [Base EXCEPT !.extra = ms]

\* The memory and the scene controller; the memory of a later release, which
\* migrates the slice, and whose slice the older one refuses; neither of them,
\* but the canon, which is seeded, with the bell and the porter.
WithScene == [Base EXCEPT !.enabled = <<"scene-controller">>]
Release(memory) ==
  [Base EXCEPT !.catalog = (MODULE_CATALOG \ {WorkingMemory}) \cup {memory}]
Ringing == [Base EXCEPT !.envModules = <<"world-canon">>,
              !.extra = <<Compile(Porter), Compile(Bell), Compile(Inert)>>]
GoodHosts ==
  {WithScene, Release(NextMemory({1})), Ringing}
BadHosts ==
  {[Base EXCEPT !.llm = FALSE],
   [Base EXCEPT !.disabled = {"summary"}, !.enabled = <<"summary">>],
   [Base EXCEPT !.enabled = <<"working-memory">>],
   [WithScene EXCEPT !.envDisabled = {"working-memory"}],
   [WithScene EXCEPT !.roots = <<Root("missing", {})>>, !.explicit = TRUE],
   [Base EXCEPT !.roots = <<Root("ok", {Found("invalid", None)})>>],
   [WithScene EXCEPT !.roots = <<Root("ok", {Found("module", TwoConfigs)})>>],
   Adding(<<Compile(Twin)>>), Adding(<<Compile(Needy)>>),
   Adding(<<Compile(Mood), Compile(Time)>>),
   Adding(<<Compile(Bell), Compile(Typo)>>),
   Adding(<<Compile(Bell), Compile(Broken)>>), Adding(<<Foreign>>),
   Adding(<<Undeclared>>), [Base EXCEPT !.options.badConfig = {"working_memory"}],
   [Base EXCEPT !.options.prompts = FALSE]}
\* Hosts that come up otherwise: with a profile, and leniently with a list of
\* their own, one of whose modules misses what it requires.
OtherHosts ==
  {[Base EXCEPT !.profile = "core-book",
      !.enabled = <<"summary", "scene-controller">>],
   [Base EXCEPT !.exclusive = <<Compile(Needy), Compile(Mood), Compile(Bell)>>,
      !.options.lenient = TRUE, !.options.strict = FALSE]}

\* Requests are alike; only invariants are checked.
MCSymmetry == Permutations(Calls)

MCHosts == GoodHosts \cup BadHosts \cup OtherHosts
=============================================================================
