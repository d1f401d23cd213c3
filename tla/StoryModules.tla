---------------------------- MODULE StoryModules ----------------------------
(***************************************************************************)
(* The story modules of the repository (packages/modules), as definitions  *)
(* for the SDK: what each owns, at which moments its handlers run, which   *)
(* tasks it has run on system turns. What a handler decides is left open   *)
(* (ModuleMoments); its texts and prompts are left out.                    *)
(***************************************************************************)
EXTENDS ModuleCompiler

Capability(name) == <<"capability", name>>

\* A definition with nothing in it but what defineModule asks for.
Plain(id, priority) ==
  [id |-> id, version |-> 1, priority |-> priority, provides |-> {},
   requires |-> {}, states |-> {}, configs |-> {}, reads |-> {},
   moments |-> {}, readModels |-> {}, tasks |-> {}, tools |-> {},
   emits |-> {}, hears |-> {}, schedules |-> None, init |-> "none",
   shutdown |-> "none"]

\* Every slice of theirs has its schemaVersion as a field, and it is 1.
Slice(name, ops) ==
  [name |-> name, schema |-> 1, stamps |-> TRUE, ops |-> ops, migrations |-> {}]

\* Every player text and the passage that answered it.
WorkingMemory ==
  [Plain("working-memory", 10) EXCEPT
     !.provides = {Capability("working-memory")},
     !.configs = {"working_memory"},
     !.states = {Slice("working_memory", {"append_pair"})},
     !.moments = {"afterProse", "context"},
     !.readModels = {"working_memory.window", "working_memory.all"}]

WorldCanon ==
  [Plain("world-canon", 15) EXCEPT
     !.provides = {Capability("world-canon")},
     !.states = {Slice("world_canon", {"seed"})},
     !.moments = {"seed", "prompt", "context"}]

\* After a turn it asks for a system turn that may change the outfit.
Character ==
  [Plain("character", 20) EXCEPT
     !.provides = {Capability("character")},
     !.states = {Slice("character", {"seed", "set_outfit"})},
     !.moments = {"seed", "prompt", "context", "committed", "status"},
     !.readModels = {"character.profile"},
     !.schedules = "character.outfit_sync",
     !.tasks = {[key |-> "outfit_sync", reason |-> "character.outfit_sync"]},
     !.tools = {"update_outfit"}]

\* Reads the slice of the working memory, and does not require its module.
Summary ==
  [Plain("summary", 30) EXCEPT
     !.provides = {Capability("summary")},
     !.configs = {"summary"},
     !.reads = {{"working_memory"}},
     !.states = {Slice("summary", {"store_summary"})},
     !.moments = {"committed", "prompt", "context", "status", "help"},
     !.readModels = {"summary.list"},
     !.schedules = "summary.make",
     !.tasks = {[key |-> "make", reason |-> "summary.make"]},
     !.tools = {"store"}]

\* Counts the player's turns and has a probe judge the scene after each.
SceneController ==
  [Plain("scene-controller", 30) EXCEPT
     !.requires = {Capability("working-memory")},
     !.configs = {"scene_controller"},
     !.states = {Slice("scene_controller", {"record_turn", "probe_report"})},
     !.moments = {"afterProse", "committed", "prompt", "context", "critic",
                  "status"},
     !.readModels = {"scene_controller.status", "scene_controller.history"},
     !.schedules = "scene_controller.probe",
     !.tasks = {[key |-> "probe", reason |-> "scene_controller.probe"]},
     !.tools = {"report_scene"}]

\* MODULE_CATALOG; the scene controller is found in packages/modules.
MODULE_CATALOG == {WorkingMemory, WorldCanon, Character, Summary}
=============================================================================
