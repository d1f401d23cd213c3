--------------------------- MODULE ModuleMoments ---------------------------
(***************************************************************************)
(* What the handlers of SDK modules may do in a turn and what becomes of   *)
(* it: the context each moment is given (createModuleCtx) and the wrappers *)
(* the installer puts around the handlers (bindCompiledModule).            *)
(*                                                                         *)
(* A deed is what one handler does at one moment: "op" (ctx.op), "emit",   *)
(* "schedule" (ctx.scheduleSystem), "deny", or "rest". A tool is "late"    *)
(* when it is called after the transition contributors ran.                *)
(***************************************************************************)
EXTENDS ModuleCompiler

\* The moments of a turn whose handlers can end it, by the capability they
\* belong to. Their wrappers make a denial, or a violation of the context, an
\* answer that the pipeline rejects the turn for.
RuleMoments == {"guard", "soft", "invariant"}
TurnMoments == {"change", "afterProse"}
VoiceMoments == {"prompt", "context", "critic"}
HostMoments == {"status"}
InTurn == RuleMoments \cup TurnMoments \cup VoiceMoments \cup HostMoments

\* Moments whose outcome is settled: an error is only logged.
Settled == {"committed", "rejected"}

DeedKinds == {"op", "emit", "schedule", "deny", "rest"}

\* The rights baseCtx passes on: writeAllowed unless it says no, emitAllowed
\* and scheduleAllowed only where it says yes.
MayDo(at) ==
  CASE at \in {"seed", "change", "afterProse", "tool"} -> {"op"}
    [] at \in {"committed", "event"} -> {"emit", "schedule"}
    [] at = "rejected" -> {"emit"}
    [] OTHER -> {}

\* ctx.op and ctx.emit know only what the module declared.
Knows(m, does) ==
  /\ does = "op" => m.bindings.ops # {}
  /\ does = "emit" => m.bindings.emits # {}

\* The context lets the deed pass; anything else throws.
Granted(m, d) == d.does \in MayDo(d.at) /\ Knows(m, d.does)
Throws(m, d) == d.does # "rest" /\ ~Granted(m, d)

\* The deeds the handlers of m may come up with in a turn. A rule without a
\* context can only deny.
Deeds(m) ==
  [by : {m.manifest.id}, late : BOOLEAN, does : DeedKinds,
   at : (m.ir.moments \cap (InTurn \cup Settled))
        \cup (IF m.ir.tools = {} THEN {} ELSE {"tool"})]
Possible(m) ==
  {d \in Deeds(m) : /\ d.late => d.at = "tool"
                    /\ d.at = "invariant" => d.does \in {"deny", "rest"}}

\* Deeds that show: a command, an event, a request, or the end of the turn.
Shows(m, d) ==
  \/ d.does = "op" /\ Granted(m, d)
  \/ d.does = "emit" /\ Granted(m, d)
  \/ d.does = "schedule" /\ d.at = "committed" /\ m.schedules # None
  \/ d.at \in InTurn \cup Settled /\ Throws(m, d)

-----------------------------------------------------------------------------
(* A turn in which the handlers of the modules ms do acts                  *)

Of(m, acts) == {d \in acts : d.by = m.manifest.id}

TurnRefused(ms, acts) ==
  \E m \in ms : \E d \in Of(m, acts) : d.at \in InTurn /\ Throws(m, d)

\* The transition contributor takes what the module's tools have proposed so
\* far, and what its change handler asks for.
TransitionOps(m, acts) ==
  {d \in Of(m, acts) : /\ d.does = "op" /\ Granted(m, d) /\ ~d.late
                       /\ d.at \in {"change", "tool"}}

AfterProseOps(m, acts) ==
  {d \in Of(m, acts) : d.does = "op" /\ Granted(m, d) /\ d.at = "afterProse"}

\* How many commands of m the committed turn applies to its slice.
Writes(ms, acts, id) ==
  IF TurnRefused(ms, acts) THEN {}
  ELSE UNION {TransitionOps(m, acts) \cup AfterProseOps(m, acts)
                : m \in {x \in ms : x.manifest.id = id}}

EndOf(ms, acts) == IF TurnRefused(ms, acts) THEN "rejected" ELSE "committed"

\* Events the turn's last handlers emit, under their module's name.
Emitted(ms, acts) ==
  UNION {IF \E d \in Of(m, acts) : d.does = "emit" /\ Granted(m, d)
                                   /\ d.at = EndOf(ms, acts)
         THEN m.bindings.emits ELSE {} : m \in ms}

\* The after-commit hook hands over what its handler scheduled, unless the
\* handler also did what it must not.
HookSchedules(ms, acts) ==
  {m.schedules : m \in {x \in ms :
     /\ EndOf(ms, acts) = "committed"
     /\ \E d \in Of(x, acts) : d.does = "schedule" /\ d.at = "committed"
     /\ ~\E d \in Of(x, acts) : d.at = "committed" /\ Throws(x, d)}}

\* Handlers of the events: observe, emit, schedule. One that throws is
\* logged; what it scheduled is lost.
HandlerSchedules(ms, subs, events) ==
  {m.schedules : m \in {x \in ms :
     \E s \in subs : /\ s.name \in events /\ s.owner = x.manifest.id
                     /\ s.does = "schedule"}}

\* Only a player turn may schedule.
Scheduled(ms, subs, acts, kind) ==
  IF kind # "player" THEN {}
  ELSE HookSchedules(ms, acts)
       \cup HandlerSchedules(ms, subs, Emitted(ms, acts))

\* The tasks a system turn of this reason starts, in its plan stage; and
\* those that are there for others to ask for (None).
TasksFor(m, reason) == {t \in m.ir.tasks : t.reason = reason}

\* A tool is called by a task of its module that runs in this turn. The plan
\* stage comes before the transition contributors.
ToolsHaveTasks(ms, acts, reason) ==
  \A m \in ms : \A d \in Of(m, acts) :
    d.at = "tool" => /\ TasksFor(m, reason) # {}
                     /\ reason # None => ~d.late
=============================================================================
