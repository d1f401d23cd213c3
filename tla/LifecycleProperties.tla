------------------------ MODULE LifecycleProperties ------------------------
(***************************************************************************)
(* What a host, its modules and its sessions promise over boots, stops,    *)
(* crashes and changes of the modules.                                     *)
(***************************************************************************)
EXTENDS HostSessions

-----------------------------------------------------------------------------
(* Boot                                                                    *)

\* A token has one owner, however many modules ask for it.
OneOwner == \A p, q \in puts : p.token = q.token => p.owner = q.owner

\* What is in the index was put there by a module that is loaded.
OwnersAreLoaded ==
  /\ \A p \in puts \cup ports : LoadedId(p.owner)
  /\ \A sub \in subs : LoadedId(sub.owner)

\* Two loaded modules never have the same id.
LoadedOnce ==
  \A i, j \in DOMAIN loaded : IdOf(loaded[i]) = IdOf(loaded[j]) => i = j

\* A module that was installed strictly got only what its manifest declares.
StaysInManifest ==
  options.strict =>
    \A m \in Elems(loaded) :
      /\ \A p \in puts : p.owner = IdOf(m) => Declared(m, p.token)
      /\ \A p \in ports : p.owner = IdOf(m) => p.port \in m.manifest.contributes
      /\ \A sub \in subs : sub.owner = IdOf(m) =>
           Declared(m, <<"event-sub", sub.name>>)

\* Every subscription still there has its publisher, and every capability
\* that a module needs is there, unless the host asked for a lenient boot.
NothingDangles ==
  /\ \A sub \in subs : Published(sub.name)
  /\ ~options.lenient =>
       \A m \in Elems(loaded) : m.manifest.requires \subseteq caps

Ordered ==
  \A i, j \in DOMAIN loaded :
    i < j => PriorityOf(loaded[i]) =< PriorityOf(loaded[j])

\* BootIsSound: whatever list of modules the host comes up with, once the
\* engine is up no two modules own one name, every module is within its
\* manifest, nothing is left dangling, and the order is that of the
\* priorities (registry.boot, register-context, validateEventBindings).
BootIsSound ==
  /\ OneOwner /\ OwnersAreLoaded /\ LoadedOnce /\ StaysInManifest
  /\ phase \in {"up", "stopping", "stopped"} => NothingDangles /\ Ordered

\* StopsWhatItStarted: modules start in their order and stop in the reverse
\* of it, so the running ones are always the first of those that have a
\* start; and a host that was asked to stop leaves none running and no
\* database open (startAll, stopAll, main's shutdown).
HasStart(m) == m.start # "none"
StopsWhatItStarted ==
  /\ \A i, j \in DOMAIN loaded :
       i < j /\ HasStart(loaded[i]) /\ IdOf(loaded[j]) \in running
       => IdOf(loaded[i]) \in running
  /\ phase = "up" =>
       running = {IdOf(m) : m \in {x \in Elems(loaded) : HasStart(x)}}
  /\ ended = "asked" => running = {} /\ ~db

-----------------------------------------------------------------------------
(* Sessions                                                                *)

StoredCommands(s, n) ==
  IF n \in DOMAIN store[s].slices THEN store[s].slices[n].n ELSE 0

\* The journal replays, to the revision of the snapshot, whenever the owners
\* of the slices it writes are loaded.
JournalReplays(s) ==
  (\A n \in Slices : StoredCommands(s, n) > 0 => n \in OwnedSlices)
  => Replays(s) /\ MatchesLive(s)

\* SlicesKeepTheirData: what a stored slice holds is what its seed handler
\* and the turns of the journal got into it, across saves, crashes,
\* migrations, and boots without its module: only the owner changes a slice,
\* nothing of a rejected turn stays, nothing of a committed one is lost. Not
\* so for a session that a load made live from a snapshot that was no longer
\* the stored one (ensureAttached checks, then awaits; a turn of another load
\* of the session may commit in between): that load takes the turn back.
SlicesKeepTheirData ==
  \A s \in Sessions \ clashed :
    store[s] # None =>
      /\ \A n \in Slices : StoredCommands(s, n) = seeded[s][n] + Replayed(s, n)
      /\ Serving => JournalReplays(s)

\* ServedSessionsAreLive: a session the service takes for attached is live
\* in the engine, so no route meets an unknown session after a load that
\* failed, a delete, or a restart (ensureAttached, delete, createFromTemplate).
ServedSessionsAreLive ==
  Serving => \A s \in rows \cap attached : live[s] # None
=============================================================================
