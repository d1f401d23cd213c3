---------------------------- MODULE HostSessions ----------------------------
(***************************************************************************)
(* The sessions of one player in a host that is started, stopped, crashes  *)
(* and comes back with other modules: the API's session service and its    *)
(* database (apps/api), the engine's start, load, save and stop of a       *)
(* session (session-runtime.ts), and the store (persistence/sqlite).       *)
(*                                                                         *)
(* A slice is abstracted to its schema version and the number of commands  *)
(* applied to it; a turn is one step, SessionRuntime and TurnStages being  *)
(* about what goes on inside one. A call awaits, and other calls run, at   *)
(* each of its steps.                                                      *)
(***************************************************************************)
EXTENDS HostBoot, ModuleMoments

CONSTANTS
  Sessions,     \* session ids the engine may hand out
  Slices,       \* names of slices
  Calls,        \* requests in flight that create or load a session
  MaxSessions,  \* maxSessionsPerPlayer
  MaxTurns      \* bound: turns of one session

VARIABLES
  rows,      \* player_sessions of the host database
  attached,  \* SessionService.attached
  live,      \* SessionRuntime.sessions
  store,     \* the engine's database: the snapshot of a session
  call,      \* where each request is
  used,      \* ids handed out
  turns,     \* ghost: turns of a session
  journal,   \* the engine's database: the journal of a session
  seeded,    \* ghost: commands the seed handlers got into the slices
  clashed    \* ghost: sessions that a load made live from an old snapshot

sessionVars ==
  <<rows, attached, live, store, journal, call, used, turns, seeded,
    clashed>>
onDisk == <<store, journal>>
ghosts == <<turns, seeded, clashed>>
lifecycleVars == <<registryVars, hostVars, sessionVars>>

Idle == [at |-> "idle", sid |-> None, got |-> None]

SessionsInit ==
  /\ rows = {} /\ attached = {} /\ used = {} /\ clashed = {}
  /\ live = [s \in Sessions |-> None] /\ store = [s \in Sessions |-> None]
  /\ call = [r \in Calls |-> Idle]
  /\ turns = [s \in Sessions |-> 0]
  /\ seeded = [s \in Sessions |-> [n \in Slices |-> 0]]
  /\ journal = [s \in Sessions |-> <<>>]

Serving == hostPhase = "serving"
LoadedModules == Elems(loaded)

\* What a snapshot, or a session in memory, consists of.
SliceNames == {m.ir.slice : m \in Installable}
SliceStates == [v : {1} \cup {m.ir.schema : m \in Installable}, n : Nat]
Reasons == {m.schedules : m \in Installable}
Snapshots ==
  [rev : Nat, pending : SUBSET Reasons,
   slices : UNION {[D -> SliceStates] : D \in SUBSET SliceNames}]

ASSUME SessionsAssumption == None \notin Snapshots

-----------------------------------------------------------------------------
(* Slices                                                                  *)

WithSlice == {m \in LoadedModules : m.ir.slice # None}
OwnerOf(n) == CHOOSE m \in WithSlice : m.ir.slice = n
OwnedSlices == {m.ir.slice : m \in WithSlice}

\* readSchemaVersion of a slice its module wrote: without the field, 1.
SaysVersion(n) ==
  IF OwnerOf(n).bindings.stamps THEN OwnerOf(n).ir.schema ELSE 1
Fresh(n) == [v |-> SaysVersion(n), n |-> 0]

\* applySliceMigrations: what is stored of a slice is newer than its module,
\* or no migration starts at its version.
Unmigratable(n, stored) ==
  LET now == OwnerOf(n).ir.schema IN
  \/ stored.v > now
  \/ /\ stored.v < now
     /\ ~\E g \in MigrationsOf(OwnerOf(n)) : g.from = stored.v

\* A missing slice gets its initial value, one without a module stays as it is.
DropsUnknown(slices) == OwnedSlices   \* mutant
KeepsUnknown(slices) == DOMAIN slices \cup OwnedSlices

Migrated(slices) ==
  [n \in KeepsUnknown(slices) |->
     IF n \notin DOMAIN slices THEN Fresh(n)
     ELSE IF n \in OwnedSlices
          THEN [slices[n] EXCEPT !.v = SaysVersion(n)] ELSE slices[n]]

\* The commands of a turn, or of the seeds, applied to the slices.
WrittenTo(n, acts) ==
  IF n \in OwnedSlices
  THEN Cardinality(Writes(LoadedModules, acts, IdOf(OwnerOf(n)))) ELSE 0
Applied(slices, acts) ==
  [n \in DOMAIN slices |-> [slices[n] EXCEPT !.n = @ + WrittenTo(n, acts)]]

-----------------------------------------------------------------------------
(* The engine's database (SqlitePersistence)                               *)

\* save: the row of the session is made, or overwritten.
Upsert(s, snapshot) == store' = [store EXCEPT ![s] = snapshot]

\* commitTurn: one transaction.
CommitUnit(s, snapshot, entry) ==
  Upsert(s, snapshot) /\ journal' = [journal EXCEPT ![s] = Append(@, entry)]

\* load, and readJournal by revision: every entry was appended after those of
\* smaller revisions.
Stored(s) == store[s]
Entries(s) == journal[s]

-----------------------------------------------------------------------------
(* Creating a session                                                      *)

\* countSessions, and the limit it is compared with.
BelowLimit == Cardinality(rows) < MaxSessions

\* createFromTemplate: the limit is looked at before the first await.
CreateCall(r) ==
  /\ Serving /\ call[r].at = "idle" /\ BelowLimit
  /\ \E s \in Sessions \ used :
       /\ used' = used \cup {s}
       /\ call' = [call EXCEPT ![r] = [Idle EXCEPT !.at = "starting", !.sid = s]]
  /\ UNCHANGED <<rows, attached, live, onDisk, ghosts, registryVars, hostVars>>

\* The modules whose seed handler may write, and what one of them writes.
Seeders == {m \in WithSlice : "seed" \in m.ir.moments /\ m.ir.ops # {}}
SeededBy(seeds, n) == IF n \in OwnedSlices /\ OwnerOf(n) \in seeds THEN 1 ELSE 0

\* startSession: the seeds of the modules in "seeds" write; then the first
\* snapshot is saved, without a journal entry, and the session is live. Only
\* the end of a turn raises the revision.
StartSession(r) ==
  /\ Serving /\ call[r].at = "starting"
  /\ LET s == call[r].sid IN
     \E seeds \in SUBSET Seeders :
       LET first == [rev |-> 0, pending |-> {}, slices |-> [n \in OwnedSlices |->
                       [Fresh(n) EXCEPT !.n = SeededBy(seeds, n)]]]
       IN /\ live' = [live EXCEPT ![s] = first] /\ Upsert(s, first)
          /\ seeded' = [seeded EXCEPT ![s] = [n \in Slices |-> SeededBy(seeds, n)]]
  /\ call' = [call EXCEPT ![r].at = "binding"]
  /\ UNCHANGED <<rows, attached, journal, used, turns, clashed, registryVars,
                 hostVars>>

\* A seed handler throws or denies, or the snapshot cannot be saved.
StartFails(r) ==
  /\ Serving /\ call[r].at = "starting"
  /\ call' = [call EXCEPT ![r] = Idle]
  /\ UNCHANGED <<rows, attached, live, onDisk, used, ghosts, registryVars,
                 hostVars>>

BindSession(r) ==
  /\ Serving /\ call[r].at = "binding"
  /\ rows' = rows \cup {call[r].sid} /\ attached' = attached \cup {call[r].sid}
  /\ call' = [call EXCEPT ![r] = Idle]
  /\ UNCHANGED <<live, onDisk, used, ghosts, registryVars, hostVars>>

\* The row is not written: the session is stopped, its snapshot stays.
BindFails(r) ==
  /\ Serving /\ call[r].at = "binding"
  /\ live' = [live EXCEPT ![call[r].sid] = None]
  /\ call' = [call EXCEPT ![r] = Idle]
  /\ UNCHANGED <<rows, attached, onDisk, used, ghosts, registryVars, hostVars>>

-----------------------------------------------------------------------------
(* Loading one                                                             *)

\* ensureAttached, which every route of a session goes through.
LoadCall(r, s) ==
  /\ Serving /\ call[r].at = "idle" /\ s \in rows /\ s \notin attached
  /\ call' = [call EXCEPT ![r] = [Idle EXCEPT !.at = "loading", !.sid = s]]
  /\ UNCHANGED <<rows, attached, live, onDisk, used, ghosts, registryVars,
                 hostVars>>

Loadable(s) ==
  /\ Stored(s) # None
  /\ \A n \in OwnedSlices \cap DOMAIN Stored(s).slices :
       ~Unmigratable(n, Stored(s).slices[n])

\* loadSession, up to the hydrators.
ReadSession(r) ==
  /\ Serving /\ call[r].at = "loading" /\ Loadable(call[r].sid)
  /\ LET snapshot == Stored(call[r].sid) IN
     call' = [call EXCEPT ![r].at = "hydrating",
                ![r].got = [snapshot EXCEPT !.slices = Migrated(snapshot.slices)]]
  /\ UNCHANGED <<rows, attached, live, onDisk, used, ghosts, registryVars,
                 hostVars>>

\* The hydrators are through: the session is live, whether or not it was, and
\* whether or not its snapshot is still the stored one.
SetLive(r) ==
  /\ Serving /\ call[r].at = "hydrating"
  /\ LET s == call[r].sid IN
     /\ live' = [live EXCEPT ![s] = call[r].got]
     /\ clashed' = IF call[r].got.rev < Stored(s).rev
                   THEN clashed \cup {s} ELSE clashed
  /\ call' = [call EXCEPT ![r].at = "loaded", ![r].got = None]
  /\ UNCHANGED <<rows, attached, onDisk, used, turns, seeded, registryVars,
                 hostVars>>

\* The load failed: at the snapshot, a migration, or a hydrator.
IgnoresFailure(r) == attached \cup {call[r].sid}   \* mutant
AfterFailedLoad(r) == attached

LoadFails(r) ==
  /\ Serving
  /\ \/ call[r].at = "loading" /\ ~Loadable(call[r].sid)
     \/ call[r].at = "hydrating"
  /\ attached' = AfterFailedLoad(r)
  /\ call' = [call EXCEPT ![r] = Idle]
  /\ UNCHANGED <<rows, live, onDisk, used, ghosts, registryVars, hostVars>>

AttachSession(r) ==
  /\ Serving /\ call[r].at = "loaded"
  /\ attached' = attached \cup {call[r].sid}
  /\ call' = [call EXCEPT ![r] = Idle]
  /\ UNCHANGED <<rows, live, onDisk, used, ghosts, registryVars, hostVars>>

-----------------------------------------------------------------------------
(* A session that is served                                                *)

Served(s) == Serving /\ s \in rows \cap attached /\ live[s] # None

\* What handlers may do in one turn. Bound: one deed that shows, alone or with
\* one that ends the turn; one such end stands for all.
Telling(ms) == UNION {{d \in Possible(m) : Shows(m, d)} : m \in ms}
ActSets(ms) ==
  LET ends == {d \in Telling(ms) : TurnRefused(ms, {d})}
      end == IF ends = {} THEN {} ELSE {CHOOSE d \in ends : TRUE}
  IN  UNION {{{d}, {d} \cup end} : d \in Telling(ms) \ ends} \cup {{}}

\* A committed turn: one unit of snapshot and journal entry is stored; what
\* the turn scheduled is queued only after that.
Turn(s, acts, kind, rest) ==
  LET now == live[s]
      slices == Applied(now.slices, acts)
      asks == Scheduled(LoadedModules, subs, acts, kind)
      entry == [prev |-> now.rev, next |-> now.rev + 1,
                wrote |-> [n \in Slices |-> WrittenTo(n, acts)]]
      next == [rev |-> now.rev + 1, slices |-> slices, pending |-> rest]
  IN /\ turns[s] < MaxTurns /\ turns' = [turns EXCEPT ![s] = @ + 1]
     /\ IF TurnRefused(LoadedModules, acts)
        THEN /\ live' = [live EXCEPT ![s].pending = rest \cup asks]
             /\ UNCHANGED onDisk
        ELSE /\ live' = [live EXCEPT ![s] = [next EXCEPT !.pending = rest \cup asks]]
             /\ CommitUnit(s, next, entry)
     /\ UNCHANGED <<rows, attached, call, used, seeded, clashed, registryVars,
                    hostVars>>

PlayerTurn(s, acts) ==
  /\ Served(s) /\ ToolsHaveTasks(LoadedModules, acts, None)
  /\ Turn(s, acts, "player", live[s].pending)

\* The drain takes a reason off the queue and runs its turn.
SystemTurn(s, acts) ==
  /\ Serving /\ live[s] # None
  /\ \E reason \in live[s].pending :
       /\ ToolsHaveTasks(LoadedModules, acts, reason)
       /\ Turn(s, acts, "system", live[s].pending \ {reason})

\* POST save.
SaveSession(s) ==
  /\ Served(s) /\ Upsert(s, live[s])
  /\ UNCHANGED <<rows, attached, live, journal, call, used, ghosts, registryVars,
                 hostVars>>

\* DELETE: unbound, detached and stopped in one go. A load that is under way
\* makes it live again; its snapshot is never deleted.
DeleteSession(s) ==
  /\ Serving /\ s \in rows
  /\ rows' = rows \ {s} /\ attached' = attached \ {s}
  /\ live' = [live EXCEPT ![s] = None]
  /\ UNCHANGED <<onDisk, call, used, ghosts, registryVars, hostVars>>

-----------------------------------------------------------------------------
(* replaySessionJournal: the journal replayed on the initial slices        *)

\* Every entry continues the revision before it, and its commands are known.
Replays(s) ==
  \A i \in DOMAIN Entries(s) :
    LET e == Entries(s)[i] IN
    /\ e.prev = i - 1 /\ e.next = i
    /\ \A n \in Slices : e.wrote[n] > 0 => n \in OwnedSlices

\* How many commands that is for a slice: those of every entry.
Commands(s, n) ==
  UNION {{i} \X (1..Entries(s)[i].wrote[n]) : i \in DOMAIN Entries(s)}
Replayed(s, n) == Cardinality(Commands(s, n))

\* matchesLive: revisions are compared, slices are not. Seeds are in no entry.
MatchesLive(s) == Len(Entries(s)) = Stored(s).rev

-----------------------------------------------------------------------------
\* The process ends: what it held in memory is gone.
Forget ==
  /\ attached' = {} /\ live' = [s \in Sessions |-> None]
  /\ call' = [r \in Calls |-> Idle]
  /\ UNCHANGED <<rows, onDisk, used, ghosts>>

SessionNext ==
  \/ \E r \in Calls :
       \/ CreateCall(r) \/ StartSession(r) \/ StartFails(r)
       \/ BindSession(r) \/ BindFails(r)
       \/ ReadSession(r) \/ SetLive(r) \/ LoadFails(r) \/ AttachSession(r)
       \/ \E s \in Sessions : LoadCall(r, s)
  \/ \E s \in Sessions :
       \/ \E acts \in ActSets(LoadedModules) : PlayerTurn(s, acts) \/ SystemTurn(s, acts)
       \/ SaveSession(s) \/ DeleteSession(s)

LifecycleNext ==
  \/ SessionNext
  \/ HostBootNext /\ UNCHANGED sessionVars
  \/ HostStops /\ Forget
  \/ HostCrashes /\ Forget

LifecycleInit == HostInit /\ SessionsInit
LifecycleSpec == LifecycleInit /\ [][LifecycleNext]_lifecycleVars
=============================================================================
