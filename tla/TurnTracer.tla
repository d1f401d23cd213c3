----------------------------- MODULE TurnTracer -----------------------------
(***************************************************************************)
(* The dossiers of turns (turn-tracer.ts): a player turn opens a root      *)
(* document, the system turns that follow it write sections of the same    *)
(* file. There is one tracer for the engine, whatever session a turn       *)
(* belongs to. What is recorded is abstracted to the task it is about.     *)
(***************************************************************************)
EXTENDS Naturals, FiniteSets

CONSTANTS
  TraceTurns, NoTrace,  \* turns, and no turn
  Items,                \* what may be recorded
  WriteOnReject         \* config.tracing.writeOnReject

VARIABLES
  root,      \* rootDoc: the turn that owns it
  rootData,  \* what the root document has recorded
  sections,  \* its followUps
  hasPath,   \* has it been finalized to a path?
  followUp,  \* the follow-up being recorded
  bucket,    \* what it has recorded
  files      \* the sink: the document last written for a turn's path

tracerVars == <<root, rootData, sections, hasPath, followUp, bucket, files>>

NoDocument == [data |-> {}, sections |-> {}]

TracerInit ==
  /\ root = NoTrace /\ rootData = {} /\ sections = {} /\ hasPath = FALSE
  /\ followUp = NoTrace /\ bucket = {}
  /\ files = [t \in TraceTurns |-> NoDocument]

OpenRoot(t) ==
  /\ root' = t /\ rootData' = {} /\ sections' = {} /\ hasPath' = FALSE
  /\ followUp' = NoTrace /\ bucket' = {}
  /\ UNCHANGED files

CanAttach == root # NoTrace /\ hasPath

\* openFollowUp; a turn that cannot be attached opens a root of its own.
OpenFollowUp(t) ==
  IF CanAttach
  THEN followUp' = t /\ bucket' = {}
       /\ UNCHANGED <<root, rootData, sections, hasPath, files>>
  ELSE OpenRoot(t)

\* recordAgent, recordTool: into the bucket of whoever records at the moment.
Record(items) ==
  IF followUp # NoTrace
  THEN bucket' = bucket \cup items
       /\ UNCHANGED <<root, rootData, sections, hasPath, followUp, files>>
  ELSE rootData' = (IF root = NoTrace THEN rootData ELSE rootData \cup items)
       /\ UNCHANGED <<root, sections, hasPath, followUp, bucket, files>>

\* The sink may refuse; the dossier stays in memory, and the next section
\* writes it again.
Flush(doc, written) ==
  files' = IF written THEN [files EXCEPT ![root] = doc] ELSE files

SectionsReplaced(s) == {s}    \* mutant
SectionsWith(s) == sections \cup {s}

\* finalize: a follow-up becomes a section of the root's file, a root gets its
\* path. A rejected turn is written only where the configuration says so.
Finalize(committed, written) ==
  IF root = NoTrace \/ (~committed /\ ~WriteOnReject)
  THEN followUp' = NoTrace
       /\ UNCHANGED <<root, rootData, sections, hasPath, bucket, files>>
  ELSE /\ IF followUp # NoTrace
          THEN /\ sections' = SectionsWith([of |-> followUp, data |-> bucket])
               /\ UNCHANGED hasPath
          ELSE hasPath' = TRUE /\ UNCHANGED sections
       /\ followUp' = NoTrace
       /\ Flush([data |-> rootData, sections |-> sections'], written)
       /\ UNCHANGED <<root, rootData, bucket>>
=============================================================================
