--------------------------- MODULE SerialHistory ---------------------------
(***************************************************************************)
(* What a session promises its host (docs/architecture/06-turn-pipeline.md *)
(* sections 5 and 6, 07-persistence.md section 4): one history of turns.   *)
(* A turn enters the store as a whole, one at a time and always on top of  *)
(* the history the session has published; nothing ever leaves the store.   *)
(***************************************************************************)
EXTENDS Sequences

CONSTANT Turn

VARIABLES durable,  \* the history the store holds
          visible   \* the history the live session has published

vars == <<durable, visible>>

Init == durable = <<>> /\ visible = <<>>

\* One turn is flushed; the next one waits until this one is published.
Flush(t) ==
  /\ durable = visible
  /\ durable' = Append(durable, t)
  /\ UNCHANGED visible

\* The flushed turn becomes visible (kernel.commit, or a reload of the store).
Publish ==
  /\ visible # durable
  /\ visible' = durable
  /\ UNCHANGED durable

Next == Publish \/ \E t \in Turn : Flush(t)

Spec == Init /\ [][Next]_vars
=============================================================================
