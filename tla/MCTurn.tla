------------------------------- MODULE MCTurn -------------------------------
(***************************************************************************)
(* A small engine for TurnProperties: two commands that clash on a key,    *)
(* one that may not be proposed and clashes on another key, an optional    *)
(* and a required task.                                                    *)
(***************************************************************************)
EXTENDS TurnProperties

CONSTANTS c1, c2, bad, t1, t2, m1, e1

MCCommands == {c1, c2, bad}
MCPermitted == {c1, c2}
MCKeys == <<{c1, c2}, {c2, bad}>>
MCSubscribers == [e \in {e1} |-> <<m1>>]
MCConfigs ==
  {[resolver |-> TRUE, interpret |-> TRUE, retries |-> 1, strict |-> TRUE,
    perTurn |-> TRUE],
   [resolver |-> FALSE, interpret |-> FALSE, retries |-> 1, strict |-> FALSE,
    perTurn |-> FALSE]}
=============================================================================
