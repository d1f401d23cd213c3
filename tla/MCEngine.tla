------------------------------ MODULE MCEngine ------------------------------
(***************************************************************************)
(* A player turn with two tasks at once, a system turn of its session that *)
(* follows it and asks one, and a system turn of another session, whose    *)
(* module may not ask.                                                     *)
(***************************************************************************)
EXTENDS EngineProperties

CONSTANTS a1, a2, b1, t1, t2, t3, t4

MCTurnOf == [t \in Tasks |-> CASE t = t3 -> a2 [] t = t4 -> b1 [] OTHER -> a1]
MCPathOf == [t \in Tasks |-> IF t = t2 THEN "adapter" ELSE "loop"]
MCBefore == [x \in Turns |-> IF x = a2 THEN {a1} ELSE {}]

\* The bound of the run: once turns have overlapped, no third task is started,
\* and the turn that follows asks none.
MCBound ==
  crowded # {} =>
    /\ tstep[t3] = "new"
    /\ Cardinality({t \in Tasks : tstep[t] # "new"}) <= 2
=============================================================================
