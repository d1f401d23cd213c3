------------------------------ MODULE MCStory ------------------------------
(***************************************************************************)
(* The verdicts that the scene controller tells apart: a scene that stands *)
(* still under ever new names, one that loops, one that ends.              *)
(***************************************************************************)
EXTENDS StoryProperties

Verdict(same, saturated, loop, resolved) ==
  [same |-> same, saturated |-> saturated, stall |-> loop > 0, loop |-> loop,
   urgency |-> loop, resolved |-> resolved]

MCVerdicts ==
  {Verdict(FALSE, TRUE, 0, FALSE), Verdict(TRUE, FALSE, 2, FALSE),
   Verdict(TRUE, TRUE, 0, TRUE)}
=============================================================================
