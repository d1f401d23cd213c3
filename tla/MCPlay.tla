------------------------------- MODULE MCPlay -------------------------------
(***************************************************************************)
(* A page that submits one action, another client that submits one, one    *)
(* turn that a module schedules, and one fault. The host takes one action  *)
(* at a time, so the second may be refused.                                *)
(***************************************************************************)
EXTENDS PlayProperties

CONSTANTS u1, o1, s1
=============================================================================
