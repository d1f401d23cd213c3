------------------------------ MODULE MCSession ------------------------------
(* Instances of SessionProperties for TLC. *)
EXTENDS SessionProperties, TLC

\* Clients, keys and jobs are interchangeable (safety runs only).
Symmetric == Permutations(Clients) \cup Permutations(Keys) \cup Permutations(Jobs)
=============================================================================
