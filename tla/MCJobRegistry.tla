---------------------------- MODULE MCJobRegistry ----------------------------
(***************************************************************************)
(* The registry with more submits than places.                             *)
(***************************************************************************)
EXTENDS JobRegistry, TLC

\* Clients and jobs are interchangeable (safety runs only).
MCSymmetry == Permutations(Client) \union Permutations(Job)
=============================================================================
