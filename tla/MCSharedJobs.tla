---------------------------- MODULE MCSharedJobs ----------------------------
(***************************************************************************)
(* Shared jobs on two replicas.  The runs differ in where a load balancer  *)
(* sends the requests of a client and in what the environment may do.      *)
(***************************************************************************)
EXTENDS SharedJobs, TLC

\* Replicas, clients and jobs are interchangeable (safety runs only).
MCSymmetry == Permutations(Replica) \union Permutations(Client) \union Permutations(Job)
=============================================================================
