--------------------------- MODULE MCResultCache ---------------------------
(* Instances of ResultCache: two replicas with a client each, and one.     *)
EXTENDS ResultCache, TLC

CONSTANTS r1, r2, c1, c2

MCHome == c1 :> r1 @@ c2 :> r2
MCOneHome == c1 :> r1
=============================================================================
