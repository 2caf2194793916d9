--------------------------- MODULE MCEzappDeploy ---------------------------
(***************************************************************************)
(* Two calls over a chart and an EzAppConfig, whose names others use too.  *)
(***************************************************************************)
EXTENDS EzappDeploy, TLC

CONSTANTS ch, app, m1, m2

MCAppOf == m1 :> app @@ m2 :> app

MCSymmetry == Permutations(Call) \union Permutations(Handle) \union Permutations(Manifest)
=============================================================================
