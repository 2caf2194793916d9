---------------------------- MODULE MCApplyGate ----------------------------
(***************************************************************************)
(* Two manifests for one namespace, one of them with a document that is    *)
(* refused, and a delete.                                                  *)
(***************************************************************************)
EXTENDS ApplyGate, TLC

CONSTANTS c1, c2, c3, ns, two, half, one, d1, d2, d3

MCDocs == two :> <<d1, d2>> @@ half :> <<d3, d2>> @@ one :> <<d1>>
MCUnfit == {d3}

MCCall(tool, man, carried) ==
  [tool |-> tool, ns |-> ns, man |-> man, carried |-> carried, fit |-> TRUE,
   wide |-> FALSE]

PlanTwo == MCCall("plan_apply", two, None)
PlanHalf == MCCall("plan_apply", half, None)
ApplyTwo == MCCall("apply_manifest", two, None)
ApplyThis == MCCall("apply_manifest", two, two)
ApplyHalf == MCCall("apply_manifest", half, half)
Delete == MCCall("delete_resource", one, None)
LookFirst == MCCall("plan_delete", one, None)
Wordy == [ApplyTwo EXCEPT !.fit = FALSE, !.wide = TRUE]

\* What the three calls are.
MCAsk ==
  {<<PlanTwo, ApplyTwo, r>> : r \in {ApplyThis, Delete, Wordy}}
    \union {<<PlanHalf, ApplyHalf, r>> : r \in {LookFirst, Wordy}}
    \union {<<PlanTwo, PlanHalf, ApplyThis>>}

MCRequest == {PlanTwo, PlanHalf, ApplyTwo, ApplyThis, ApplyHalf, Delete, LookFirst, Wordy}
MCInit == Init /\ <<req[c1], req[c2], req[c3]>> \in MCAsk
MCSpec == MCInit /\ [][Next]_vars /\ Fairness
=============================================================================
