------------------------------- MODULE MCServices -------------------------------
(***************************************************************************)
(* What one process keeps in memory, each part in behaviours of its own:   *)
(* query jobs on a pod with fewer slots than jobs, the policy, the list of *)
(* tables, and pages of one URL and of two.                                *)
(***************************************************************************)
EXTENDS Services, TLC

CONSTANTS f1, f2, u1, u2

VARIABLE part

MCVisitor == {f1, f2}
MCUrl == {u1, u2}
OneUrl == f1 :> u1 @@ f2 :> u1
TwoUrls == f1 :> u1 @@ f2 :> u2

ASSUME Fits == P!Parameters /\ L!Parameters /\ F!Parameters

MCInit ==
  /\ part \in {"queries", "policy", "list", "pages"}
  /\ P!Init /\ (part # "policy" => file = "good")
  /\ F!Init /\ url \in {OneUrl, TwoUrls} /\ (part # "pages" => url = OneUrl)
  /\ Init /\ L!Init

QueriesNext == part = "queries" /\ Next /\ UNCHANGED <<part, policies, lists, pages>>
PolicyNext == part = "policy" /\ P!Next /\ UNCHANGED <<part, vars, lists, pages>>
ListNext == part = "list" /\ L!Next /\ UNCHANGED <<part, vars, policies, pages>>
PagesNext == part = "pages" /\ F!Next /\ UNCHANGED <<part, vars, policies, lists>>
MCNext == QueriesNext \/ PolicyNext \/ ListNext \/ PagesNext

\* Of what fairness is assumed of, only the refresh of the list could be taken in the
\* other parts.
MCFairness ==
  /\ Fairness /\ F!Fairness
  /\ \A t \in L!Thread : WF_lists(L!Work(t))
  /\ WF_lists(part = "list" /\ \E t \in Refresher : L!Refresh(t))

MCSpec == MCInit /\ [][MCNext]_<<part, vars, policies, lists, pages>> /\ MCFairness

-----------------------------------------------------------------------------

\* The list of tables is asked for again and again (WarmCache).
RefreshGoesOn == part = "list" => L!RefreshGoesOn
=============================================================================
