----------------------------- MODULE JobOutcome -----------------------------
(***************************************************************************)
(* What one DuckDB query job promises to whoever polls or cancels it,      *)
(* whatever thread runs it (sqlhandler/engine.py, class QueryJob): it runs *)
(* once, ends in exactly one of three outcomes, keeps that outcome for     *)
(* ever, and a cancel that came before the outcome is never answered with  *)
(* a result.                                                               *)
(***************************************************************************)
CONSTANT Job

VARIABLES outcome,   \* job -> "none" before it exists, then its state
          asked      \* jobs a cancel was asked for

vars == <<outcome, asked>>

Terminal == {"done", "error", "cancelled"}

Init == /\ outcome = [j \in Job |-> "none"]
        /\ asked = {}

\* The job comes into existence, running.
Start(j) == /\ outcome[j] = "none"
            /\ outcome' = [outcome EXCEPT ![j] = "running"]
            /\ UNCHANGED asked

\* Somebody asks for a cancel; a late one, after the outcome, changes nothing.
Ask(j) == /\ outcome[j] # "none"
          /\ asked' = asked \union {j}
          /\ UNCHANGED outcome

\* The job ends: a result only when nobody asked for a cancel before, and
\* "cancelled" only when somebody did.
End(j, s) == /\ outcome[j] = "running"
             /\ s = "done" => j \notin asked
             /\ s = "cancelled" => j \in asked
             /\ outcome' = [outcome EXCEPT ![j] = s]
             /\ UNCHANGED asked

Next == \E j \in Job : \/ Start(j)
                       \/ Ask(j)
                       \/ \E s \in Terminal : End(j, s)

Spec == Init /\ [][Next]_vars
=============================================================================
