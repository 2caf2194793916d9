---------------------------- MODULE JobHandOver ----------------------------
(***************************************************************************)
(* What the asynchronous jobs of sqlhandler/jobs.py promise to the clients *)
(* of the whole deployment, however many replicas serve it: a job ends     *)
(* once, and the result of a job that ended well is handed over at most    *)
(* once ("Fetch-once results") on each of the ways it may take: by the     *)
(* registry that holds it, and from the shared directory.  The directory   *)
(* is guarded by claims that may be taken away: where one was, it binds no *)
(* more.                                                                   *)
(***************************************************************************)
EXTENDS Naturals

CONSTANTS Job,
          Way          \* \subseteq {"owner", "store"}

VARIABLES outcome,   \* job -> "none", "running", or how it ended
          handed,    \* job -> way -> how many clients were given its result
          loose      \* jobs a claim on whose result may have been taken away

vars == <<outcome, handed, loose>>

Init == /\ outcome = [j \in Job |-> "none"]
        /\ handed = [j \in Job |-> [w \in Way |-> 0]]
        /\ loose = {}

Start(j) == /\ outcome[j] = "none"
            /\ outcome' = [outcome EXCEPT ![j] = "running"]
            /\ UNCHANGED <<handed, loose>>

End(j, s) == /\ outcome[j] = "running"
             /\ outcome' = [outcome EXCEPT ![j] = s]
             /\ UNCHANGED <<handed, loose>>

\* The jobs of a pod that dies have no outcome and never will, all of them at once.
Lose(lost) == /\ \A j \in lost : outcome[j] = "running"
              /\ outcome' = [j \in Job |-> IF j \in lost THEN "lost" ELSE outcome[j]]
              /\ UNCHANGED <<handed, loose>>

Loosen(js) == /\ loose' = loose \union js
              /\ UNCHANGED <<outcome, handed>>

HandOver(j, w) == /\ outcome[j] = "done"
                  /\ handed[j][w] = 0 \/ (w = "store" /\ j \in loose)
                  /\ handed' = [handed EXCEPT ![j][w] = @ + 1]
                  /\ UNCHANGED <<outcome, loose>>

Next == \/ \E js \in SUBSET Job : Lose(js) \/ Loosen(js)
        \/ \E j \in Job : \/ Start(j)
                          \/ \E w \in Way : HandOver(j, w)
                          \/ \E s \in {"done", "error", "cancelled"} : End(j, s)

Spec == Init /\ [][Next]_vars
=============================================================================
