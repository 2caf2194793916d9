----------------------------- MODULE MCCommandPool -----------------------------
(***************************************************************************)
(* Three commands and three scripts on pools of one and two workers and    *)
(* two pods.  No step of the one looks at the other: they run apart.       *)
(***************************************************************************)
EXTENDS CommandPool

CONSTANTS c1, c2, c3, s1, s2, s3, p1, p2

MCCommand == {c1, c2, c3}
MCScript == {s1, s2, s3}
MCPod == {p1, p2}
MCWidths == {1, 2}

\* The calls of either kind move only while none of the other has.
CommandsNext ==
  /\ \A s \in Script : at[s] = "new" /\ s \notin left
  /\ ready = Pod
  /\ \/ \E c \in Command : CommandStep(c) \/ Leave(c)
     \/ \E w \in Widths : SetWidth(w)
ScriptsNext ==
  /\ \A c \in Command : at[c] = "new" /\ c \notin left
  /\ \/ \E s \in Script : ScriptStep(s) \/ Leave(s)
     \/ \E p \in Pod : PodTurns(p)
MCNext == CommandsNext \/ ScriptsNext

MCSpec == Init /\ [][MCNext]_vars /\ Fairness
=============================================================================
