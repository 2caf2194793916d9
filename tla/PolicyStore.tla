------------------------------ MODULE PolicyStore ------------------------------
(***************************************************************************)
(* sql-handler policy.py: PolicyStore.get, the policy that every request   *)
(* of a process is decided by.  The file is stat'ed on each call, read     *)
(* again when its signature has changed, and kept as it was when it is     *)
(* gone or cannot be parsed.  Requests run on threads; the lock covers the *)
(* single looks and swaps, not the call.                                   *)
(***************************************************************************)
EXTENDS Naturals, FiniteSets

CONSTANTS Thread, None,
          Unrestricted, Closed, \* the policy that restricts nothing, and the one that hides everything
          MaxEdits  \* bound: changes of the file

Parameters == MaxEdits \in Nat \ {0} /\ None \notin Nat \union {Unrestricted, Closed}

VARIABLES
  at,      \* thread -> what its call does next
  sig,     \* thread -> the signature it has taken
  have,    \* thread -> the policy it has read, None for an invalid file
  ans,     \* thread -> the answer of its last call, or None
  policy,  \* _policy, or None
  stat,    \* _stat: the signature it was loaded under, 0 for none
  file,    \* "absent", "good" or "broken"
  version, \* the signature of its last edit, which names its contents
  could,   \* history: thread -> what has been right since its call began
  loaded   \* history: the policies that have been in force

vars == <<at, sig, have, ans, policy, stat, file, version, could, loaded>>
disk == <<file, version>>

\* A policy is the version of the file it was read from.
Version == 0..MaxEdits
Answers == Version \union {Unrestricted, Closed}

TypeOK ==
  /\ at \in [Thread -> {"idle", "stat", "gone", "compare", "load", "swap"}]
  /\ sig \in [Thread -> Version] /\ have \in [Thread -> Version \union {None}]
  /\ ans \in [Thread -> Answers \union {None}]
  /\ policy \in Version \union {None} /\ stat \in Version
  /\ file \in {"absent", "good", "broken"} /\ version \in Version
  /\ could \in [Thread -> SUBSET (Answers \union {None})] /\ loaded \subseteq Version

Init ==
  /\ at = [t \in Thread |-> "idle"] /\ sig = [t \in Thread |-> 0]
  /\ have = [t \in Thread |-> None] /\ ans = [t \in Thread |-> None]
  /\ policy = None /\ stat = 0
  /\ file \in {"absent", "good", "broken"} /\ version = 1
  /\ could = [t \in Thread |-> {}] /\ loaded = {}

-----------------------------------------------------------------------------
(* What is right.                                                          *)

\* What a file f of version v with the policies of l in force by then makes right:
\* its own policy; or, noted as None, one that is in force already; or, before there
\* was any, that everything is hidden, or, without a file, that nothing is.
Fits(f, v, l) ==
  IF f = "good" THEN {v}
  ELSE IF l # {} THEN {None}
  ELSE IF f = "broken" THEN {None, Closed} ELSE {None, Closed, Unrestricted}

\* A call under way notes what fits the end of every step.
Observe == could' = [t \in Thread |-> IF at'[t] = "idle" THEN could[t]
                                      ELSE (IF at[t] = "idle" THEN {} ELSE could[t])
                                             \union Fits(file', version', loaded')]

-----------------------------------------------------------------------------
(* get.                                                                    *)

Go(t, to) == at' = [at EXCEPT ![t] = to]
Answer(t, a) == ans' = [ans EXCEPT ![t] = a] /\ Go(t, "idle")
Keep == <<sig, have, policy, stat, disk, loaded>>

\* What stays in force without a file that can be used.
Kept(otherwise) == IF policy = None THEN otherwise ELSE policy

Call(t) == at[t] = "idle" /\ Go(t, "stat") /\ ans' = [ans EXCEPT ![t] = None] /\ UNCHANGED Keep

Stat(t) ==
  /\ at[t] = "stat"
  /\ IF file = "absent" THEN Go(t, "gone") /\ UNCHANGED sig
     ELSE Go(t, "compare") /\ sig' = [sig EXCEPT ![t] = version]
  /\ UNCHANGED <<ans, have, policy, stat, disk, loaded>>

\* A file that is gone: the policy in force, else none at all.
Gone(t) == at[t] = "gone" /\ Answer(t, Kept(Unrestricted)) /\ UNCHANGED Keep

\* The policy in force is the file's if it was loaded under this signature.
Compare(t) ==
  /\ at[t] = "compare"
  /\ IF policy # None /\ stat = sig[t] THEN Answer(t, policy) ELSE Go(t, "load") /\ UNCHANGED ans
  /\ UNCHANGED Keep

\* load_policy reads the file as it is by now.
Load(t) ==
  /\ at[t] = "load"
  /\ have' = [have EXCEPT ![t] = IF file = "good" THEN version ELSE None]
  /\ Go(t, "swap")
  /\ UNCHANGED <<ans, sig, policy, stat, disk, loaded>>

\* Seeded bug: the policy is stored under the signature the file has by now.
SwapUnderNewest(t) ==
  /\ at[t] = "swap"
  /\ IF have[t] = None THEN Answer(t, Kept(Closed)) /\ UNCHANGED <<policy, stat, loaded>>
     ELSE /\ Answer(t, have[t])
          /\ policy' = have[t] /\ stat' = version /\ loaded' = loaded \union {have[t]}
  /\ UNCHANGED <<sig, have, disk>>

\* An invalid file leaves the policy in force, or hides everything when there is
\* none; a valid one is swapped in under the signature that was taken before.
Swap(t) ==
  /\ at[t] = "swap"
  /\ IF have[t] = None THEN Answer(t, Kept(Closed)) /\ UNCHANGED <<policy, stat, loaded>>
     ELSE /\ Answer(t, have[t])
          /\ policy' = have[t] /\ stat' = sig[t] /\ loaded' = loaded \union {have[t]}
  /\ UNCHANGED <<sig, have, disk>>

-----------------------------------------------------------------------------
(* The operator: an edit, good or broken; a file that goes away.           *)

Edit ==
  /\ version < MaxEdits /\ version' = version + 1 /\ file' \in {"good", "broken"}
  /\ UNCHANGED <<at, ans, sig, have, policy, stat, loaded>>

Vanish == file # "absent" /\ file' = "absent" /\ UNCHANGED <<at, ans, sig, have, policy, stat, version, loaded>>

Next ==
  /\ \/ \E t \in Thread : Call(t) \/ Stat(t) \/ Gone(t) \/ Compare(t) \/ Load(t) \/ Swap(t)
     \/ Edit \/ Vanish
  /\ Observe

Spec == Init /\ [][Next]_vars

-----------------------------------------------------------------------------
(* Properties.                                                             *)

\* Whatever is edited, breaks or vanishes while threads are between their looks and
\* their swaps: a call answers with the policy that was in the file at some moment of
\* the call, or, when the file was no good then, with one that has been in force.  In
\* particular no call is unrestricted once a policy was (class comment 951-965).
AnswersAreDue ==
  \A t \in Thread : at[t] = "idle" /\ ans[t] # None =>
    ans[t] \in could[t] \/ (None \in could[t] /\ ans[t] \in loaded)

\* "keep enforcing the previous one" (957, 960): without a file that can be used it is
\* the newest policy.  Fails: a slow call swaps an older one in.
NewestKept == policy # None => \A v \in loaded : v <= policy
=============================================================================
