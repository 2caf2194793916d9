------------------------------ MODULE ApplyGate ------------------------------
(***************************************************************************)
(* applygate-mcp: plan_apply, apply_manifest, delete_resource and          *)
(* plan_delete (applygate_mcp/server.py), each call on a thread of its own *)
(* (asyncio.to_thread), with the session's record of the last plan of a    *)
(* namespace and the hash-chained audit file.  The process may be killed   *)
(* and started again; the session goes with it, the file stays.            *)
(***************************************************************************)
EXTENDS Naturals, Sequences, FiniteSets

CONSTANTS Call, Request, Namespace, Manifest, Doc, None,
          DocsOf,      \* manifest -> its documents, in order
          Mode,        \* APPLYGATE_UNPLANNED_APPLY: "deny", "warn" or "allow"
          Unfit,       \* documents whose kind or namespace is refused
          Wide,        \* of those: the kinds longer than the 64 KiB the trail is read by
          Frail,       \* documents whose API request may fail, whatever it did
          MaxUnwritten,\* bound: lines the full audit volume may refuse
          MaxUnread,   \* bound: lines written when the file could not be read
          Tears        \* may the volume take a part of a line?

\* A request: the tool, its namespace, the manifest (a delete's is its object), the
\* hash it carries, whether it passes the gates that look at nothing else (confirm,
\* names, namespace policy, parsing), and whether a refusal of it, which repeats its
\* arguments, makes a line longer than 64 KiB.
Tools == {"plan_apply", "apply_manifest", "delete_resource", "plan_delete"}

ASSUME Documents == DocsOf \in [Manifest -> Seq(Doc)]
ASSUME Requests ==
  Request \subseteq [tool: Tools, ns: Namespace, man: Manifest,
                     carried: Manifest \union {None}, fit: BOOLEAN, wide: BOOLEAN]
ASSUME NoneIsNoMember == None \notin Call \union Manifest \union
  {"refused", "refused-long", "dry-run", "applied", "deleted", "planned", "failed"}
ASSUME Modes == Mode \in {"deny", "warn", "allow"}
ASSUME Failures == /\ Frail \subseteq Doc /\ Wide \subseteq Unfit
                   /\ MaxUnwritten \in Nat /\ MaxUnread \in Nat /\ Tears \in BOOLEAN

VARIABLES
  at,      \* call -> what its thread does next
  req,     \* call -> its request
  k,       \* call -> documents it is done with
  good,    \* call -> have all of them passed?
  say,     \* call -> the outcome of the line it is to write, or None
  plan,    \* namespace -> the manifest of its last plan that passed, or None
  lock,    \* the call inside _audit_lock, or None
  prev,    \* the hash it read there
  trail,   \* the lines of the audit file
  warned,  \* <<call, k>>: lines reported on stderr, since they could not be written
  served,  \* <<call, k>>: requests the API server has carried out
  gone     \* calls of processes that have been killed

vars == <<at, req, k, good, say, prev, plan, lock, trail, warned, served, gone>>
thread == <<at, req, k, good>>
audit == <<say, prev, lock, trail, warned>>

Docs(c) == DocsOf[req[c].man]

Steps == {"gate", "doc", "sha", "line", "over", "dead"}
Outcomes == {"refused", "refused-long", "dry-run", "applied", "deleted", "planned", "failed"}

\* A hash: of a whole line (by its number, 0 for genesis), of the end of one that is
\* longer than the window, or genesis because the file could not be read.
Link == [line: Nat, of: {"line", "end", "nothing"}]
Genesis == [line |-> 0, of |-> "line"]

\* A line: "whole" as it was written, "cut" before its end, or "spoilt" by others that
\* were appended to a cut one.
Line == [prev: Link, call: Call, k: Nat, outcome: Outcomes, long: BOOLEAN,
         form: {"whole", "cut", "spoilt"}, others: SUBSET (Call \X Nat)]

TypeOK ==
  /\ at \in [Call -> Steps]
  /\ req \in [Call -> Request]
  /\ k \in [Call -> Nat] /\ good \in [Call -> BOOLEAN]
  /\ say \in [Call -> Outcomes \union {None}] /\ prev \in Link
  /\ plan \in [Namespace -> Manifest \union {None}]
  /\ lock \in Call \union {None}
  /\ trail \in Seq(Line)
  /\ warned \subseteq Call \X Nat /\ served \subseteq Call \X Nat
  /\ gone \subseteq Call
  /\ \A c \in Call : k[c] <= Len(Docs(c))
  /\ \A c \in Call : (at[c] = "line") <=> (lock = c)

Init ==
  /\ at = [c \in Call |-> "gate"]
  /\ req \in [Call -> Request]
  /\ k = [c \in Call |-> 0] /\ good = [c \in Call |-> TRUE]
  /\ say = [c \in Call |-> None] /\ prev = Genesis
  /\ plan = [n \in Namespace |-> None]
  /\ lock = None /\ trail = <<>>
  /\ warned = {} /\ served = {} /\ gone = {}

-----------------------------------------------------------------------------
(* Helpers.                                                                *)

Go(c, to) == at' = [at EXCEPT ![c] = to]
Doing(c) == Docs(c)[k[c] + 1]
IsPlan(c) == req[c].tool = "plan_apply"
Dry(c) == req[c].tool \in {"plan_apply", "plan_delete"}

\* A refusal repeats what it refuses, however long that is.
Refused(long) == IF long THEN "refused-long" ELSE "refused"

\* The outcome of a request that the API server has answered well.
Done(c) == CASE req[c].tool = "plan_apply" -> "dry-run"
             [] req[c].tool = "apply_manifest" -> "applied"
             [] req[c].tool = "delete_resource" -> "deleted"
             [] req[c].tool = "plan_delete" -> "planned"

\* _check_plan_binding: may these bytes be applied?
Bound(r) ==
  \/ Mode = "allow"
  \/ /\ r.carried \in {None, r.man}
     /\ plan[r.ns] = r.man \/ (Mode = "warn" /\ r.carried = None)

\* The gates of each tool, in front of its first document or its object.
PlanPasses(r) == r.fit
ApplyPasses(r) == r.fit /\ Bound(r)
DeletePasses(r) == r.fit /\ DocsOf[r.man][1] \notin Unfit
PlanDeletePasses(r) == r.fit /\ DocsOf[r.man][1] \notin Unfit

Passes(r) == CASE r.tool = "plan_apply" -> PlanPasses(r)
               [] r.tool = "apply_manifest" -> ApplyPasses(r)
               [] r.tool = "delete_resource" -> DeletePasses(r)
               [] r.tool = "plan_delete" -> PlanDeletePasses(r)

-----------------------------------------------------------------------------
(* A call.                                                                 *)

\* A refused call writes one line, and ends with it.
Gate(c) ==
  /\ at[c] = "gate"
  /\ \/ Passes(req[c]) /\ Go(c, "doc") /\ UNCHANGED <<k, good, say>>
     \/ /\ ~Passes(req[c])
        /\ k' = [k EXCEPT ![c] = Len(Docs(c))]
        /\ good' = [good EXCEPT ![c] = FALSE]
        /\ say' = [say EXCEPT ![c] = Refused(req[c].wide)]
        /\ Go(c, "sha")
  /\ UNCHANGED <<req, plan, served, gone, prev, lock, trail, warned>>

\* Seeded bug: of a manifest only its last document is told.
ServeQuiet(c) ==
  /\ at[c] = "doc" /\ k[c] < Len(Docs(c)) /\ Doing(c) \notin Unfit
  /\ k' = [k EXCEPT ![c] = @ + 1]
  /\ say' = [say EXCEPT ![c] = Done(c)]
  /\ Go(c, IF k'[c] = Len(Docs(c)) THEN "sha" ELSE "doc")
  /\ served' = served \union {<<c, k[c] + 1>>}
  /\ UNCHANGED <<req, good, plan, gone, prev, lock, trail, warned>>

\* One document: it is refused, or sent to the API server.  A request that fails may
\* have been carried out.
Serve(c) ==
  /\ at[c] = "doc" /\ k[c] < Len(Docs(c))
  /\ k' = [k EXCEPT ![c] = @ + 1]
  /\ Go(c, "sha")
  /\ \/ /\ Doing(c) \in Unfit
        /\ say' = [say EXCEPT ![c] = Refused(Doing(c) \in Wide)]
        /\ good' = [good EXCEPT ![c] = FALSE]
        /\ UNCHANGED served
     \/ /\ Doing(c) \notin Unfit
        /\ say' = [say EXCEPT ![c] = Done(c)]
        /\ served' = served \union {<<c, k[c] + 1>>}
        /\ UNCHANGED good
     \/ /\ Doing(c) \in Frail \ Unfit
        /\ say' = [say EXCEPT ![c] = "failed"]
        /\ good' = [good EXCEPT ![c] = FALSE]
        /\ served' \in {served, served \union {<<c, k[c] + 1>>}}
  /\ UNCHANGED <<req, plan, gone, prev, lock, trail, warned>>

PlanDocument(c) == IsPlan(c) /\ Serve(c)   \* dry_run=All
ApplyDocument(c) == req[c].tool = "apply_manifest" /\ Serve(c)
DeleteObject(c) == req[c].tool = "delete_resource" /\ Serve(c)
LookAtObject(c) == req[c].tool = "plan_delete" /\ Serve(c)

\* Seeded bug: the plan is recorded whatever became of its documents.
FinishRecords(c) ==
  /\ at[c] = "doc" /\ k[c] = Len(Docs(c))
  /\ plan' = IF IsPlan(c) THEN [plan EXCEPT ![req[c].ns] = req[c].man] ELSE plan
  /\ Go(c, "over")
  /\ UNCHANGED <<req, k, good, served, gone, audit>>

\* All documents are through; a plan that passed becomes its namespace's.
Finish(c) ==
  /\ at[c] = "doc" /\ k[c] = Len(Docs(c))
  /\ plan' = IF IsPlan(c) /\ good[c] /\ Docs(c) # <<>>
             THEN [plan EXCEPT ![req[c].ns] = req[c].man] ELSE plan
  /\ Go(c, "over")
  /\ UNCHANGED <<req, k, good, served, gone, audit>>

-----------------------------------------------------------------------------
(* _audit: one line, under the process's lock.                             *)

Last == trail[Len(trail)]

\* _last_audit_line_sha: of what stands last in the file, its last 64 KiB are hashed.
LastHash == IF trail = <<>> THEN Genesis
            ELSE [line |-> Len(trail), of |-> IF Last.long THEN "end" ELSE "line"]

Unread == Cardinality({i \in 1..Len(trail) : trail[i].prev.of = "nothing"})

\* Seeded bug: the last line's hash is read outside the lock.
ReadShaUnlocked(c) ==
  /\ at[c] = "sha"
  /\ lock' = c
  /\ prev' = LastHash
  /\ Go(c, "line")
  /\ UNCHANGED <<req, k, good, plan, served, gone, say, trail, warned>>

\* The lock, and the last line's hash; a file that cannot be read counts as empty.
ReadSha(c) ==
  /\ at[c] = "sha" /\ lock = None
  /\ lock' = c
  /\ \/ prev' = LastHash
     \/ Unread < MaxUnread /\ prev' = [line |-> 0, of |-> "nothing"]
  /\ Go(c, "line")
  /\ UNCHANGED <<req, k, good, plan, served, gone, say, trail, warned>>

NewLine(c, form) ==
  [prev |-> prev, call |-> c, k |-> k[c], outcome |-> say[c],
   long |-> say[c] = "refused-long", form |-> form, others |-> {}]

\* A line is appended to what stands last: after a cut line it becomes part of it.
Joined(cut, line) == [cut EXCEPT !.long = cut.long \/ line.long,
                                 !.others = @ \union {<<line.call, line.k>>},
                                 !.form = IF line.form = "cut" THEN "cut" ELSE "spoilt"]

Appended(line) == IF trail # <<>> /\ Last.form = "cut"
                  THEN [trail EXCEPT ![Len(trail)] = Joined(Last, line)]
                  ELSE Append(trail, line)

\* The line is done with: the lock is free, and the call goes on.
Leave(c) == /\ lock' = None /\ prev' = Genesis
            /\ say' = [say EXCEPT ![c] = None]
            /\ Go(c, "doc")

WriteLine(c) ==
  /\ at[c] = "line"
  /\ trail' = Appended(NewLine(c, "whole"))
  /\ Leave(c)
  /\ UNCHANGED <<req, k, good, plan, served, gone, warned>>

\* Seeded bug: the lock is not given back when the write raises.
LineFailsLocked(c) ==
  /\ at[c] = "line" /\ Cardinality(warned) < MaxUnwritten
  /\ trail' = trail /\ lock' = lock
  /\ warned' = warned \union {<<c, k[c]>>}
  /\ Go(c, "doc")
  /\ UNCHANGED <<req, k, good, plan, served, gone, say, prev>>

\* The write raises OSError: nothing of the line is in the file, or a part of it.
LineFails(c) ==
  /\ at[c] = "line" /\ Cardinality(warned) < MaxUnwritten
  /\ \/ trail' = trail
     \/ Tears /\ \E long \in {FALSE, say[c] = "refused-long"} :
                  trail' = Appended([NewLine(c, "cut") EXCEPT !.long = long])
  /\ warned' = warned \union {<<c, k[c]>>}
  /\ Leave(c)
  /\ UNCHANGED <<req, k, good, plan, served, gone>>

\* The process is killed and started again.
Restart ==
  /\ at' = [c \in Call |-> IF at[c] \in {"gate", "over"} THEN at[c] ELSE "dead"]
  /\ gone' = {c \in Call : at[c] # "gate"}
  /\ plan' = [n \in Namespace |-> None]
  /\ lock' = None /\ prev' = Genesis /\ say' = [c \in Call |-> None]
  /\ UNCHANGED <<req, k, good, trail, warned, served>>

Document(c) == PlanDocument(c) \/ ApplyDocument(c) \/ DeleteObject(c) \/ LookAtObject(c)
Step(c) == Gate(c) \/ Document(c) \/ Finish(c) \/ ReadSha(c) \/ WriteLine(c) \/ LineFails(c)

Next == (\E c \in Call : Step(c)) \/ Restart

Spec == Init /\ [][Next]_vars

\* A thread at its audit line runs on, and the file's own calls return.  Nothing is
\* asked of the API server: the requests set no timeout, and one may never be answered.
AuditStep(c) == ReadSha(c) \/ WriteLine(c) \/ LineFails(c)
Fairness == \A c \in Call : WF_vars(AuditStep(c))
FairSpec == Spec /\ Fairness

-----------------------------------------------------------------------------
(* Properties.                                                             *)

\* Call c has changed something in the cluster, by its document number i.
Changed(c, i) == <<c, i>> \in served /\ ~Dry(c)

\* Under the default mode, and whatever the threads' order and the restarts: a
\* manifest whose documents the server applies has passed as a whole before,
\* every one of its documents, in dry runs of one plan for the same namespace by
\* the same process (server.py:1162-1173).
AppliedWasDryRun ==
  \A c \in Call \ gone : \A j \in 1..k[c] :
    req[c].tool = "apply_manifest" /\ <<c, j>> \in served => \E p \in Call \ gone :
      /\ IsPlan(p) /\ req[p].ns = req[c].ns /\ req[p].man = req[c].man
      /\ \A i \in 1..Len(Docs(c)) : <<p, i>> \in served

\* A hash that what comes after line n of a file may hold.
Follows(file, link, n) ==
  \/ link = [line |-> n, of |-> "line"]
  \/ link.of = "nothing"
  \/ link.of = "end" /\ n > 0 /\ file[n].long

\* The links of the trail (836-884), whichever threads write it, however often the
\* process is killed and whatever the volume takes of a line: a whole line does not
\* hold the hash of the one before only if that one is longer than the window, or if
\* the file could not be read when it was written.
TrailVerifies ==
  \A i \in 1..Len(trail) : trail[i].form = "whole" => Follows(trail, trail[i].prev, i - 1)

\* In the words of verify_audit_chain (897-904), of a file that nobody else has
\* touched: each line is JSON and holds the hash of the one before.
ChainUnbroken ==
  \A i \in 1..Len(trail) : /\ trail[i].form = "whole"
                           /\ trail[i].prev.of # "end" /\ trail[i].prev.line = i - 1

\* Some line tells that call c was done with its document number i.
Told(c, i) ==
  \/ <<c, i>> \in warned
  \/ \E j \in 1..Len(trail) : trail[j].call = c /\ trail[j].k = i /\ trail[j].form = "whole"

\* The trail and the cluster agree (README: one line per document per operation):
\* no line says of a document that it was applied, deleted or dry-run before the API
\* server did it; and a killed call leaves at most its last change out of the trail,
\* and otherwise only the lines appended to a cut one are lost.
Lost(c, i) == \E j \in 1..Len(trail) : <<c, i>> \in trail[j].others

TrailIsFaithful ==
  /\ \A j \in 1..Len(trail) : trail[j].outcome \in {"applied", "deleted", "dry-run"} =>
       <<trail[j].call, trail[j].k>> \in served
  /\ \A c \in Call : \A i \in 1..k[c] : Changed(c, i) /\ ~Told(c, i) /\ ~Lost(c, i) =>
       i = k[c] /\ at[c] \in {"sha", "line", "dead"}

\* No call waits at its audit line for ever: whoever holds the lock gives it back,
\* though the volume be full, and nobody holds it while the API server has the call.
AuditGoesOn == \A c \in Call : at[c] = "sha" ~> at[c] \notin {"sha", "line"}
=============================================================================
