--------------------------------- MODULE WebJobs ---------------------------------
(***************************************************************************)
(* sql-handler webui.py: QueryJobManager, the web UI's registry of         *)
(* queries.  Its requests run in worker threads and it has no lock: every  *)
(* look at the registry and every change of it is a step of its own.  The  *)
(* query itself, its gate and its outcome are QueryJob's.                  *)
(***************************************************************************)
EXTENDS Naturals, FiniteSets, SequencesExt

CONSTANTS Thread, Id, None,
          MaxJobs  \* the cap, 100

\* What is assumed of the constants.
Parameters == IsFiniteSet(Thread) /\ None \notin Id /\ MaxJobs \in Nat \ {0}

VARIABLES
  at,     \* thread -> what its request does next
  op,     \* thread -> "submit" or "get" (a status, rows and a cancel begin with get)
  id,     \* thread -> the query it submits, or None
  todo,   \* thread -> queries of the list it goes through
  jobs,   \* the registry's keys, oldest first
  ended,  \* the keys whose finished_at is set
  query   \* query -> "none", "running" or "over"

vars == <<at, op, id, todo, jobs, ended, query>>

Steps == {"idle", "stamp", "age", "room", "check", "gate", "register"}
Tracked == ToSet(jobs)

TypeOK ==
  /\ at \in [Thread -> Steps] /\ op \in [Thread -> {"submit", "get"}]
  /\ id \in [Thread -> Id \union {None}] /\ todo \in [Thread -> SUBSET Id]
  /\ IsInjective(jobs) /\ Tracked \subseteq Id /\ ended \subseteq Tracked
  /\ query \in [Id -> {"none", "running", "over"}]

Init ==
  /\ at = [t \in Thread |-> "idle"] /\ op = [t \in Thread |-> "get"]
  /\ id = [t \in Thread |-> None] /\ todo = [t \in Thread |-> {}]
  /\ jobs = <<>> /\ ended = {} /\ query = [i \in Id |-> "none"]

-----------------------------------------------------------------------------
(* Helpers.                                                                *)

To(t, step) == at' = [at EXCEPT ![t] = step]
Through(t, set) == todo' = [todo EXCEPT ![t] = set]

\* self._jobs[i] = ..: a new key goes to the end, a known one keeps its place.
Put(i) == IF i \in Tracked THEN jobs ELSE Append(jobs, i)
Removed(i) == IF i \in Tracked THEN RemoveAt(jobs, CHOOSE k \in DOMAIN jobs : jobs[k] = i) ELSE jobs

-----------------------------------------------------------------------------
(* _cleanup, which every request runs first.                               *)

Begin(t) ==
  /\ at[t] = "idle" /\ To(t, "stamp") /\ \E o \in {"submit", "get"} : op' = [op EXCEPT ![t] = o]
  /\ Through(t, Tracked \ ended) /\ UNCHANGED <<id, jobs, ended, query>>

\* One unfinished entry of the list: its query may be over by now, and then it is
\* written back with the time, though another thread have removed it meanwhile.
Stamp(t) == \E i \in todo[t] :
  /\ at[t] = "stamp" /\ Through(t, todo[t] \ {i}) /\ UNCHANGED <<at, op, id, query>>
  /\ IF query[i] = "over" THEN jobs' = Put(i) /\ ended' = ended \union {i} ELSE UNCHANGED <<jobs, ended>>

\* A second list is made, of which some entries are past the TTL.
List(t) ==
  /\ at[t] = "stamp" /\ todo[t] = {} /\ To(t, "age")
  /\ \E old \in SUBSET ended : Through(t, old) /\ UNCHANGED <<op, id, jobs, ended, query>>

\* One of them is deleted; a key that another thread has deleted fails the request.
Age(t) == \E i \in todo[t] :
  /\ at[t] = "age" /\ UNCHANGED <<op, id, query>> /\ jobs' = Removed(i) /\ ended' = ended \ {i}
  /\ IF i \in Tracked THEN Through(t, todo[t] \ {i}) /\ UNCHANGED at ELSE Through(t, {}) /\ To(t, "idle")

\* Seeded bug: the oldest entry goes, whatever its query does.
OldestOfAll(i) == jobs # <<>> /\ i = jobs[1]

\* The oldest finished entry goes as long as the registry is full.
OldestDone(i) == \E k \in DOMAIN jobs : i = jobs[k] /\ i \in ended /\ \A m \in 1..k - 1 : jobs[m] \notin ended

Room(t) ==
  /\ at[t] = "age" /\ todo[t] = {} /\ Len(jobs) >= MaxJobs
  /\ \E i \in Tracked : OldestDone(i) /\ jobs' = Removed(i) /\ ended' = ended \ {i}
  /\ UNCHANGED <<at, op, id, todo, query>>

Cleaned(t) ==
  /\ at[t] = "age" /\ todo[t] = {} /\ (Len(jobs) < MaxJobs \/ ~\E i \in Tracked : OldestDone(i))
  /\ To(t, IF op[t] = "submit" THEN "check" ELSE "idle") /\ UNCHANGED <<op, id, todo, jobs, ended, query>>

\* A walk over the registry that another thread changes fails the request.
WalkFails(t) ==
  /\ at[t] = "age" /\ todo[t] = {} /\ Len(jobs) >= MaxJobs
  /\ \E u \in Thread \ {t} : at[u] # "idle"
  /\ To(t, "idle") /\ UNCHANGED <<op, id, todo, jobs, ended, query>>

-----------------------------------------------------------------------------
(* The rest of submit.                                                     *)

Check(t) ==
  /\ at[t] = "check" /\ To(t, IF Len(jobs) >= MaxJobs THEN "idle" ELSE "gate")
  /\ UNCHANGED <<op, id, todo, jobs, ended, query>>

\* The constructor waits at the gate, and refuses or starts the query.
Construct(t) ==
  /\ at[t] = "gate" /\ UNCHANGED <<op, todo, jobs, ended>>
  /\ \/ To(t, "idle") /\ UNCHANGED <<id, query>>
     \/ \E i \in Id : /\ query[i] = "none" /\ query' = [query EXCEPT ![i] = "running"]
                      /\ id' = [id EXCEPT ![t] = i] /\ To(t, "register")

Register(t) ==
  /\ at[t] = "register" /\ To(t, "idle") /\ id' = [id EXCEPT ![t] = None]
  /\ jobs' = Put(id[t]) /\ UNCHANGED <<op, todo, ended, query>>

\* A query ends, by itself or by a cancel.
End(i) == query[i] = "running" /\ query' = [query EXCEPT ![i] = "over"] /\ UNCHANGED <<at, op, id, todo, jobs, ended>>

Step(t) == Begin(t) \/ Stamp(t) \/ List(t) \/ Age(t) \/ Room(t) \/ Cleaned(t) \/ WalkFails(t)
           \/ Check(t) \/ Construct(t) \/ Register(t)

Next == (\E t \in Thread : Step(t)) \/ \E i \in Id : End(i)

Spec == Init /\ [][Next]_vars

-----------------------------------------------------------------------------
(* Property.                                                               *)

\* Without a lock, a watchdog or a second look at the cap: a query that runs can
\* still be reached and cancelled under the id that its client has or is about to
\* get, whatever the cleanups of other threads write back and delete; and each
\* thread but one can push the number of them past the cap by one (submit 576-582).
RunningInHand ==
  LET running == {i \in Id : query[i] = "running"} IN
  /\ running \subseteq Tracked \union {id[t] : t \in Thread}
  /\ Cardinality(running \intersect Tracked) < MaxJobs + Cardinality(Thread)
=============================================================================
