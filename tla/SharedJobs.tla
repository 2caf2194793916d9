----------------------------- MODULE SharedJobs -----------------------------
(***************************************************************************)
(* Asynchronous query jobs on a scaled-out deployment (sqlhandler/jobs.py, *)
(* SQLHANDLER_JOBS_DIR set): every replica keeps its own registry          *)
(* (McpJobManager), and all of them share a directory (_SharedJobStore)    *)
(* through which a replica that does not own a job reports it, hands its   *)
(* result over and forwards a cancel.                                      *)
(*                                                                         *)
(* A thread is a client request on one replica, or the publish watcher of  *)
(* a job on its owner.  One step is one file-system operation on the       *)
(* directory, or what is done under the registry's lock; the directory is  *)
(* not protected by any lock.                                              *)
(***************************************************************************)
EXTENDS Integers, FiniteSets, FiniteSetsExt

CONSTANTS Replica, Job, Client,
          None,          \* no replica, no job, no record
          MaxJobs,       \* SQLHANDLER_MAX_JOBS
          RouteFetch,    \* where requests arrive: \subseteq {"owner", "foreign"}
          RouteStatus,
          RouteCancel,
          MaxCrashes,    \* pods that may die
          Others,        \* do jobs beyond these come and go?
          Aging,         \* may a TTL, a zombie's age or a claim's be reached?
          SlowClaims     \* may a live claimant take longer than CLAIM_STEAL_SECONDS?

ASSUME Bounds == MaxJobs \in Nat \ {0} /\ MaxCrashes \in Nat
ASSUME Names == /\ IsFiniteSet(Job) /\ Client \intersect Job = {}
                /\ None \notin Replica \union Job \union Client

VARIABLES
  home,        \* job -> the replica that ran its submit
  tracked,     \* jobs in the registry of their home
  work,        \* job -> its QueryJob, as JobOutcome promises it
  asked,       \* jobs whose QueryJob was cancelled
  fetched,     \* record.fetched, at home
  published,   \* record.shared_published, at home
  result,      \* jobs whose Arrow table is still in their home's memory
  json,        \* <job_id>.json: None or the shared record
  parquet,     \* jobs whose <job_id>.parquet exists
  claim,       \* the directory fetch-<job_id>
  flag,        \* jobs whose file cancel-<job_id> exists
  thread,      \* client request or watcher -> what it is doing
  crashes

\* What the properties need to remember; no step depends on it.
VARIABLES
  handed,      \* job -> way -> times its result was given to a client that way
  loose,       \* jobs a claim on which may be taken from the one who holds it
  touched      \* jobs a cancel dated, or a fetch marked, before their publish was through

registry == <<home, tracked, fetched, published, result>>
query == <<work, asked>>
store == <<json, parquet, claim, flag>>
history == <<handed, loose, touched>>
vars == <<registry, query, store, thread, crashes, history>>

Thread == Client \union Job

\* "interrupted": DuckDB will raise inside the statement; "lost": the pod died.
Unfinished == {"starting", "executing", "interrupted"}
Finished == {"done", "error", "cancelled"}

Record == [state : {"running"} \union Finished, fetched : BOOLEAN, file : BOOLEAN,
           wall : Nat]     \* finished_at_wall; 0 in a tombstone

At == {"idle", "tombstone", "watch", "sample", "publish", "spool", "parquet", "record",
       "claim", "steal", "arrow", "hand", "read", "markread", "markwrite", "unlink",
       "unclaim", "flag", "cancelread", "cancelwrite"}

\* mine: the job was in the registry when the request came, and the request
\* holds on to its record, whatever becomes of the registry.
Idle == [at |-> "idle", on |-> None, job |-> None, mine |-> FALSE,
         saw |-> None, got |-> FALSE]

\* The owner hands over the table in its memory, the others the one in the store.
Way == {"owner", "store"}

TypeOK ==
  /\ home \in [Job -> Replica \union {None}]
  /\ tracked \in SUBSET Job
  /\ work \in [Job -> {"none", "lost"} \union Unfinished \union Finished]
  /\ asked \in SUBSET Job /\ fetched \in SUBSET Job /\ published \in SUBSET Job
  /\ result \in SUBSET Job
  /\ json \in [Job -> Record \union {None}]
  /\ parquet \in SUBSET Job
  \* "orphan": nobody will release it; "stale": older than CLAIM_STEAL_SECONDS
  /\ claim \in [Job -> {"free", "held", "orphan", "stale"}]
  /\ flag \in SUBSET Job
  /\ thread \in [Thread -> [at : At, on : Replica \union {None},
                            job : Job \union {None}, mine : BOOLEAN,
                            saw : Record \union {None}, got : BOOLEAN]]
  /\ crashes \in 0..MaxCrashes
  /\ handed \in [Job -> [Way -> Nat]]
  /\ loose \in SUBSET Job /\ touched \in SUBSET Job

Init ==
  /\ home = [j \in Job |-> None] /\ tracked = {}
  /\ work = [j \in Job |-> "none"] /\ asked = {}
  /\ fetched = {} /\ published = {} /\ result = {}
  /\ json = [j \in Job |-> None] /\ parquet = {}
  /\ claim = [j \in Job |-> "free"] /\ flag = {}
  /\ thread = [t \in Thread |-> Idle]
  /\ crashes = 0
  /\ handed = [j \in Job |-> [w \in Way |-> 0]]
  /\ loose = {} /\ touched = {}

-----------------------------------------------------------------------------
(* Helpers.                                                                *)

Begin(t, at, r, j, mine) ==
  thread' = [thread EXCEPT ![t] = [Idle EXCEPT !.at = at, !.on = r, !.job = j, !.mine = mine]]
Go(t, at) == thread' = [thread EXCEPT ![t].at = at]
GoWith(t, at, saw, got) ==
  thread' = [thread EXCEPT ![t].at = at, ![t].saw = saw, ![t].got = got]
Reply(t) == thread' = [thread EXCEPT ![t] = Idle]

\* A request for j on replica r finds the job in the registry, or asks the store.
Owns(r, j) == j \in tracked /\ home[j] = r
Routed(routes, r, j) == (IF Owns(r, j) THEN "owner" ELSE "foreign") \in routes

\* Clients know an id once its submit returned it.
Known(j) == /\ home[j] # None
            /\ \A c \in Client : ~(thread[c].at = "tombstone" /\ thread[c].job = j)

\* t is at work on j and at one of the places ats.
Busy(t, j, ats) == thread[t].at \in ats /\ thread[t].job = j

\* Between the mkdir of a claim and its release.
Claimant == {"arrow", "hand", "read", "markread", "markwrite", "unlink", "unclaim"}

\* The claims of threads that will not release them.
Abandons(ts) ==
  claim' = [j \in Job |->
    IF /\ claim[j] = "held"
       /\ \E t \in ts : Busy(t, j, Claimant)
       /\ \A t \in Thread \ ts : ~Busy(t, j, Claimant)
    THEN "orphan" ELSE claim[j]]

\* In publish(), and on the way to it.
Publishing == {"spool", "parquet", "record"}
Reporting == {"watch", "sample", "publish"} \union Publishing

\* publish() of j is over, or was cut short.
Through(j) == j \in published /\ \A t \in Thread : ~Busy(t, j, Publishing)
Touches(j) == touched' = IF Through(j) THEN touched ELSE touched \union {j}

FinishedRecords == {j \in Job : json[j] # None /\ json[j].state # "running"}

\* The wall clock: later than in every record written so far.
Now == 1 + Max({0} \union {json[j].wall : j \in FinishedRecords})

\* QueryJob.cancel(), its two halves in one: only an open connection is
\* interrupted (QueryJob has the detail).
CancelQuery(j) ==
  /\ asked' = asked \union {j}
  /\ work' = [work EXCEPT ![j] = IF @ = "executing" THEN "interrupted" ELSE @]

\* _reconcile_shared_locked: adopt a fetch another replica recorded.
Adopts(j) == json[j] # None /\ json[j].fetched
Reconcile(j) == IF Adopts(j) THEN /\ fetched' = fetched \union {j}
                                  /\ result' = result \ {j}
                             ELSE UNCHANGED <<fetched, result>>

\* Which records _cleanup drops: with Aging, any finished one may be past its
\* TTL, and the tombstone of a job that ended, or whose pod died, with nobody
\* left to publish it is a zombie once the query timeout and its grace are
\* over (a publisher is done by then); a record that says "running" but is no
\* tombstone has no submit time and always goes; then the oldest finished ones
\* down to MaxJobs - 1.
Sweeps(gone) ==
  LET undated == {j \in Job : /\ json[j] # None /\ json[j].state = "running"
                              /\ json[j].wall > 0}
      zombies == {j \in Job : /\ json[j] # None /\ json[j].state = "running"
                              /\ work[j] \notin Unfinished
                              /\ \A t \in Thread : ~Busy(t, j, Reporting)}
      fresh(aged) == FinishedRecords \ aged
      excess(aged) == Max({0, Cardinality(fresh(aged)) - MaxJobs + 1})
  IN \E aged \in SUBSET (IF Aging THEN FinishedRecords \union zombies ELSE {}) :
       \E oldest \in kSubset(excess(aged), fresh(aged)) :
         /\ \A j \in oldest, k \in fresh(aged) \ oldest : json[j].wall <= json[k].wall
         /\ gone = undated \union aged \union oldest

\* The store without the dropped jobs: _drop removes the record, the result,
\* the cancel flag and the claim.
Kept(gone) == [j \in Job |-> IF j \in gone THEN None ELSE json[j]]
Drop(gone) ==
  /\ parquet' = parquet \ gone
  /\ \E swept \in SUBSET (IF Aging THEN {j \in Job : claim[j] = "stale"} ELSE {}) :
       claim' = [j \in Job |-> IF j \in gone \union swept THEN "free" ELSE claim[j]]
  \* The owner may be in the middle of a fetch of its own.
  /\ loose' = loose \union {j \in gone : \E t \in Thread : thread[t].mine /\ Busy(t, j, Claimant)}

-----------------------------------------------------------------------------
(* submit().                                                               *)

\* The registry's own _cleanup: with Aging, any job that ended may be past its
\* TTL; then jobs that ended make room for one more, as far as there are any
\* (the code takes them in the order of their submits).
Evicts(r, gone) ==
  LET here == {j \in tracked : home[j] = r}
      ended == {j \in here : work[j] \in Finished}
  IN \E aged \in SUBSET (IF Aging THEN ended ELSE {}) :
       LET excess == Max({0, Cardinality(here \ aged) - MaxJobs + 1})
       IN \E room \in kSubset(Min({excess, Cardinality(ended \ aged)}), ended \ aged) :
            gone = aged \union room

\* The job is registered and its query started; or the submit is refused, by
\* the cap or by the gate of the queries, after it cleaned up (JobRegistry has
\* the race for the last place).
Submit(c, r, j) ==
  /\ thread[c] = Idle /\ home[j] = None
  /\ \E gone \in SUBSET tracked :
       /\ Evicts(r, gone)
       /\ \/ /\ Cardinality({k \in tracked \ gone : home[k] = r}) < MaxJobs
             /\ home' = [home EXCEPT ![j] = r]
             /\ tracked' = (tracked \ gone) \union {j}
             /\ work' = [work EXCEPT ![j] = "starting"]
             /\ Begin(c, "tombstone", r, j, TRUE)
          \/ tracked' = tracked \ gone /\ UNCHANGED <<home, work, thread>>
  /\ UNCHANGED <<asked, fetched, published, result, store, crashes, history>>

\* publish_running, then the watcher; the client learns the id.
Tombstone(c) ==
  LET j == thread[c].job
  IN /\ thread[c].at = "tombstone"
     /\ \E gone \in SUBSET Job :
          /\ Sweeps(gone) /\ Drop(gone)
          /\ json' = [Kept(gone) EXCEPT ![j] = [state |-> "running", fetched |-> FALSE,
                                                file |-> FALSE, wall |-> 0]]
          /\ flag' = (flag \ gone) \ {j}
     /\ thread' = [thread EXCEPT ![c] = Idle,
                                 ![j] = [Idle EXCEPT !.at = "watch", !.on = home[j],
                                                     !.job = j, !.mine = TRUE]]
     /\ UNCHANGED <<registry, query, crashes, handed, touched>>

-----------------------------------------------------------------------------
(* The query's own thread.                                                 *)

Open(j) ==
  /\ work[j] = "starting"
  /\ work' = [work EXCEPT ![j] = "executing"]
  /\ UNCHANGED <<registry, asked, store, thread, crashes, history>>

\* It ends by itself, or because DuckDB raised: never with a result after a
\* cancel.
QueryEnds(j, s) ==
  /\ \/ work[j] = "starting" /\ s = "error"
     \/ work[j] = "executing" /\ s \in IF j \in asked THEN {"cancelled"} ELSE {"done", "error"}
     \/ work[j] = "interrupted" /\ s = "cancelled"
  /\ work' = [work EXCEPT ![j] = s]
  /\ result' = IF s = "done" THEN result \union {j} ELSE result
  /\ UNCHANGED <<home, tracked, asked, fetched, published, store, thread, crashes, history>>

-----------------------------------------------------------------------------
(* status() on the owner, and the publish it carries.  A foreign status    *)
(* only reads the record.                                                  *)

StatusLock(t, r, j) ==
  /\ Reconcile(j)
  /\ thread' = [thread EXCEPT ![t] = [Idle EXCEPT !.at = "sample", !.on = r, !.job = j,
                                                  !.mine = TRUE, !.got = j \in fetched']]
  /\ UNCHANGED <<home, tracked, published, query, store, crashes, history>>

Status(c, r, j) ==
  /\ thread[c] = Idle /\ Known(j) /\ Owns(r, j)
  /\ Routed(RouteStatus, r, j)
  /\ StatusLock(c, r, j)


\* The watcher: wait() returned a finished job.  Its status() looks the job up
\* again, and only reads the store once a submit has evicted it.
WatchEnds(j) ==
  /\ thread[j].at = "watch" /\ work[j] \in Finished
  /\ \/ j \in tracked /\ StatusLock(j, home[j], j)
     \/ j \notin tracked /\ Reply(j)
        /\ UNCHANGED <<registry, query, store, crashes, history>>

\* Seeded bug: the watcher does not stay in its loop after the cancel.
WatchFlagOnce(j) ==
  /\ thread[j].at = "watch" /\ work[j] \in Unfinished /\ j \in flag
  /\ CancelQuery(j)
  /\ Reply(j)
  /\ UNCHANGED <<registry, store, crashes, history>>

\* The watcher saw the cancel flag during a wait.
WatchFlag(j) ==
  /\ thread[j].at = "watch" /\ work[j] \in Unfinished /\ j \in flag
  /\ CancelQuery(j)
  /\ UNCHANGED <<registry, store, thread, crashes, history>>

\* The payload's state; for a result not fetched, its shape as well, which
\* raises when the result was released since the lock.
Sample(t) ==
  LET j == thread[t].job
      state == IF work[j] \in Unfinished THEN "running" ELSE work[j]
  IN /\ thread[t].at = "sample"
     /\ IF state = "done" /\ ~thread[t].got /\ j \notin result
        THEN Reply(t)
        ELSE GoWith(t, "publish", [state |-> state, fetched |-> FALSE,
                                   file |-> FALSE, wall |-> 0], FALSE)
     /\ UNCHANGED <<registry, query, store, crashes, history>>

\* _publish_if_shared: one publish for each job, and none while it runs.
Publish(t) ==
  LET j == thread[t].job
  IN /\ thread[t].at = "publish"
     /\ IF j \in published \/ work[j] \in Unfinished
        THEN Reply(t) /\ UNCHANGED published
        ELSE Go(t, "spool") /\ published' = published \union {j}
     /\ UNCHANGED <<home, tracked, fetched, result, query, store, crashes, history>>

\* publish(): cleanup, and what the record will say of the fetch and the time.
Spool(t) ==
  LET j == thread[t].job
      arrow == work[j] = "done" /\ j \notin fetched /\ j \in result
  IN /\ thread[t].at = "spool"
     /\ \E gone \in SUBSET Job :
          Sweeps(gone) /\ Drop(gone) /\ json' = Kept(gone) /\ flag' = flag \ gone
     /\ GoWith(t, IF arrow THEN "parquet" ELSE "record",
               [thread[t].saw EXCEPT !.fetched = j \in fetched, !.file = arrow,
                                     !.wall = Now], FALSE)
     /\ UNCHANGED <<registry, query, crashes, handed, touched>>

PublishParquet(t) ==
  /\ thread[t].at = "parquet"
  /\ parquet' = parquet \union {thread[t].job}
  /\ Go(t, "record")
  /\ UNCHANGED <<registry, query, json, claim, flag, crashes, history>>

PublishRecord(t) ==
  /\ thread[t].at = "record"
  /\ json' = [json EXCEPT ![thread[t].job] = thread[t].saw]
  /\ Reply(t)
  /\ UNCHANGED <<registry, query, parquet, claim, flag, crashes, history>>

-----------------------------------------------------------------------------
(* take_result() on the owner, _take_shared_result() elsewhere.            *)

\* A finished job whose result nobody fetched, as far as the owner sees.
Take(c, r, j) ==
  /\ thread[c] = Idle /\ Known(j) /\ Owns(r, j)
  /\ Routed(RouteFetch, r, j)
  /\ Reconcile(j)
  /\ IF j \notin fetched' /\ work[j] = "done"
     THEN Begin(c, "claim", r, j, TRUE)
     ELSE UNCHANGED thread
  /\ UNCHANGED <<home, tracked, published, query, store, crashes, history>>

TakeShared(c, r, j) ==
  /\ thread[c] = Idle /\ Known(j) /\ ~Owns(r, j)
  /\ Routed(RouteFetch, r, j)
  /\ json[j] # None
  /\ json[j].state = "done" /\ ~json[j].fetched /\ json[j].file
  /\ Begin(c, "claim", r, j, FALSE)
  /\ UNCHANGED <<registry, query, store, crashes, history>>

\* What follows the claim: the owner has the table, another replica reads it.
Claimed(t) == IF thread[t].mine THEN "arrow" ELSE "read"

\* claim_fetch: the mkdir; a stale directory is looked at first and taken next.
Claim(t) ==
  LET j == thread[t].job
  IN /\ thread[t].at = "claim"
     /\ \/ claim[j] = "free" /\ claim' = [claim EXCEPT ![j] = "held"] /\ Go(t, Claimed(t))
        \/ claim[j] \in {"held", "orphan"} /\ Reply(t) /\ UNCHANGED claim
        \/ claim[j] = "stale" /\ Go(t, "steal") /\ UNCHANGED claim
     /\ UNCHANGED <<registry, query, json, parquet, flag, crashes, history>>

\* The rmdir and the mkdir, whoever has made the directory since the look.
Steal(t) ==
  /\ thread[t].at = "steal"
  /\ claim' = [claim EXCEPT ![thread[t].job] = "held"]
  /\ Go(t, Claimed(t))
  /\ UNCHANGED <<registry, query, json, parquet, flag, crashes, history>>

\* job.result raises when the table was released: the claim stays behind.
Arrow(t) ==
  LET j == thread[t].job
  IN /\ thread[t].at = "arrow"
     /\ IF j \in result
        THEN Go(t, "hand") /\ UNCHANGED claim
        ELSE Reply(t) /\ Abandons({t})
     /\ UNCHANGED <<registry, query, json, parquet, flag, crashes, history>>

\* Seeded bug: the second look at record.fetched is missing.
HandNoRecheck(t) ==
  LET j == thread[t].job
  IN /\ thread[t].at = "hand"
     /\ fetched' = fetched \union {j}
     /\ result' = result \ {j}
     /\ GoWith(t, "markread", None, TRUE)
     /\ UNCHANGED <<home, tracked, published, query, store, crashes, history>>

\* Under the lock: the first to get here hands over, the others only clean up.
Hand(t) ==
  LET j == thread[t].job
  IN /\ thread[t].at = "hand"
     /\ fetched' = fetched \union {j}
     /\ result' = result \ {j}
     /\ GoWith(t, "markread", None, j \notin fetched)
     /\ UNCHANGED <<home, tracked, published, query, store, crashes, history>>

\* read_shared_result; a read that fails is a result that is not there.
ReadParquet(t) ==
  /\ thread[t].at = "read"
  /\ \E read \in BOOLEAN : (read => thread[t].job \in parquet) /\ GoWith(t, "markread", None, read)
  /\ UNCHANGED <<registry, query, store, crashes, history>>

\* Seeded bug: the table is dropped before the record stops naming it.
MarkReadUnlinksFirst(t) ==
  LET j == thread[t].job
  IN /\ thread[t].at = "markread"
     /\ IF json[j] = None THEN Go(t, "unlink")
                          ELSE GoWith(t, "markwrite", json[j], thread[t].got)
     /\ parquet' = parquet \ {j}
     /\ Touches(j)
     /\ UNCHANGED <<registry, query, json, claim, flag, crashes, handed, loose>>

\* mark_fetched: read, rewrite, drop the table, release the claim.
MarkRead(t) ==
  LET j == thread[t].job
  IN /\ thread[t].at = "markread"
     /\ IF json[j] = None THEN Go(t, "unlink")
                          ELSE GoWith(t, "markwrite", json[j], thread[t].got)
     /\ Touches(j)
     /\ UNCHANGED <<registry, query, store, crashes, handed, loose>>

MarkWrite(t) ==
  /\ thread[t].at = "markwrite"
  /\ json' = [json EXCEPT ![thread[t].job] =
                [thread[t].saw EXCEPT !.fetched = TRUE, !.file = FALSE]]
  /\ Go(t, "unlink")
  /\ UNCHANGED <<registry, query, parquet, claim, flag, crashes, history>>

\* Seeded bug: the record is enough, the table stays.
UnlinkSkipped(t) ==
  /\ thread[t].at = "unlink"
  /\ Go(t, "unclaim")
  /\ UNCHANGED <<registry, query, store, crashes, history>>

Unlink(t) ==
  /\ thread[t].at = "unlink"
  /\ parquet' = parquet \ {thread[t].job}
  /\ Go(t, "unclaim")
  /\ UNCHANGED <<registry, query, json, claim, flag, crashes, history>>

\* The claim is released and the client gets the table, or a refusal.
Unclaim(t) ==
  LET j == thread[t].job
  IN /\ thread[t].at = "unclaim"
     /\ claim' = [claim EXCEPT ![j] = "free"]
     /\ IF thread[t].got
        THEN handed' = [handed EXCEPT ![j][IF thread[t].mine THEN "owner" ELSE "store"] = @ + 1]
        ELSE UNCHANGED handed
     /\ Reply(t)
     /\ UNCHANGED <<registry, query, json, parquet, flag, crashes, loose, touched>>

-----------------------------------------------------------------------------
(* cancel(): the owner interrupts, another replica raises the flag; both   *)
(* then rewrite a record that says "running" (mark_cancelled).             *)

CancelLocal(c, r, j) ==
  /\ thread[c] = Idle /\ Known(j) /\ Owns(r, j)
  /\ Routed(RouteCancel, r, j)
  /\ CancelQuery(j)
  /\ Begin(c, "cancelread", r, j, TRUE)
  /\ UNCHANGED <<registry, store, crashes, history>>

CancelShared(c, r, j) ==
  /\ thread[c] = Idle /\ Known(j) /\ ~Owns(r, j)
  /\ Routed(RouteCancel, r, j)
  /\ json[j] # None
  /\ Begin(c, "flag", r, j, FALSE)
  /\ UNCHANGED <<registry, query, store, crashes, history>>

RaiseFlag(c) ==
  /\ thread[c].at = "flag"
  /\ flag' = flag \union {thread[c].job}
  /\ Go(c, "cancelread")
  /\ UNCHANGED <<registry, query, json, parquet, claim, crashes, history>>

CancelRead(c) ==
  LET j == thread[c].job
  IN /\ thread[c].at = "cancelread"
     /\ IF json[j] # None /\ json[j].state = "running"
        THEN GoWith(c, "cancelwrite", json[j], FALSE)
        ELSE Reply(c)
     /\ UNCHANGED <<registry, query, store, crashes, history>>

CancelWrite(c) ==
  /\ thread[c].at = "cancelwrite"
  /\ json' = [json EXCEPT ![thread[c].job] =
                [thread[c].saw EXCEPT !.state = "cancelled", !.file = FALSE, !.wall = Now]]
  /\ Reply(c)
  /\ Touches(thread[c].job)
  /\ UNCHANGED <<registry, query, parquet, claim, flag, crashes, handed, loose>>

-----------------------------------------------------------------------------
(* The environment.                                                        *)

\* A pod dies: its registry, its queries and its threads go, and the replica
\* comes back with an empty registry.  The directory stays as it is.
Crash(r) ==
  LET gone == {t \in Thread : thread[t].on = r}
  IN /\ crashes < MaxCrashes
     /\ crashes' = crashes + 1
     /\ tracked' = {j \in tracked : home[j] # r}
     /\ work' = [j \in Job |-> IF home[j] = r /\ work[j] \in Unfinished
                               THEN "lost" ELSE work[j]]
     /\ result' = {j \in result : home[j] # r}
     /\ Abandons(gone)
     /\ thread' = [t \in Thread |-> IF t \in gone THEN Idle ELSE thread[t]]
     /\ UNCHANGED <<home, asked, fetched, published, json, parquet, flag, history>>

\* A claim gets older than CLAIM_STEAL_SECONDS: it is up for grabs, and two that
\* find it so may both take it.
ClaimAges(j) ==
  /\ Aging
  /\ claim[j] = "orphan" \/ (SlowClaims /\ claim[j] = "held")
  /\ claim' = [claim EXCEPT ![j] = "stale"]
  /\ loose' = loose \union {j}
  /\ UNCHANGED <<registry, query, json, parquet, flag, thread, crashes, handed, touched>>

\* The submit or the publish of a job beyond these cleans up as theirs do: the
\* registry of its replica, or the directory, where its own record and those of
\* its like may be the newer ones, up to the cap.
OtherSubmit(r) ==
  /\ Others
  /\ \E gone \in SUBSET {j \in tracked : home[j] = r /\ work[j] \in Finished} :
       tracked' = tracked \ gone
  /\ UNCHANGED <<home, fetched, published, result, query, store, thread, crashes, history>>

OtherPublish ==
  /\ Others
  /\ \E gone \in {some \union more : some \in {s \in SUBSET Job : Sweeps(s)},
                                      more \in SUBSET FinishedRecords} :
       /\ Drop(gone) /\ json' = Kept(gone) /\ flag' = flag \ gone
  /\ UNCHANGED <<registry, query, thread, crashes, handed, touched>>

-----------------------------------------------------------------------------
Request(c) == \E r \in Replica, j \in Job :
                \/ Submit(c, r, j) \/ Status(c, r, j) \/ Take(c, r, j)
                \/ TakeShared(c, r, j) \/ CancelLocal(c, r, j) \/ CancelShared(c, r, j)

Step(t) == \/ Sample(t) \/ Publish(t) \/ Spool(t) \/ PublishParquet(t) \/ PublishRecord(t)
           \/ Claim(t) \/ Steal(t) \/ Arrow(t) \/ Hand(t) \/ ReadParquet(t)
           \/ MarkRead(t) \/ MarkWrite(t) \/ Unlink(t) \/ Unclaim(t)

ClientStep(c) == Tombstone(c) \/ RaiseFlag(c) \/ CancelRead(c) \/ CancelWrite(c)

Watch(j) == WatchEnds(j) \/ WatchFlag(j)

\* What the query does of itself once it can: open, or unwind an interrupt.
Query(j) == Open(j) \/ (work[j] = "interrupted" /\ QueryEnds(j, "cancelled"))

Next == \/ \E c \in Client : Request(c) \/ ClientStep(c)
        \/ \E t \in Thread : Step(t)
        \/ \E j \in Job : \/ Watch(j) \/ Open(j) \/ ClaimAges(j)
                          \/ \E s \in Finished : QueryEnds(j, s)
        \/ \E r \in Replica : Crash(r) \/ OtherSubmit(r)
        \/ OtherPublish

Spec == Init /\ [][Next]_vars

\* Threads that were started go on; clients need not ask anything, queries
\* need not end by themselves and pods need not die.
FairSpec == /\ Spec
            /\ \A t \in Thread : WF_vars(Step(t))
            /\ \A c \in Client : WF_vars(ClientStep(c))
            /\ \A j \in Job : WF_vars(Watch(j)) /\ WF_vars(Query(j))

-----------------------------------------------------------------------------
(* Properties.                                                             *)

\* What clients see of the deployment is JobHandOver: a result comes only from a
\* query that ended well, once from the owner and once from the store, however
\* fetches, cancels, evictions, cleanups and crashes on any replicas fall
\* together; a second time from the store only when a claim on it was taken for
\* abandoned, or dropped with its job under the owner's own fetch.
HandOver == INSTANCE JobHandOver
  WITH outcome <- [j \in Job |-> IF work[j] \in Unfinished THEN "running" ELSE work[j]]
HandOverKept == HandOver!Spec

\* A reader who finds the record of a result finds the result: the table is
\* written before the record that names it and dropped after the record that no
\* longer does, by cleanups, fetches, cancels and crashes too, unless a cancel
\* dated the record, or a fetch on the owner took the table, before the publish
\* was through.
FileBehindRecord ==
  \A j \in Job \ touched : (json[j] # None /\ json[j].file) => j \in parquet

\* A cancel flagged on any replica stops the query wherever it runs, the
\* connection not open yet included, as the watcher asks again until the query
\* ends; only a cleanup that drops the flag first keeps it from the watcher.
CancelReachesOwner ==
  \A j \in Job : (j \in flag /\ work[j] \in Unfinished) ~> (work[j] \notin Unfinished \/ j \notin flag)


-----------------------------------------------------------------------------
(* What the code's words say, and its steps do not keep (see the README).  *)

\* "Exactly one fetch succeeds cluster-wide" (jobs.py:878).
FetchOnce == \A j \in Job : handed[j]["owner"] + handed[j]["store"] <= 1

\* "A cancel landing on ANY replica reaches the query" (jobs.py:397-399).
CancelAlwaysReaches ==
  \A j \in Job : (j \in flag /\ work[j] \in Unfinished) ~> work[j] \notin Unfinished

\* Replicas that do not own a job do not "report `running` forever"
\* (jobs.py:686-690).
NeverRunningForever ==
  \A j \in Job : work[j] \in Finished ~> (json[j] # None => json[j].state # "running")
=============================================================================
