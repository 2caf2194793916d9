---------------------------- MODULE JobRegistry ----------------------------
(***************************************************************************)
(* The registry of asynchronous query jobs of one process                  *)
(* (sqlhandler/jobs.py, McpJobManager, without a shared directory): the    *)
(* cap on tracked jobs, which submit() checks before and after the job is  *)
(* constructed outside the lock, the watchdog timer of a job, and the      *)
(* fetch-once hand-over.                                                   *)
(*                                                                         *)
(* One action per section under the registry's lock, and one for what a    *)
(* thread does between two of them.  QueryJob has the inside of a job;     *)
(* here it is what a caller of it sees.                                    *)
(***************************************************************************)
EXTENDS Integers, FiniteSets, FiniteSetsExt

CONSTANTS Job,        \* the jobs that may be constructed, each once
          Client,     \* request threads
          None,
          MaxJobs,    \* SQLHANDLER_MAX_JOBS
          Aging,      \* may a finished job outlive SQLHANDLER_ASYNC_JOB_TTL?
          SlowOpens   \* may a connection take longer than the query timeout?

ASSUME JobsFinite == IsFiniteSet(Job)
ASSUME MaxJobsPositive == MaxJobs \in Nat \ {0}

VARIABLES
  tracked,    \* jobs in _records
  born,       \* job -> its place in the order of registration, 0 before
  timer,      \* job -> its watchdog
  timedOut,   \* jobs with record.timed_out
  fetched,    \* jobs with record.fetched
  work,       \* job -> its QueryJob
  asked,      \* jobs whose QueryJob was cancelled
  result,     \* jobs whose Arrow table is in memory
  lock,       \* the watchdog that is inside the lock, or None
  thread,     \* client -> what its request is doing
  handed      \* job -> times its result was given to a client

records == <<tracked, born, timedOut, fetched>>
query == <<work, asked, result>>
vars == <<records, timer, query, lock, thread, handed>>

Unfinished == {"starting", "executing", "interrupted"}
Finished == {"done", "error", "cancelled"}

Idle == [at |-> "idle", job |-> None]

\* "due": the timer's callback runs and waits for the lock; "firing": it has
\* seen the job running and is about to cancel it.
TypeOK ==
  /\ tracked \in SUBSET Job
  /\ born \in [Job -> Nat]
  /\ timer \in [Job -> {"none", "armed", "due", "firing"}]
  /\ timedOut \in SUBSET Job /\ fetched \in SUBSET Job
  /\ work \in [Job -> {"none"} \union Unfinished \union Finished]
  /\ asked \in SUBSET Job /\ result \in SUBSET Job
  /\ lock \in Job \union {None}
  /\ thread \in [Client -> [at : {"idle", "construct", "register", "arm", "result",
                                  "hand", "interrupt"},
                            job : Job \union {None}]]
  /\ handed \in [Job -> Nat]

Init ==
  /\ tracked = {} /\ born = [j \in Job |-> 0]
  /\ timer = [j \in Job |-> "none"] /\ timedOut = {} /\ fetched = {}
  /\ work = [j \in Job |-> "none"] /\ asked = {} /\ result = {}
  /\ lock = None
  /\ thread = [c \in Client |-> Idle]
  /\ handed = [j \in Job |-> 0]

-----------------------------------------------------------------------------
(* Helpers.                                                                *)

Begin(c, at, j) == thread' = [thread EXCEPT ![c] = [at |-> at, job |-> j]]
Go(c, at) == thread' = [thread EXCEPT ![c].at = at]
Reply(c) == thread' = [thread EXCEPT ![c] = Idle]

Running(j) == work[j] \in Unfinished
Full == Cardinality(tracked) >= MaxJobs
NextPlace == 1 + Cardinality({j \in Job : born[j] > 0})

\* QueryJob.cancel(): only an open connection is interrupted.
CancelQuery(j) ==
  /\ asked' = asked \union {j}
  /\ work' = [work EXCEPT ![j] = IF @ = "executing" THEN "interrupted" ELSE @]
  /\ UNCHANGED result

\* A timer is called off while its callback has not started.
Disarmed(js) == [j \in Job |-> IF j \in js /\ timer[j] = "armed" THEN "none" ELSE timer[j]]

\* Seeded bug: with nothing finished, the first job makes room.
CleanupForced(gone) ==
  \E old \in kSubset(IF Full THEN 1 ELSE 0, tracked) :
    /\ \A j \in old, k \in tracked \ old : born[j] < born[k]
    /\ gone = old

\* A finish time is only recorded for a job that is not reported as timed out.
Dated(j) == ~Running(j) /\ (j \in timedOut => work[j] = "done")

\* _cleanup: finished jobs past their TTL go; then, while the registry is not
\* below its cap, the first finished one in the order of registration.
Cleanup(gone) ==
  \E aged \in SUBSET (IF Aging THEN {j \in tracked : Dated(j)} ELSE {}) :
    LET left == tracked \ aged
        idle == {j \in left : ~Running(j)}
        room == Min({Cardinality(idle), Max({0, Cardinality(left) - MaxJobs + 1})})
    IN \E old \in kSubset(room, idle) :
         /\ \A j \in old, k \in idle \ old : born[j] < born[k]
         /\ gone = aged \union old

-----------------------------------------------------------------------------
(* submit().                                                               *)

\* The first look at the cap, after a cleanup; full means refused.
Submit(c) ==
  /\ thread[c] = Idle /\ lock = None
  /\ \E gone \in SUBSET tracked :
       /\ Cleanup(gone)
       /\ tracked' = tracked \ gone
       /\ timer' = Disarmed({j \in tracked : ~Running(j)})
  /\ IF Cardinality(tracked') >= MaxJobs THEN UNCHANGED thread
                                         ELSE Begin(c, "construct", None)
  /\ UNCHANGED <<born, timedOut, fetched, query, lock, handed>>

\* Outside the lock: the gate is passed and the query's thread started.
Construct(c, j) ==
  /\ thread[c].at = "construct" /\ work[j] = "none"
  /\ work' = [work EXCEPT ![j] = "starting"]
  /\ Begin(c, "register", j)
  /\ UNCHANGED <<records, timer, asked, result, lock, handed>>

\* The gate's queue wait expired, or no thread could be started.
ConstructFails(c) ==
  /\ thread[c].at = "construct"
  /\ Reply(c)
  /\ UNCHANGED <<records, timer, query, lock, handed>>

\* Seeded bug: the cap is not looked at again.
RegisterUnchecked(c) ==
  LET j == thread[c].job
  IN /\ thread[c].at = "register" /\ lock = None
     /\ tracked' = tracked \union {j}
     /\ born' = [born EXCEPT ![j] = NextPlace]
     /\ Go(c, "arm")
     /\ UNCHANGED <<timer, timedOut, fetched, query, lock, handed>>

\* Seeded bug: the loser of the race is refused and its query left alone.
RegisterDropsLoser(c) ==
  LET j == thread[c].job
  IN /\ thread[c].at = "register" /\ lock = None
     /\ IF Full
        THEN Reply(c) /\ UNCHANGED <<tracked, born, query>>
        ELSE /\ tracked' = tracked \union {j}
             /\ born' = [born EXCEPT ![j] = NextPlace]
             /\ Go(c, "arm")
             /\ UNCHANGED query
     /\ UNCHANGED <<timer, timedOut, fetched, lock, handed>>

\* The second look: a racing submit may have filled the last place.
Register(c) ==
  LET j == thread[c].job
  IN /\ thread[c].at = "register" /\ lock = None
     /\ IF Full
        THEN CancelQuery(j) /\ Reply(c) /\ UNCHANGED <<tracked, born>>
        ELSE /\ tracked' = tracked \union {j}
             /\ born' = [born EXCEPT ![j] = NextPlace]
             /\ Go(c, "arm")
             /\ UNCHANGED query
     /\ UNCHANGED <<timer, timedOut, fetched, lock, handed>>

\* The watchdog is armed, and the client told the id.
Arm(c) ==
  /\ thread[c].at = "arm" /\ lock = None
  /\ timer' = [timer EXCEPT ![thread[c].job] = "armed"]
  /\ Reply(c)
  /\ UNCHANGED <<records, query, lock, handed>>

-----------------------------------------------------------------------------
(* The query's own thread.                                                 *)

Open(j) ==
  /\ work[j] = "starting"
  /\ work' = [work EXCEPT ![j] = "executing"]
  /\ UNCHANGED <<records, timer, asked, result, lock, thread, handed>>

QueryEnds(j, s) ==
  /\ \/ work[j] = "starting" /\ s = "error"
     \/ work[j] = "executing" /\ s \in IF j \in asked THEN {"cancelled"} ELSE {"done", "error"}
     \/ work[j] = "interrupted" /\ s = "cancelled"
  /\ work' = [work EXCEPT ![j] = s]
  /\ result' = IF s = "done" THEN result \union {j} ELSE result
  /\ UNCHANGED <<records, timer, asked, lock, thread, handed>>

-----------------------------------------------------------------------------
(* The watchdog (_expire).                                                 *)

\* SQLHANDLER_QUERY_TIMEOUT after the timer was armed.
TimerFires(j) ==
  /\ timer[j] = "armed"
  /\ SlowOpens \/ work[j] # "starting"
  /\ timer' = [timer EXCEPT ![j] = "due"]
  /\ UNCHANGED <<records, query, lock, thread, handed>>

\* Under the lock: a job that runs is going to be cancelled.
ExpireLook(j) ==
  /\ timer[j] = "due" /\ lock = None
  /\ IF j \in tracked /\ Running(j)
     THEN timer' = [timer EXCEPT ![j] = "firing"] /\ lock' = j
     ELSE timer' = [timer EXCEPT ![j] = "none"] /\ UNCHANGED lock
  /\ UNCHANGED <<records, query, thread, handed>>

\* Seeded bug: the record says timed out, and nobody interrupts the query.
ExpireCancelMarksOnly(j) ==
  /\ timer[j] = "firing"
  /\ timedOut' = timedOut \union {j}
  /\ timer' = [timer EXCEPT ![j] = "none"]
  /\ lock' = None
  /\ UNCHANGED <<tracked, born, fetched, query, thread, handed>>

ExpireCancel(j) ==
  /\ timer[j] = "firing"
  /\ CancelQuery(j)
  /\ timedOut' = timedOut \union {j}
  /\ timer' = [timer EXCEPT ![j] = "none"]
  /\ lock' = None
  /\ UNCHANGED <<tracked, born, fetched, thread, handed>>

-----------------------------------------------------------------------------
(* status(), take_result(), cancel().                                      *)

\* A poll calls the watchdog of a finished job off.
Status(j) ==
  /\ j \in tracked /\ lock = None
  /\ ~Running(j) /\ timer[j] = "armed"
  /\ timer' = Disarmed({j})
  /\ UNCHANGED <<records, query, lock, thread, handed>>

\* A job that is done, did not time out, and was not fetched.
Take(c, j) ==
  /\ thread[c] = Idle /\ lock = None
  /\ j \in tracked \ fetched
  /\ timer' = IF Running(j) THEN timer ELSE Disarmed({j})
  /\ IF j \notin timedOut /\ work[j] = "done" THEN Begin(c, "result", j)
                                              ELSE UNCHANGED thread
  /\ UNCHANGED <<records, query, lock, handed>>

\* job.result raises when another fetch released the table.
TakeTable(c) ==
  /\ thread[c].at = "result"
  /\ IF thread[c].job \in result THEN Go(c, "hand") ELSE Reply(c)
  /\ UNCHANGED <<records, timer, query, lock, handed>>

\* Seeded bug: the second look at record.fetched is missing.
HandUnchecked(c) ==
  LET j == thread[c].job
  IN /\ thread[c].at = "hand" /\ lock = None
     /\ fetched' = fetched \union {j}
     /\ result' = result \ {j}
     /\ handed' = [handed EXCEPT ![j] = @ + 1]
     /\ Reply(c)
     /\ UNCHANGED <<tracked, born, timedOut, timer, work, asked, lock>>

\* Under the lock: one thread hands the table over and frees it.
Hand(c) ==
  LET j == thread[c].job
  IN /\ thread[c].at = "hand" /\ lock = None
     /\ fetched' = fetched \union {j}
     /\ result' = result \ {j}
     /\ handed' = IF j \in fetched THEN handed ELSE [handed EXCEPT ![j] = @ + 1]
     /\ Reply(c)
     /\ UNCHANGED <<tracked, born, timedOut, timer, work, asked, lock>>

\* The watchdog is called off, whatever becomes of the cancel.
Cancel(c, j) ==
  /\ thread[c] = Idle /\ lock = None
  /\ j \in tracked
  /\ timer' = Disarmed({j})
  /\ Begin(c, "interrupt", j)
  /\ UNCHANGED <<records, query, lock, handed>>

Interrupt(c) ==
  /\ thread[c].at = "interrupt"
  /\ CancelQuery(thread[c].job)
  /\ Reply(c)
  /\ UNCHANGED <<records, timer, lock, handed>>

-----------------------------------------------------------------------------
Request(c) == \/ Submit(c)
              \/ \E j \in Job : Take(c, j) \/ Cancel(c, j)

ClientStep(c) == \/ \E j \in Job : Construct(c, j)
                 \/ ConstructFails(c)
                 \/ Register(c) \/ Arm(c) \/ TakeTable(c) \/ Hand(c) \/ Interrupt(c)

Watchdog(j) == TimerFires(j) \/ ExpireLook(j) \/ ExpireCancel(j)

\* What the query does of itself once it can: open, or unwind an interrupt.
Query(j) == Open(j) \/ (work[j] = "interrupted" /\ QueryEnds(j, "cancelled"))

Next == \/ \E c \in Client : Request(c) \/ ClientStep(c)
        \/ \E j \in Job : \/ Watchdog(j) \/ Open(j) \/ Status(j)
                          \/ \E s \in Finished : QueryEnds(j, s)

Spec == Init /\ [][Next]_vars

\* Threads and timers go on; nobody need ask anything, and a query need not
\* end by itself.
FairSpec == /\ Spec
            /\ \A c \in Client : WF_vars(ClientStep(c))
            /\ \A j \in Job : WF_vars(Watchdog(j)) /\ WF_vars(Query(j))

-----------------------------------------------------------------------------
(* Properties.                                                             *)

\* "Bounded registry": two submits that both saw the last place free do not
\* both get it.
RegistryBounded == Cardinality(tracked) <= MaxJobs

\* No query runs that nobody will see or stop: it is tracked, or its submit is
\* under way, or it was cancelled.
NoOrphan ==
  \A j \in Job : Running(j) =>
    \/ j \in tracked \/ j \in asked
    \/ \E c \in Client : thread[c] = [at |-> "register", job |-> j]

\* "a registry full of RUNNING jobs is refused at submit time, never
\* force-evicted" (_cleanup).
RunningNeverEvicted == [][\A j \in tracked : Running(j) => j \in tracked']_vars

\* The contract of the clients: a result comes from a query that ended well,
\* and once, whatever fetches, evictions and timeouts overlap.  One process has
\* the owner's way only, and no claims.
HandOver == INSTANCE JobHandOver
  WITH outcome <- [j \in Job |-> IF Running(j) THEN "running" ELSE work[j]],
       Way <- {"owner"},
       handed <- [j \in Job |-> [w \in {"owner"} |-> handed[j]]],
       loose <- {}
HandOverKept == HandOver!Spec

\* An open query with a watchdog ends although nobody polls it and it would
\* run for ever: the timer is only called off by what stops the query itself.
WatchedQueryEnds ==
  \A j \in Job : (work[j] = "executing" /\ timer[j] # "none") ~> ~Running(j)
=============================================================================
