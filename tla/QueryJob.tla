------------------------------ MODULE QueryJob ------------------------------
(***************************************************************************)
(* The query engine's unit of work and the gate in front of it             *)
(* (sqlhandler/engine.py: _QueryGate, QueryJob, SqlEngine.query_duckdb).   *)
(*                                                                         *)
(* A request thread constructs a QueryJob: the constructor takes a slot of *)
(* the concurrency gate and starts the job's own worker thread.  On the    *)
(* synchronous path the request thread waits for the worker and cancels it *)
(* on a timeout; an asynchronous job is left to run, and any other thread  *)
(* of the pod may cancel it.                                               *)
(*                                                                         *)
(* One action per critical section: what is done under the job's lock, one *)
(* semaphore operation, or one DuckDB call, is one step.                   *)
(***************************************************************************)
EXTENDS Integers, FiniteSets

CONSTANTS Job,             \* the jobs that may be constructed, each once
          Canceller,       \* threads that cancel asynchronous jobs
          MaxConcurrent    \* SQLHANDLER_MAX_CONCURRENT_QUERIES; 0 is unlimited

ASSUME JobsFinite == IsFiniteSet(Job)
ASSUME MaxConcurrentNat == MaxConcurrent \in Nat

VARIABLES sem,         \* value of the gate's semaphore
          at,          \* job -> where its constructor, then its worker, is
          state,       \* job -> _state
          cancelled,   \* jobs with _cancelled set
          con,         \* jobs with a connection to interrupt (_con not None)
          held,        \* jobs that hold a slot (_gate_held)
          hit,         \* jobs whose running statement was interrupted
          handles,     \* <<c, j>>: c read j's connection and will interrupt it
          waiter       \* job -> where the synchronous caller is

vars == <<sem, at, state, cancelled, con, held, hit, handles, waiter>>

Limited == MaxConcurrent > 0

\* Not a job yet: nothing to poll and nothing to cancel.
Unborn == {"none", "queued", "acquired", "refused"}
\* The worker thread is running.
Live == {"spawned", "connected", "executing", "returned", "raised", "recorded", "closed"}

TypeOK ==
  /\ sem \in Nat
  /\ at \in [Job -> Unborn \union Live \union {"ended"}]
  /\ state \in [Job -> {"running", "done", "error", "cancelled"}]
  /\ cancelled \in SUBSET Job
  /\ con \in SUBSET Job
  /\ held \in SUBSET Job
  /\ hit \in SUBSET Job
  /\ handles \in SUBSET (Canceller \X Job)
  /\ waiter \in [Job -> {"none", "waiting", "expired", "interrupting", "grace",
                         "answered", "timedout"}]

Init ==
  /\ sem = MaxConcurrent
  /\ at = [j \in Job |-> "none"]
  /\ state = [j \in Job |-> "running"]
  /\ cancelled = {} /\ con = {} /\ held = {} /\ hit = {} /\ handles = {}
  /\ waiter = [j \in Job |-> "none"]

\* The `state` property: a thread that died without an outcome is an error.
State(j) == IF state[j] = "running" /\ at[j] = "ended" THEN "error" ELSE state[j]

-----------------------------------------------------------------------------
(* The gate and the constructor.                                           *)

TakeSlot(j) == /\ Limited => sem > 0
               /\ sem' = IF Limited THEN sem - 1 ELSE sem
               /\ held' = held \union {j}

FreeSlot(j) == /\ sem' = IF Limited THEN sem + 1 ELSE sem
               /\ held' = held \ {j}

\* A request thread starts to construct j, for itself (query_duckdb) or for a
\* registry of asynchronous jobs.
Construct(j, sync) ==
  /\ at[j] = "none"
  /\ at' = [at EXCEPT ![j] = "queued"]
  /\ waiter' = [waiter EXCEPT ![j] = IF sync THEN "waiting" ELSE "none"]
  /\ UNCHANGED <<sem, state, cancelled, con, held, hit, handles>>

Acquire(j) ==
  /\ at[j] = "queued"
  /\ TakeSlot(j)
  /\ at' = [at EXCEPT ![j] = "acquired"]
  /\ UNCHANGED <<state, cancelled, con, hit, handles, waiter>>

\* SQLHANDLER_QUEUE_TIMEOUT expired with no slot free.
QueueTimeout(j) ==
  /\ at[j] = "queued" /\ Limited /\ sem = 0
  /\ at' = [at EXCEPT ![j] = "refused"]
  /\ waiter' = [waiter EXCEPT ![j] = "none"]
  /\ UNCHANGED <<sem, state, cancelled, con, held, hit, handles>>

StartThread(j) ==
  /\ at[j] = "acquired"
  /\ at' = [at EXCEPT ![j] = "spawned"]
  /\ UNCHANGED <<sem, state, cancelled, con, held, hit, handles, waiter>>

\* Seeded bug: the slot is given back and _gate_held stays set.
StartFailsKeepsFlag(j) ==
  /\ at[j] = "acquired"
  /\ sem' = IF Limited THEN sem + 1 ELSE sem
  /\ at' = [at EXCEPT ![j] = "refused"]
  /\ waiter' = [waiter EXCEPT ![j] = "none"]
  /\ UNCHANGED <<state, cancelled, con, held, hit, handles>>

\* Thread.start() raised: the slot is given back and the constructor raises.
StartFails(j) ==
  /\ at[j] = "acquired"
  /\ FreeSlot(j)
  /\ at' = [at EXCEPT ![j] = "refused"]
  /\ waiter' = [waiter EXCEPT ![j] = "none"]
  /\ UNCHANGED <<state, cancelled, con, hit, handles>>

-----------------------------------------------------------------------------
(* The worker thread (_run).                                               *)

Move(j, from, to) == at[j] = from /\ at' = [at EXCEPT ![j] = to]

Connect(j) ==
  /\ Move(j, "spawned", "connected")
  /\ con' = con \union {j}
  /\ UNCHANGED <<sem, state, cancelled, held, hit, handles, waiter>>

\* Seeded bug: connect() outside the try whose `finally` frees the slot.
ConnectFailsLeaks(j) ==
  /\ Move(j, "spawned", "ended")
  /\ state' = [state EXCEPT ![j] = "error"]
  /\ UNCHANGED <<sem, cancelled, con, held, hit, handles, waiter>>

\* duckdb.connect() raised: an error whatever was asked, and only the slot to
\* give back.
ConnectFails(j) ==
  /\ Move(j, "spawned", "closed")
  /\ state' = [state EXCEPT ![j] = "error"]
  /\ UNCHANGED <<sem, cancelled, con, held, hit, handles, waiter>>

\* Attach, lockdown and schema registration are over; the query runs.  What
\* an interrupt did to the statements before is no concern of this one.
Execute(j) ==
  /\ Move(j, "connected", "executing")
  /\ UNCHANGED <<sem, state, cancelled, con, held, hit, handles, waiter>>

QueryReturns(j) ==
  /\ Move(j, "executing", "returned")
  /\ UNCHANGED <<sem, state, cancelled, con, held, hit, handles, waiter>>

\* Setup or the query raised of its own accord.
QueryRaises(j) ==
  /\ Move(j, "connected", "raised") \/ Move(j, "executing", "raised")
  /\ UNCHANGED <<sem, state, cancelled, con, held, hit, handles, waiter>>

\* DuckDB raises inside the statement that was interrupted.
QueryInterrupted(j) ==
  /\ j \in hit
  /\ Move(j, "executing", "raised")
  /\ UNCHANGED <<sem, state, cancelled, con, held, hit, handles, waiter>>

\* The thread is unwound by something that is not an Exception: the `finally`
\* still runs, no state was recorded.
ThreadDies(j) ==
  /\ Move(j, "connected", "recorded") \/ Move(j, "executing", "recorded")
  /\ UNCHANGED <<sem, state, cancelled, con, held, hit, handles, waiter>>

\* Seeded bug: the finish does not look at _cancelled.
RecordResultAlways(j) ==
  /\ Move(j, "returned", "recorded")
  /\ state' = [state EXCEPT ![j] = "done"]
  /\ UNCHANGED <<sem, cancelled, con, held, hit, handles, waiter>>

RecordResult(j) ==
  /\ Move(j, "returned", "recorded")
  /\ state' = [state EXCEPT ![j] = IF j \in cancelled THEN "cancelled" ELSE "done"]
  /\ UNCHANGED <<sem, cancelled, con, held, hit, handles, waiter>>

RecordError(j) ==
  /\ Move(j, "raised", "recorded")
  /\ state' = [state EXCEPT ![j] = IF j \in cancelled THEN "cancelled" ELSE "error"]
  /\ UNCHANGED <<sem, cancelled, con, held, hit, handles, waiter>>

CloseCon(j) ==
  /\ Move(j, "recorded", "closed")
  /\ con' = con \ {j}
  /\ UNCHANGED <<sem, state, cancelled, held, hit, handles, waiter>>

Release(j) ==
  /\ Move(j, "closed", "ended")
  /\ FreeSlot(j)
  /\ UNCHANGED <<state, cancelled, con, hit, handles, waiter>>

-----------------------------------------------------------------------------
(* cancel(): the flag and the handle under the lock, the interrupt after   *)
(* it.  An interrupt reaches only a statement that is running.             *)

InterruptStatement(j) == hit' = IF at[j] = "executing" THEN hit \union {j} ELSE hit

Cancel(c, j) ==
  /\ at[j] \notin Unborn /\ waiter[j] = "none"
  /\ \A k \in Job : <<c, k>> \notin handles
  /\ cancelled' = cancelled \union {j}
  /\ handles' = IF j \in con THEN handles \union {<<c, j>>} ELSE handles
  /\ UNCHANGED <<sem, at, state, con, held, hit, waiter>>

Interrupt(c, j) ==
  /\ <<c, j>> \in handles
  /\ handles' = handles \ {<<c, j>>}
  /\ InterruptStatement(j)
  /\ UNCHANGED <<sem, at, state, cancelled, con, held, waiter>>

-----------------------------------------------------------------------------
(* The synchronous caller (the end of query_duckdb).                       *)

\* wait() saw the thread end, or the outcome was there when the wait expired.
Answer(j) ==
  /\ waiter[j] = "waiting" /\ at[j] \notin Unborn
  /\ State(j) # "running"
  /\ waiter' = [waiter EXCEPT ![j] = "answered"]
  /\ UNCHANGED <<sem, at, state, cancelled, con, held, hit, handles>>

\* SQLHANDLER_QUERY_TIMEOUT expired on a job still running.
Expire(j) ==
  /\ waiter[j] = "waiting" /\ at[j] \notin Unborn
  /\ State(j) = "running"
  /\ waiter' = [waiter EXCEPT ![j] = "expired"]
  /\ UNCHANGED <<sem, at, state, cancelled, con, held, hit, handles>>

ExpiredCancel(j) ==
  /\ waiter[j] = "expired"
  /\ cancelled' = cancelled \union {j}
  /\ waiter' = [waiter EXCEPT ![j] = IF j \in con THEN "interrupting" ELSE "grace"]
  /\ UNCHANGED <<sem, at, state, con, held, hit, handles>>

ExpiredInterrupt(j) ==
  /\ waiter[j] = "interrupting"
  /\ InterruptStatement(j)
  /\ waiter' = [waiter EXCEPT ![j] = "grace"]
  /\ UNCHANGED <<sem, at, state, cancelled, con, held, handles>>

\* The grace wait is over, the worker ended or not: the caller raises.
GraceOver(j) ==
  /\ waiter[j] = "grace"
  /\ waiter' = [waiter EXCEPT ![j] = "timedout"]
  /\ UNCHANGED <<sem, at, state, cancelled, con, held, hit, handles>>

-----------------------------------------------------------------------------
Constructor(j) == Acquire(j) \/ QueueTimeout(j) \/ StartThread(j) \/ StartFails(j)

\* The worker's own steps, the query's own end aside: it may run for ever.
Worker(j) == \/ Connect(j) \/ ConnectFails(j) \/ Execute(j) \/ QueryInterrupted(j)
             \/ RecordResult(j) \/ RecordError(j) \/ CloseCon(j) \/ Release(j)

QueryEnds(j) == QueryReturns(j) \/ QueryRaises(j) \/ ThreadDies(j)

SyncCaller(j) == \/ Answer(j) \/ Expire(j) \/ ExpiredCancel(j)
                 \/ ExpiredInterrupt(j) \/ GraceOver(j)

Cancelling == \E c \in Canceller, j \in Job : Cancel(c, j) \/ Interrupt(c, j)

Next == \/ \E j \in Job : \/ \E sync \in BOOLEAN : Construct(j, sync)
                          \/ Constructor(j) \/ Worker(j)
                          \/ QueryEnds(j) \/ SyncCaller(j)
        \/ Cancelling

Spec == Init /\ [][Next]_vars

\* Threads that can step do step; nothing makes a query finish by itself.
Fairness == \A j \in Job : /\ WF_vars(Constructor(j)) /\ WF_vars(Worker(j))
                           /\ WF_vars(SyncCaller(j))
                           /\ \A c \in Canceller : WF_vars(Interrupt(c, j))

FairSpec == Spec /\ Fairness

-----------------------------------------------------------------------------
(* Properties.                                                             *)

\* No path through the constructor or the worker (a thread that cannot start,
\* a connection that cannot open, a setup that raises, a thread that dies)
\* loses a slot of the gate or gives one back twice.
SlotsConserved == Limited => sem + Cardinality(held) = MaxConcurrent

\* At most MaxConcurrent workers exist at any time, the ones that are only
\* unwinding included.
GateBound == Limited => Cardinality({j \in Job : at[j] \in Live}) <= MaxConcurrent

\* What a poller and a canceller may rely on: one outcome, kept for ever, and
\* never a result after a cancel that came first.
Outcome == INSTANCE JobOutcome
  WITH outcome <- [j \in Job |-> IF at[j] \in Unborn THEN "none" ELSE State(j)],
       asked <- cancelled
OutcomeKept == Outcome!Spec

\* Whatever fails on the way, a slot comes back once no query runs on it: only a
\* query that executes, with no interrupt that reached it, may keep a slot (the
\* leaks that the comments of __init__ and _run describe).
SlotReturned ==
  \A j \in Job : j \in held ~> (j \notin held \/ (at[j] = "executing" /\ j \notin hit))

\* "On expiry the query is interrupted inside DuckDB (not leaked)" (engine.py,
\* _query_timeout): a caller that was told of the timeout leaves no slot held.
TimeoutFreesSlot == \A j \in Job : waiter[j] = "timedout" ~> j \notin held
=============================================================================
