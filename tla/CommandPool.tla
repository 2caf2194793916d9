------------------------------ MODULE CommandPool ------------------------------
(***************************************************************************)
(* workbench-mcp server.py: run_command on its own thread pool, which      *)
(* answers "busy" and never queues, and sandbox_run on the executor pods,  *)
(* one run to a pod.  The event loop takes calls one at a time; commands   *)
(* run, fail and time out on threads, which may fail to start; clients go  *)
(* away; the operator changes the width of the pool, and pods come and go. *)
(***************************************************************************)
EXTENDS Naturals, FiniteSets

CONSTANTS Command,     \* calls of run_command
          Script,      \* calls of sandbox_run
          Pod,         \* executor pods
          None,
          Widths,      \* values WORKBENCH_EXEC_MAX_CONCURRENCY takes
          MaxPools     \* bound: pools built after each other

ASSUME Calls == Command \intersect Script = {} /\ IsFiniteSet(Command)
ASSUME NoneIsNoPod == None \notin Pod
ASSUME Bounds == Widths \subseteq Nat \ {0} /\ Widths # {} /\ MaxPools \in Nat \ {0}

VARIABLES
  width,     \* the limit as the environment has it
  pools,     \* how many pools have been built
  workers,   \* pool -> its workers, at most; the last pool is the one in use
  threads,   \* pool -> the worker threads it has started
  inflight,  \* _EXEC_INFLIGHT
  at,        \* call -> what becomes of it
  pool,      \* command -> the pool it was handed to, 0 for none
  left,      \* calls whose client has gone away
  failed,    \* commands whose client was told of an error: no thread could be started
  ready,     \* pods that are Ready
  seen,      \* script -> the Ready pods it has listed
  pod,       \* script -> the pod it runs on, or None
  runs       \* pod -> its count in _SANDBOX_INFLIGHT

vars == <<width, pools, workers, threads, inflight, at, pool, left, failed, ready, seen, pod, runs>>
exec == <<width, pools, workers, threads, inflight, pool, failed>>
sandbox == <<ready, seen, pod, runs>>

Call == Command \union Script
CommandSteps == {"new", "queued", "runs", "ended", "answered", "busy"}
ScriptSteps == {"new", "select", "connect", "runs", "release", "answered", "busy"}

TypeOK ==
  /\ width \in Widths /\ pools \in 0..MaxPools
  /\ workers \in [1..MaxPools -> Widths \union {0}]
  /\ threads \in [1..MaxPools -> Nat]
  /\ inflight \in Nat
  /\ at \in [Call -> CommandSteps \union ScriptSteps]
  /\ \A c \in Command : at[c] \in CommandSteps
  /\ \A s \in Script : at[s] \in ScriptSteps
  /\ pool \in [Command -> 0..MaxPools] /\ left \subseteq Call /\ failed \subseteq Command
  /\ ready \subseteq Pod /\ seen \in [Script -> SUBSET Pod]
  /\ pod \in [Script -> Pod \union {None}]
  /\ runs \in [Pod -> Nat]

Init ==
  /\ width \in Widths /\ pools = 0 /\ workers = [g \in 1..MaxPools |-> 0]
  /\ threads = [g \in 1..MaxPools |-> 0] /\ inflight = 0
  /\ at = [c \in Call |-> "new"] /\ pool = [c \in Command |-> 0]
  /\ left = {} /\ failed = {}
  /\ ready = Pod /\ seen = [s \in Script |-> {}]
  /\ pod = [s \in Script |-> None] /\ runs = [p \in Pod |-> 0]

-----------------------------------------------------------------------------
(* Helpers.                                                                *)

Go(c, to) == at' = [at EXCEPT ![c] = to]
Queued(g) == {c \in Command : pool[c] = g /\ at[c] = "queued"}
Running(g) == {c \in Command : pool[c] = g /\ at[c] = "runs"}
Occupied(g) == {c \in Command : pool[c] = g /\ at[c] \in {"runs", "ended"}}

\* Commands in a queue though their submission raised: no thread was started for them.
Stranded == {c \in failed : at[c] = "queued"}
AtWork == {c \in Command : at[c] \in {"queued", "runs"}} \ Stranded
Holding(p) == {s \in Script : pod[s] = p}

-----------------------------------------------------------------------------
(* run_command.                                                            *)

\* _exec_pool: a changed width rebuilds the pool; what the old one has goes on.
ExecPool == IF pools = 0 \/ workers[pools] # width THEN pools + 1 ELSE pools

\* ThreadPoolExecutor.submit: the call is put on the queue; a thread is started for it
\* if none is idle and there may be more, and if that fails, submit raises.
PoolSubmit(c, g) ==
  LET idle == Cardinality(Queued(g)) + Cardinality(Occupied(g)) < threads[g]
      starts == ~idle /\ threads[g] < width
  IN /\ pool' = [pool EXCEPT ![c] = g] /\ Go(c, "queued")
     /\ \/ ~starts /\ UNCHANGED <<threads, failed>>
        \/ starts /\ threads' = [threads EXCEPT ![g] = @ + 1] /\ UNCHANGED failed
        \/ starts /\ failed' = failed \union {c} /\ UNCHANGED threads

\* Counted, and handed to the pool: nothing takes the count back where that raises.
Accept(c) ==
  /\ ExecPool <= MaxPools
  /\ inflight' = inflight + 1
  /\ pools' = ExecPool /\ workers' = [workers EXCEPT ![ExecPool] = width]
  /\ PoolSubmit(c, ExecPool)
Refuse(c) == Go(c, "busy") /\ UNCHANGED <<pools, workers, threads, inflight, pool, failed>>

\* Seeded bug: the pool's queue takes what its workers cannot.
SubmitOneMore(c) ==
  /\ at[c] = "new" /\ c \notin left
  /\ (inflight > width /\ Refuse(c)) \/ (inflight <= width /\ Accept(c))
  /\ UNCHANGED <<width, left, sandbox>>

\* _exec_run, with no await on the way: busy, or counted and handed to the pool.
Submit(c) ==
  /\ at[c] = "new" /\ c \notin left
  /\ (inflight >= width /\ Refuse(c)) \/ (inflight < width /\ Accept(c))
  /\ UNCHANGED <<width, left, sandbox>>

\* Seeded bug: the old pool is shut down with what it has queued.
BeginInLastPool(c) ==
  /\ at[c] = "queued" /\ pool[c] = pools
  /\ Cardinality(Occupied(pool[c])) < threads[pool[c]]
  /\ Go(c, "runs")
  /\ UNCHANGED <<left, exec, sandbox>>

\* A thread of the pool takes the call up, one that raised too.
Begin(c) ==
  /\ at[c] = "queued"
  /\ Cardinality(Occupied(pool[c])) < threads[pool[c]]
  /\ Go(c, "runs")
  /\ UNCHANGED <<left, exec, sandbox>>

\* _run_command refuses, returns, or kills the process at its time limit; whichever,
\* the call is counted off, by its thread, though its client may have left.
End(c) ==
  /\ at[c] = "runs"
  /\ inflight' = inflight - 1
  /\ Go(c, "ended")
  /\ UNCHANGED <<width, pools, workers, threads, pool, left, failed, sandbox>>

\* The worker is free again.
Free(c) ==
  /\ at[c] = "ended"
  /\ Go(c, "answered")
  /\ UNCHANGED <<left, exec, sandbox>>

-----------------------------------------------------------------------------
(* sandbox_run, on a thread of its own.                                    *)

\* The script is checked and the Ready pods are listed; or the call is refused.
List(s) ==
  /\ at[s] = "new" /\ s \notin left
  /\ \/ seen' = [seen EXCEPT ![s] = ready] /\ ready # {} /\ Go(s, "select")
     \/ UNCHANGED seen /\ Go(s, "answered")
  /\ UNCHANGED <<left, ready, pod, runs, exec>>

Idle(s) == {p \in seen[s] : runs[p] = 0}

\* Seeded bug: the count is looked at when the pods are listed.
SelectStale(s) ==
  /\ at[s] = "select"
  /\ \E p \in seen[s] :
       /\ pod' = [pod EXCEPT ![s] = p] /\ runs' = [runs EXCEPT ![p] = @ + 1]
       /\ Go(s, "connect")
  /\ UNCHANGED <<left, ready, seen, exec>>

\* _sandbox_select_pod: an idle pod of those listed, whatever has become of it, or
\* "busy".  Which one, the names tell.
Select(s) ==
  /\ at[s] = "select"
  /\ \/ Idle(s) = {} /\ Go(s, "busy") /\ UNCHANGED <<pod, runs>>
     \/ \E p \in Idle(s) :
          /\ pod' = [pod EXCEPT ![s] = p] /\ runs' = [runs EXCEPT ![p] = @ + 1]
          /\ Go(s, "connect")
  /\ UNCHANGED <<left, ready, seen, exec>>

\* The stream is connected and the script written to it, with no limit on either (the
\* deadline is looked at from the first read on); or it is refused, or fails.
Connect(s) ==
  /\ at[s] = "connect"
  /\ Go(s, "runs") \/ Go(s, "release")
  /\ UNCHANGED <<left, exec, sandbox>>

\* The reading of the stream ends, fails, or comes to its deadline.
Exec(s) ==
  /\ at[s] = "runs" /\ s \in Script
  /\ Go(s, "release")
  /\ UNCHANGED <<left, exec, sandbox>>

\* Seeded bug: a client that has left keeps its pod.
ReleaseUnlessLeft(s) ==
  /\ at[s] = "release"
  /\ runs' = IF s \in left THEN runs ELSE [runs EXCEPT ![pod[s]] = IF @ <= 1 THEN 0 ELSE @ - 1]
  /\ pod' = [pod EXCEPT ![s] = None]
  /\ Go(s, "answered")
  /\ UNCHANGED <<left, ready, seen, exec>>

\* finally: _sandbox_release_pod.
Release(s) ==
  /\ at[s] = "release"
  /\ runs' = [runs EXCEPT ![pod[s]] = IF @ <= 1 THEN 0 ELSE @ - 1]
  /\ pod' = [pod EXCEPT ![s] = None]
  /\ Go(s, "answered")
  /\ UNCHANGED <<left, ready, seen, exec>>

-----------------------------------------------------------------------------
(* The world.                                                              *)

\* The client cancels: the thread, shielded, goes on.
Leave(c) ==
  /\ c \in Call \ left /\ at[c] \notin {"answered", "busy"}
  /\ left' = left \union {c}
  /\ UNCHANGED <<at, exec, sandbox>>

SetWidth(w) ==
  /\ w # width
  /\ width' = w
  /\ UNCHANGED <<pools, workers, threads, inflight, at, pool, left, failed, sandbox>>

\* A pod becomes Ready, or ceases to be.
PodTurns(p) ==
  /\ ready' = IF p \in ready THEN ready \ {p} ELSE ready \union {p}
  /\ UNCHANGED <<at, left, seen, pod, runs, exec>>

CommandStep(c) == Submit(c) \/ Begin(c) \/ End(c) \/ Free(c)
ScriptStep(s) == List(s) \/ Select(s) \/ Connect(s) \/ Exec(s) \/ Release(s)

Next ==
  \/ \E c \in Command : CommandStep(c)
  \/ \E s \in Script : ScriptStep(s)
  \/ \E c \in Call : Leave(c)
  \/ \E w \in Widths : SetWidth(w)
  \/ \E p \in Pod : PodTurns(p)

\* Threads run, a command is killed at its time limit and the reading of a stream given
\* up at its deadline; the Kubernetes API need not answer.
Fairness == /\ \A c \in Command : WF_vars(Begin(c) \/ End(c) \/ Free(c))
            /\ \A s \in Script : WF_vars(Select(s) \/ Exec(s) \/ Release(s))

Spec == Init /\ [][Next]_vars /\ Fairness

-----------------------------------------------------------------------------
(* Properties.                                                             *)

\* "No queue" (1192): a call that was not told "busy" never waits for another's command
\* to end, in whichever pool it is and however the width was changed: some thread of
\* its pool has none to run.  Where a thread of that pool could not be started, a
\* command that nobody waits for is in the queue before it.
NeverQueued ==
  \A c \in Command : at[c] = "queued" /\ (\A d \in failed : pool[d] # pool[c]) =>
    Cardinality(Running(pool[c])) < threads[pool[c]]

\* "A leaked count would permanently shrink the usable pool" (1522): a pod is counted
\* as long as a run holds it, and a command until it has ended, whatever fails, times
\* out, is cancelled or rebuilt; but for those whose thread could not be started
\* (1225), which stay counted, and shrink the pool, until a thread comes for them.
CountsAreExact ==
  /\ inflight = Cardinality(AtWork) + Cardinality(Stranded)
  /\ \A p \in Pod : runs[p] = Cardinality(Holding(p))

\* One run to an idle pod, no queue (1530-1532): two runs of this process never share an executor pod.
OneRunPerPod == \A s, t \in Script : s # t /\ pod[s] # None => pod[s] # pod[t]

\* Every call that was taken up is answered, by rebuilt pools too; a script may wait for
\* its stream to connect, and a command whose submission raised was told at once.
Answered ==
  \A c \in Call : at[c] \in {"queued", "runs", "select", "release"} ~>
                    at[c] \in {"answered", "busy", "connect"} \/ c \in failed
=============================================================================
