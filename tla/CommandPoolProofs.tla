--------------------------- MODULE CommandPoolProofs ---------------------------
(***************************************************************************)
(* Proofs about CommandPool, for any calls, pods, widths and number of     *)
(* pools: the counters are exact, no command queues behind another, and    *)
(* no pod has two runs.                                                    *)
(***************************************************************************)
EXTENDS CommandPool, FiniteSetTheorems, TLAPS

\* Calls that have yet to be counted off, and those of them handed to pool g.
InFlight == {c \in Command : at[c] \in {"queued", "runs"}}
InPool(g) == {c \in Command : pool[c] = g /\ at[c] \in {"queued", "runs"}}

-----------------------------------------------------------------------------
(* The invariant, in two halves that share only at and left.               *)

CommandTypes ==
  /\ width \in Widths /\ pools \in 0..MaxPools
  /\ workers \in [1..MaxPools -> Widths \union {0}]
  /\ threads \in [1..MaxPools -> Nat]
  /\ inflight \in Nat
  /\ at \in [Call -> CommandSteps \union ScriptSteps]
  /\ \A c \in Command : at[c] \in CommandSteps
  /\ pool \in [Command -> 0..MaxPools] /\ left \subseteq Call /\ failed \subseteq Command

\* A command in a pool is in one of those built, and none has failed before it got there.
PoolKnown == \A c \in Command :
  /\ pool[c] <= pools
  /\ at[c] = "new" => c \notin failed
  /\ at[c] \in {"queued", "runs", "ended"} => pool[c] # 0

Counted == inflight = Cardinality(InFlight)

\* No pool has more than its workers can run.
Roomy == \A g \in 1..MaxPools : Cardinality(InPool(g)) <= workers[g]

\* A pool whose threads have all started has one for each call.
Whole(g) == \A d \in failed : pool[d] # g
Staffed == \A g \in 1..MaxPools : Whole(g) => Cardinality(InPool(g)) <= threads[g]

CommandInv == CommandTypes /\ PoolKnown /\ Counted /\ Roomy /\ Staffed

ScriptTypes ==
  /\ at \in [Call -> CommandSteps \union ScriptSteps]
  /\ \A s \in Script : at[s] \in ScriptSteps
  /\ ready \subseteq Pod /\ seen \in [Script -> SUBSET Pod]
  /\ pod \in [Script -> Pod \union {None}]
  /\ runs \in [Pod -> 0..1]

\* A pod is held from its choice to its release, and counted while it is held.
HeldWhileRun == \A s \in Script : pod[s] # None <=> at[s] \in {"connect", "runs", "release"}
HeldCounted == \A s \in Script : pod[s] # None => runs[pod[s]] = 1
CountedHeld == \A p \in Pod : runs[p] = 1 => \E s \in Script : pod[s] = p

ScriptInv == ScriptTypes /\ HeldWhileRun /\ HeldCounted /\ CountedHeld /\ OneRunPerPod

-----------------------------------------------------------------------------
(* Sets of commands.                                                       *)

LEMMA CommandsFinite ==
  /\ IsFiniteSet(InFlight) /\ Cardinality(InFlight) \in Nat
  /\ \A g : /\ IsFiniteSet(InPool(g)) /\ Cardinality(InPool(g)) \in Nat
            /\ Cardinality(InPool(g)) <= Cardinality(InFlight)
  <1>1. IsFiniteSet(InFlight)
    BY Calls, FS_Subset DEF InFlight
  <1>2. ASSUME NEW g PROVE IsFiniteSet(InPool(g)) /\ Cardinality(InPool(g)) <= Cardinality(InFlight)
    BY <1>1, FS_Subset DEF InFlight, InPool
  <1> QED
    BY <1>1, <1>2, FS_CardinalityType

\* A pool with a command in its queue runs fewer than it has room for.
LEMMA QueuedLeavesRoom ==
  ASSUME NEW c \in Command, at[c] = "queued"
  PROVE  Cardinality(Running(pool[c])) < Cardinality(InPool(pool[c]))
  <1>1. /\ IsFiniteSet(InPool(pool[c]) \ {c})
        /\ Cardinality(InPool(pool[c]) \ {c}) = Cardinality(InPool(pool[c])) - 1
    BY ZenonT(40), CommandsFinite, FS_RemoveElement DEF InPool
  <1>2. Running(pool[c]) \subseteq InPool(pool[c]) \ {c}
    BY DEF Running, InPool
  <1>3. Cardinality(Running(pool[c])) <= Cardinality(InPool(pool[c]) \ {c})
        /\ Cardinality(Running(pool[c])) \in Nat
    BY <1>1, <1>2, FS_Subset, FS_CardinalityType
  <1> QED
    BY <1>1, <1>3, CommandsFinite

-----------------------------------------------------------------------------
(* Commands.                                                               *)

\* A width is a number, and so is the room in a pool.
LEMMA RoomIsNat == ASSUME NEW w \in Widths \union {0} PROVE w \in Nat
  BY Bounds

LEMMA CommandInit == Init => CommandInv
  <1> SUFFICES ASSUME Init PROVE CommandInv
    OBVIOUS
  <1>1. CommandTypes /\ PoolKnown
    BY Bounds DEF Init, CommandTypes, PoolKnown, Call, CommandSteps
  <1>2. InFlight = {} /\ \A g : InPool(g) = {}
    BY DEF Init, InFlight, InPool, Call
  <1>3. Counted /\ Roomy /\ Staffed
    <2>1. \A g \in 1..MaxPools : workers[g] = 0 /\ threads[g] = 0
      BY DEF Init
    <2>2. Cardinality(InFlight) = 0 /\ \A g : Cardinality(InPool(g)) = 0
      BY <1>2, FS_EmptySet
    <2>3. inflight = 0
      BY DEF Init
    <2> QED
      BY <2>1, <2>2, <2>3 DEF Counted, Roomy, Staffed
  <1> QED
    BY <1>1, <1>3 DEF CommandInv

\* What no command does leaves the invariant alone.
LEMMA CommandsElsewhere ==
  ASSUME CommandInv, UNCHANGED <<pools, workers, threads, inflight, pool, failed>>,
         width' \in Widths, left' \subseteq Call,
         at' \in [Call -> CommandSteps \union ScriptSteps],
         \A c \in Command : at'[c] = at[c]
  PROVE  CommandInv'
  <1>1. InFlight' = InFlight /\ \A g : InPool(g)' = InPool(g)
    BY DEF InFlight, InPool
  <1> QED
    BY <1>1 DEF CommandInv, CommandTypes, PoolKnown, Counted, Roomy, Staffed, Whole

\* A thread that is idle, or one started for the call, or as many as there may be.
LEMMA PoolHasThread ==
  ASSUME CommandInv, NEW c \in Command, at[c] = "new", NEW g \in 1..MaxPools,
         PoolSubmit(c, g), InPool(g)' = InPool(g) \union {c}, Whole(g)',
         Cardinality(InPool(g)') = Cardinality(InPool(g)) + 1, Cardinality(InPool(g)') <= width
  PROVE  Cardinality(InPool(g)') <= threads'[g]
  <1>1. c \notin failed' /\ Whole(g)
    <2>1. pool' = [pool EXCEPT ![c] = g] /\ failed \subseteq failed'
      BY DEF PoolSubmit
    <2>2. c \notin failed'
      BY <2>1 DEF Whole, CommandInv, CommandTypes
    <2>3. ASSUME NEW d \in failed PROVE pool[d] # g
      BY <2>1, <2>2, <2>3 DEF Whole, CommandInv, CommandTypes
    <2> QED
      BY <2>2, <2>3 DEF Whole
  <1>2. Cardinality(InPool(g)) <= threads[g] /\ threads[g] \in Nat /\ width \in Nat /\ threads \in [1..MaxPools -> Nat]
    BY <1>1, Bounds DEF CommandInv, CommandTypes, Staffed
  <1>3. Cardinality(InPool(g)) <= Cardinality(Queued(g)) + Cardinality(Occupied(g))
    <2>1. IsFiniteSet(Queued(g)) /\ IsFiniteSet(Occupied(g))
      BY Calls, FS_Subset DEF Queued, Occupied
    <2>2. /\ IsFiniteSet(Queued(g) \union Occupied(g)) /\ IsFiniteSet(Queued(g) \intersect Occupied(g))
          /\ Cardinality(Queued(g) \union Occupied(g)) =
               Cardinality(Queued(g)) + Cardinality(Occupied(g)) - Cardinality(Queued(g) \intersect Occupied(g))
      BY <2>1, FS_Union, FS_Intersection
    <2>3. InPool(g) \subseteq Queued(g) \union Occupied(g)
      BY DEF InPool, Queued, Occupied
    <2>4. Cardinality(InPool(g)) <= Cardinality(Queued(g) \union Occupied(g))
      BY <2>2, <2>3, FS_Subset
    <2> QED
      BY <2>1, <2>2, <2>4, CommandsFinite, FS_CardinalityType
  <1>4. /\ Cardinality(Queued(g)) \in Nat /\ Cardinality(Occupied(g)) \in Nat
        /\ Cardinality(InPool(g)) \in Nat
    BY Calls, FS_Subset, FS_CardinalityType, CommandsFinite DEF Queued, Occupied
  <1>5. \/ Cardinality(Queued(g)) + Cardinality(Occupied(g)) < threads[g] /\ threads' = threads
        \/ ~(threads[g] < width) /\ threads' = threads
        \/ threads'[g] = threads[g] + 1
    BY <1>1, <1>2 DEF PoolSubmit
  <1> DEFINE n == Cardinality(InPool(g))  q == Cardinality(Queued(g))  o == Cardinality(Occupied(g))
  <1>6. n <= threads[g] /\ n <= q + o /\ n \in Nat /\ q \in Nat /\ o \in Nat /\ n + 1 <= width
    BY <1>2, <1>3, <1>4
  <1> DEFINE t == threads[g]  u == threads'[g]
  <1>7. /\ \/ q + o < t /\ u = t
           \/ ~(t < width) /\ u = t
           \/ u = t + 1
        /\ t \in Nat /\ width \in Nat
    BY <1>2, <1>5
  <1>8. n <= t
    BY <1>6
  <1> HIDE DEF n, q, o, t, u
  <1>9. n + 1 <= u
    BY <1>6, <1>7, <1>8
  <1> QED
    BY <1>9 DEF n, u

LEMMA SubmitKeeps ==
  ASSUME CommandInv, NEW c \in Command, Submit(c)
  PROVE  CommandInv'
  <1> USE DEF CommandInv, Go
  <1>1. CASE inflight >= width /\ Refuse(c)
    <2>1. CommandTypes' /\ PoolKnown'
      BY <1>1 DEF Submit, Refuse, CommandTypes, PoolKnown, Call, CommandSteps
    <2>2. InFlight' = InFlight /\ \A g : InPool(g)' = InPool(g)
      BY <1>1 DEF Submit, Refuse, CommandTypes, InFlight, InPool, Call
    <2> QED
      BY <1>1, <2>1, <2>2 DEF Refuse, Counted, Roomy, Staffed, Whole
  <1>2. CASE inflight < width /\ Accept(c)
    <2>1. PICK g \in 1..MaxPools :
            /\ pools' = g /\ pools <= g
            /\ workers' = [workers EXCEPT ![g] = width]
            /\ pool' = [pool EXCEPT ![c] = g] /\ PoolSubmit(c, g)
      <3>1. ExecPool \in 1..MaxPools /\ pools <= ExecPool
        BY <1>2, Bounds DEF Accept, ExecPool, CommandTypes
      <3> QED
        BY <1>2, <3>1 DEF Accept, PoolSubmit
    <2>2. at' = [at EXCEPT ![c] = "queued"] /\ at[c] = "new" /\ c \in Call
      BY <1>2, <2>1 DEF Submit, PoolSubmit, Call
    <2>9. /\ threads' \in [1..MaxPools -> Nat] /\ failed' \in {failed, failed \union {c}}
          /\ \A h \in 1..MaxPools \ {g} : threads'[h] = threads[h]
      <3>1. failed' \in {failed, failed \union {c}}
        BY <2>1 DEF PoolSubmit
      <3>2. threads' = threads \/ threads' = [threads EXCEPT ![g] = @ + 1]
        BY <2>1 DEF PoolSubmit
      <3>3. threads \in [1..MaxPools -> Nat] /\ threads[g] + 1 \in Nat
        BY <2>1 DEF CommandTypes
      <3> QED
        BY <3>1, <3>2, <3>3
    <2>3. CommandTypes'
      BY <1>2, <2>1, <2>2, <2>9 DEF Submit, Accept, CommandTypes, CommandSteps
    <2>4. PoolKnown'
      <3> SUFFICES ASSUME NEW d \in Command
                   PROVE  /\ pool'[d] <= pools' /\ (at'[d] \in {"queued", "runs", "ended"} => pool'[d] # 0)
                          /\ at'[d] = "new" => d \notin failed'
        BY DEF PoolKnown
      <3>1. CASE d = c
        BY <3>1, <2>1, <2>2 DEF CommandTypes, Call
      <3>2. CASE d # c
        BY <3>2, <2>1, <2>2, <2>9 DEF PoolKnown, CommandTypes, Call
      <3> QED
        BY <3>1, <3>2
    <2>5. InFlight' = InFlight \union {c} /\ c \notin InFlight
      BY <2>2 DEF InFlight, CommandTypes, Call
    <2>6. Counted'
      BY <1>2, <2>5, CommandsFinite, FS_AddElement DEF Accept, Counted, CommandTypes
    <2>7. Roomy'
      <3> SUFFICES ASSUME NEW h \in 1..MaxPools
                   PROVE  Cardinality(InPool(h)') <= workers'[h]
        BY DEF Roomy
      <3>1. CASE h # g
        <4>1. InPool(h)' = InPool(h)
          BY <3>1, <2>1, <2>2 DEF InPool, CommandTypes, Call
        <4> QED
          BY <3>1, <4>1, <2>1 DEF Roomy, CommandTypes
      <3>2. CASE h = g
        <4>1. InPool(g)' = InPool(g) \union {c} /\ c \notin InPool(g)
          BY <2>1, <2>2 DEF InPool, CommandTypes, Call
        <4>2. Cardinality(InPool(g)') = Cardinality(InPool(g)) + 1
          BY <4>1, CommandsFinite, FS_AddElement
        <4>3. Cardinality(InPool(g)) <= inflight
          BY CommandsFinite DEF Counted
        <4> QED
          <5>1. workers'[g] = width /\ width \in Nat /\ inflight \in Nat
            BY <2>1, Bounds DEF CommandTypes
          <5> QED
            BY <1>2, <3>2, <4>2, <4>3, <5>1, CommandsFinite
      <3> QED
        BY <3>1, <3>2
    <2>8. Staffed'
      <3> SUFFICES ASSUME NEW h \in 1..MaxPools, Whole(h)'
                   PROVE  Cardinality(InPool(h)') <= threads'[h]
        BY DEF Staffed
      <3>1. CASE h # g
        <4>1. InPool(h)' = InPool(h)
          BY <3>1, <2>1, <2>2 DEF InPool, CommandTypes, Call
        <4>2. Whole(h)
          BY <2>1, <2>2, <2>9 DEF Whole, CommandTypes, PoolKnown
        <4> QED
          BY <3>1, <4>1, <4>2, <2>9 DEF Staffed
      <3>2. CASE h = g
        <4>1. InPool(g)' = InPool(g) \union {c} /\ c \notin InPool(g)
          BY <2>1, <2>2 DEF InPool, CommandTypes, Call
        <4>2. Cardinality(InPool(g)') = Cardinality(InPool(g)) + 1
          BY <4>1, CommandsFinite, FS_AddElement
        <4>3. Cardinality(InPool(g)') <= width
          BY <2>1, <2>7 DEF Roomy, CommandTypes
        <4> QED
          BY <2>1, <2>2, <3>2, <4>1, <4>2, <4>3, PoolHasThread
      <3> QED
        BY <3>1, <3>2
    <2> QED
      BY <2>3, <2>4, <2>6, <2>7, <2>8
  <1> QED
    BY <1>1, <1>2 DEF Submit

LEMMA BeginKeeps ==
  ASSUME CommandInv, NEW c \in Command, Begin(c)
  PROVE  CommandInv'
  <1> USE DEF CommandInv, Go
  <1>1. CommandTypes' /\ PoolKnown'
    BY DEF Begin, exec, CommandTypes, PoolKnown, Call, CommandSteps
  <1>2. InFlight' = InFlight /\ \A g : InPool(g)' = InPool(g)
    BY DEF Begin, exec, CommandTypes, InFlight, InPool, Call
  <1> QED
    BY <1>1, <1>2 DEF Begin, exec, Counted, Roomy, Staffed, Whole

LEMMA EndKeeps ==
  ASSUME CommandInv, NEW c \in Command, End(c)
  PROVE  CommandInv'
  <1> USE DEF CommandInv, Go
  <1>1. InFlight' = InFlight \ {c} /\ c \in InFlight
    BY DEF End, CommandTypes, InFlight, Call
  <1>2. Cardinality(InFlight') = Cardinality(InFlight) - 1
    BY <1>1, CommandsFinite, FS_RemoveElement
  <1>3. Cardinality(InFlight) # 0
    BY <1>1, CommandsFinite, FS_EmptySet
  <1>4. Counted' /\ inflight' \in Nat
    BY <1>2, <1>3, CommandsFinite DEF End, Counted
  <1>5. CommandTypes' /\ PoolKnown'
    BY <1>4 DEF End, CommandTypes, PoolKnown, Call, CommandSteps
  <1>6. Roomy' /\ Staffed'
    <2> SUFFICES ASSUME NEW g \in 1..MaxPools
                 PROVE  /\ Cardinality(InPool(g)') <= workers'[g]
                        /\ Whole(g)' => Cardinality(InPool(g)') <= threads'[g]
      BY DEF Roomy, Staffed
    <2>1. InPool(g)' \subseteq InPool(g)
      BY DEF End, CommandTypes, InPool, Call
    <2>2. Cardinality(InPool(g)') <= Cardinality(InPool(g)) /\ Cardinality(InPool(g)') \in Nat
      BY <2>1, CommandsFinite, FS_Subset, FS_CardinalityType
    <2>3. workers'[g] = workers[g] /\ workers[g] \in Nat
      <3>1. workers' = workers
        BY DEF End
      <3>2. workers[g] \in Widths \union {0}
        BY DEF CommandTypes
      <3>3. workers[g] \in Nat
        BY ONLY <3>2, RoomIsNat
      <3> QED
        BY <3>1, <3>3
    <2>4. Cardinality(InPool(g)') <= workers'[g]
      BY <2>2, <2>3, CommandsFinite DEF Roomy
    <2>5. threads'[g] = threads[g] /\ threads[g] \in Nat /\ (Whole(g)' => Whole(g))
      BY DEF End, CommandTypes, Whole
    <2>6. Whole(g)' => Cardinality(InPool(g)') <= threads'[g]
      BY <2>2, <2>5, CommandsFinite DEF Staffed
    <2> QED
      BY <2>4, <2>6
  <1> QED
    BY <1>4, <1>5, <1>6

LEMMA FreeKeeps ==
  ASSUME CommandInv, NEW c \in Command, Free(c)
  PROVE  CommandInv'
  <1> USE DEF CommandInv, Go
  <1>1. CommandTypes' /\ PoolKnown'
    BY DEF Free, exec, CommandTypes, PoolKnown, Call, CommandSteps
  <1>2. InFlight' = InFlight /\ \A g : InPool(g)' = InPool(g)
    BY DEF Free, exec, CommandTypes, InFlight, InPool, Call
  <1> QED
    BY <1>1, <1>2 DEF Free, exec, Counted, Roomy, Staffed, Whole

LEMMA CommandStepKeeps == CommandInv /\ [Next]_vars => CommandInv'
  <1> SUFFICES ASSUME CommandInv, [Next]_vars PROVE CommandInv'
    OBVIOUS
  <1>1. ASSUME NEW c \in Command, CommandStep(c) PROVE CommandInv'
    BY <1>1, SubmitKeeps, BeginKeeps, EndKeeps, FreeKeeps DEF CommandStep
  <1>2. ASSUME NEW s \in Script, ScriptStep(s) PROVE CommandInv'
    <2>1. UNCHANGED <<width, left, exec>> /\ \E to \in ScriptSteps : at' = [at EXCEPT ![s] = to]
      BY <1>2 DEF ScriptStep, List, Select, Connect, Exec, Release, Go, ScriptSteps, exec
    <2>2. at' \in [Call -> CommandSteps \union ScriptSteps] /\ \A c \in Command : at'[c] = at[c]
      BY <2>1, Calls DEF CommandInv, CommandTypes, Call
    <2> QED
      BY <2>1, <2>2, CommandsElsewhere DEF exec, CommandInv, CommandTypes
  <1>3. ASSUME NEW c \in Call, Leave(c) PROVE CommandInv'
    BY <1>3, CommandsElsewhere DEF Leave, exec, CommandInv, CommandTypes
  <1>4. ASSUME NEW w \in Widths, SetWidth(w) PROVE CommandInv'
    BY <1>4, CommandsElsewhere DEF SetWidth, CommandInv, CommandTypes
  <1>5. ASSUME NEW p \in Pod, PodTurns(p) PROVE CommandInv'
    BY <1>5, CommandsElsewhere DEF PodTurns, exec, CommandInv, CommandTypes
  <1>6. CASE UNCHANGED vars
    BY <1>6, CommandsElsewhere DEF vars, CommandInv, CommandTypes
  <1> QED
    BY <1>1, <1>2, <1>3, <1>4, <1>5, <1>6 DEF Next

-----------------------------------------------------------------------------
(* Scripts.                                                                *)

LEMMA ScriptInit == Init => ScriptInv
  BY DEF Init, ScriptInv, ScriptTypes, HeldWhileRun, HeldCounted, CountedHeld, OneRunPerPod,
         Call, ScriptSteps

LEMMA ScriptStepKeeps == ScriptInv /\ [Next]_vars => ScriptInv'
  <1> SUFFICES ASSUME ScriptInv, [Next]_vars PROVE ScriptInv'
    OBVIOUS
  <1> USE DEF ScriptInv
  <1>1. ASSUME NEW s \in Script, List(s) PROVE ScriptInv'
    BY <1>1 DEF List, Go, ScriptTypes, HeldWhileRun, HeldCounted, CountedHeld, OneRunPerPod, Call, ScriptSteps
  <1>2. ASSUME NEW s \in Script, Select(s) PROVE ScriptInv'
    <2>1. CASE Idle(s) = {} /\ Go(s, "busy") /\ UNCHANGED <<pod, runs>>
      BY <1>2, <2>1 DEF Select, Go, ScriptTypes, HeldWhileRun, HeldCounted, CountedHeld, OneRunPerPod, Call, ScriptSteps
    <2>2. ASSUME NEW p \in Idle(s), pod' = [pod EXCEPT ![s] = p], runs' = [runs EXCEPT ![p] = @ + 1],
                 Go(s, "connect")
          PROVE  ScriptInv'
      <3>1. /\ p \in Pod /\ runs[p] = 0 /\ p # None /\ s \in Call
            /\ \A t \in Script : pod[t] # p
        BY <2>2, NoneIsNoPod DEF Idle, ScriptTypes, HeldCounted, Call
      <3>2. ScriptTypes'
        BY <1>2, <2>2, <3>1 DEF Select, Go, ScriptTypes, Call, ScriptSteps
      <3>3. HeldWhileRun'
        BY <1>2, <2>2, <3>1 DEF Select, Go, ScriptTypes, HeldWhileRun, Call
      <3>4. HeldCounted'
        BY <2>2, <3>1 DEF ScriptTypes, HeldCounted
      <3>5. CountedHeld'
        <4> SUFFICES ASSUME NEW q \in Pod, runs'[q] = 1 PROVE \E t \in Script : pod'[t] = q
          BY DEF CountedHeld
        <4>1. CASE q = p
          BY <4>1, <2>2 DEF ScriptTypes
        <4>2. CASE q # p
          <5>1. PICK t \in Script : pod[t] = q
            BY <4>2, <2>2 DEF ScriptTypes, CountedHeld
          <5>2. pod[s] = None
            BY <1>2 DEF Select, HeldWhileRun
          <5>3. t # s
            BY <5>1, <5>2, NoneIsNoPod
          <5> QED
            BY <5>1, <5>3, <2>2 DEF ScriptTypes
        <4> QED
          BY <4>1, <4>2
      <3>6. OneRunPerPod'
        BY <2>2, <3>1 DEF ScriptTypes, OneRunPerPod
      <3> QED
        BY <3>2, <3>3, <3>4, <3>5, <3>6
    <2> QED
      BY <1>2, <2>1, <2>2 DEF Select
  <1>3. ASSUME NEW s \in Script, Connect(s) \/ Exec(s) PROVE ScriptInv'
    BY <1>3 DEF Connect, Exec, exec, sandbox, Go, ScriptTypes, HeldWhileRun, HeldCounted, CountedHeld, OneRunPerPod, Call, ScriptSteps
  <1>4. ASSUME NEW s \in Script, Release(s) PROVE ScriptInv'
    <2> DEFINE p == pod[s]
    <2>1. /\ p \in Pod /\ runs[p] = 1 /\ s \in Call
          /\ \A t \in Script : t # s => pod[t] # p
      BY <1>4 DEF Release, ScriptTypes, HeldWhileRun, HeldCounted, OneRunPerPod, Call
    <2>2. runs' = [runs EXCEPT ![p] = 0] /\ pod' = [pod EXCEPT ![s] = None]
      BY <1>4, <2>1 DEF Release
    <2> HIDE DEF p
    <2>3. ScriptTypes'
      BY <1>4, <2>1, <2>2 DEF Release, Go, ScriptTypes, Call, ScriptSteps
    <2>4. HeldWhileRun'
      BY <1>4, <2>1, <2>2 DEF Release, Go, ScriptTypes, HeldWhileRun, Call
    <2>5. HeldCounted'
      BY <2>1, <2>2 DEF ScriptTypes, HeldCounted
    <2>6. CountedHeld'
      <3> SUFFICES ASSUME NEW q \in Pod, runs'[q] = 1 PROVE \E t \in Script : pod'[t] = q
        BY DEF CountedHeld
      <3>1. q # p /\ runs[q] = 1
        BY <2>1, <2>2 DEF ScriptTypes
      <3>2. PICK t \in Script : pod[t] = q
        BY <3>1 DEF CountedHeld
      <3> QED
        BY <3>1, <3>2, <2>2 DEF ScriptTypes, p
    <2>7. OneRunPerPod'
      BY <2>2 DEF ScriptTypes, OneRunPerPod
    <2> QED
      BY <2>3, <2>4, <2>5, <2>6, <2>7
  <1>5. ASSUME NEW c \in Command, CommandStep(c) PROVE ScriptInv'
    <2>1. UNCHANGED sandbox /\ \E to \in CommandSteps : at' = [at EXCEPT ![c] = to]
      BY <1>5 DEF CommandStep, Submit, Refuse, Accept, PoolSubmit, Begin, End, Free, Go, CommandSteps, sandbox
    <2>2. at' \in [Call -> CommandSteps \union ScriptSteps] /\ \A s \in Script : at'[s] = at[s]
      BY <2>1, Calls DEF ScriptTypes, Call
    <2> QED
      BY <2>1, <2>2 DEF sandbox, ScriptTypes, HeldWhileRun, HeldCounted, CountedHeld, OneRunPerPod
  <1>6. ASSUME NEW c \in Call, Leave(c) PROVE ScriptInv'
    BY <1>6 DEF Leave, sandbox, ScriptTypes, HeldWhileRun, HeldCounted, CountedHeld, OneRunPerPod
  <1>7. ASSUME NEW w \in Widths, SetWidth(w) PROVE ScriptInv'
    BY <1>7 DEF SetWidth, sandbox, ScriptTypes, HeldWhileRun, HeldCounted, CountedHeld, OneRunPerPod
  <1>8. ASSUME NEW p \in Pod, PodTurns(p) PROVE ScriptInv'
    BY <1>8 DEF PodTurns, exec, ScriptTypes, HeldWhileRun, HeldCounted, CountedHeld, OneRunPerPod
  <1>9. CASE UNCHANGED vars
    BY <1>9 DEF vars, ScriptTypes, HeldWhileRun, HeldCounted, CountedHeld, OneRunPerPod
  <1> QED
    BY <1>1, <1>2, <1>3, <1>4, <1>5, <1>6, <1>7, <1>8, <1>9 DEF Next, ScriptStep

-----------------------------------------------------------------------------
(* The theorems.                                                           *)

LEMMA Invariant == Spec => [](CommandInv /\ ScriptInv)
  BY CommandInit, ScriptInit, CommandStepKeeps, ScriptStepKeeps, PTL DEF Spec

\* The variables keep their types.
THEOREM TypeCorrect == Spec => []TypeOK
  <1>1. CommandInv /\ ScriptInv => TypeOK
    <2> SUFFICES ASSUME CommandInv, ScriptInv PROVE TypeOK
      OBVIOUS
    <2>1. runs \in [Pod -> Nat]
      BY DEF ScriptInv, ScriptTypes
    <2>2. CommandTypes
      BY DEF CommandInv
    <2>3. ScriptTypes
      BY DEF ScriptInv
    <2> QED
      BY ONLY <2>1, <2>2, <2>3 DEF CommandTypes, ScriptTypes, TypeOK
  <1> QED
    BY <1>1, Invariant, PTL

\* An accepted command never waits in a queue behind one that runs (_exec_run), with
\* any widths, however often the pool is rebuilt.
THEOREM NoQueue == Spec => []NeverQueued
  <1>1. CommandInv => NeverQueued
    <2> SUFFICES ASSUME CommandInv, NEW c \in Command, at[c] = "queued", Whole(pool[c])
                 PROVE  Cardinality(Running(pool[c])) < threads[pool[c]]
      BY DEF NeverQueued, Whole
    <2>1. pool[c] \in 1..MaxPools
      BY DEF CommandInv, CommandTypes, PoolKnown
    <2>2. Cardinality(InPool(pool[c])) <= threads[pool[c]] /\ threads[pool[c]] \in Nat
      BY <2>1 DEF CommandInv, Staffed, CommandTypes
    <2>3. Cardinality(Running(pool[c])) \in Nat
      BY Calls, FS_Subset, FS_CardinalityType DEF Running
    <2> QED
      BY <2>2, <2>3, QueuedLeavesRoom, CommandsFinite
  <1> QED
    BY <1>1, Invariant, PTL

\* The counters are those of the calls at work, whatever fails or is cancelled (_accounted,
\* _sandbox_release_pod), and of the commands whose thread could not be started.
THEOREM ExactCounts == Spec => []CountsAreExact
  <1>1. CommandInv /\ ScriptInv => CountsAreExact
    <2>3. CommandInv => inflight = Cardinality(AtWork) + Cardinality(Stranded)
      <3> SUFFICES ASSUME CommandInv PROVE inflight = Cardinality(AtWork) + Cardinality(Stranded)
        OBVIOUS
      <3>1. InFlight \intersect Stranded = Stranded /\ AtWork = InFlight \ Stranded
        BY DEF CommandInv, CommandTypes, InFlight, Stranded, AtWork
      <3>2. IsFiniteSet(Stranded)
        BY <3>1, CommandsFinite, FS_Subset
      <3>3. Cardinality(AtWork) = Cardinality(InFlight) - Cardinality(Stranded)
        BY <3>1, CommandsFinite, FS_Difference
      <3> QED
        BY <3>2, <3>3, CommandsFinite, FS_CardinalityType DEF CommandInv, Counted
    <2> SUFFICES ASSUME ScriptInv, NEW p \in Pod PROVE runs[p] = Cardinality(Holding(p))
      BY <2>3 DEF CountsAreExact
    <2>1. CASE runs[p] = 0
      <3>1. Holding(p) = {}
        BY <2>1, NoneIsNoPod DEF Holding, ScriptInv, ScriptTypes, HeldCounted
      <3> QED
        BY <2>1, <3>1, FS_EmptySet
    <2>2. CASE runs[p] = 1
      <3>1. PICK s \in Script : pod[s] = p
        BY <2>2 DEF ScriptInv, CountedHeld
      <3>2. Holding(p) = {s}
        BY <3>1, NoneIsNoPod DEF Holding, ScriptInv, OneRunPerPod
      <3> QED
        BY <2>2, <3>2, FS_Singleton
    <2> QED
      BY <2>1, <2>2 DEF ScriptInv, ScriptTypes
  <1> QED
    BY <1>1, Invariant, PTL

\* No executor pod has two runs of this process (_sandbox_select_pod).
THEOREM PodsAlone == Spec => []OneRunPerPod
  BY Invariant, PTL DEF ScriptInv
=============================================================================
