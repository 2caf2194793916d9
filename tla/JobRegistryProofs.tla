------------------------- MODULE JobRegistryProofs -------------------------
(***************************************************************************)
(* Proofs about JobRegistry, for any set of jobs, any request threads and  *)
(* any cap.                                                                *)
(***************************************************************************)
EXTENDS JobRegistry, FiniteSetTheorems, TLAPS

\* A request that is past its construction is about a job.
JobNamed == \A c \in Client : thread[c].at \notin {"idle", "construct"} => thread[c].job \in Job

TypeInv == TypeOK /\ JobNamed

USE DEF Finished, Unfinished

-----------------------------------------------------------------------------
\* What a cancel does to a job keeps the types.
LEMMA CancelTyped ==
  ASSUME TypeInv, NEW j \in Job, CancelQuery(j)
  PROVE  /\ asked' \in SUBSET Job
         /\ work' \in [Job -> {"none"} \union Unfinished \union Finished]
         /\ result' \in SUBSET Job
  BY DEF TypeInv, TypeOK, CancelQuery

\* The number of a new registration is a natural number.
LEMMA PlaceNat == NextPlace \in Nat
  <1>1. IsFiniteSet({j \in Job : born[j] > 0})
    BY JobsFinite, FS_Subset
  <1>2. Cardinality({j \in Job : born[j] > 0}) \in Nat
    BY <1>1, FS_CardinalityType
  <1> QED
    BY <1>2 DEF NextPlace

LEMMA TypeInit == Init => TypeInv
  BY DEF Init, TypeInv, TypeOK, JobNamed, Idle

LEMMA TypeStep == TypeInv /\ [Next]_vars => TypeInv'
  <1> SUFFICES ASSUME TypeInv, [Next]_vars PROVE TypeInv'
    OBVIOUS
  <1> USE DEF TypeInv, TypeOK, JobNamed, records, query
  <1>1. ASSUME NEW c \in Client, Submit(c) PROVE TypeInv'
    BY <1>1 DEF Submit, Disarmed, Begin, Idle
  <1>2. ASSUME NEW c \in Client, NEW j \in Job, Construct(c, j) PROVE TypeInv'
    BY <1>2 DEF Construct, Begin
  <1>3. ASSUME NEW c \in Client, ConstructFails(c) PROVE TypeInv'
    BY <1>3 DEF ConstructFails, Reply, Idle
  <1>4. ASSUME NEW c \in Client, Register(c) PROVE TypeInv'
    <2>1. thread[c].job \in Job
      BY <1>4 DEF Register
    <2>2. CASE Full
      BY SMTT(30), <1>4, <2>1, <2>2, CancelTyped DEF Register, Reply, Idle
    <2>3. CASE ~Full
      BY <1>4, <2>1, <2>3, PlaceNat DEF Register, Go
    <2> QED
      BY <2>2, <2>3
  <1>5. ASSUME NEW c \in Client, Arm(c) PROVE TypeInv'
    BY <1>5 DEF Arm, Reply, Idle
  <1>6. ASSUME NEW c \in Client, NEW j \in Job, Take(c, j) PROVE TypeInv'
    BY <1>6 DEF Take, Disarmed, Begin
  <1>7. ASSUME NEW c \in Client, TakeTable(c) PROVE TypeInv'
    BY <1>7 DEF TakeTable, Go, Reply, Idle
  <1>8. ASSUME NEW c \in Client, Hand(c) PROVE TypeInv'
    BY <1>8 DEF Hand, Reply, Idle
  <1>9. ASSUME NEW c \in Client, NEW j \in Job, Cancel(c, j) PROVE TypeInv'
    BY <1>9 DEF Cancel, Disarmed, Begin
  <1>10. ASSUME NEW c \in Client, Interrupt(c) PROVE TypeInv'
    BY <1>10, CancelTyped DEF Interrupt, Reply, Idle
  <1>11. ASSUME NEW j \in Job, Watchdog(j) PROVE TypeInv'
    BY <1>11, CancelTyped DEF Watchdog, TimerFires, ExpireLook, ExpireCancel
  <1>12. ASSUME NEW j \in Job, Open(j) PROVE TypeInv'
    BY <1>12 DEF Open
  <1>13. ASSUME NEW j \in Job, Status(j) PROVE TypeInv'
    BY <1>13 DEF Status, Disarmed
  <1>14. ASSUME NEW j \in Job, NEW s \in Finished, QueryEnds(j, s) PROVE TypeInv'
    BY <1>14 DEF QueryEnds
  <1>15. CASE UNCHANGED vars
    BY <1>15 DEF vars
  <1> QED
    BY <1>1, <1>2, <1>3, <1>4, <1>5, <1>6, <1>7, <1>8, <1>9, <1>10, <1>11, <1>12, <1>13,
       <1>14, <1>15 DEF Next, Request, ClientStep

\* The registry, its timers and its requests are always of their types.
THEOREM TypeCorrect == Spec => []TypeOK
  <1>1. TypeInv => TypeOK
    BY DEF TypeInv
  <1> QED
    BY <1>1, TypeInit, TypeStep, PTL DEF Spec

LEMMA TypeInvariant == Spec => []TypeInv
  BY TypeInit, TypeStep, PTL DEF Spec

-----------------------------------------------------------------------------
\* A cleanup evicts tracked jobs, and none that runs.
LEMMA CleanupEvictsFinished ==
  ASSUME NEW gone \in SUBSET tracked, Cleanup(gone)
  PROVE  \A j \in gone : ~Running(j)
  <1> DEFINE Idlers(aged) == {j \in tracked \ aged : ~Running(j)}
             Room(aged) == Min({Cardinality(Idlers(aged)),
                                Max({0, Cardinality(tracked \ aged) - MaxJobs + 1})})
  <1>1. PICK aged \in SUBSET (IF Aging THEN {j \in tracked : Dated(j)} ELSE {}) :
          \E old \in kSubset(Room(aged), Idlers(aged)) : gone = aged \union old
    BY DEF Cleanup
  <1>2. PICK old \in kSubset(Room(aged), Idlers(aged)) : gone = aged \union old
    BY <1>1
  <1>3. \A j \in aged : ~Running(j)
    BY DEF Dated
  <1>4. \A j \in old : ~Running(j)
    BY DEF kSubset
  <1> QED
    BY <1>2, <1>3, <1>4

\* Only a submit's cleanup takes jobs out of the registry, and only its
\* registration puts one in.
LEMMA TrackedSteps ==
  ASSUME TypeInv, [Next]_vars
  PROVE  \/ tracked' = tracked
         \/ \E c \in Client : Submit(c)
         \/ \E c \in Client : Register(c)
  <1> USE DEF records
  <1>1. ASSUME NEW c \in Client, Request(c) PROVE tracked' = tracked \/ Submit(c)
    BY <1>1 DEF Request, Take, Cancel
  <1>2. ASSUME NEW c \in Client, ClientStep(c) PROVE tracked' = tracked \/ Register(c)
    BY <1>2 DEF ClientStep, Construct, ConstructFails, Arm, TakeTable, Hand, Interrupt
  <1>3. ASSUME NEW j \in Job, Watchdog(j) \/ Open(j) \/ Status(j) PROVE tracked' = tracked
    BY <1>3 DEF Watchdog, TimerFires, ExpireLook, ExpireCancel, Open, Status
  <1>4. ASSUME NEW j \in Job, NEW s \in Finished, QueryEnds(j, s) PROVE tracked' = tracked
    BY <1>4 DEF QueryEnds
  <1>5. CASE UNCHANGED vars
    BY <1>5 DEF vars
  <1> QED
    BY <1>1, <1>2, <1>3, <1>4, <1>5 DEF Next

LEMMA BoundedStep == TypeInv /\ RegistryBounded /\ [Next]_vars => RegistryBounded'
  <1> SUFFICES ASSUME TypeInv, RegistryBounded, [Next]_vars PROVE RegistryBounded'
    OBVIOUS
  <1>1. IsFiniteSet(tracked) /\ Cardinality(tracked) \in Nat
    BY JobsFinite, FS_Subset, FS_CardinalityType DEF TypeInv, TypeOK
  <1>2. CASE tracked' = tracked
    BY <1>2 DEF RegistryBounded
  <1>3. ASSUME NEW c \in Client, Submit(c) PROVE RegistryBounded'
    <2>1. tracked' \in SUBSET tracked
      BY <1>3 DEF Submit
    <2>2. Cardinality(tracked') \in Nat /\ Cardinality(tracked') <= Cardinality(tracked)
      BY <1>1, <2>1, FS_Subset, FS_CardinalityType
    <2> QED
      BY <1>1, <2>2, MaxJobsPositive DEF RegistryBounded
  <1>4. ASSUME NEW c \in Client, Register(c) PROVE RegistryBounded'
    <2>1. CASE Full
      BY <1>4, <2>1 DEF Register, RegistryBounded
    <2>2. CASE ~Full
      <3>1. tracked' = tracked \union {thread[c].job}
        BY <1>4, <2>2 DEF Register
      <3>2. Cardinality(tracked') <= Cardinality(tracked) + 1 /\ Cardinality(tracked') \in Nat
        BY SMTT(30), <1>1, <3>1, FS_AddElement
      <3> QED
        BY <1>1, <2>2, <3>2, MaxJobsPositive DEF Full, RegistryBounded
    <2> QED
      BY <2>1, <2>2
  <1> QED
    BY <1>2, <1>3, <1>4, TrackedSteps

\* Two submits that race for the last place do not both get it, whatever the
\* number of requests.
THEOREM CapKept == Spec => []RegistryBounded
  <1>1. Init => RegistryBounded
    BY FS_EmptySet, MaxJobsPositive DEF Init, RegistryBounded
  <1> QED
    BY <1>1, TypeInvariant, BoundedStep, PTL DEF Spec

RunningStays == \A j \in tracked : Running(j) => j \in tracked'

LEMMA RunningKept == ASSUME TypeInv, [Next]_vars PROVE RunningStays
  <1>1. ASSUME NEW c \in Client, Submit(c) PROVE RunningStays
    BY <1>1, CleanupEvictsFinished DEF Submit, RunningStays
  <1>2. ASSUME NEW c \in Client, Register(c) PROVE RunningStays
    BY <1>2 DEF Register, RunningStays
  <1> QED
    BY <1>1, <1>2, TrackedSteps DEF RunningStays

\* A full registry refuses a submit rather than evict a job that runs.
THEOREM NoRunningEvicted == Spec => RunningNeverEvicted
  <1>1. TypeInv /\ [Next]_vars => [RunningStays]_vars
    BY RunningKept
  <1> QED
    BY <1>1, TypeInvariant, PTL DEF Spec, RunningNeverEvicted, RunningStays

-----------------------------------------------------------------------------
\* The job of a request that may hand over is done, and a job is handed over
\* exactly when its record says fetched.
HandInv ==
  /\ \A j \in Job : handed[j] = IF j \in fetched THEN 1 ELSE 0
  /\ \A c \in Client : thread[c].at \in {"result", "hand"} => work[thread[c].job] = "done"

Shown == [j \in Job |-> IF Running(j) THEN "running" ELSE work[j]]
Handed == [j \in Job |-> [w \in {"owner"} |-> handed[j]]]

\* A cancel changes no outcome: that is the query's own step.
LEMMA CancelShows ==
  ASSUME TypeInv, NEW j \in Job, CancelQuery(j)
  PROVE  /\ Shown' = Shown
         /\ \A k \in Job : work[k] = "done" => work'[k] = "done"
         /\ \A k \in Job : Running(k) <=> Running(k)'
         /\ asked \in SUBSET asked'
  BY DEF TypeInv, TypeOK, CancelQuery, Shown, Running

LEMMA HandInit == Init => HandInv
  BY DEF Init, HandInv, Idle

LEMMA HandStep == TypeInv /\ HandInv /\ [Next]_vars => HandInv'
  <1> SUFFICES ASSUME TypeInv, HandInv, [Next]_vars PROVE HandInv'
    OBVIOUS
  <1> USE DEF HandInv, TypeInv, TypeOK, JobNamed, records, query
  <1>1. ASSUME NEW c \in Client, Submit(c) PROVE HandInv'
    BY <1>1 DEF Submit, Begin, Idle
  <1>2. ASSUME NEW c \in Client, NEW j \in Job, Construct(c, j) PROVE HandInv'
    BY <1>2 DEF Construct, Begin
  <1>3. ASSUME NEW c \in Client, ConstructFails(c) PROVE HandInv'
    BY <1>3 DEF ConstructFails, Reply, Idle
  <1>4. ASSUME NEW c \in Client, Register(c) PROVE HandInv'
    <2>1. thread[c].job \in Job
      BY <1>4 DEF Register
    <2>2. CASE Full
      <3>1. CancelQuery(thread[c].job) /\ Reply(c) /\ UNCHANGED <<handed, fetched>>
        BY <1>4, <2>2 DEF Register
      <3>2. \A k \in Job : work[k] = "done" => work'[k] = "done"
        BY <2>1, <3>1, CancelShows
      <3> QED
        BY <3>1, <3>2 DEF Reply, Idle
    <2>3. CASE ~Full
      BY <1>4, <2>3 DEF Register, Go
    <2> QED
      BY <2>2, <2>3
  <1>5. ASSUME NEW c \in Client, Arm(c) PROVE HandInv'
    BY <1>5 DEF Arm, Reply, Idle
  <1>6. ASSUME NEW c \in Client, NEW j \in Job, Take(c, j) PROVE HandInv'
    BY <1>6 DEF Take, Begin
  <1>7. ASSUME NEW c \in Client, TakeTable(c) PROVE HandInv'
    BY <1>7 DEF TakeTable, Go, Reply, Idle
  <1>8. ASSUME NEW c \in Client, Hand(c) PROVE HandInv'
    BY <1>8 DEF Hand, Reply, Idle
  <1>9. ASSUME NEW c \in Client, NEW j \in Job, Cancel(c, j) PROVE HandInv'
    BY <1>9 DEF Cancel, Begin
  <1>10. ASSUME NEW c \in Client, Interrupt(c) PROVE HandInv'
    <2>1. thread[c].job \in Job
      BY <1>10 DEF Interrupt
    <2>2. \A k \in Job : work[k] = "done" => work'[k] = "done"
      BY <1>10, <2>1, CancelShows DEF Interrupt
    <2> QED
      BY <1>10, <2>2 DEF Interrupt, Reply, Idle
  <1>11. ASSUME NEW j \in Job, Watchdog(j) PROVE HandInv'
    <2>1. CASE ExpireCancel(j)
      <3>1. \A k \in Job : work[k] = "done" => work'[k] = "done"
        BY <2>1, CancelShows DEF ExpireCancel
      <3> QED
        BY <2>1, <3>1 DEF ExpireCancel
    <2>2. CASE TimerFires(j) \/ ExpireLook(j)
      BY <2>2 DEF TimerFires, ExpireLook
    <2> QED
      BY <1>11, <2>1, <2>2 DEF Watchdog
  <1>12. ASSUME NEW j \in Job, Open(j) PROVE HandInv'
    BY <1>12 DEF Open
  <1>13. ASSUME NEW j \in Job, Status(j) PROVE HandInv'
    BY <1>13 DEF Status
  <1>14. ASSUME NEW j \in Job, NEW s \in Finished, QueryEnds(j, s) PROVE HandInv'
    BY <1>14 DEF QueryEnds
  <1>15. CASE UNCHANGED vars
    BY <1>15 DEF vars
  <1> QED
    BY <1>1, <1>2, <1>3, <1>4, <1>5, <1>6, <1>7, <1>8, <1>9, <1>10, <1>11, <1>12, <1>13,
       <1>14, <1>15 DEF Next, Request, ClientStep

\* Every step of the registry is a step of the hand-over contract, or none.
LEMMA HandRefines ==
  TypeInv /\ HandInv /\ [Next]_vars => [HandOver!Next]_<<Shown, Handed, {}>>
  <1> SUFFICES ASSUME TypeInv, HandInv, [Next]_vars
               PROVE  HandOver!Next \/ UNCHANGED <<Shown, Handed, {}>>
    OBVIOUS
  <1> USE DEF TypeInv, TypeOK, JobNamed, records, query
  <1>1. ASSUME NEW c \in Client, NEW j \in Job, Construct(c, j) PROVE HandOver!Next
    <2>1. HandOver!Start(j)
      BY <1>1 DEF Construct, HandOver!Start, Running, Handed
    <2> QED
      BY <2>1 DEF HandOver!Next
  <1>2. ASSUME NEW j \in Job, NEW s \in Finished, QueryEnds(j, s) PROVE HandOver!Next
    <2>1. HandOver!End(j, s)
      BY <1>2 DEF QueryEnds, HandOver!End, Running, Handed
    <2> QED
      BY <2>1 DEF HandOver!Next
  <1>3. ASSUME NEW c \in Client, Hand(c) PROVE HandOver!Next \/ UNCHANGED <<Shown, Handed, {}>>
    <2>1. PICK j \in Job : j = thread[c].job /\ work[j] = "done"
      BY <1>3 DEF Hand, HandInv
    <2>2. UNCHANGED work
      BY <1>3 DEF Hand
    <2>3. UNCHANGED Shown
      BY <2>2 DEF Shown, Running
    <2>4. CASE j \in fetched
      BY <1>3, <2>1, <2>3, <2>4 DEF Hand, Handed
    <2>5. CASE j \notin fetched
      <3>1. handed[j] = 0
        BY <1>3, <2>1, <2>5 DEF Hand, HandInv
      <3>2. handed' = [handed EXCEPT ![j] = @ + 1]
        BY <1>3, <2>1, <2>5 DEF Hand
      <3>3. Shown[j] = "done"
        BY <2>1 DEF Shown, Running, Unfinished
      <3>4. Handed' = [Handed EXCEPT ![j]["owner"] = @ + 1]
        BY <3>2 DEF Handed
      <3>5. HandOver!HandOver(j, "owner")
        BY <2>3, <3>1, <3>3, <3>4 DEF HandOver!HandOver, Shown, Handed
      <3> QED
        BY <1>3, <2>1, <3>5 DEF HandOver!Next
    <2> QED
      BY <2>4, <2>5
  <1>4. ASSUME NEW c \in Client, Register(c) PROVE UNCHANGED <<Shown, Handed, {}>>
    <2>1. thread[c].job \in Job
      BY <1>4 DEF Register
    <2>2. CASE Full
      BY <1>4, <2>1, <2>2, CancelShows DEF Register, Handed
    <2>3. CASE ~Full
      BY <1>4, <2>3 DEF Register, Shown, Running, Handed
    <2> QED
      BY <2>2, <2>3
  <1>5. ASSUME NEW c \in Client, Interrupt(c) PROVE UNCHANGED <<Shown, Handed, {}>>
    BY <1>5, CancelShows DEF Interrupt, Handed
  <1>6. ASSUME NEW j \in Job, Watchdog(j) PROVE UNCHANGED <<Shown, Handed, {}>>
    <2>1. CASE ExpireCancel(j)
      BY <2>1, CancelShows DEF ExpireCancel, Handed
    <2>2. CASE TimerFires(j) \/ ExpireLook(j)
      BY <2>2 DEF TimerFires, ExpireLook, Shown, Running, Handed
    <2> QED
      BY <1>6, <2>1, <2>2 DEF Watchdog
  <1>7. ASSUME NEW j \in Job, Open(j) PROVE UNCHANGED <<Shown, Handed, {}>>
    BY <1>7 DEF Open, Shown, Running, Handed
  <1>8. ASSUME NEW c \in Client,
               Request(c) \/ ConstructFails(c) \/ Arm(c) \/ TakeTable(c)
        PROVE  UNCHANGED <<Shown, Handed, {}>>
    BY <1>8
    DEF Request, Submit, Take, Cancel, ConstructFails, Arm, TakeTable, Shown, Running, Handed
  <1>9. ASSUME NEW j \in Job, Status(j) PROVE UNCHANGED <<Shown, Handed, {}>>
    BY <1>9 DEF Status, Shown, Running, Handed
  <1>10. CASE UNCHANGED vars
    BY <1>10 DEF vars, Shown, Running, Handed
  <1> QED
    BY <1>1, <1>2, <1>3, <1>4, <1>5, <1>6, <1>7, <1>8, <1>9, <1>10 DEF Next, ClientStep

\* The registry implements the contract of its clients: outcomes are final, and
\* a result is handed over at most once and only by a job that ended well.
THEOREM HandOverImplemented == Spec => HandOverKept
  <1>1. Init => HandOver!Init
    BY DEF Init, HandOver!Init, Running
  <1>2. TypeInv /\ HandInv /\ [Next]_vars => [HandOver!Next]_HandOver!vars
    BY HandRefines DEF HandOver!vars, Shown, Handed
  <1> QED
    BY <1>1, <1>2, TypeInvariant, HandInit, HandStep, PTL
    DEF Spec, HandOverKept, HandOver!Spec
-----------------------------------------------------------------------------
Watched(j) == \/ j \in tracked \/ j \in asked
              \/ \E c \in Client : thread[c] = [at |-> "register", job |-> j]

\* A step keeps the watch on every job when what it stops watching has ended.
LEMMA WatchKept ==
  ASSUME TypeInv, NoOrphan,
         \A k \in Job : Running(k)' => Running(k),
         asked \in SUBSET asked', RunningStays,
         \A c \in Client : thread[c].at = "register" => thread'[c] = thread[c]
  PROVE  NoOrphan'
  <1> SUFFICES ASSUME NEW j \in Job, Running(j)'
               PROVE  Watched(j)'
    BY DEF NoOrphan, Watched
  <1>1. Running(j) /\ Watched(j)
    BY DEF NoOrphan, Watched
  <1>2. CASE j \in tracked \union asked
    BY <1>1, <1>2 DEF RunningStays, Watched
  <1>3. ASSUME NEW c \in Client, thread[c] = [at |-> "register", job |-> j]
        PROVE  Watched(j)'
    <2>1. thread'[c] = thread[c]
      BY <1>3
    <2> QED
      BY <1>3, <2>1 DEF Watched
  <1> QED
    BY <1>1, <1>2, <1>3 DEF Watched

LEMMA OrphanStep == TypeInv /\ NoOrphan /\ [Next]_vars => NoOrphan'
  <1> SUFFICES ASSUME TypeInv, NoOrphan, [Next]_vars PROVE NoOrphan'
    OBVIOUS
  <1> USE DEF TypeInv, TypeOK, JobNamed, records, query
  <1>a. RunningStays
    BY RunningKept
  <1>1. ASSUME NEW c \in Client, Submit(c) PROVE NoOrphan'
    BY <1>1, <1>a, WatchKept DEF Submit, Begin, Idle, Running
  <1>2. ASSUME NEW c \in Client, NEW j \in Job, Construct(c, j) PROVE NoOrphan'
    <2>1. thread'[c] = [at |-> "register", job |-> j]
      BY <1>2 DEF Construct, Begin
    <2>2. \A d \in Client \ {c} : thread'[d] = thread[d]
      BY <1>2 DEF Construct, Begin
    <2>3. \A k \in Job \ {j} : Running(k)' <=> Running(k)
      BY <1>2 DEF Construct, Running
    <2>4. UNCHANGED <<tracked, asked>> /\ thread[c].at = "construct"
      BY <1>2 DEF Construct
    <2>5. ASSUME NEW k \in Job \ {j}, Watched(k) PROVE Watched(k)'
      <3>1. CASE k \in tracked \union asked
        BY <2>4, <3>1 DEF Watched
      <3>2. ASSUME NEW d \in Client, thread[d] = [at |-> "register", job |-> k]
            PROVE  Watched(k)'
        BY <2>2, <2>4, <3>2 DEF Watched
      <3> QED
        BY <2>5, <3>1, <3>2 DEF Watched
    <2>6. Watched(j)'
      BY <2>1 DEF Watched
    <2>7. \A k \in Job : Running(k)' => Watched(k)'
      BY <2>3, <2>5, <2>6 DEF NoOrphan, Watched
    <2> QED
      BY <2>7 DEF NoOrphan, Watched
  <1>3. ASSUME NEW c \in Client, ConstructFails(c) PROVE NoOrphan'
    BY <1>3, <1>a, WatchKept DEF ConstructFails, Reply, Running
  <1>4. ASSUME NEW c \in Client, Register(c) PROVE NoOrphan'
    <2>1. thread[c].job \in Job
      BY <1>4 DEF Register
    <2>2. \A d \in Client \ {c} : thread'[d] = thread[d]
      BY <1>4 DEF Register, Reply, Go
    <2>3. thread[c].job \in tracked' \union asked'
      BY <1>4, <2>1 DEF Register, CancelQuery
    <2>4. /\ \A k \in Job : Running(k)' => Running(k)
          /\ tracked \in SUBSET tracked' /\ asked \in SUBSET asked'
      <3>1. CASE Full
        BY <1>4, <2>1, <3>1, CancelShows DEF Register
      <3>2. CASE ~Full
        BY <1>4, <3>2 DEF Register, Running
      <3> QED
        BY <3>1, <3>2
    <2>5. ASSUME NEW k \in Job, Watched(k) PROVE Watched(k)'
      <3>1. CASE k \in tracked \union asked
        BY <2>4, <3>1 DEF Watched
      <3>2. ASSUME NEW d \in Client, thread[d] = [at |-> "register", job |-> k]
            PROVE  Watched(k)'
        <4>1. CASE d = c
          BY <2>3, <3>2, <4>1 DEF Watched
        <4>2. CASE d # c
          BY <2>2, <3>2, <4>2 DEF Watched
        <4> QED
          BY <4>1, <4>2
      <3> QED
        BY <2>5, <3>1, <3>2 DEF Watched
    <2>6. \A k \in Job : Running(k)' => Watched(k)'
      BY <2>4, <2>5 DEF NoOrphan, Watched
    <2> QED
      BY <2>6 DEF NoOrphan, Watched
  <1>5. ASSUME NEW c \in Client, Arm(c) \/ TakeTable(c) \/ Hand(c) PROVE NoOrphan'
    BY <1>5, <1>a, WatchKept DEF Arm, TakeTable, Hand, Reply, Go, Running
  <1>6. ASSUME NEW c \in Client, NEW j \in Job, Take(c, j) \/ Cancel(c, j) PROVE NoOrphan'
    BY <1>6, <1>a, WatchKept DEF Take, Cancel, Begin, Idle, Running
  <1>7. ASSUME NEW c \in Client, Interrupt(c) PROVE NoOrphan'
    <2>1. \A d \in Client : thread[d].at = "register" => thread'[d] = thread[d]
      BY <1>7 DEF Interrupt, Reply
    <2> QED
      BY <1>7, <1>a, <2>1, CancelShows, WatchKept DEF Interrupt
  <1>8. ASSUME NEW j \in Job, Watchdog(j) PROVE NoOrphan'
    <2>1. UNCHANGED thread
      BY <1>8 DEF Watchdog, TimerFires, ExpireLook, ExpireCancel
    <2>2. CASE ExpireCancel(j)
      BY <1>a, <2>1, <2>2, CancelShows, WatchKept DEF ExpireCancel
    <2>3. CASE TimerFires(j) \/ ExpireLook(j)
      BY <1>a, <2>1, <2>3, WatchKept DEF TimerFires, ExpireLook, Running
    <2> QED
      BY <1>8, <2>2, <2>3 DEF Watchdog
  <1>9. ASSUME NEW j \in Job, Open(j) \/ Status(j) PROVE NoOrphan'
    BY <1>9, <1>a, WatchKept DEF Open, Status, Running
  <1>10. ASSUME NEW j \in Job, NEW s \in Finished, QueryEnds(j, s) PROVE NoOrphan'
    <2>1. \A k \in Job : Running(k)' => Running(k)
      BY <1>10 DEF QueryEnds, Running
    <2> QED
      BY <1>10, <1>a, <2>1, WatchKept DEF QueryEnds
  <1>11. CASE UNCHANGED vars
    BY <1>11, <1>a, WatchKept DEF vars, Running
  <1> QED
    BY <1>1, <1>2, <1>3, <1>4, <1>5, <1>6, <1>7, <1>8, <1>9, <1>10, <1>11
    DEF Next, Request, ClientStep

\* No query runs that nobody tracks, is about to track or has cancelled.
THEOREM OrphanFree == Spec => []NoOrphan
  <1>1. Init => NoOrphan
    BY DEF Init, NoOrphan, Running
  <1> QED
    BY <1>1, TypeInvariant, OrphanStep, PTL DEF Spec
=============================================================================
