----------------------------- MODULE ServicesProofs -----------------------------
(***************************************************************************)
(* Proofs about QueryJob, for any finite set of jobs, any set of           *)
(* cancelling threads and any size of the gate; about PolicyStore, for any *)
(* threads and any number of edits; and about Fetcher, for any calls and   *)
(* URLs.                                                                   *)
(***************************************************************************)
EXTENDS Services, FiniteSetTheorems, TLAPS

\* The slot is held from the acquire to the last step of the worker.
HeldWhileLive == \A j \in Job : j \in held <=> at[j] \in Live \union {"acquired"}

\* No outcome is recorded before the worker's recording step.
NoEarlyOutcome ==
  \A j \in Job : at[j] \in Unborn \union {"spawned", "connected", "executing",
                                          "returned", "raised"}
                 => state[j] = "running"

\* A caller past its timeout waits for a job that exists.
ExpiredJobExists ==
  \A j \in Job : waiter[j] \in {"expired", "interrupting", "grace"}
                 => at[j] \notin Unborn

IInv == /\ TypeOK /\ SlotsConserved /\ HeldWhileLive
        /\ NoEarlyOutcome /\ ExpiredJobExists

-----------------------------------------------------------------------------
\* Taking a slot for a job that holds none, and giving back the slot of a job
\* that holds one, keep the count of the gate.
LEMMA TakeKeepsCount ==
  ASSUME TypeOK, SlotsConserved, NEW j \in Job, j \notin held, TakeSlot(j)
  PROVE  SlotsConserved'
  <1>1. IsFiniteSet(held)
    BY JobsFinite, FS_Subset DEF TypeOK
  <1>2. /\ Cardinality(held) \in Nat
        /\ Cardinality(held \cup {j}) = Cardinality(held) + 1
    BY <1>1, FS_AddElement, FS_CardinalityType
  <1> QED
    BY <1>2, MaxConcurrentNat DEF TypeOK, SlotsConserved, TakeSlot, Limited

LEMMA FreeKeepsCount ==
  ASSUME TypeOK, SlotsConserved, NEW j \in Job, j \in held, FreeSlot(j)
  PROVE  SlotsConserved'
  <1>1. IsFiniteSet(held)
    BY JobsFinite, FS_Subset DEF TypeOK
  <1>2. /\ Cardinality(held) \in Nat
        /\ Cardinality(held \ {j}) = Cardinality(held) - 1
    BY <1>1, FS_RemoveElement, FS_CardinalityType
  <1> QED
    BY <1>2, MaxConcurrentNat DEF TypeOK, SlotsConserved, FreeSlot, Limited

LEMMA InitEstablishesInv == Init => IInv
  <1> SUFFICES ASSUME Init PROVE IInv
    OBVIOUS
  <1>1. TypeOK
    BY MaxConcurrentNat DEF Init, TypeOK, Unborn
  <1>2. SlotsConserved
    BY FS_EmptySet, MaxConcurrentNat DEF Init, SlotsConserved
  <1>3. HeldWhileLive
    BY DEF Init, HeldWhileLive, Live
  <1>4. NoEarlyOutcome /\ ExpiredJobExists
    BY DEF Init, NoEarlyOutcome, ExpiredJobExists
  <1> QED
    BY <1>1, <1>2, <1>3, <1>4 DEF IInv

-----------------------------------------------------------------------------
\* Every step keeps the types.
LEMMA TypeStep == IInv /\ [Next]_vars => TypeOK'
  <1> SUFFICES ASSUME IInv, [Next]_vars PROVE TypeOK'
    OBVIOUS
  <1> USE DEF IInv, TypeOK, Unborn, Live
  <1>1. ASSUME NEW j \in Job, NEW sync \in BOOLEAN, Construct(j, sync) PROVE TypeOK'
    BY <1>1 DEF Construct
  <1>2. ASSUME NEW j \in Job, Constructor(j) PROVE TypeOK'
    <2>1. CASE Acquire(j)
      BY <2>1, MaxConcurrentNat DEF Acquire, TakeSlot, Limited
    <2>2. CASE QueueTimeout(j)
      BY <2>2 DEF QueueTimeout
    <2>3. CASE StartThread(j)
      BY <2>3 DEF StartThread
    <2>4. CASE StartFails(j)
      BY <2>4, MaxConcurrentNat DEF StartFails, FreeSlot, Limited
    <2> QED
      BY <1>2, <2>1, <2>2, <2>3, <2>4 DEF Constructor
  <1>3. ASSUME NEW j \in Job, Worker(j) PROVE TypeOK'
    <2>1. CASE Connect(j)
      BY <2>1 DEF Connect, Move
    <2>2. CASE ConnectFails(j)
      BY <2>2 DEF ConnectFails, Move
    <2>3. CASE Execute(j)
      BY <2>3 DEF Execute, Move
    <2>4. CASE QueryInterrupted(j)
      BY <2>4 DEF QueryInterrupted, Move
    <2>5. CASE RecordResult(j)
      BY <2>5 DEF RecordResult, Move
    <2>6. CASE RecordError(j)
      BY <2>6 DEF RecordError, Move
    <2>7. CASE CloseCon(j)
      BY <2>7 DEF CloseCon, Move
    <2>8. CASE Release(j)
      BY <2>8, MaxConcurrentNat DEF Release, FreeSlot, Move, Limited
    <2> QED
      BY <1>3, <2>1, <2>2, <2>3, <2>4, <2>5, <2>6, <2>7, <2>8 DEF Worker
  <1>4. ASSUME NEW j \in Job, QueryEnds(j) PROVE TypeOK'
    BY <1>4 DEF QueryEnds, QueryReturns, QueryRaises, ThreadDies, Move
  <1>5. ASSUME NEW j \in Job, SyncCaller(j) PROVE TypeOK'
    BY <1>5 DEF SyncCaller, Answer, Expire, ExpiredCancel, ExpiredInterrupt,
                GraceOver, InterruptStatement
  <1>6. ASSUME Cancelling PROVE TypeOK'
    BY <1>6 DEF Cancelling, Cancel, Interrupt, InterruptStatement
  <1>7. CASE UNCHANGED vars
    BY <1>7 DEF vars
  <1> QED
    BY <1>1, <1>2, <1>3, <1>4, <1>5, <1>6, <1>7 DEF Next

\* Every step keeps the count of slots: only three actions touch the gate,
\* each for a job on the side of HeldWhileLive that its lemma needs.
LEMMA SlotsStep == IInv /\ [Next]_vars => SlotsConserved'
  <1> SUFFICES ASSUME IInv, [Next]_vars PROVE SlotsConserved'
    OBVIOUS
  <1> USE DEF IInv
  <1>1. ASSUME UNCHANGED <<sem, held>> PROVE SlotsConserved'
    BY <1>1 DEF SlotsConserved
  <1>2. ASSUME NEW j \in Job, Acquire(j) PROVE SlotsConserved'
    <2>1. j \notin held
      BY <1>2 DEF Acquire, HeldWhileLive, Live
    <2> QED
      BY <1>2, <2>1, TakeKeepsCount DEF Acquire
  <1>3. ASSUME NEW j \in Job, StartFails(j) PROVE SlotsConserved'
    <2>1. j \in held
      BY <1>3 DEF StartFails, HeldWhileLive
    <2> QED
      BY <1>3, <2>1, FreeKeepsCount DEF StartFails
  <1>4. ASSUME NEW j \in Job, Release(j) PROVE SlotsConserved'
    <2>1. j \in held
      BY <1>4 DEF Release, Move, HeldWhileLive, Live
    <2> QED
      BY <1>4, <2>1, FreeKeepsCount DEF Release
  <1>5. ASSUME NEW j \in Job, Worker(j), ~Release(j) PROVE UNCHANGED <<sem, held>>
    BY <1>5 DEF Worker, Connect, ConnectFails, Execute, QueryInterrupted,
                RecordResult, RecordError, CloseCon
  <1>6. ASSUME NEW j \in Job, \/ \E sync \in BOOLEAN : Construct(j, sync)
                              \/ QueueTimeout(j) \/ StartThread(j)
                              \/ QueryEnds(j) \/ SyncCaller(j)
        PROVE  UNCHANGED <<sem, held>>
    BY <1>6 DEF Construct, QueueTimeout, StartThread, QueryEnds, QueryReturns,
                QueryRaises, ThreadDies, SyncCaller, Answer, Expire,
                ExpiredCancel, ExpiredInterrupt, GraceOver
  <1>7. ASSUME Cancelling \/ UNCHANGED vars PROVE UNCHANGED <<sem, held>>
    BY <1>7 DEF Cancelling, Cancel, Interrupt, vars
  <1> QED
    BY <1>1, <1>2, <1>3, <1>4, <1>5, <1>6, <1>7 DEF Next, Constructor

\* Every step keeps the three facts that tie a slot, an outcome and a waiting
\* caller to where the worker is.
LEMMA PlaceStep ==
  IInv /\ [Next]_vars => HeldWhileLive' /\ NoEarlyOutcome' /\ ExpiredJobExists'
  <1> DEFINE Place == HeldWhileLive /\ NoEarlyOutcome /\ ExpiredJobExists
  <1> SUFFICES ASSUME IInv, [Next]_vars PROVE Place'
    OBVIOUS
  <1> USE DEF IInv, TypeOK, HeldWhileLive, NoEarlyOutcome, ExpiredJobExists, Live, Unborn
  <1>1. ASSUME NEW j \in Job, NEW sync \in BOOLEAN, Construct(j, sync) PROVE Place'
    BY <1>1 DEF Construct
  <1>2. ASSUME NEW j \in Job, Constructor(j) PROVE Place'
    <2>1. CASE Acquire(j)
      BY <2>1 DEF Acquire, TakeSlot
    <2>2. CASE QueueTimeout(j)
      BY <2>2 DEF QueueTimeout
    <2>3. CASE StartThread(j)
      BY <2>3 DEF StartThread
    <2>4. CASE StartFails(j)
      BY <2>4 DEF StartFails, FreeSlot
    <2> QED
      BY <1>2, <2>1, <2>2, <2>3, <2>4 DEF Constructor
  <1>3. ASSUME NEW j \in Job, Worker(j) PROVE Place'
    <2>1. CASE Connect(j)
      BY <2>1 DEF Connect, Move
    <2>2. CASE ConnectFails(j)
      BY <2>2 DEF ConnectFails, Move
    <2>3. CASE Execute(j)
      BY <2>3 DEF Execute, Move
    <2>4. CASE QueryInterrupted(j)
      BY <2>4 DEF QueryInterrupted, Move
    <2>5. CASE RecordResult(j)
      BY <2>5 DEF RecordResult, Move
    <2>6. CASE RecordError(j)
      BY <2>6 DEF RecordError, Move
    <2>7. CASE CloseCon(j)
      BY <2>7 DEF CloseCon, Move
    <2>8. CASE Release(j)
      BY <2>8 DEF Release, FreeSlot, Move
    <2> QED
      BY <1>3, <2>1, <2>2, <2>3, <2>4, <2>5, <2>6, <2>7, <2>8 DEF Worker
  <1>4. ASSUME NEW j \in Job, QueryEnds(j) PROVE Place'
    BY <1>4 DEF QueryEnds, QueryReturns, QueryRaises, ThreadDies, Move
  <1>5. ASSUME NEW j \in Job, SyncCaller(j) PROVE Place'
    BY <1>5 DEF SyncCaller, Answer, Expire, ExpiredCancel, ExpiredInterrupt, GraceOver
  <1>6. ASSUME Cancelling PROVE Place'
    BY <1>6 DEF Cancelling, Cancel, Interrupt
  <1>7. CASE UNCHANGED vars
    BY <1>7 DEF vars
  <1> QED
    BY <1>1, <1>2, <1>3, <1>4, <1>5, <1>6, <1>7 DEF Next

-----------------------------------------------------------------------------
\* The inductive invariant holds in every reachable state.
LEMMA Invariance == Spec => []IInv
  <1>1. IInv /\ [Next]_vars => IInv'
    BY TypeStep, SlotsStep, PlaceStep DEF IInv
  <1> QED
    BY InitEstablishesInv, <1>1, PTL DEF Spec

\* Type correctness of the gate, the jobs and their callers.
THEOREM TypeCorrect == Spec => []TypeOK
  <1>1. IInv => TypeOK
    BY DEF IInv
  <1> QED
    BY Invariance, <1>1, PTL

\* No failure path of the constructor or of the worker thread loses a slot of
\* the gate or gives one back twice.
THEOREM GateConserved == Spec => []SlotsConserved
  <1>1. IInv => SlotsConserved
    BY DEF IInv
  <1> QED
    BY Invariance, <1>1, PTL

\* The promise of SQLHANDLER_MAX_CONCURRENT_QUERIES: never more workers than
\* slots, however their construction, cancellation and failure interleave.
THEOREM WorkersBounded == Spec => []GateBound
  <1>1. IInv => GateBound
    <2> SUFFICES ASSUME IInv, Limited
                 PROVE  Cardinality({j \in Job : at[j] \in Live}) <= MaxConcurrent
      BY DEF GateBound
    <2> DEFINE Using == {j \in Job : at[j] \in Live}
    <2>1. Using \subseteq held
      BY DEF IInv, HeldWhileLive
    <2>2. IsFiniteSet(held)
      BY JobsFinite, FS_Subset DEF IInv, TypeOK
    <2>3. /\ Cardinality(Using) <= Cardinality(held)
          /\ Cardinality(Using) \in Nat /\ Cardinality(held) \in Nat
      BY <2>1, <2>2, FS_Subset, FS_CardinalityType
    <2> QED
      BY <2>3, MaxConcurrentNat DEF IInv, TypeOK, SlotsConserved
  <1> QED
    BY Invariance, <1>1, PTL

-----------------------------------------------------------------------------
(* QueryJob implements JobOutcome.                                         *)

\* What JobOutcome sees of job j.
Seen(j) == IF at[j] \in Unborn THEN "none" ELSE State(j)

\* A step that changes what is seen of one job only, from a to b.
SeenStep(j, a, b) == /\ Seen(j) = a
                     /\ at' = [at EXCEPT ![j] = at'[j]]
                     /\ state' = [state EXCEPT ![j] = state'[j]]
                     /\ Seen(j)' = b

LEMMA SeenStepMaps ==
  ASSUME TypeOK, NEW j \in Job, NEW a, NEW b, SeenStep(j, a, b)
  PROVE  [k \in Job |-> Seen(k)]' = [[k \in Job |-> Seen(k)] EXCEPT ![j] = b]
  <1>1. \A k \in Job \ {j} : Seen(k)' = Seen(k)
    BY DEF SeenStep, Seen, State, TypeOK
  <1> QED
    BY <1>1 DEF SeenStep

\* Every step of QueryJob is a step of JobOutcome or leaves what it sees alone.
LEMMA OutcomeStep == IInv /\ [Next]_vars => [Outcome!Next]_(Outcome!vars)
  <1> DEFINE seen == [k \in Job |-> Seen(k)]
             Goal == [Outcome!Next]_(Outcome!vars)
  <1> SUFFICES ASSUME IInv, [Next]_vars PROVE Goal
    OBVIOUS
  <1>0. TypeOK /\ TypeOK'
    BY TypeStep DEF IInv
  <1>a. ASSUME seen' = seen, UNCHANGED cancelled PROVE Goal
    BY <1>a DEF Outcome!vars, Seen
  <1>b. ASSUME NEW j \in Job, SeenStep(j, "none", "running"), UNCHANGED cancelled
        PROVE  Goal
    <2>1. seen[j] = "none" /\ seen' = [seen EXCEPT ![j] = "running"]
      BY <1>0, <1>b, SeenStepMaps DEF SeenStep
    <2>2. Outcome!Start(j)
      BY <1>b, <2>1 DEF Outcome!Start, Seen
    <2> QED
      BY <2>2 DEF Outcome!Next
  <1>c. ASSUME NEW j \in Job, NEW s \in {"done", "error", "cancelled"},
               SeenStep(j, "running", s), UNCHANGED cancelled,
               s = "done" => j \notin cancelled, s = "cancelled" => j \in cancelled
        PROVE  Goal
    <2>1. seen[j] = "running" /\ seen' = [seen EXCEPT ![j] = s]
      BY <1>0, <1>c, SeenStepMaps DEF SeenStep
    <2>2. Outcome!End(j, s)
      BY <1>c, <2>1 DEF Outcome!End, Seen
    <2> QED
      BY <2>2 DEF Outcome!Next, Outcome!Terminal
  <1>d. ASSUME NEW j \in Job, seen' = seen, cancelled' = cancelled \union {j},
               at[j] \notin Unborn
        PROVE  Goal
    <2>1. seen[j] # "none"
      BY <1>0, <1>d DEF Seen, State, TypeOK
    <2>2. Outcome!Ask(j)
      BY <1>d, <2>1 DEF Outcome!Ask, Seen
    <2> QED
      BY <2>2 DEF Outcome!Next
  <1> USE DEF Seen, State, Unborn
  <1>1. ASSUME NEW j \in Job,
               \/ \E sync \in BOOLEAN : Construct(j, sync)
               \/ Acquire(j) \/ QueueTimeout(j) \/ StartFails(j)
        PROVE  Goal
    <2>1. seen' = seen /\ UNCHANGED cancelled
      BY <1>0, <1>1 DEF Construct, Acquire, QueueTimeout, StartFails, TypeOK
    <2> QED
      BY <2>1, <1>a
  <1>2. ASSUME NEW j \in Job, StartThread(j) PROVE Goal
    <2>1. SeenStep(j, "none", "running") /\ UNCHANGED cancelled
      BY <1>0, <1>2 DEF StartThread, SeenStep, TypeOK, IInv, NoEarlyOutcome
    <2> QED
      BY <2>1, <1>b
  <1>3. ASSUME NEW j \in Job,
               Connect(j) \/ Execute(j) \/ QueryInterrupted(j) \/ CloseCon(j) \/ QueryEnds(j)
        PROVE  Goal
    <2>1. seen' = seen /\ UNCHANGED cancelled
      BY <1>0, <1>3 DEF Connect, Execute, QueryInterrupted, CloseCon, QueryEnds,
                        QueryReturns, QueryRaises, ThreadDies, Move, TypeOK
    <2> QED
      BY <2>1, <1>a
  <1>4. ASSUME NEW j \in Job, ConnectFails(j) PROVE Goal
    <2>1. SeenStep(j, "running", "error") /\ UNCHANGED cancelled
      BY <1>0, <1>4 DEF ConnectFails, Move, SeenStep, TypeOK, IInv, NoEarlyOutcome
    <2> QED
      BY <2>1, <1>c
  <1>5. ASSUME NEW j \in Job, RecordResult(j) PROVE Goal
    <2> DEFINE s == IF j \in cancelled THEN "cancelled" ELSE "done"
    <2>1. SeenStep(j, "running", s) /\ UNCHANGED cancelled
      BY <1>0, <1>5 DEF RecordResult, Move, SeenStep, TypeOK, IInv, NoEarlyOutcome
    <2> QED
      BY <2>1, <1>c
  <1>6. ASSUME NEW j \in Job, RecordError(j) PROVE Goal
    <2> DEFINE s == IF j \in cancelled THEN "cancelled" ELSE "error"
    <2>1. SeenStep(j, "running", s) /\ UNCHANGED cancelled
      BY <1>0, <1>6 DEF RecordError, Move, SeenStep, TypeOK, IInv, NoEarlyOutcome
    <2> QED
      BY <2>1, <1>c
  <1>7. ASSUME NEW j \in Job, Release(j) PROVE Goal
    <2>1. CASE state[j] = "running"
      <3>1. SeenStep(j, "running", "error") /\ UNCHANGED cancelled
        BY <1>0, <1>7, <2>1 DEF Release, Move, SeenStep, TypeOK
      <3> QED
        BY <3>1, <1>c
    <2>2. CASE state[j] # "running"
      <3>1. seen' = seen /\ UNCHANGED cancelled
        BY <1>0, <1>7, <2>2 DEF Release, Move, TypeOK
      <3> QED
        BY <3>1, <1>a
    <2> QED
      BY <2>1, <2>2
  <1>8. ASSUME NEW j \in Job, SyncCaller(j) PROVE Goal
    <2>1. seen' = seen
      BY <1>8 DEF SyncCaller, Answer, Expire, ExpiredCancel, ExpiredInterrupt, GraceOver
    <2>2. CASE ExpiredCancel(j)
      BY <2>1, <2>2, <1>d DEF ExpiredCancel, IInv, ExpiredJobExists
    <2>3. CASE ~ExpiredCancel(j)
      <3>1. UNCHANGED cancelled
        BY <1>8, <2>3 DEF SyncCaller, Answer, Expire, ExpiredInterrupt, GraceOver
      <3> QED
        BY <2>1, <3>1, <1>a
    <2> QED
      BY <2>2, <2>3
  <1>9. ASSUME NEW c \in Canceller, NEW j \in Job, Cancel(c, j) \/ Interrupt(c, j)
        PROVE  Goal
    <2>1. seen' = seen
      BY <1>9 DEF Cancel, Interrupt
    <2>2. CASE Cancel(c, j)
      BY <2>1, <2>2, <1>d DEF Cancel
    <2>3. CASE Interrupt(c, j)
      BY <2>1, <2>3, <1>a DEF Interrupt
    <2> QED
      BY <1>9, <2>2, <2>3
  <1>10. CASE UNCHANGED vars
    <2>1. seen' = seen /\ UNCHANGED cancelled
      BY <1>10 DEF vars
    <2> QED
      BY <2>1, <1>a
  <1> QED
    BY <1>1, <1>2, <1>3, <1>4, <1>5, <1>6, <1>7, <1>8, <1>9, <1>10
       DEF Next, Constructor, Worker, Cancelling

\* A query job implements its outcome contract: one outcome, kept for ever,
\* and never a result after a cancel that came before it, whichever thread
\* cancels, times out or polls.
THEOREM OutcomeImplemented == Spec => OutcomeKept
  <1>1. Init => Outcome!Init
    BY DEF Init, Outcome!Init, Unborn
  <1> QED
    BY Invariance, OutcomeStep, <1>1, PTL DEF OutcomeKept, Outcome!Spec, Spec

-----------------------------------------------------------------------------
(* PolicyStore.                                                            *)

\* A call under way has noted what fits by now.
PolicySeen == \A t \in Asker : atP[t] # "idle" => P!Fits(file, version, loaded) \subseteq could[t]

\* The policy in force was in the file at its signature or later, and a file that is
\* still the one it was read from is not broken.
PolicyInForce ==
  /\ policy = None <=> loaded = {}
  /\ policy # None => /\ policy \in loaded /\ stat <= policy /\ policy <= version
                      /\ policy = version => file # "broken"

\* A thread that is about to answer with the policy of the file has seen it, and one
\* that has found none has seen that.
PolicyRead(t) ==
  /\ sig[t] <= version
  /\ atP[t] = "swap" /\ haveP[t] # None =>
       /\ sig[t] <= haveP[t] /\ haveP[t] <= version
       /\ haveP[t] = version => file # "broken"
       /\ haveP[t] \in could[t]
  /\ atP[t] = "swap" /\ haveP[t] = None => None \in could[t] /\ (loaded = {} => Closed \in could[t])
  /\ atP[t] = "gone" => None \in could[t] /\ (loaded = {} => Unrestricted \in could[t])

\* A policy under the signature that a thread compares, in force or about to be, has
\* been right since the thread took the signature.
PolicyCompared(t) ==
  atP[t] = "compare" =>
    /\ policy # None /\ stat = sig[t] => policy \in could[t]
    /\ \A u \in Asker : atP[u] = "swap" /\ haveP[u] # None /\ sig[u] = sig[t] => haveP[u] \in could[t]

PolicyInv ==
  /\ P!TypeOK /\ PolicySeen /\ PolicyInForce
  /\ \A t \in Asker : PolicyRead(t) /\ PolicyCompared(t)
  /\ AnswersAreDue

LEMMA PolicyInit == P!Parameters /\ P!Init => PolicyInv
  BY DEF P!Parameters, P!Init, PolicyInv, P!TypeOK, PolicySeen, PolicyInForce, PolicyRead,
         PolicyCompared, AnswersAreDue, P!AnswersAreDue, P!Version, P!Answers

\* What a step adds to the notes of a call that goes on, and that it takes none away.
LEMMA PolicyNotes ==
  ASSUME P!Observe, NEW t \in Asker
  PROVE  /\ atP'[t] # "idle" => P!Fits(file', version', loaded') \subseteq could'[t]
         /\ atP[t] # "idle" => could[t] \subseteq could'[t]
         /\ atP'[t] = "idle" => could'[t] = could[t]
  BY DEF P!Observe

LEMMA PolicyTyped ==
  ASSUME P!Parameters, PolicyInv, P!Next
  PROVE  P!TypeOK'
  <1> USE DEF P!TypeOK, P!Go, P!Answer, P!Keep, P!disk
  <1>1. P!TypeOK /\ PolicyInForce /\ None \notin Nat /\ MaxEdits \in Nat
    BY DEF PolicyInv, P!Parameters
  <1>2. /\ atP' \in [Asker -> {"idle", "stat", "gone", "compare", "load", "swap"}]
        /\ sig' \in [Asker -> P!Version] /\ haveP' \in [Asker -> P!Version \union {None}]
        /\ ans' \in [Asker -> P!Answers \union {None}]
        /\ policy' \in P!Version \union {None} /\ stat' \in P!Version
        /\ file' \in {"absent", "good", "broken"} /\ version' \in P!Version
        /\ loaded' \subseteq P!Version
    <2>1. ASSUME NEW t \in Asker, P!Call(t) \/ P!Stat(t) PROVE <1>2
      BY <1>1, <2>1 DEF P!Call, P!Stat
    <2>2. ASSUME NEW t \in Asker, P!Gone(t) \/ P!Compare(t) PROVE <1>2
      BY <1>1, <2>2 DEF P!Gone, P!Compare, P!Kept, P!Answers
    <2>3. ASSUME NEW t \in Asker, P!Load(t) PROVE <1>2
      BY <1>1, <2>3 DEF P!Load
    <2>4. ASSUME NEW t \in Asker, P!Swap(t) PROVE <1>2
      BY <1>1, <2>4 DEF P!Swap, P!Kept, P!Answers
    <2>5. CASE P!Edit
      BY <1>1, <2>5 DEF P!Edit, P!Version
    <2>6. CASE P!Vanish
      BY <1>1, <2>6 DEF P!Vanish
    <2> QED
      BY <2>1, <2>2, <2>3, <2>4, <2>5, <2>6 DEF P!Next
  <1>3. P!Fits(file', version', loaded') \subseteq P!Answers \union {None}
    BY <1>2 DEF P!Fits, P!Answers
  <1>4. could' \in [Asker -> SUBSET (P!Answers \union {None})]
    BY <1>1, <1>3 DEF P!Next, P!Observe
  <1> QED
    BY <1>2, <1>4

LEMMA PolicyInForceKept ==
  ASSUME P!Parameters, PolicyInv, P!Next
  PROVE  PolicyInForce'
  <1>1. /\ None \notin Nat /\ PolicyInForce
        /\ \A t \in Asker : sig[t] \in Nat /\ haveP[t] \in Nat \union {None} /\ PolicyRead(t)
        /\ policy \in Nat \union {None} /\ stat \in Nat /\ version \in Nat /\ loaded \subseteq Nat
    BY DEF PolicyInv, P!TypeOK, P!Parameters, P!Version
  <1>2. ASSUME NEW t \in Asker, P!Call(t) \/ P!Stat(t) \/ P!Gone(t) \/ P!Compare(t) \/ P!Load(t)
        PROVE  PolicyInForce'
    BY <1>1, <1>2 DEF PolicyInForce, P!Call, P!Stat, P!Gone, P!Compare, P!Load, P!Keep, P!disk
  <1>3. ASSUME NEW t \in Asker, P!Swap(t) PROVE PolicyInForce'
    <2>1. CASE haveP[t] = None
      BY <1>1, <1>3, <2>1 DEF PolicyInForce, P!Swap, P!disk
    <2>2. CASE haveP[t] # None
      BY <1>1, <1>3, <2>2 DEF PolicyInForce, PolicyRead, P!Swap, P!disk
    <2> QED
      BY <2>1, <2>2
  <1>4. CASE P!Edit
    BY <1>1, <1>4 DEF PolicyInForce, P!Edit
  <1>5. CASE P!Vanish
    BY <1>1, <1>5 DEF PolicyInForce, P!Vanish
  <1> QED
    BY <1>2, <1>3, <1>4, <1>5 DEF P!Next

LEMMA PolicyReadKept ==
  ASSUME P!Parameters, PolicyInv, P!Next, NEW u \in Asker
  PROVE  PolicyRead(u)'
  <1>1. /\ None \notin Nat /\ PolicyInForce /\ MaxEdits \in Nat
        /\ \A t \in Asker : sig[t] \in Nat /\ haveP[t] \in Nat \union {None}
        /\ PolicyRead(u) /\ version \in Nat
        /\ file \in {"absent", "good", "broken"}
        /\ atP[u] # "idle" => P!Fits(file, version, loaded) \subseteq could[u]
    BY DEF PolicyInv, PolicySeen, P!TypeOK, P!Parameters, P!Version
  <1>2. DOMAIN atP = Asker /\ DOMAIN sig = Asker /\ DOMAIN haveP = Asker
    BY DEF PolicyInv, P!TypeOK
  <1>3. /\ atP'[u] # "idle" => P!Fits(file', version', loaded') \subseteq could'[u]
        /\ atP[u] # "idle" => could[u] \subseteq could'[u]
    BY PolicyNotes DEF P!Next
  <1> USE DEF PolicyRead, P!Go, P!Answer, P!Keep, P!disk
  <1>4. ASSUME NEW t \in Asker, P!Call(t) \/ P!Gone(t) \/ P!Compare(t) PROVE PolicyRead(u)'
    BY <1>1, <1>2, <1>3, <1>4 DEF P!Call, P!Gone, P!Compare
  <1>5. ASSUME NEW t \in Asker, P!Stat(t) PROVE PolicyRead(u)'
    <2>1. CASE u = t /\ file = "absent"
      BY <1>1, <1>2, <1>3, <1>5, <2>1 DEF P!Stat, P!Fits
    <2>2. CASE u = t /\ file # "absent"
      BY <1>1, <1>2, <1>3, <1>5, <2>2 DEF P!Stat
    <2>3. CASE u # t
      BY <1>1, <1>2, <1>3, <1>5, <2>3 DEF P!Stat
    <2> QED
      BY <2>1, <2>2, <2>3
  <1>6. ASSUME NEW t \in Asker, P!Load(t) PROVE PolicyRead(u)'
    <2>1. CASE u = t /\ file = "good"
      BY <1>1, <1>2, <1>3, <1>6, <2>1 DEF P!Load, P!Fits
    <2>2. CASE u = t /\ file # "good"
      BY <1>1, <1>2, <1>3, <1>6, <2>2 DEF P!Load, P!Fits
    <2>3. CASE u # t
      BY <1>1, <1>2, <1>3, <1>6, <2>3 DEF P!Load
    <2> QED
      BY <2>1, <2>2, <2>3
  <1>7. ASSUME NEW t \in Asker, P!Swap(t) PROVE PolicyRead(u)'
    <2>1. atP' = [atP EXCEPT ![t] = "idle"] /\ loaded \subseteq loaded' /\ UNCHANGED <<sig, haveP, file, version>>
      BY <1>7 DEF P!Swap
    <2> QED
      BY <1>1, <1>2, <1>3, <1>7, <2>1 DEF P!Swap
  <1>8. CASE P!Edit
    BY <1>1, <1>2, <1>3, <1>8 DEF P!Edit
  <1>9. CASE P!Vanish
    BY <1>1, <1>2, <1>3, <1>9 DEF P!Vanish
  <1> HIDE DEF PolicyRead
  <1> QED
    BY <1>4, <1>5, <1>6, <1>7, <1>8, <1>9 DEF P!Next

LEMMA PolicyComparedKept ==
  ASSUME P!Parameters, PolicyInv, P!Next, NEW u \in Asker
  PROVE  PolicyCompared(u)'
  <1>1. /\ None \notin Nat /\ PolicyInForce /\ P!TypeOK /\ file \in {"absent", "good", "broken"}
        /\ \A t \in Asker : sig[t] \in Nat /\ haveP[t] \in Nat \union {None} /\ PolicyRead(t)
        /\ PolicyCompared(u) /\ version \in Nat /\ stat \in Nat /\ policy \in Nat \union {None}
        /\ atP[u] # "idle" => P!Fits(file, version, loaded) \subseteq could[u]
    BY DEF PolicyInv, PolicySeen, P!TypeOK, P!Parameters, P!Version
  <1>2. DOMAIN atP = Asker /\ DOMAIN sig = Asker /\ DOMAIN haveP = Asker
    BY DEF PolicyInv, P!TypeOK
  <1>3. /\ atP'[u] # "idle" => P!Fits(file', version', loaded') \subseteq could'[u]
        /\ atP[u] # "idle" => could[u] \subseteq could'[u]
    BY PolicyNotes DEF P!Next
  <1>4. ASSUME NEW t \in Asker, P!Call(t) \/ P!Gone(t) \/ P!Compare(t) PROVE PolicyCompared(u)'
    BY <1>1, <1>2, <1>3, <1>4
       DEF PolicyCompared, P!Call, P!Gone, P!Compare, P!Go, P!Answer, P!Keep, P!disk
  <1>5. ASSUME NEW t \in Asker, P!Stat(t) PROVE PolicyCompared(u)'
    <2>1. CASE u = t /\ file # "absent"
      BY <1>1, <1>2, <1>3, <1>5, <2>1
         DEF PolicyCompared, PolicyRead, PolicyInForce, P!Stat, P!Go, P!Fits, P!disk
    <2>2. CASE u # t \/ file = "absent"
      BY <1>1, <1>2, <1>3, <1>5, <2>2 DEF PolicyCompared, P!Stat, P!Go, P!disk
    <2> QED
      BY <2>1, <2>2
  <1>6. ASSUME NEW t \in Asker, P!Load(t) PROVE PolicyCompared(u)'
    BY <1>1, <1>2, <1>3, <1>6 DEF PolicyCompared, P!Load, P!Go, P!Fits, P!disk
  <1>7. ASSUME NEW t \in Asker, P!Swap(t) PROVE PolicyCompared(u)'
    BY <1>1, <1>2, <1>3, <1>7 DEF PolicyCompared, P!Swap, P!Go, P!Answer, P!disk
  <1>8. CASE P!Edit \/ P!Vanish
    BY <1>1, <1>2, <1>3, <1>8 DEF PolicyCompared, P!Edit, P!Vanish
  <1> QED
    BY <1>4, <1>5, <1>6, <1>7, <1>8 DEF P!Next

\* An answer is due when it is given, and stays so.
LEMMA PolicyDue ==
  ASSUME P!Parameters, PolicyInv, P!Next
  PROVE  AnswersAreDue'
  <1> SUFFICES ASSUME NEW u \in Asker, (atP[u] = "idle" /\ ans[u] # None)'
               PROVE  (ans[u] \in could[u] \/ (None \in could[u] /\ ans[u] \in loaded))'
    BY DEF AnswersAreDue, P!AnswersAreDue
  <1> DEFINE Due == ans[u] \in could[u] \/ (None \in could[u] /\ ans[u] \in loaded)
  <1>1. /\ None \notin Nat /\ PolicyInForce
        /\ atP[u] = "idle" /\ ans[u] # None => Due
        /\ PolicyRead(u) /\ PolicyCompared(u)
        /\ atP[u] # "idle" => P!Fits(file, version, loaded) \subseteq could[u]
    BY DEF PolicyInv, PolicySeen, P!Parameters, AnswersAreDue, P!AnswersAreDue
  <1>2. DOMAIN atP = Asker /\ DOMAIN ans = Asker
    BY DEF PolicyInv, P!TypeOK
  <1>3. could'[u] = could[u]
    BY PolicyNotes DEF P!Next
  <1>4. ASSUME NEW t \in Asker, P!Call(t) \/ P!Stat(t) \/ P!Load(t) PROVE Due'
    BY <1>1, <1>2, <1>3, <1>4 DEF P!Call, P!Stat, P!Load, P!Go, P!Keep, P!disk
  <1>5. ASSUME NEW t \in Asker, P!Gone(t) PROVE Due'
    BY <1>1, <1>2, <1>3, <1>5 DEF PolicyRead, PolicyInForce, P!Gone, P!Kept, P!Go, P!Answer, P!Keep
  <1>6. ASSUME NEW t \in Asker, P!Compare(t) PROVE Due'
    BY <1>1, <1>2, <1>3, <1>6 DEF PolicyCompared, P!Compare, P!Go, P!Answer, P!Keep
  <1>7. ASSUME NEW t \in Asker, P!Swap(t) PROVE Due'
    BY <1>1, <1>2, <1>3, <1>7 DEF PolicyRead, PolicyInForce, P!Swap, P!Kept, P!Go, P!Answer
  <1>8. CASE P!Edit \/ P!Vanish
    BY <1>1, <1>2, <1>3, <1>8 DEF P!Edit, P!Vanish
  <1> QED
    BY <1>4, <1>5, <1>6, <1>7, <1>8 DEF P!Next

\* Whatever is edited, breaks or vanishes while threads are between their looks and
\* their swaps, an answer is a policy that the file had during the call, or one that
\* was in force while the file was no good.
THEOREM PolicyKeepsDue ==
  ASSUME P!Parameters
  PROVE  P!Spec => [](P!TypeOK /\ AnswersAreDue)
  <1>1. PolicyInv /\ [P!Next]_(P!vars) => PolicyInv'
    <2> SUFFICES ASSUME PolicyInv, [P!Next]_(P!vars) PROVE PolicyInv'
      OBVIOUS
    <2>1. CASE P!Next
      <3>1. PolicySeen'
        BY <2>1, PolicyNotes DEF PolicySeen, P!Next
      <3> QED
        BY <2>1, <3>1, PolicyTyped, PolicyInForceKept, PolicyReadKept, PolicyComparedKept, PolicyDue
           DEF PolicyInv
    <2>2. CASE UNCHANGED P!vars
      BY <2>2 DEF P!vars, PolicyInv, P!TypeOK, PolicySeen, PolicyInForce, PolicyRead,
         PolicyCompared, AnswersAreDue, P!AnswersAreDue
    <2> QED
      BY <2>1, <2>2
  <1>2. PolicyInv => P!TypeOK /\ AnswersAreDue
    BY DEF PolicyInv
  <1>3. P!Init => PolicyInv
    BY PolicyInit
  <1> QED
    BY <1>1, <1>2, <1>3, PTL DEF P!Spec

-----------------------------------------------------------------------------
(* Fetcher.                                                                *)

\* A call that has asked for nothing has begun no task; one that waits, waits for one
\* that was begun.
TasksBegun ==
  \A c \in Visitor : /\ pc[c] = "new" => atF[c] = "none"
                     /\ pc[c] = "waits" => task[c] \in Visitor /\ atF[task[c]] # "none"

\* A task that others can join is one of its URL, and not over.
InflightRuns ==
  \A u \in Url : inflight[u] # None => /\ atF[inflight[u]] \notin {"none", "over"}
                                       /\ url[inflight[u]] = u

\* Only what is over has an outcome that has been heard.
HeardIsOver == \A u \in Url : \A f \in heard[u] : atF[f] = "over"

PagesInv ==
  /\ F!TypeOK /\ TasksBegun /\ InflightRuns /\ HeardIsOver
  /\ FailuresAreRetried

LEMMA PagesInit == F!Parameters /\ F!Init => PagesInv
  BY DEF F!Parameters, F!Init, PagesInv, F!TypeOK, F!Task, F!Steps, TasksBegun, InflightRuns,
         HeardIsOver, FailuresAreRetried, F!FailuresAreRetried

\* A step up the ladder is one of a task under way, and either goes on or ends the
\* task, with an outcome or without one; nobody who waits notices.
Climb(f) == F!Begin(f) \/ F!Browser(f) \/ F!Plain(f) \/ F!PlainEnds(f) \/ F!Impersonated(f)
            \/ F!Extract(f) \/ F!Render(f) \/ F!Raise(f)

LEMMA ClimbStep ==
  ASSUME F!Parameters, F!TypeOK, NEW f \in Visitor, Climb(f)
  PROVE  /\ UNCHANGED <<url, pc, task, heard, inflight, store>>
         /\ atF[f] \notin {"none", "publish", "over"}
         /\ html' \in [Visitor -> BOOLEAN]
         /\ verdict' \in Url \union {None} /\ note' \in Visitor \union {None}
         /\ \/ /\ \E s \in F!Steps \ {"none", "over"} : atF' = [atF EXCEPT ![f] = s]
               /\ UNCHANGED outcome
            \/ /\ atF' = [atF EXCEPT ![f] = "publish"]
               /\ \E o \in F!Outcome : outcome' = [outcome EXCEPT ![f] = o]
  <1> USE DEF F!TypeOK, F!Task, F!Go, F!Rest, F!calls, F!cache, F!shared, F!Steps
  <1>1. \A text \in BOOLEAN : F!Ended(text) \in F!Outcome
    BY DEF F!Ended, F!Outcome
  <1>2. CASE F!Begin(f)
    BY <1>2 DEF F!Begin
  <1>3. CASE F!Browser(f)
    BY <1>1, <1>3 DEF F!Browser, F!End
  <1>a. F!Rung(f) => /\ html' \in [Visitor -> BOOLEAN]
                     /\ verdict' \in Url \union {None} /\ note' \in Visitor \union {None}
    <2>1. CASE html' = [html EXCEPT ![f] = TRUE] /\ verdict' = None /\ note' \in {note, f}
      BY <2>1
    <2>2. CASE verdict' = url[f] /\ UNCHANGED <<html, note>>
      BY <2>2
    <2>3. CASE UNCHANGED <<html, F!shared>>
      BY <2>3
    <2> QED
      BY <2>1, <2>2, <2>3 DEF F!Rung
  <1>4. CASE F!Plain(f)
    BY <1>a, <1>4 DEF F!Plain
  <1>5. CASE F!PlainEnds(f)
    BY <1>5 DEF F!PlainEnds
  <1>6. CASE F!Impersonated(f)
    BY <1>a, <1>6 DEF F!Impersonated
  <1>7. CASE F!Extract(f)
    <2>1. PICK text \in {FALSE, html[f]} :
            \/ F!End(f, text) /\ UNCHANGED html
            \/ /\ verdict = None /\ F!Go(f, "render")
               /\ html' = [html EXCEPT ![f] = text] /\ UNCHANGED outcome
      BY <1>7 DEF F!Extract
    <2>2. text \in BOOLEAN
      OBVIOUS
    <2>3. /\ UNCHANGED <<url, pc, task, heard, inflight, store, verdict, note>>
          /\ atF[f] = "extract"
      BY <1>7 DEF F!Extract
    <2>4. CASE F!End(f, text) /\ UNCHANGED html
      BY <1>1, <2>2, <2>3, <2>4 DEF F!End
    <2>5. CASE F!Go(f, "render") /\ html' = [html EXCEPT ![f] = text] /\ UNCHANGED outcome
      BY <2>2, <2>3, <2>5
    <2> QED
      BY <2>1, <2>4, <2>5
  <1>8. CASE F!Render(f)
    <2>1. html[f] \in BOOLEAN /\ UNCHANGED <<url, pc, task, heard, inflight, store, html, verdict>>
      BY <1>8 DEF F!Render
    <2>2. CASE atF[f] = "render" /\ \E text \in {TRUE, html[f]} : F!End(f, text) /\ UNCHANGED note
      BY <1>1, <2>1, <2>2 DEF F!End
    <2>3. CASE atF[f] = "render" /\ note' = f /\ F!Go(f, "noted") /\ UNCHANGED outcome
      BY <2>1, <2>3
    <2>4. CASE atF[f] = "noted" /\ F!End(f, html[f]) /\ UNCHANGED note
      BY <1>1, <2>1, <2>4 DEF F!End
    <2> QED
      BY <1>8, <2>2, <2>3, <2>4 DEF F!Render
  <1>9. CASE F!Raise(f)
    BY <1>9 DEF F!Raise
  <1> QED
    BY <1>2, <1>3, <1>4, <1>5, <1>6, <1>7, <1>8, <1>9 DEF Climb

\* What of the invariant tells of the tasks.
TasksKnown == TasksBegun /\ InflightRuns /\ HeardIsOver /\ FailuresAreRetried

LEMMA PagesStep ==
  ASSUME F!Parameters, PagesInv, [F!Next]_(F!vars)
  PROVE  PagesInv'
  <1> USE DEF F!Task, F!calls, F!cache, F!shared
  <1>1. F!TypeOK /\ TasksKnown /\ None \notin Visitor \union Url
    BY DEF PagesInv, TasksKnown, F!Parameters
  <1>2. ASSUME NEW c \in Visitor, F!Hit(c) PROVE F!TypeOK' /\ TasksKnown'
    <2>1. store[url[c]] \in F!Outcome /\ note' \in Visitor \union {None}
      BY <1>1, <1>2 DEF F!Hit, F!Mirrored, F!TypeOK, F!Outcome
    <2>2. F!TypeOK'
      BY <1>1, <1>2, <2>1 DEF F!Hit, F!TypeOK
    <2>3. TasksKnown'
      BY <1>1, <1>2 DEF F!Hit, F!TypeOK, TasksKnown, TasksBegun, InflightRuns, HeardIsOver,
         FailuresAreRetried, F!FailuresAreRetried
    <2> QED
      BY <2>2, <2>3
  <1>3. ASSUME NEW c \in Visitor, F!Join(c) PROVE F!TypeOK' /\ TasksKnown'
    <2>1. CASE inflight[url[c]] # None
      BY <1>1, <1>3, <2>1 DEF F!Join, F!TypeOK, TasksKnown, TasksBegun, InflightRuns, HeardIsOver,
         FailuresAreRetried, F!FailuresAreRetried
    <2>2. CASE inflight[url[c]] = None
      <3>1. /\ pc[c] = "new" /\ pc' = [pc EXCEPT ![c] = "waits"] /\ task' = [task EXCEPT ![c] = c]
            /\ atF' = [atF EXCEPT ![c] = "limit"] /\ inflight' = [inflight EXCEPT ![url[c]] = c]
            /\ UNCHANGED <<url, heard, html, outcome, store, verdict, note>>
        BY <1>3, <2>2 DEF F!Join, F!Go
      <3>2. F!TypeOK'
        BY <1>1, <3>1 DEF F!TypeOK, F!Steps
      <3>3. atF[c] = "none" /\ \A u \in Url : c \notin heard[u]
        BY <1>1, <3>1 DEF TasksKnown, TasksBegun, HeardIsOver
      <3>4. TasksBegun'
        BY <1>1, <3>1, <3>3 DEF F!TypeOK, TasksKnown, TasksBegun
      <3>5. InflightRuns' /\ HeardIsOver' /\ FailuresAreRetried'
        BY <1>1, <3>1, <3>3 DEF F!TypeOK, TasksKnown, InflightRuns, HeardIsOver,
           FailuresAreRetried, F!FailuresAreRetried
      <3> QED
        BY <3>2, <3>4, <3>5 DEF TasksKnown
    <2> QED
      BY <2>1, <2>2
  <1>4. ASSUME NEW c \in Visitor, F!Wake(c) PROVE F!TypeOK' /\ TasksKnown'
    <2>1. /\ task[c] \in Visitor /\ atF[task[c]] = "over" /\ outcome[task[c]] \in F!Outcome \union {None}
      BY <1>1, <1>4 DEF F!Wake, F!TypeOK, TasksKnown, TasksBegun
    <2>2. /\ note' \in Visitor \union {None} /\ pc' = [pc EXCEPT ![c] = "answered"]
          /\ UNCHANGED <<url, task, atF, html, outcome, inflight, store, verdict>>
      BY <1>1, <1>4, <2>1 DEF F!Wake, F!Mirrored, F!TypeOK, F!Outcome
    <2>3. heard' \in {heard, [heard EXCEPT ![url[c]] = @ \union {task[c]}]}
      BY <1>4 DEF F!Wake
    <2>4. F!TypeOK'
      BY <1>1, <2>1, <2>2, <2>3 DEF F!TypeOK
    <2>5. \A u \in Url : heard'[u] \subseteq heard[u] \union {task[c]}
      BY <1>1, <2>3 DEF F!TypeOK
    <2>6. TasksBegun' /\ InflightRuns' /\ HeardIsOver'
      BY <1>1, <2>1, <2>2, <2>5 DEF F!TypeOK, TasksKnown, TasksBegun, InflightRuns, HeardIsOver
    <2>7. FailuresAreRetried'
      BY <1>1, <2>1, <2>2, <2>5 DEF TasksKnown, InflightRuns, FailuresAreRetried, F!FailuresAreRetried
    <2> QED
      BY <2>4, <2>6, <2>7 DEF TasksKnown
  <1>5. ASSUME NEW c \in Visitor, F!Leave(c) PROVE F!TypeOK' /\ TasksKnown'
    BY <1>1, <1>5 DEF F!Leave, F!TypeOK, TasksKnown, TasksBegun, InflightRuns, HeardIsOver,
       FailuresAreRetried, F!FailuresAreRetried
  <1>6. ASSUME NEW f \in Visitor, Climb(f) PROVE F!TypeOK' /\ TasksKnown'
    <2>1. PICK s \in F!Steps \ {"none", "over"} : atF' = [atF EXCEPT ![f] = s]
      BY <1>1, <1>6, ClimbStep DEF F!Steps
    <2>2. /\ UNCHANGED <<url, pc, task, heard, inflight, store>>
          /\ atF[f] \notin {"none", "publish", "over"}
      BY <1>1, <1>6, ClimbStep
    <2>3. F!TypeOK'
      <3>1. outcome' \in [Visitor -> F!Outcome \union {None}]
        BY <1>1, <1>6, ClimbStep DEF F!TypeOK
      <3>2. /\ html' \in [Visitor -> BOOLEAN]
            /\ verdict' \in Url \union {None} /\ note' \in Visitor \union {None}
        BY <1>1, <1>6, ClimbStep
      <3> QED
        BY <1>1, <2>1, <2>2, <3>1, <3>2 DEF F!TypeOK
    <2>4. TasksBegun' /\ InflightRuns' /\ HeardIsOver' /\ FailuresAreRetried'
      BY <1>1, <2>1, <2>2 DEF F!TypeOK, TasksKnown, TasksBegun, InflightRuns, HeardIsOver,
         FailuresAreRetried, F!FailuresAreRetried
    <2> QED
      BY <2>3, <2>4 DEF TasksKnown
  <1>7. ASSUME NEW f \in Visitor, F!Publish(f) PROVE F!TypeOK' /\ TasksKnown'
    <2>1. /\ atF[f] = "publish" /\ atF' = [atF EXCEPT ![f] = "over"]
          /\ inflight' = [inflight EXCEPT ![url[f]] = None]
          /\ UNCHANGED <<url, pc, task, heard, html, outcome, verdict, note>>
      BY <1>7 DEF F!Publish, F!Go
    <2>2. ~F!Failed(outcome[f]) => outcome[f] \in F!Outcome
      BY <1>1, <2>1 DEF F!TypeOK, F!Failed
    <2>3. \/ store' = store
          \/ ~F!Failed(outcome[f]) /\ store' = [store EXCEPT ![url[f]] = outcome[f]]
      BY <1>7 DEF F!Publish
    <2>4. F!TypeOK'
      BY <1>1, <2>1, <2>2, <2>3 DEF F!TypeOK, F!Steps
    <2>5. TasksBegun' /\ InflightRuns' /\ HeardIsOver'
      BY <1>1, <2>1 DEF F!TypeOK, TasksKnown, TasksBegun, InflightRuns, HeardIsOver
    <2>6. \A u \in Url : inflight'[u] \notin heard'[u]
      BY <1>1, <2>1 DEF F!TypeOK, TasksKnown, FailuresAreRetried, F!FailuresAreRetried
    <2>7. \A u \in Url : store'[u] # None => ~F!Failed(store'[u])
      BY <1>1, <2>1, <2>3 DEF F!TypeOK, TasksKnown, FailuresAreRetried, F!FailuresAreRetried
    <2>8. FailuresAreRetried'
      BY <2>6, <2>7 DEF FailuresAreRetried, F!FailuresAreRetried, F!Failed
    <2> QED
      BY <2>4, <2>5, <2>8 DEF TasksKnown
  <1>8. ASSUME NEW u \in Url, F!Expire(u) PROVE F!TypeOK' /\ TasksKnown'
    BY <1>1, <1>8 DEF F!Expire, F!TypeOK, TasksKnown, TasksBegun, InflightRuns, HeardIsOver,
       FailuresAreRetried, F!FailuresAreRetried
  <1>9. ASSUME UNCHANGED F!vars PROVE F!TypeOK' /\ TasksKnown'
    BY <1>1, <1>9 DEF F!vars, F!TypeOK, TasksKnown, TasksBegun, InflightRuns, HeardIsOver,
       FailuresAreRetried, F!FailuresAreRetried
  <1>10. F!TypeOK' /\ TasksKnown'
    BY <1>2, <1>3, <1>4, <1>5, <1>6, <1>7, <1>8, <1>9 DEF F!Next, F!Work, Climb
  <1> QED
    BY <1>10 DEF PagesInv, TasksKnown

\* However calls join, leave and repeat a fetch while it ends: a failure is told to
\* those who wait for it and to nobody who asks again.
THEOREM PagesRetryFailures ==
  ASSUME F!Parameters
  PROVE  F!Spec => [](F!TypeOK /\ FailuresAreRetried)
  <1>1. F!Init => PagesInv
    BY PagesInit
  <1>2. PagesInv /\ [F!Next]_(F!vars) => PagesInv'
    BY PagesStep
  <1>3. PagesInv => F!TypeOK /\ FailuresAreRetried
    BY DEF PagesInv
  <1> QED
    BY <1>1, <1>2, <1>3, PTL DEF F!Spec

\* Whoever waits for a page waits for a task that was begun and that nothing takes
\* away: what a waiter needs to be answered at all.
THEOREM WaitersHaveTasks ==
  ASSUME F!Parameters
  PROVE  F!Spec => [](\A c \in Visitor : pc[c] = "waits" => task[c] \in Visitor /\ atF[task[c]] # "none")
  <1>1. F!Init => PagesInv
    BY PagesInit
  <1>2. PagesInv /\ [F!Next]_(F!vars) => PagesInv'
    BY PagesStep
  <1>3. PagesInv => \A c \in Visitor : pc[c] = "waits" => task[c] \in Visitor /\ atF[task[c]] # "none"
    BY DEF PagesInv, TasksBegun
  <1> QED
    BY <1>1, <1>2, <1>3, PTL DEF F!Spec

-----------------------------------------------------------------------------
(* WarmCache.                                                              *)

\* The mark of a refresh has somebody who will take it back.
MarkIsWorked == refreshing => \E t \in L!Thread : atL[t] \in {"refresh", "unstarted", "listed"}

\* A step of a thread, whatever it is, moves that thread, and at most arms a timer.
LEMMA ListStep ==
  ASSUME L!TypeOK, MarkIsWorked, [L!Next]_(L!vars)
  PROVE  MarkIsWorked'
  <1>1. DOMAIN atL = L!Thread /\ refreshing \in BOOLEAN
    BY DEF L!TypeOK
  <1> USE DEF L!hands, L!caches, L!flags, L!Hold, L!Go, MarkIsWorked
  <1>2. ASSUME NEW t \in L!Thread,
               L!MarkBack(t) \/ L!Listed(t) \/ L!ListingFails(t) \/ L!StoreList(t)
        PROVE  MarkIsWorked'
    BY <1>1, <1>2 DEF L!MarkBack, L!Listed, L!ListingFails, L!StoreList
  <1>3. ASSUME NEW t \in L!Thread, L!Opened(t) \/ L!Fire(t) \/ L!Flush(t) \/ L!Pack(t) \/ L!Write(t)
        PROVE  MarkIsWorked'
    BY <1>1, <1>3 DEF L!Opened, L!Fire, L!Flush, L!Pack, L!Write
  <1>4. ASSUME NEW t \in L!Thread, L!StoreDescription(t) PROVE MarkIsWorked'
    BY <1>1, <1>4 DEF L!StoreDescription
  <1>5. ASSUME NEW t \in L!Thread, L!Fill(t) \/ L!Refresh(t) \/ L!Describe(t) \/ L!SaveUsage(t)
        PROVE  MarkIsWorked'
    BY <1>1, <1>5 DEF L!Fill, L!Refresh, L!Describe, L!SaveUsage
  <1>6. CASE L!ClearDescriptions \/ L!Restart \/ L!Tick \/ UNCHANGED L!vars
    BY <1>1, <1>6 DEF L!ClearDescriptions, L!Restart, L!Tick, L!vars
  <1> HIDE DEF MarkIsWorked
  <1> QED
    BY <1>2, <1>3, <1>4, <1>5, <1>6 DEF L!Next, L!Work

LEMMA EntriesRestamped ==
  ASSUME L!TypeOK, NEW e \in L!Entry \union {None}
  PROVE  L!Restamped(e) \in L!Entry \union {None} /\ L!Loaded(e) \in L!Entry \union {None}
  BY DEF L!Restamped, L!Loaded, L!Entry, L!TypeOK

LEMMA ListTyped ==
  ASSUME L!Parameters, L!TypeOK, [L!Next]_(L!vars)
  PROVE  L!TypeOK'
  <1> USE DEF L!TypeOK, L!hands, L!caches, L!flags, L!Go, L!Hold
  <1>1. L!Nothing \in L!Saved /\ 0 \in 0..MaxTime
    BY DEF L!Nothing, L!Saved, L!Parameters
  <1>2. \A a \in 0..MaxTime : L!Entered(a) \in L!Entry
    BY DEF L!Entered, L!Entry
  <1>3. ASSUME NEW t \in L!Thread,
               L!MarkBack(t) \/ L!Listed(t) \/ L!ListingFails(t) \/ L!Opened(t)
        PROVE  L!TypeOK'
    BY <1>3 DEF L!MarkBack, L!Listed, L!ListingFails, L!Opened
  <1>4. ASSUME NEW t \in L!Thread, L!StoreList(t) PROVE L!TypeOK'
    BY <1>1, <1>2, <1>4 DEF L!StoreList
  <1>5. ASSUME NEW t \in L!Thread, L!StoreDescription(t) PROVE L!TypeOK'
    <2>1. atL' \in [L!Thread -> {"idle", "fill", "filled", "refresh", "unstarted", "listed",
                                 "describe", "described", "armed", "flush", "pack", "write"}]
          /\ pending' \in BOOLEAN
      BY <1>5 DEF L!StoreDescription
    <2> QED
      BY <1>1, <1>2, <1>5, <2>1 DEF L!StoreDescription
  <1>6. ASSUME NEW t \in L!Thread, L!Fire(t) \/ L!Flush(t) PROVE L!TypeOK'
    BY <1>6 DEF L!Fire, L!Flush
  <1>7. ASSUME NEW t \in L!Thread, L!Pack(t) PROVE L!TypeOK'
    <2>1. [tables |-> L!Restamped(tables), desc |-> L!Restamped(desc)] \in L!Saved
      BY EntriesRestamped DEF L!Saved
    <2> QED
      BY <1>7, <2>1 DEF L!Pack
  <1>8. ASSUME NEW t \in L!Thread, L!Write(t) PROVE L!TypeOK'
    BY <1>1, <1>8 DEF L!Write, L!Torn
  <1>9. ASSUME NEW t \in L!Thread, L!Fill(t) \/ L!Refresh(t) \/ L!Describe(t) \/ L!SaveUsage(t)
        PROVE  L!TypeOK'
    BY <1>9 DEF L!Fill, L!Refresh, L!Describe, L!SaveUsage
  <1>10. ASSUME L!Restart PROVE L!TypeOK'
    <2>1. L!Loaded(disk.tables) \in L!Entry \union {None} /\ L!Loaded(disk.desc) \in L!Entry \union {None}
      BY EntriesRestamped DEF L!Saved
    <2> QED
      BY <1>1, <1>10, <2>1 DEF L!Restart
  <1>11. ASSUME L!ClearDescriptions \/ L!Tick \/ UNCHANGED L!vars PROVE L!TypeOK'
    <2>1. CASE L!ClearDescriptions
      BY <2>1 DEF L!ClearDescriptions
    <2>2. CASE L!Tick
      BY <2>2 DEF L!Tick, L!Parameters
    <2>3. CASE UNCHANGED L!vars
      BY <2>3 DEF L!vars
    <2> QED
      BY <1>11, <2>1, <2>2, <2>3
  <1> HIDE DEF L!TypeOK
  <1> QED
    BY <1>3, <1>4, <1>5, <1>6, <1>7, <1>8, <1>9, <1>10, <1>11 DEF L!Next, L!Work

\* However listings fail, callers fill the list meanwhile and the process restarts: a
\* mark of a refresh under way always has a thread at it that will take it back.
THEOREM NoMarkLeftBehind == ASSUME L!Parameters PROVE L!Spec => [](L!TypeOK /\ MarkIsWorked)
  <1>1. L!Init => L!TypeOK /\ MarkIsWorked
    <2>1. L!Nothing \in L!Saved
      BY DEF L!Nothing, L!Saved
    <2>2. 0 \in 0..MaxTime
      BY DEF L!Parameters
    <2> QED
      BY <2>1, <2>2 DEF L!Init, L!TypeOK, MarkIsWorked
  <1>2. L!TypeOK /\ MarkIsWorked /\ [L!Next]_(L!vars) => L!TypeOK' /\ MarkIsWorked'
    BY ListTyped, ListStep
  <1> QED
    BY <1>1, <1>2, PTL DEF L!Spec
=============================================================================
