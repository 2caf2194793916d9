--------------------------- MODULE SharedJobsProofs ---------------------------
(***************************************************************************)
(* Proofs about SharedJobs, for any replicas, clients, jobs, caps and      *)
(* routes, whatever ages or crashes: the types; what the deployment hands  *)
(* over, on each of the two ways; and the table behind the record.         *)
(***************************************************************************)
EXTENDS SharedJobs, FiniteSetTheorems, TLAPS

\* Who is about to say what became of a result, and whose threads only the owner has.
Marking == {"markread", "markwrite", "unlink", "unclaim"}
Fetching == {"claim", "steal"} \union Claimant
Owning == {"tombstone"} \union Reporting

\* A job has a home once it is known, and a query, which only a crash loses.
JobsHomed ==
  /\ \A j \in Job : home[j] = None => /\ work[j] = "none" /\ j \notin tracked /\ j \notin published
                                      /\ j \notin parquet /\ json[j] = None
  /\ \A j \in tracked : home[j] \in Replica /\ work[j] \in Unfinished \union Finished
  /\ \A j \in result : work[j] = "done"

\* Threads belong to a job, and those that hold its record run at its home, with its
\* query, as the reporting ones all do.
ThreadsHomed ==
  \A t \in Thread : thread[t].at # "idle" =>
    /\ thread[t].job \in Job /\ thread[t].on \in Replica /\ home[thread[t].job] # None
    /\ thread[t].mine => /\ thread[t].on = home[thread[t].job]
                         /\ work[thread[t].job] \in Unfinished \union Finished
    /\ thread[t].at \in Owning => thread[t].mine
    /\ thread[t].at = "watch" => t = thread[t].job

Homes == JobsHomed /\ ThreadsHomed

\* What a thread takes along from one step to the next is a record where it needs one.
Carried ==
  \A t \in Thread : thread[t].at \in {"publish", "markwrite", "cancelwrite"} \union Publishing =>
    thread[t].saw \in Record

SharedTyped == TypeOK /\ Homes /\ Carried

-----------------------------------------------------------------------------
(* What is written in the directory.                                       *)

\* One thread publishes a job, and only once.
PublishOnce ==
  /\ \A t \in Thread : thread[t].at \in Publishing => thread[t].job \in published
  /\ \A t, u \in Thread, j \in Job : Busy(t, j, Publishing) /\ Busy(u, j, Publishing) => t = u

\* A record that names a result is a published one, of a query that ended well; so is
\* what a thread is about to write of one.
RecordsTrue ==
  /\ \A j \in Job : json[j] # None /\ json[j].state = "done" => work[j] = "done" /\ Through(j)
  /\ \A t \in Thread : thread[t].at \in {"publish", "markwrite"} \union Publishing /\ thread[t].saw.state = "done" =>
       work[thread[t].job] = "done" /\ (thread[t].at = "markwrite" => Through(thread[t].job))

SharedInv == SharedTyped /\ PublishOnce /\ RecordsTrue

-----------------------------------------------------------------------------
(* The hand-over.                                                          *)

\* Fetches are of a query that ended well; those of a thread without the record, of
\* what was published.
Fetches ==
  \A t \in Thread : thread[t].at \in Fetching =>
    /\ work[thread[t].job] = "done"
    /\ thread[t].mine => thread[t].at # "read"
    /\ ~thread[t].mine => thread[t].at \notin {"arrow", "hand"} /\ Through(thread[t].job)

\* Whoever found the result not fetched, under the owner's lock, is the only one for ever.
Gives(t, j, mine) == Busy(t, j, Marking) /\ thread[t].got /\ thread[t].mine = mine

OwnerHands ==
  /\ \A j \in Job : handed[j]["owner"] = 0 \/ (handed[j]["owner"] = 1 /\ j \in fetched)
  /\ \A t \in Thread, j \in Job : Gives(t, j, TRUE) => j \in fetched /\ handed[j]["owner"] = 0
  /\ \A t, u \in Thread, j \in Job : Gives(t, j, TRUE) /\ Gives(u, j, TRUE) => t = u

\* The claim on a job's table is in force: nobody may take it, and as long as there is a
\* table, or may be one, it keeps the others away; whoever read the table releases it
\* when the table is gone.
Guarded(j) == j \in parquet \/ ~Through(j)

ClaimBinds(j) ==
  /\ claim[j] # "stale"
  /\ \A t \in Thread : ~Busy(t, j, {"steal"})
  /\ Guarded(j) => /\ \A t \in Thread : Busy(t, j, Claimant) => claim[j] = "held"
                   /\ \A t, u \in Thread : Busy(t, j, Claimant) /\ Busy(u, j, Claimant) => t = u
  /\ \A t \in Thread : Busy(t, j, {"unclaim"}) /\ ~thread[t].mine => j \notin parquet

Claims == \A j \in Job \ loose : ClaimBinds(j)

\* Whoever read the table is then the only one for ever.
StoreHands ==
  \A j \in Job \ loose :
    /\ handed[j]["store"] = 0 \/ (handed[j]["store"] = 1 /\ j \notin parquet /\ Through(j))
    /\ \A t \in Thread : Gives(t, j, FALSE) => handed[j]["store"] = 0
    /\ \A t, u \in Thread : Gives(t, j, FALSE) /\ Gives(u, j, FALSE) => t = u

HandInv == SharedInv /\ Fetches /\ OwnerHands /\ Claims /\ StoreHands

-----------------------------------------------------------------------------
(* The table behind the record.                                            *)

\* Only what was published has ended or is dated, so no cleanup takes the table from a
\* publish under way; a table is there before its record is written, and goes after that
\* names it no more.
TableBehind(j) ==
  /\ json[j] # None /\ (json[j].state # "running" \/ json[j].wall > 0) => Through(j)
  /\ \A t \in Thread : Busy(t, j, {"record"}) /\ thread[t].saw.file => j \in parquet
  /\ \A t \in Thread : Busy(t, j, {"markwrite", "unlink"}) => Through(j)
  /\ \A t \in Thread : Busy(t, j, {"unlink"}) => json[j] = None \/ ~json[j].file
  /\ json[j] # None /\ json[j].file => j \in parquet

Tables == \A j \in Job \ touched : TableBehind(j)

TableInv == SharedInv /\ Tables

-----------------------------------------------------------------------------
(* Lemmas about the helpers.                                               *)

\* A finite set of numbers that is not empty has a greatest: of all those that have
\* none, take one with no smaller one in it, and take one of its numbers away.
LEMMA MaxExists ==
  ASSUME NEW S, S \subseteq Nat, IsFiniteSet(S), S # {}
  PROVE  \E m \in S : \A x \in S : x <= m
  <1> DEFINE Without == {A \in FiniteSubsetsOf(Nat) : A # {} /\ ~\E m \in A : \A x \in A : x <= m}
  <1>1. SUFFICES ASSUME Without # {} PROVE FALSE
    BY DEF FiniteSubsetsOf
  <1>2. PICK A \in Without : \A B \in Without : ~ (<<B, A>> \in StrictSubsetOrdering(Nat))
    <2>1. Without \subseteq FiniteSubsetsOf(Nat)
      OBVIOUS
    <2> HIDE DEF Without
    <2> QED
      BY <1>1, <2>1, FS_StrictSubsetOrderingWellFounded, WFMin
  <1>3. PICK x \in A : TRUE
    OBVIOUS
  <1> DEFINE B == A \ {x}
  <1>4. B \in FiniteSubsetsOf(Nat)
    BY FS_RemoveElement DEF FiniteSubsetsOf
  <1>5. <<B, A>> \in StrictSubsetOrdering(Nat)
    BY <1>3 DEF StrictSubsetOrdering, FiniteSubsetsOf
  <1>6. B \notin Without
    BY <1>2, <1>5
  <1>7. A \subseteq Nat
    BY DEF FiniteSubsetsOf
  <1>8. CASE B = {}
    BY <1>3, <1>7, <1>8
  <1>9. CASE B # {}
    <2>1. PICK m \in B : \A y \in B : y <= m
      BY <1>4, <1>6, <1>9
    <2>2. CASE x <= m
      BY <1>7, <2>1, <2>2
    <2>3. CASE ~ (x <= m)
      BY <1>3, <1>7, <2>1, <2>3
    <2> QED
      BY <2>2, <2>3
  <1> QED
    BY <1>8, <1>9

\* The clock shows a number, and never 0.
LEMMA NowIs == ASSUME TypeOK PROVE Now \in Nat /\ Now > 0
  <1> DEFINE S == {0} \union {json[j].wall : j \in FinishedRecords}
  <1>1. \A j \in FinishedRecords : json[j].wall \in Nat
    BY DEF FinishedRecords, TypeOK, Record
  <1>2. S \subseteq Nat /\ S # {}
    BY <1>1
  <1>3. IsFiniteSet(S)
    <2>1. IsFiniteSet(FinishedRecords)
      BY Names, FS_Subset DEF FinishedRecords
    <2>2. IsFiniteSet({json[j].wall : j \in FinishedRecords})
      <3> DEFINE f == [j \in FinishedRecords |-> json[j].wall]
      <3>1. f \in Surjection(FinishedRecords, {json[j].wall : j \in FinishedRecords})
        BY DEF Surjection
      <3> QED
        BY <2>1, <3>1, FS_Surjection
    <2> QED
      BY <2>2, FS_Singleton, FS_Union
  <1> HIDE DEF S
  <1>4. Max(S) \in Nat
    <2>1. \E m \in S : \A x \in S : m >= x
      BY <1>2, <1>3, MaxExists
    <2> QED
      BY <1>2, <2>1 DEF Max
  <1> QED
    BY <1>4 DEF Now, S

\* What a cleanup drops is a record that has ended, or is dated, or a zombie's.
Swept(gone) ==
  \A j \in gone :
    /\ j \in Job /\ json[j] # None
    /\ \/ json[j].state # "running" \/ json[j].wall > 0
       \/ work[j] \notin Unfinished /\ \A t \in Thread : ~Busy(t, j, Reporting)

LEMMA SweptWere == ASSUME NEW gone, Sweeps(gone) PROVE Swept(gone)
  BY DEF Swept, Sweeps, FinishedRecords, kSubset

\* The four ways in which a thread goes on: what it is then, and that the others stay.
Threads == [Thread -> [at : At, on : Replica \union {None}, job : Job \union {None}, mine : BOOLEAN,
                       saw : Record \union {None}, got : BOOLEAN]]
Moved(t, at, on, job, mine, saw, got) ==
  /\ thread' \in Threads
  /\ thread'[t].at = at /\ thread'[t].on = on /\ thread'[t].job = job /\ thread'[t].mine = mine
  /\ thread'[t].saw = saw /\ thread'[t].got = got
  /\ \A u \in Thread \ {t} : thread'[u] = thread[u]

LEMMA BeginIs ==
  ASSUME thread \in Threads, NEW t \in Thread, NEW a \in At, NEW r \in Replica, NEW j \in Job, NEW m \in BOOLEAN,
         Begin(t, a, r, j, m)
  PROVE  Moved(t, a, r, j, m, None, FALSE)
  BY DEF Begin, Threads, Moved, Idle

LEMMA GoIs ==
  ASSUME thread \in Threads, NEW t \in Thread, NEW a \in At, Go(t, a)
  PROVE  Moved(t, a, thread[t].on, thread[t].job, thread[t].mine, thread[t].saw, thread[t].got)
  <1>1. thread' = [thread EXCEPT ![t] = [thread[t] EXCEPT !.at = a]]
    BY DEF Go, Threads
  <1>2. [thread[t] EXCEPT !.at = a] \in [at : At, on : Replica \union {None}, job : Job \union {None}, mine : BOOLEAN,
                                        saw : Record \union {None}, got : BOOLEAN]
    BY DEF Threads
  <1> QED
    BY <1>1, <1>2 DEF Threads, Moved

LEMMA GoWithIs ==
  ASSUME thread \in Threads, NEW t \in Thread, NEW a \in At, NEW saw \in Record \union {None}, NEW got \in BOOLEAN,
         GoWith(t, a, saw, got)
  PROVE  Moved(t, a, thread[t].on, thread[t].job, thread[t].mine, saw, got)
  <1>1. thread' = [thread EXCEPT ![t] = [thread[t] EXCEPT !.at = a, !.saw = saw, !.got = got]]
    BY DEF GoWith, Threads
  <1>2. [thread[t] EXCEPT !.at = a, !.saw = saw, !.got = got]
          \in [at : At, on : Replica \union {None}, job : Job \union {None}, mine : BOOLEAN,
               saw : Record \union {None}, got : BOOLEAN]
    BY DEF Threads
  <1> QED
    BY <1>1, <1>2 DEF Threads, Moved

LEMMA ReplyIs ==
  ASSUME thread \in Threads, NEW t \in Thread, Reply(t)
  PROVE  Moved(t, "idle", None, None, FALSE, None, FALSE)
  BY DEF Reply, Threads, Moved, Idle, At

\* The same of the steps of a request or a watcher that has begun.
Done(t) == Moved(t, "idle", None, None, FALSE, None, FALSE)
Goes(t, at, saw, got) == Moved(t, at, thread[t].on, thread[t].job, thread[t].mine, saw, got)

LEMMA StepIs ==
  ASSUME SharedTyped, NEW t \in Thread
  PROVE  LET j == thread[t].job
             saw == thread[t].saw
             got == thread[t].got
         IN /\ Sample(t) => \/ Done(t)
                            \/ \E rec \in Record : /\ Goes(t, "publish", rec, FALSE) /\ ~rec.file
                                                   /\ rec.state = "done" => work[j] = "done"
            /\ Publish(t) => \/ Done(t) /\ UNCHANGED published
                             \/ Goes(t, "spool", saw, got) /\ j \notin published /\ published' = published \union {j}
            /\ Spool(t) => \E a \in {"parquet", "record"}, rec \in Record :
                             /\ Goes(t, a, rec, FALSE) /\ rec.state = saw.state
                             /\ rec.wall > 0 /\ (rec.file => a = "parquet")
            /\ PublishParquet(t) => Goes(t, "record", saw, got)
            /\ PublishRecord(t) => Done(t) /\ saw \in Record
            /\ Claim(t) => \/ Goes(t, Claimed(t), saw, got) /\ claim[j] = "free" /\ claim' = [claim EXCEPT ![j] = "held"]
                           \/ (Done(t) \/ (claim[j] = "stale" /\ Goes(t, "steal", saw, got))) /\ UNCHANGED claim
            /\ Steal(t) => Goes(t, Claimed(t), saw, got)
            /\ Arrow(t) => \/ Goes(t, "hand", saw, got) /\ UNCHANGED claim
                           \/ Done(t) /\ Abandons({t})
            /\ Hand(t) => Goes(t, "markread", None, j \notin fetched)
            /\ ReadParquet(t) => \E read \in BOOLEAN : Goes(t, "markread", None, read) /\ (read => j \in parquet)
            /\ MarkRead(t) => \/ Goes(t, "unlink", saw, got) /\ json[j] = None
                              \/ Goes(t, "markwrite", json[j], got) /\ json[j] # None /\ json[j] \in Record
            /\ MarkWrite(t) => Goes(t, "unlink", saw, got) /\ saw \in Record
            /\ Unlink(t) => Goes(t, "unclaim", saw, got)
            /\ Unclaim(t) => Done(t)
  <1> DEFINE j == thread[t].job
             saw == thread[t].saw
  <1>1. thread \in Threads /\ TypeOK /\ saw \in Record \union {None} /\ thread[t].got \in BOOLEAN
    BY DEF SharedTyped, TypeOK, Threads
  <1>2. thread[t].at # "idle" => j \in Job
    BY DEF SharedTyped, Homes, ThreadsHomed
  <1>3. ASSUME NEW a \in At, Go(t, a) PROVE Goes(t, a, saw, thread[t].got)
    BY <1>1, <1>3, GoIs DEF Goes
  <1>4. ASSUME NEW a \in At, NEW rec \in Record \union {None}, NEW got \in BOOLEAN, GoWith(t, a, rec, got)
        PROVE  Goes(t, a, rec, got)
    BY <1>1, <1>4, GoWithIs DEF Goes
  <1>5. Reply(t) => Done(t)
    BY <1>1, ReplyIs DEF Done
  <1>6. ASSUME Sample(t)
        PROVE  \/ Done(t)
               \/ \E rec \in Record : /\ Goes(t, "publish", rec, FALSE) /\ ~rec.file
                                      /\ rec.state = "done" => work[j] = "done"
    <2> DEFINE state == IF work[j] \in Unfinished THEN "running" ELSE work[j]
               rec == [state |-> state, fetched |-> FALSE, file |-> FALSE, wall |-> 0]
    <2>1. rec \in Record /\ ~rec.file /\ (rec.state = "done" => work[j] = "done")
      BY <1>2, <1>6 DEF Sample, SharedTyped, Homes, JobsHomed, ThreadsHomed, Owning, Reporting, Unfinished, Finished, Record
    <2> QED
      BY <1>4, <1>5, <1>6, <2>1 DEF Sample, At
  <1>7. ASSUME Spool(t)
        PROVE  \E a \in {"parquet", "record"}, rec \in Record :
                 /\ Goes(t, a, rec, FALSE) /\ rec.state = saw.state
                 /\ rec.wall > 0 /\ (rec.file => a = "parquet")
    <2> DEFINE arrow == work[j] = "done" /\ j \notin fetched /\ j \in result
               rec == [saw EXCEPT !.fetched = j \in fetched, !.file = arrow, !.wall = Now]
               a == IF arrow THEN "parquet" ELSE "record"
    <2>1. saw \in Record
      BY <1>7 DEF Spool, SharedTyped, Carried, Publishing
    <2>2. \A r \in Record, f, g \in BOOLEAN, n \in Nat :
            [r EXCEPT !.fetched = f, !.file = g, !.wall = n] \in Record
      BY DEF Record
    <2>3. (j \in fetched) \in BOOLEAN /\ arrow \in BOOLEAN /\ Now \in Nat /\ Now > 0
      BY <1>1, NowIs
    <2>4. rec \in Record /\ rec.state = saw.state /\ rec.file = arrow /\ rec.wall = Now
      <3>1. rec \in Record
        BY <2>1, <2>2, <2>3, Zenon
      <3>2. rec.state = saw.state
        BY <2>1 DEF Record
      <3>3. rec.file = arrow
        BY <2>1 DEF Record
      <3>4. rec.wall = Now
        BY <2>1 DEF Record
      <3> QED
        BY <3>1, <3>2, <3>3, <3>4, Zenon
    <2>5. GoWith(t, a, rec, FALSE) /\ a \in {"parquet", "record"} /\ (arrow => a = "parquet")
      BY <1>7 DEF Spool
    <2>6. Goes(t, a, rec, FALSE)
      BY <1>4, <2>4, <2>5 DEF At
    <2> HIDE DEF arrow, rec, a
    <2> QED
      BY <2>3, <2>4, <2>5, <2>6
  <1>8. PublishRecord(t) \/ MarkWrite(t) => saw \in Record
    BY DEF PublishRecord, MarkWrite, SharedTyped, Carried, Publishing
  <1>9. ASSUME MarkRead(t)
        PROVE  \/ Goes(t, "unlink", saw, thread[t].got) /\ json[j] = None
               \/ Goes(t, "markwrite", json[j], thread[t].got) /\ json[j] # None /\ json[j] \in Record
    BY <1>1, <1>2, <1>3, <1>4, <1>9 DEF MarkRead, At, TypeOK
  <1>10. ASSUME Hand(t) PROVE Goes(t, "markread", None, j \notin fetched)
    BY <1>4, <1>10 DEF Hand, At
  <1>11. ASSUME ReadParquet(t)
         PROVE  \E read \in BOOLEAN : Goes(t, "markread", None, read) /\ (read => j \in parquet)
    BY <1>4, <1>11 DEF ReadParquet, At
  <1>12. Claimed(t) \in At
    BY DEF Claimed, At
  <1>13. ASSUME Claim(t)
         PROVE  \/ Goes(t, Claimed(t), saw, thread[t].got) /\ claim[j] = "free" /\ claim' = [claim EXCEPT ![j] = "held"]
                \/ (Done(t) \/ (claim[j] = "stale" /\ Goes(t, "steal", saw, thread[t].got))) /\ UNCHANGED claim
    BY <1>3, <1>5, <1>12, <1>13 DEF Claim, At
  <1>14. ASSUME Arrow(t)
         PROVE  \/ Goes(t, "hand", saw, thread[t].got) /\ UNCHANGED claim
                \/ Done(t) /\ Abandons({t})
    BY <1>3, <1>5, <1>14 DEF Arrow, At
  <1>15. Steal(t) => Goes(t, Claimed(t), saw, thread[t].got)
    BY <1>3, <1>12 DEF Steal
  <1>16. /\ PublishParquet(t) => Goes(t, "record", saw, thread[t].got)
         /\ MarkWrite(t) => Goes(t, "unlink", saw, thread[t].got)
         /\ Unlink(t) => Goes(t, "unclaim", saw, thread[t].got)
    BY <1>3 DEF PublishParquet, MarkWrite, Unlink, At
  <1>17. (PublishRecord(t) => Done(t)) /\ (Unclaim(t) => Done(t))
    BY <1>5 DEF PublishRecord, Unclaim
  <1>18. ASSUME Publish(t)
         PROVE  \/ Done(t) /\ UNCHANGED published
                \/ Goes(t, "spool", saw, thread[t].got) /\ j \notin published /\ published' = published \union {j}
    BY <1>3, <1>5, <1>18 DEF Publish, At
  <1> QED
    BY <1>6, <1>7, <1>8, <1>9, <1>10, <1>11, <1>13, <1>14, <1>15, <1>16, <1>17, <1>18

-----------------------------------------------------------------------------
(* The types, the homes of jobs and threads, and what threads carry.       *)

\* A thread has moved on with its job, or is done with it.
LEMMA OnlyThreads ==
  ASSUME SharedTyped, NEW t \in Thread, NEW a \in At, NEW on, NEW job, NEW mine, NEW saw, NEW got,
         Moved(t, a, on, job, mine, saw, got), thread[t].at # "idle",
         a # "idle" => on = thread[t].on /\ job = thread[t].job /\ mine = thread[t].mine,
         a \in Owning => thread[t].at \in Owning, a # "watch",
         a \in {"publish", "markwrite", "cancelwrite"} \union Publishing => saw \in Record,
         UNCHANGED <<home, tracked>>, result' \subseteq result, published' \subseteq published \union {thread[t].job},
         \A j \in Job : home[j] # None => work'[j] = work[j],
         \A j \in Job : home[j] = None => work'[j] = work[j] /\ json'[j] = json[j],
         parquet' \subseteq parquet \union {thread[t].job}
  PROVE  Homes' /\ Carried'
  <1>1. Carried'
    BY DEF SharedTyped, Carried, Moved
  <1>2. /\ thread[t].job \in Job /\ thread[t].on \in Replica /\ home[thread[t].job] # None
        /\ thread[t].mine => /\ thread[t].on = home[thread[t].job]
                             /\ work[thread[t].job] \in Unfinished \union Finished
        /\ thread[t].at \in Owning => thread[t].mine
    BY DEF SharedTyped, Homes, JobsHomed, ThreadsHomed
  <1>3. \A u \in Thread : thread'[u].at # "idle" =>
          /\ thread'[u].job \in Job /\ thread'[u].on \in Replica /\ home[thread'[u].job] # None
          /\ thread'[u].mine => /\ thread'[u].on = home[thread'[u].job]
                                /\ work[thread'[u].job] \in Unfinished \union Finished
          /\ thread'[u].at \in Owning => thread'[u].mine
          /\ thread'[u].at = "watch" => u = thread'[u].job
    BY <1>2 DEF SharedTyped, Homes, JobsHomed, ThreadsHomed, Moved
  <1>4. \A j \in Job : work'[j] = work[j]
    OBVIOUS
  <1>5. \A j \in Job : home[j] = None => /\ work'[j] = "none" /\ j \notin tracked /\ j \notin published'
                                         /\ j \notin parquet' /\ json'[j] = None
    BY <1>2 DEF SharedTyped, Homes, JobsHomed, ThreadsHomed
  <1>6. /\ \A j \in tracked : home[j] \in Replica /\ work'[j] \in Unfinished \union Finished
        /\ \A j \in result' : work'[j] = "done"
    BY <1>4 DEF SharedTyped, Homes, JobsHomed, ThreadsHomed, TypeOK
  <1> QED
    BY <1>1, <1>3, <1>5, <1>6 DEF Homes, JobsHomed, ThreadsHomed

\* The steps of a request or a watcher that has begun keep them.
LEMMA StepTyped ==
  ASSUME SharedTyped, NEW t \in Thread, Step(t)
  PROVE  SharedTyped'
  <1> DEFINE j == thread[t].job
  <1>1. thread \in Threads /\ TypeOK /\ thread[t].saw \in Record \union {None} /\ thread[t].got \in BOOLEAN
    BY DEF SharedTyped, TypeOK, Threads
  <1>2. thread[t].at # "idle" => j \in Job /\ j \in Thread
    BY DEF SharedTyped, Homes, JobsHomed, ThreadsHomed, Thread
  <1>6. ASSUME Sample(t) PROVE SharedTyped'
    <2>1. Done(t) \/ \E rec \in Record : Goes(t, "publish", rec, FALSE)
      BY <1>6, StepIs
    <2>2. Done(t) => Moved(t, "idle", None, None, FALSE, None, FALSE)
      BY DEF Done
    <2>3. TypeOK'
      BY <1>1, <1>6, <2>1 DEF Sample, TypeOK, Done, Goes, Moved, Threads, history, registry, query, store
    <2>4. Homes' /\ Carried'
      BY <1>2, <1>6, <2>1, <2>2, OnlyThreads DEF Sample, Goes, At, Owning, Reporting, Publishing, history, registry, query, store
    <2> QED
      BY <2>3, <2>4 DEF SharedTyped
  <1>7. ASSUME Publish(t) PROVE SharedTyped'
    <2>1. Moved(t, "spool", thread[t].on, j, thread[t].mine, thread[t].saw, thread[t].got) \/ Moved(t, "idle", None, None, FALSE, None, FALSE)
      BY <1>7, StepIs DEF Done, Goes
    <2>2. TypeOK'
      BY <1>1, <1>2, <1>7, <2>1 DEF Publish, TypeOK, Moved, Threads, history, query, store
    <2>3. thread[t].saw \in Record
      BY <1>7 DEF Publish, SharedTyped, Carried
    <2>4. Homes' /\ Carried'
      BY <1>2, <1>7, <2>1, <2>3, OnlyThreads DEF Publish, At, Owning, Reporting, Publishing, history, query, store
    <2> QED
      BY <2>2, <2>4 DEF SharedTyped
  <1>8. ASSUME Spool(t) PROVE SharedTyped'
    <2>1. PICK a \in {"parquet", "record"}, saw \in Record : Moved(t, a, thread[t].on, j, thread[t].mine, saw, FALSE)
      BY <1>8, StepIs DEF Goes
    <2>2. a \in At
      BY DEF At
    <2>3. PICK gone \in SUBSET Job : Sweeps(gone) /\ Drop(gone) /\ json' = Kept(gone) /\ flag' = flag \ gone
      BY <1>8 DEF Spool
    <2>4. TypeOK'
      BY <1>1, <1>8, <2>1, <2>3 DEF Spool, TypeOK, Moved, Threads, Drop, Kept, history, registry, query
    <2>5. \A k \in Job : home[k] = None => json'[k] = json[k]
      BY <2>3 DEF Kept, SharedTyped, Homes, JobsHomed, ThreadsHomed
    <2>6. parquet' \subseteq parquet \union {j}
      BY <2>3 DEF Drop
    <2>7. UNCHANGED <<home, tracked, published, result, work>>
      BY <1>8 DEF Spool, history, registry, query
    <2>8. thread[t].at = "spool"
      BY <1>8 DEF Spool
    <2>9. Homes' /\ Carried'
      BY <2>1, <2>2, <2>5, <2>6, <2>7, <2>8, OnlyThreads DEF At, Owning, Reporting, Publishing
    <2> QED
      BY <2>4, <2>9 DEF SharedTyped
  <1>9. ASSUME PublishParquet(t) PROVE SharedTyped'
    <2>1. Moved(t, "record", thread[t].on, j, thread[t].mine, thread[t].saw, thread[t].got)
      BY <1>9, StepIs DEF Goes
    <2>2. TypeOK'
      BY <1>1, <1>2, <1>9, <2>1 DEF PublishParquet, TypeOK, Moved, Threads, history, registry, query
    <2>3. Homes' /\ Carried'
      BY <1>1, <1>2, <1>9, <2>1, OnlyThreads DEF PublishParquet, At, Owning, Reporting, Publishing, history, registry, query, SharedTyped, Carried
    <2> QED
      BY <2>2, <2>3 DEF SharedTyped
  <1>10. ASSUME PublishRecord(t) PROVE SharedTyped'
    <2>1. Moved(t, "idle", None, None, FALSE, None, FALSE)
      BY <1>10, StepIs DEF Done
    <2>2. TypeOK'
      BY <1>1, <1>2, <1>10, <2>1 DEF PublishRecord, TypeOK, Moved, Threads, SharedTyped, Carried, Publishing, history, registry, query
    <2>3. \A k \in Job : home[k] = None => json'[k] = json[k]
      BY <1>1, <1>2, <1>10 DEF PublishRecord, TypeOK, SharedTyped, Homes, JobsHomed, ThreadsHomed
    <2>4. UNCHANGED <<home, tracked, published, result, parquet, work>> /\ thread[t].at = "record"
      BY <1>10 DEF PublishRecord, history, registry, query
    <2>5. Homes' /\ Carried'
      BY <2>1, <2>3, <2>4, OnlyThreads DEF At, Owning, Reporting, Publishing
    <2> QED
      BY <2>2, <2>5 DEF SharedTyped
  <1>11. ASSUME Claim(t) \/ Steal(t) \/ Arrow(t) \/ Unlink(t) PROVE SharedTyped'
    <2>1. \/ \E a \in {"arrow", "read", "steal", "hand", "unclaim"} : Moved(t, a, thread[t].on, j, thread[t].mine, thread[t].saw, thread[t].got)
          \/ Moved(t, "idle", None, None, FALSE, None, FALSE)
      BY <1>11, StepIs DEF Done, Goes, Claimed
    <2>2. TypeOK'
      <3>1. claim' \in [Job -> {"free", "held", "orphan", "stale"}] /\ parquet' \subseteq parquet
        BY <1>1, <1>2, <1>11 DEF Claim, Steal, Arrow, Abandons, Unlink, TypeOK
      <3>2. UNCHANGED <<registry, query, json, flag, crashes, history>>
        BY <1>11 DEF Claim, Steal, Arrow, Unlink
      <3> QED
        BY <1>1, <2>1, <3>1, <3>2 DEF TypeOK, Moved, Threads, history, registry, query
    <2>3. /\ UNCHANGED <<home, tracked, published, result, json, work>> /\ parquet' \subseteq parquet
          /\ thread[t].at \in {"claim", "steal", "arrow", "unlink"}
      BY <1>11 DEF Claim, Steal, Arrow, Unlink, history, registry, query
    <2>4. /\ parquet' \subseteq parquet \union {j} /\ thread[t].at # "idle" /\ published' \subseteq published \union {j}
          /\ \A k \in Job : work'[k] = work[k] /\ json'[k] = json[k]
          /\ UNCHANGED <<home, tracked>> /\ result' \subseteq result
      BY <2>3
    <2>5. ASSUME NEW a \in At, NEW on, NEW job, NEW mine, NEW saw, NEW got, Moved(t, a, on, job, mine, saw, got),
                 a = "idle" \/ (a \in {"arrow", "read", "steal", "hand", "unclaim"} /\ on = thread[t].on /\ job = j /\ mine = thread[t].mine)
          PROVE  Homes' /\ Carried'
      BY <2>4, <2>5, OnlyThreads DEF Owning, Reporting, Publishing
    <2>6. Homes' /\ Carried'
      BY <2>1, <2>5 DEF At
    <2> QED
      BY <2>2, <2>6 DEF SharedTyped
  <1>12. ASSUME Hand(t) PROVE SharedTyped'
    <2>1. Moved(t, "markread", thread[t].on, j, thread[t].mine, None, j \notin fetched)
      BY <1>12, StepIs DEF Goes
    <2>2. TypeOK'
      BY <1>1, <1>2, <1>12, <2>1 DEF Hand, TypeOK, Moved, Threads, history, query, store
    <2>3. Homes' /\ Carried'
      BY <1>1, <1>2, <1>12, <2>1, OnlyThreads DEF Hand, At, Owning, Reporting, Publishing, history, query, store
    <2> QED
      BY <2>2, <2>3 DEF SharedTyped
  <1>13. ASSUME ReadParquet(t) PROVE SharedTyped'
    <2>1. PICK read \in BOOLEAN : Moved(t, "markread", thread[t].on, j, thread[t].mine, None, read)
      BY <1>13, StepIs DEF Goes
    <2>2. TypeOK'
      BY <1>1, <1>13, <2>1 DEF ReadParquet, TypeOK, Moved, Threads, history, registry, query, store
    <2>3. Homes' /\ Carried'
      BY <1>2, <1>13, <2>1, OnlyThreads DEF ReadParquet, At, Owning, Reporting, Publishing, history, registry, query, store
    <2> QED
      BY <2>2, <2>3 DEF SharedTyped
  <1>14. ASSUME MarkRead(t) PROVE SharedTyped'
    <2>1. \/ Moved(t, "unlink", thread[t].on, j, thread[t].mine, thread[t].saw, thread[t].got)
          \/ json[j] \in Record /\ Moved(t, "markwrite", thread[t].on, j, thread[t].mine, json[j], thread[t].got)
      BY <1>14, StepIs DEF Goes
    <2>2. TypeOK'
      BY <1>1, <1>2, <1>14, <2>1 DEF MarkRead, Touches, TypeOK, Moved, Threads, history, registry, query, store
    <2>3. Homes' /\ Carried'
      BY <1>2, <1>14, <2>1, OnlyThreads DEF MarkRead, At, Owning, Reporting, Publishing, history, registry, query, store
    <2> QED
      BY <2>2, <2>3 DEF SharedTyped
  <1>15. ASSUME MarkWrite(t) PROVE SharedTyped'
    <2>1. Moved(t, "unlink", thread[t].on, j, thread[t].mine, thread[t].saw, thread[t].got)
      BY <1>15, StepIs DEF Goes
    <2>2. [thread[t].saw EXCEPT !.fetched = TRUE, !.file = FALSE] \in Record
      <3>1. thread[t].saw \in Record
        BY <1>15 DEF MarkWrite, SharedTyped, Carried
      <3> QED
        BY <1>1, <3>1, NowIs DEF Record, Finished
    <2>3. TypeOK'
      <3>1. json' \in [Job -> Record \union {None}]
        BY <1>1, <1>2, <1>15, <2>2 DEF MarkWrite, TypeOK
      <3>2. UNCHANGED <<registry, query, parquet, claim, flag, crashes, history>>
        BY <1>15 DEF MarkWrite
      <3> QED
        BY <1>1, <2>1, <3>1, <3>2 DEF TypeOK, Moved, Threads, history, registry, query
    <2>4. Homes' /\ Carried'
      <3>1. UNCHANGED <<home, tracked, published, result, parquet, work>> /\ thread[t].at = "markwrite"
        BY <1>15 DEF MarkWrite, registry, query
      <3>2. \A k \in Job : home[k] = None => json'[k] = json[k]
        BY <1>1, <1>2, <1>15 DEF MarkWrite, TypeOK, SharedTyped, Homes, ThreadsHomed
      <3> QED
        BY <2>1, <3>1, <3>2, OnlyThreads DEF At, Owning, Reporting, Publishing
    <2> QED
      BY <2>3, <2>4 DEF SharedTyped
  <1>16. ASSUME Unclaim(t) PROVE SharedTyped'
    <2>1. Moved(t, "idle", None, None, FALSE, None, FALSE)
      BY <1>16, StepIs DEF Done
    <2>2. TypeOK'
      <3>1. handed' \in [Job -> [Way -> Nat]]
        <4>1. CASE UNCHANGED handed
          BY <1>1, <4>1 DEF TypeOK
        <4>2. ASSUME NEW w \in Way, handed' = [handed EXCEPT ![j][w] = @ + 1] PROVE handed' \in [Job -> [Way -> Nat]]
          <5>1. handed[j] \in [Way -> Nat] /\ j \in Job
            BY <1>1, <1>2, <1>16 DEF TypeOK, Unclaim
          <5>2. [handed[j] EXCEPT ![w] = @ + 1] \in [Way -> Nat]
            BY <5>1
          <5>3. handed' = [handed EXCEPT ![j] = [handed[j] EXCEPT ![w] = @ + 1]]
            BY <4>2
          <5> QED
            BY <1>1, <5>1, <5>2, <5>3 DEF TypeOK
        <4> QED
          BY <1>16, <4>1, <4>2 DEF Unclaim, Way
      <3>2. claim' \in [Job -> {"free", "held", "orphan", "stale"}]
        BY <1>1, <1>2, <1>16 DEF Unclaim, TypeOK
      <3>3. UNCHANGED <<registry, query, json, parquet, flag, crashes, loose, touched>>
        BY <1>16 DEF Unclaim
      <3> QED
        BY <1>1, <2>1, <3>1, <3>2, <3>3 DEF TypeOK, Moved, Threads, registry, query
    <2>3. Homes' /\ Carried'
      BY <1>1, <1>2, <1>16, <2>1, OnlyThreads DEF Unclaim, At, Owning, Reporting, Publishing, history, registry, query
    <2> QED
      BY <2>2, <2>3 DEF SharedTyped
  <1> QED
    BY <1>6, <1>7, <1>8, <1>9, <1>10, <1>11, <1>12, <1>13, <1>14, <1>15, <1>16 DEF Step

\* A thread has moved to where it may be, and no job has lost its home.
LEMMA MovedThreads ==
  ASSUME SharedTyped, NEW t \in Thread, NEW a \in At, NEW on, NEW job, NEW mine, NEW saw, NEW got,
         Moved(t, a, on, job, mine, saw, got),
         a # "idle" => job \in Job /\ on \in Replica /\ home'[job] # None,
         a # "idle" /\ mine => on = home'[job] /\ work'[job] \in Unfinished \union Finished,
         a \in Owning => mine, a = "watch" => t = job,
         a \in {"publish", "markwrite", "cancelwrite"} \union Publishing => saw \in Record,
         \A j \in Job : home[j] # None => home'[j] = home[j],
         \A j \in Job : work[j] \in Unfinished \union Finished => work'[j] \in Unfinished \union Finished
  PROVE  ThreadsHomed' /\ Carried'
  <1>1. Carried'
    BY DEF SharedTyped, Carried, Moved
  <1>2. ThreadsHomed'
    BY DEF SharedTyped, Homes, ThreadsHomed, Moved
  <1> QED
    BY <1>1, <1>2

\* The first half of a status, by a client or by the watcher.
LEMMA StatusTyped ==
  ASSUME SharedTyped, NEW t \in Thread, NEW r \in Replica, NEW j \in Job, Owns(r, j), StatusLock(t, r, j)
  PROVE  SharedTyped' /\ \E got \in BOOLEAN : Moved(t, "sample", r, j, TRUE, None, got)
  <1>1. thread \in Threads /\ TypeOK
    BY DEF SharedTyped, TypeOK, Threads
  <1>2. PICK got \in BOOLEAN : Moved(t, "sample", r, j, TRUE, None, got)
    <2>1. (j \in fetched') \in BOOLEAN
      OBVIOUS
    <2> QED
      BY <1>1, <2>1 DEF StatusLock, Moved, Threads, Idle, At
  <1>3. UNCHANGED <<home, tracked, published, query, store, crashes, history>> /\ result' \subseteq result
        /\ fetched' \in SUBSET Job
    BY <1>1 DEF StatusLock, Reconcile, TypeOK
  <1>4. TypeOK'
    BY <1>1, <1>2, <1>3 DEF TypeOK, Moved, Threads, history, store, query
  <1>5. UNCHANGED <<home, work>> /\ home[j] = r /\ r # None /\ work[j] \in Unfinished \union Finished
    BY <1>3, Names DEF Owns, query, SharedTyped, Homes, JobsHomed
  <1>6. ThreadsHomed' /\ Carried'
    BY <1>2, <1>5, MovedThreads DEF At, Publishing
  <1>7. JobsHomed'
    BY <1>3 DEF SharedTyped, Homes, JobsHomed, history, store, query
  <1> QED
    BY <1>2, <1>4, <1>6, <1>7 DEF SharedTyped, Homes

\* What a client asks for is begun, or answered at once.
LEMMA RequestTyped ==
  ASSUME SharedTyped, NEW c \in Client, Request(c)
  PROVE  SharedTyped'
  <1>1. PICK r \in Replica, j \in Job :
          \/ Submit(c, r, j) \/ Status(c, r, j) \/ Take(c, r, j)
          \/ TakeShared(c, r, j) \/ CancelLocal(c, r, j) \/ CancelShared(c, r, j)
    BY DEF Request
  <1>2. thread \in Threads /\ TypeOK /\ c \in Thread /\ DOMAIN home = Job /\ DOMAIN work = Job
    BY DEF SharedTyped, TypeOK, Threads, Thread
  <1>3. ASSUME NEW a \in At, NEW m \in BOOLEAN, Begin(c, a, r, j, m) PROVE Moved(c, a, r, j, m, None, FALSE)
    BY <1>2, <1>3, BeginIs
  <1>4. Known(j) => home[j] # None
    BY DEF Known
  <1>5. CASE Submit(c, r, j)
    <2>1. /\ UNCHANGED <<asked, fetched, published, result, store, crashes, history>>
          /\ home[j] = None /\ r # None /\ work[j] = "none"
      BY <1>5, Names DEF Submit, SharedTyped, Homes, JobsHomed
    <2>2. CASE tracked' \subseteq tracked /\ UNCHANGED <<home, work, thread>>
      <3>1. TypeOK'
        BY <1>2, <2>1, <2>2 DEF TypeOK, history, store
      <3>2. Homes' /\ Carried'
        BY <2>1, <2>2 DEF SharedTyped, Homes, JobsHomed, ThreadsHomed, Carried, store
      <3> QED
        BY <3>1, <3>2 DEF SharedTyped
    <2>3. CASE /\ home' = [home EXCEPT ![j] = r] /\ tracked' \subseteq tracked \union {j}
               /\ work' = [work EXCEPT ![j] = "starting"] /\ Begin(c, "tombstone", r, j, TRUE)
      <3>1. Moved(c, "tombstone", r, j, TRUE, None, FALSE)
        BY <1>3, <2>3 DEF At
      <3>2. TypeOK'
        BY <1>2, <2>1, <2>3, <3>1 DEF TypeOK, Moved, Threads, history, store, Unfinished
      <3>3. /\ \A k \in Job : home[k] # None => home'[k] = home[k]
            /\ \A k \in Job : work[k] \in Unfinished \union Finished => work'[k] \in Unfinished \union Finished
            /\ home'[j] = r /\ work'[j] \in Unfinished \union Finished
        BY <1>2, <2>1, <2>3 DEF Unfinished
      <3>4. ThreadsHomed' /\ Carried'
        BY <1>2, <2>1, <3>1, <3>3, MovedThreads DEF At, Publishing
      <3>5. JobsHomed'
        BY <1>2, <2>1, <2>3 DEF history, store, SharedTyped, Homes, JobsHomed, Unfinished
      <3> QED
        BY <3>2, <3>4, <3>5 DEF SharedTyped, Homes
    <2> QED
      BY <1>5, <2>2, <2>3 DEF Submit
  <1>6. CASE Status(c, r, j)
    BY <1>2, <1>6, StatusTyped DEF Status
  <1>7. CASE Take(c, r, j)
    <2>1. Moved(c, "claim", r, j, TRUE, None, FALSE) \/ thread' = thread
      BY <1>3, <1>7 DEF Take, At
    <2>2. UNCHANGED <<home, tracked, published, query, store, crashes, history>> /\ result' \subseteq result
          /\ fetched' \in SUBSET Job
      BY <1>2, <1>7 DEF Take, Reconcile, TypeOK
    <2>3. TypeOK'
      BY <1>2, <2>1, <2>2 DEF TypeOK, Moved, Threads, history, store, query
    <2>4. home[j] # None /\ home[j] = r /\ work[j] \in Unfinished \union Finished
      BY <1>4, <1>7 DEF Take, Owns, SharedTyped, Homes, JobsHomed
    <2>5. ThreadsHomed' /\ Carried'
      <3>1. CASE thread' = thread
        BY <2>2, <3>1 DEF query, SharedTyped, Homes, ThreadsHomed, Carried
      <3>2. CASE Moved(c, "claim", r, j, TRUE, None, FALSE)
        BY <1>2, <2>2, <2>4, <3>2, MovedThreads DEF At, Owning, Reporting, Publishing, query
      <3> QED
        BY <2>1, <3>1, <3>2
    <2>6. JobsHomed'
      BY <2>2 DEF SharedTyped, Homes, JobsHomed, history, store, query
    <2> QED
      BY <2>3, <2>5, <2>6 DEF SharedTyped, Homes
  <1>8. CASE TakeShared(c, r, j) \/ CancelShared(c, r, j)
    <2>1. PICK a \in {"claim", "flag"} : Moved(c, a, r, j, FALSE, None, FALSE)
      BY <1>3, <1>8 DEF TakeShared, CancelShared, At
    <2>2. UNCHANGED <<registry, query, store, crashes, history>> /\ home[j] # None
      BY <1>4, <1>8 DEF TakeShared, CancelShared
    <2>3. TypeOK'
      BY <1>2, <2>1, <2>2 DEF TypeOK, Moved, Threads, history, store, query, registry
    <2>4. ThreadsHomed' /\ Carried'
      BY ZenonT(40), <1>2, <2>1, <2>2, MovedThreads DEF At, Owning, Reporting, Publishing, history, registry, query
    <2>5. JobsHomed'
      BY <2>2 DEF SharedTyped, Homes, JobsHomed, history, store, query, registry
    <2> QED
      BY <2>3, <2>4, <2>5 DEF SharedTyped, Homes
  <1>9. CASE CancelLocal(c, r, j)
    <2>1. Moved(c, "cancelread", r, j, TRUE, None, FALSE)
      BY <1>3, <1>9 DEF CancelLocal, At
    <2>2. UNCHANGED <<registry, store, crashes, history>> /\ home[j] # None /\ home[j] = r
          /\ work[j] \in Unfinished \union Finished
      BY <1>4, <1>9 DEF CancelLocal, Owns, SharedTyped, Homes, JobsHomed
    <2>3. asked' = asked \union {j} /\ work' = [work EXCEPT ![j] = IF @ = "executing" THEN "interrupted" ELSE @]
      BY <1>9 DEF CancelLocal, CancelQuery
    <2>4. TypeOK'
      BY <1>2, <2>1, <2>2, <2>3 DEF TypeOK, Moved, Threads, history, store, registry, Unfinished
    <2>5. ThreadsHomed' /\ Carried'
      BY <1>2, <2>1, <2>2, <2>3, MovedThreads DEF At, Owning, Reporting, Publishing, history, registry, Unfinished
    <2>6. JobsHomed'
      BY <1>2, <2>2, <2>3 DEF SharedTyped, Homes, JobsHomed, history, store, registry, Unfinished
    <2> QED
      BY <2>4, <2>5, <2>6 DEF SharedTyped, Homes
  <1> QED
    BY <1>1, <1>5, <1>6, <1>7, <1>8, <1>9

\* The rest of what a client does: the tombstone starts the watcher of the job.
LEMMA TombstoneIs ==
  ASSUME SharedTyped, NEW c \in Client, Tombstone(c)
  PROVE  LET j == thread[c].job
         IN /\ j \in Job /\ home[j] \in Replica /\ j \in Thread /\ j # c
            /\ work[j] \in Unfinished \union Finished
            /\ thread' \in Threads
            /\ thread'[c] = Idle
            /\ thread'[j].at = "watch" /\ thread'[j].on = home[j] /\ thread'[j].job = j /\ thread'[j].mine
            /\ \A u \in Thread \ {c, j} : thread'[u] = thread[u]
  <1> DEFINE j == thread[c].job
  <1>1. thread \in Threads /\ c \in Thread /\ c \notin Job
    BY Names DEF SharedTyped, TypeOK, Threads, Thread
  <1>2. thread[c].at = "tombstone" /\ thread' = [thread EXCEPT ![c] = Idle,
               ![j] = [Idle EXCEPT !.at = "watch", !.on = home[j], !.job = j, !.mine = TRUE]]
    BY DEF Tombstone
  <1>3. j \in Job /\ home[j] \in Replica /\ work[j] \in Unfinished \union Finished
    BY <1>1, <1>2 DEF SharedTyped, Homes, JobsHomed, ThreadsHomed, Owning, Reporting
  <1>4. thread' \in Threads /\ thread'[c] = Idle /\ \A u \in Thread \ {c, j} : thread'[u] = thread[u]
    BY <1>1, <1>2, <1>3 DEF Threads, Thread, Idle, At
  <1>5. thread'[j].at = "watch" /\ thread'[j].on = home[j] /\ thread'[j].job = j /\ thread'[j].mine
    BY <1>1, <1>2, <1>3 DEF Threads, Thread, Idle
  <1> QED
    BY <1>1, <1>3, <1>4, <1>5 DEF Thread

LEMMA CancelIs ==
  ASSUME SharedTyped, NEW c \in Client
  PROVE  LET j == thread[c].job
         IN /\ RaiseFlag(c) => Goes(c, "cancelread", thread[c].saw, thread[c].got)
            /\ CancelRead(c) => Done(c) \/ (json[j] \in Record /\ Goes(c, "cancelwrite", json[j], FALSE))
            /\ CancelWrite(c) => Done(c) /\ thread[c].saw \in Record
  <1>1. thread \in Threads /\ TypeOK /\ c \in Thread
    BY DEF SharedTyped, TypeOK, Threads, Thread
  <1>2. RaiseFlag(c) => Goes(c, "cancelread", thread[c].saw, thread[c].got)
    BY <1>1, GoIs DEF RaiseFlag, Goes, At
  <1>3. thread[c].at # "idle" => thread[c].job \in Job
    BY <1>1 DEF SharedTyped, Homes, ThreadsHomed
  <1>4. CancelRead(c) => Done(c) \/ (json[thread[c].job] \in Record /\ Goes(c, "cancelwrite", json[thread[c].job], FALSE))
    BY <1>1, <1>3, GoWithIs, ReplyIs DEF CancelRead, Goes, Done, At, TypeOK
  <1>5. CancelWrite(c) => Done(c) /\ thread[c].saw \in Record
    BY <1>1, ReplyIs DEF CancelWrite, Done, SharedTyped, Carried
  <1> QED
    BY <1>2, <1>4, <1>5

LEMMA ClientStepTyped ==
  ASSUME SharedTyped, NEW c \in Client, ClientStep(c)
  PROVE  SharedTyped'
  <1> DEFINE j == thread[c].job
  <1>1. thread \in Threads /\ TypeOK /\ c \in Thread
    BY DEF SharedTyped, TypeOK, Threads, Thread
  <1>2. thread[c].at # "idle" => j \in Job /\ home[j] # None
    BY <1>1 DEF SharedTyped, Homes, ThreadsHomed
  <1>3. ASSUME Tombstone(c) PROVE SharedTyped'
    <2>1. PICK gone \in SUBSET Job :
            /\ Sweeps(gone) /\ Drop(gone) /\ flag' = (flag \ gone) \ {j}
            /\ json' = [Kept(gone) EXCEPT ![j] = [state |-> "running", fetched |-> FALSE,
                                                  file |-> FALSE, wall |-> 0]]
      BY <1>3 DEF Tombstone
    <2>2. UNCHANGED <<registry, query, crashes, handed, touched>> /\ thread[c].at = "tombstone"
      BY <1>3 DEF Tombstone
    <2>3. [state |-> "running", fetched |-> FALSE, file |-> FALSE, wall |-> 0] \in Record
      BY DEF Record
    <2>4. TypeOK'
      <3>1. thread' \in Threads
        BY <1>3, TombstoneIs
      <3>2. json' \in [Job -> Record \union {None}]
        BY <1>1, <1>2, <2>1, <2>2, <2>3 DEF TypeOK, Kept
      <3>3. /\ parquet' \in SUBSET Job /\ claim' \in [Job -> {"free", "held", "orphan", "stale"}]
            /\ flag' \in SUBSET Job /\ loose' \in SUBSET Job
        BY <1>1, <2>1 DEF TypeOK, Drop
      <3> QED
        BY <1>1, <2>2, <3>1, <3>2, <3>3 DEF TypeOK, Threads, history, registry, query
    <2>5. JobsHomed'
      BY <1>1, <1>2, <2>1, <2>2 DEF SharedTyped, Homes, JobsHomed, Drop, Kept, history, registry, query
    <2>6. ThreadsHomed' /\ Carried'
      <3>1. /\ j \in Thread /\ thread'[c].at = "idle" /\ home[j] \in Replica
            /\ work[j] \in Unfinished \union Finished
            /\ thread'[j].at = "watch" /\ thread'[j].on = home[j] /\ thread'[j].job = j /\ thread'[j].mine
            /\ \A u \in Thread \ {c, j} : thread'[u] = thread[u]
        BY <1>3, TombstoneIs DEF Idle
      <3>2. UNCHANGED <<home, work>> /\ j \in Job /\ home[j] # None
        BY <1>2, <2>2 DEF registry, query
      <3>3. Carried'
        BY <3>1 DEF SharedTyped, Carried, Publishing
      <3>4. ThreadsHomed'
        BY <3>1, <3>2 DEF SharedTyped, Homes, ThreadsHomed, Owning, Reporting, Publishing
      <3> QED
        BY <3>3, <3>4
    <2> QED
      BY <2>4, <2>5, <2>6 DEF SharedTyped, Homes
  <1>4. ASSUME RaiseFlag(c) PROVE SharedTyped'
    <2>1. Moved(c, "cancelread", thread[c].on, j, thread[c].mine, thread[c].saw, thread[c].got)
      BY <1>4, CancelIs DEF Goes
    <2>2. TypeOK'
      BY <1>1, <1>2, <1>4, <2>1 DEF RaiseFlag, TypeOK, Moved, Threads, history, registry, query
    <2>3. Homes' /\ Carried'
      BY <1>1, <1>2, <1>4, <2>1, OnlyThreads DEF RaiseFlag, At, Owning, Reporting, Publishing, history, registry, query
    <2> QED
      BY <2>2, <2>3 DEF SharedTyped
  <1>5. ASSUME CancelRead(c) PROVE SharedTyped'
    <2>1. \/ Moved(c, "idle", None, None, FALSE, None, FALSE)
          \/ json[j] \in Record /\ Moved(c, "cancelwrite", thread[c].on, j, thread[c].mine, json[j], FALSE)
      BY <1>5, CancelIs DEF Goes, Done
    <2>2. TypeOK'
      BY <1>1, <1>5, <2>1 DEF CancelRead, TypeOK, Moved, Threads, history, registry, query, store
    <2>3. Homes' /\ Carried'
      BY <1>1, <1>2, <1>5, <2>1, OnlyThreads DEF CancelRead, At, Owning, Reporting, Publishing, history, registry, query, store
    <2> QED
      BY <2>2, <2>3 DEF SharedTyped
  <1>6. ASSUME CancelWrite(c) PROVE SharedTyped'
    <2>1. Moved(c, "idle", None, None, FALSE, None, FALSE)
      BY <1>6, CancelIs DEF Done
    <2>2. [thread[c].saw EXCEPT !.state = "cancelled", !.file = FALSE, !.wall = Now] \in Record
      <3>1. thread[c].saw \in Record
        BY <1>6, CancelIs
      <3> QED
        BY <1>1, <3>1, NowIs DEF Record, Finished
    <2>3. TypeOK'
      <3>1. json' \in [Job -> Record \union {None}] /\ touched' \in SUBSET Job
        BY <1>1, <1>2, <1>6, <2>2 DEF CancelWrite, Touches, TypeOK
      <3>2. UNCHANGED <<registry, query, parquet, claim, flag, crashes, handed, loose>>
        BY <1>6 DEF CancelWrite
      <3> QED
        BY <1>1, <2>1, <3>1, <3>2 DEF TypeOK, Moved, Threads, registry, query
    <2>4. UNCHANGED <<registry, query, parquet, claim, flag, crashes>> /\ thread[c].at = "cancelwrite"
          /\ \A k \in Job : home[k] = None => json'[k] = json[k]
      BY <1>1, <1>2, <1>6 DEF CancelWrite, TypeOK
    <2>5. Homes' /\ Carried'
      BY <1>1, <1>2, <2>1, <2>4, OnlyThreads DEF At, Owning, Reporting, Publishing, history, registry, query
    <2> QED
      BY <2>3, <2>5 DEF SharedTyped
  <1> QED
    BY <1>3, <1>4, <1>5, <1>6 DEF ClientStep

\* Steps in which no thread moves: of a query, of a watcher that forwards a cancel, of time.
Still(j) == WatchFlag(j) \/ Open(j) \/ ClaimAges(j) \/ \E s \in Finished : QueryEnds(j, s)

LEMMA StillIs ==
  ASSUME SharedTyped, NEW j \in Job, Still(j)
  PROVE  /\ SharedTyped'
         /\ UNCHANGED <<home, tracked, fetched, published, json, parquet, flag, thread, crashes, handed, touched>>
         /\ loose \subseteq loose'
         /\ \A k \in Job : work[k] \notin Unfinished => work'[k] = work[k]
         /\ \A k \in Job \ loose' : claim'[k] = claim[k]
         /\ \A k \in Job : work[k] \in Unfinished \union Finished => work'[k] \in Unfinished \union Finished
  <1>1. /\ UNCHANGED <<home, tracked, fetched, published, json, parquet, flag, thread, crashes, handed, touched>>
        /\ UNCHANGED <<work, result>> \/ work[j] \in Unfinished
        /\ loose \subseteq loose'
    BY DEF Still, WatchFlag, CancelQuery, Open, ClaimAges, QueryEnds, history, registry, query, store, Unfinished
  <1>2. TypeOK
    BY DEF SharedTyped
  <1>3. ASSUME NEW s \in Unfinished \union Finished, work' = [work EXCEPT ![j] = s], work[j] \in Unfinished,
               result' = IF s = "done" THEN result \union {j} ELSE result
        PROVE  /\ work' \in [Job -> {"none", "lost"} \union Unfinished \union Finished]
               /\ \A k \in Job : work[k] \notin Unfinished => work'[k] = work[k]
               /\ \A k \in Job : work[k] \in Unfinished \union Finished => work'[k] \in Unfinished \union Finished
               /\ result' \in SUBSET Job /\ JobsHomed'
    <2>1. work' \in [Job -> {"none", "lost"} \union Unfinished \union Finished] /\ result' \in SUBSET Job
      BY <1>2, <1>3 DEF TypeOK
    <2>2. \A k \in Job : k # j => work'[k] = work[k]
      BY <1>2, <1>3 DEF TypeOK
    <2>3. /\ work'[j] = s /\ \A k \in Job : work[k] \notin Unfinished => work'[k] = work[k]
          /\ \A k \in Job : work[k] \in Unfinished \union Finished => work'[k] \in Unfinished \union Finished
      BY <1>2, <1>3 DEF TypeOK
    <2>4. home[j] # None
      BY <1>3 DEF SharedTyped, Homes, JobsHomed, Unfinished
    <2>5. JobsHomed'
      BY <1>1, <1>3, <2>1, <2>2, <2>3, <2>4 DEF SharedTyped, Homes, JobsHomed, Unfinished, TypeOK
    <2> QED
      BY <2>1, <2>3, <2>5
  <1>4. /\ asked' \in SUBSET Job /\ claim' \in [Job -> {"free", "held", "orphan", "stale"}] /\ loose' \in SUBSET Job
        /\ \A k \in Job \ loose' : claim'[k] = claim[k]
    BY <1>2 DEF Still, WatchFlag, CancelQuery, Open, ClaimAges, QueryEnds, history, registry, query, store, TypeOK
  <1>5. /\ work' \in [Job -> {"none", "lost"} \union Unfinished \union Finished]
        /\ \A k \in Job : work[k] \notin Unfinished => work'[k] = work[k]
        /\ \A k \in Job : work[k] \in Unfinished \union Finished => work'[k] \in Unfinished \union Finished
        /\ result' \in SUBSET Job /\ JobsHomed'
    <2>1. CASE WatchFlag(j)
      <3> DEFINE s == IF work[j] = "executing" THEN "interrupted" ELSE work[j]
      <3>1. work' = [work EXCEPT ![j] = s] /\ work[j] \in Unfinished /\ UNCHANGED result
        BY <2>1 DEF WatchFlag, CancelQuery, history, registry
      <3>2. s \in Unfinished \union Finished /\ s # "done"
        BY <3>1 DEF Unfinished
      <3> QED
        BY <1>3, <3>1, <3>2
    <2>2. CASE Open(j)
      BY <1>3, <2>2 DEF Open, Unfinished, history, registry
    <2>3. CASE ClaimAges(j)
      BY <1>2, <2>3 DEF ClaimAges, history, registry, query, store, SharedTyped, Homes, JobsHomed, TypeOK
    <2>4. ASSUME NEW s \in Finished, QueryEnds(j, s)
          PROVE  /\ work' \in [Job -> {"none", "lost"} \union Unfinished \union Finished]
                 /\ \A k \in Job : work[k] \notin Unfinished => work'[k] = work[k]
                 /\ \A k \in Job : work[k] \in Unfinished \union Finished => work'[k] \in Unfinished \union Finished
                 /\ result' \in SUBSET Job /\ JobsHomed'
      <3>1. work[j] \in Unfinished
        BY <2>4 DEF QueryEnds, Unfinished
      <3> QED
        BY <1>3, <2>4, <3>1 DEF QueryEnds
    <2> QED
      BY <2>1, <2>2, <2>3, <2>4 DEF Still
  <1>6. TypeOK'
    BY <1>1, <1>2, <1>4, <1>5 DEF TypeOK
  <1>7. ThreadsHomed' /\ Carried'
    BY <1>1, <1>5 DEF SharedTyped, Homes, ThreadsHomed, Carried
  <1> QED
    BY <1>1, <1>4, <1>5, <1>6, <1>7 DEF SharedTyped, Homes

\* A crash takes a pod's threads, its registry and its queries, and no other's.
LEMMA CrashTyped ==
  ASSUME SharedTyped, NEW r \in Replica, Crash(r)
  PROVE  SharedTyped'
  <1>1. /\ tracked' = {j \in tracked : home[j] # r} /\ result' = {j \in result : home[j] # r}
        /\ work' = [j \in Job |-> IF home[j] = r /\ work[j] \in Unfinished THEN "lost" ELSE work[j]]
        /\ UNCHANGED <<home, asked, fetched, published, json, parquet, flag, history>>
        /\ crashes < MaxCrashes /\ crashes' = crashes + 1
    BY DEF Crash, history
  <1>2. TypeOK /\ r # None
    BY Names DEF SharedTyped
  <1>3. thread' = [t \in Thread |-> IF thread[t].on = r THEN Idle ELSE thread[t]]
    BY DEF Crash
  <1>4. claim' \in [Job -> {"free", "held", "orphan", "stale"}]
    BY <1>2 DEF Crash, Abandons, TypeOK
  <1>5. thread' \in Threads
    BY <1>2, <1>3 DEF TypeOK, Threads, Idle, At
  <1>6. work' \in [Job -> {"none", "lost"} \union Unfinished \union Finished] /\ crashes' \in 0..MaxCrashes
    BY <1>1, <1>2, Bounds DEF TypeOK
  <1>7. TypeOK'
    BY <1>1, <1>2, <1>4, <1>5, <1>6 DEF TypeOK, Threads, history
  <1>8. JobsHomed'
    BY <1>1, <1>2 DEF SharedTyped, Homes, JobsHomed, TypeOK, Unfinished
  <1>9. \A t \in Thread : thread'[t].at = "idle" \/ (thread'[t] = thread[t] /\ thread[t].on # r)
    BY <1>3 DEF Idle
  <1>10. ThreadsHomed' /\ Carried'
    <2>1. Carried'
      BY <1>9 DEF SharedTyped, Carried, Publishing
    <2>2. ThreadsHomed'
      BY <1>1, <1>9 DEF SharedTyped, Homes, ThreadsHomed
    <2> QED
      BY <2>1, <2>2
  <1> QED
    BY <1>7, <1>8, <1>10 DEF SharedTyped, Homes

\* A watcher wakes up to a job that its registry has, or has evicted; others clean up
\* a registry, or the directory.
Wakes(j) == home[j] \in Replica /\ Owns(home[j], j) /\ thread[j].at = "watch" /\ StatusLock(j, home[j], j)
Forgets(j) == thread[j].at = "watch" /\ Done(j) /\ UNCHANGED <<registry, query, store, crashes, history>>
Cleaned(gone) == Swept(gone) /\ Drop(gone) /\ json' = Kept(gone) /\ flag' = flag \ gone
OthersClean == UNCHANGED <<registry, query, thread, crashes, handed, touched>> /\ \E gone \in SUBSET Job : Cleaned(gone)

\* Every step is of one of these kinds.
LEMMA NextIs ==
  ASSUME SharedTyped, Next
  PROVE  \/ \E c \in Client : Request(c) \/ ClientStep(c)
         \/ \E t \in Thread : Step(t)
         \/ \E j \in Job : Still(j) \/ Wakes(j) \/ Forgets(j)
         \/ \E r \in Replica : Crash(r) \/ OtherSubmit(r)
         \/ OthersClean
  <1>1. ASSUME NEW j \in Job, WatchEnds(j) PROVE Wakes(j) \/ Forgets(j)
    <2>1. thread[j].at = "watch" /\ j \in Thread /\ thread \in Threads
      BY <1>1 DEF WatchEnds, Thread, SharedTyped, TypeOK, Threads
    <2>2. CASE j \in tracked /\ StatusLock(j, home[j], j)
      BY <2>1, <2>2 DEF Wakes, SharedTyped, Homes, JobsHomed, Owns
    <2>3. CASE Reply(j) /\ UNCHANGED <<registry, query, store, crashes, history>>
      BY <2>1, <2>3, ReplyIs DEF Forgets, Done
    <2> QED
      BY <1>1, <2>2, <2>3 DEF WatchEnds
  <1>2. ASSUME OtherPublish PROVE OthersClean
    <2>a. PICK gone \in {some \union more : some \in {s \in SUBSET Job : Sweeps(s)},
                                           more \in SUBSET FinishedRecords} :
            Drop(gone) /\ json' = Kept(gone) /\ flag' = flag \ gone
      BY <1>2 DEF OtherPublish
    <2>b. PICK some \in {s \in SUBSET Job : Sweeps(s)}, more \in SUBSET FinishedRecords :
            gone = some \union more
      BY <2>a
    <2>1. /\ some \in SUBSET Job /\ Sweeps(some) /\ gone = some \union more /\ gone \in SUBSET Job
          /\ Drop(gone) /\ json' = Kept(gone) /\ flag' = flag \ gone
      BY <2>a, <2>b DEF FinishedRecords
    <2>2. Swept(gone)
      BY <2>1, SweptWere DEF Swept, FinishedRecords
    <2> QED
      BY <1>2, <2>1, <2>2 DEF OtherPublish, OthersClean, Cleaned
  <1> QED
    BY <1>1, <1>2 DEF Next, Watch, Still

LEMMA CleanTyped ==
  ASSUME SharedTyped, OthersClean
  PROVE  SharedTyped'
  <1>1. PICK gone \in SUBSET Job : Cleaned(gone)
    BY DEF OthersClean
  <1>2. UNCHANGED <<registry, query, thread, crashes, handed, touched>> /\ TypeOK
    BY DEF OthersClean, SharedTyped
  <1>3. json' \in [Job -> Record \union {None}] /\ \A j \in Job : json[j] = None => json'[j] = None
    BY <1>1, <1>2 DEF Cleaned, Kept, TypeOK
  <1>4. /\ parquet' \subseteq parquet /\ claim' \in [Job -> {"free", "held", "orphan", "stale"}]
        /\ flag' \in SUBSET Job /\ loose' \in SUBSET Job
    BY <1>1, <1>2 DEF Cleaned, Drop, TypeOK
  <1>5. TypeOK'
    BY <1>2, <1>3, <1>4 DEF TypeOK, registry, query
  <1>6. Homes' /\ Carried'
    BY <1>2, <1>3, <1>4 DEF SharedTyped, Homes, JobsHomed, ThreadsHomed, Carried, registry, query
  <1> QED
    BY <1>5, <1>6 DEF SharedTyped

LEMMA TypedKept == SharedTyped /\ [Next]_vars => SharedTyped'
  <1> SUFFICES ASSUME SharedTyped, [Next]_vars PROVE SharedTyped'
    OBVIOUS
  <1>1. CASE UNCHANGED vars
    BY <1>1 DEF vars, history, registry, query, store, SharedTyped, TypeOK, Homes, JobsHomed, ThreadsHomed, Carried
  <1>2. ASSUME NEW j \in Job, Wakes(j) PROVE SharedTyped'
    BY <1>2, StatusTyped DEF Wakes, Thread
  <1>3. ASSUME NEW j \in Job, Forgets(j) PROVE SharedTyped'
    <2>1. Moved(j, "idle", None, None, FALSE, None, FALSE) /\ j \in Thread /\ "idle" \in At
      BY <1>3 DEF Forgets, Done, Thread, At
    <2>2. UNCHANGED <<registry, query, store, crashes, history>> /\ thread[j].at = "watch"
      BY <1>3 DEF Forgets
    <2>3. TypeOK'
      BY <2>1, <2>2 DEF SharedTyped, TypeOK, Moved, Threads, history, registry, query, store
    <2>4. Homes' /\ Carried'
      BY <2>1, <2>2, OnlyThreads DEF Owning, Reporting, Publishing, registry, query, store
    <2> QED
      BY <2>3, <2>4 DEF SharedTyped
  <1>4. ASSUME NEW r \in Replica, OtherSubmit(r) PROVE SharedTyped'
    <2>1. UNCHANGED <<home, fetched, published, result, query, store, thread, crashes, history>> /\ tracked' \subseteq tracked
      BY <1>4 DEF OtherSubmit
    <2>2. TypeOK'
      BY <2>1 DEF SharedTyped, TypeOK, history, query, store
    <2>3. Homes' /\ Carried'
      BY <2>1 DEF SharedTyped, Homes, JobsHomed, ThreadsHomed, Carried, query, store
    <2> QED
      BY <2>2, <2>3 DEF SharedTyped
  <1> QED
    BY <1>1, <1>2, <1>3, <1>4, NextIs, RequestTyped, ClientStepTyped, StepTyped, StillIs, CrashTyped, CleanTyped

LEMMA StartsTyped == Init => SharedTyped
  <1> SUFFICES ASSUME Init PROVE SharedTyped
    OBVIOUS
  <1>1. TypeOK
    BY Bounds DEF Init, TypeOK, Idle, At
  <1>2. JobsHomed
    BY DEF Init, JobsHomed
  <1>3. ThreadsHomed /\ Carried
    BY DEF Init, ThreadsHomed, Carried, Idle, Publishing
  <1> QED
    BY <1>1, <1>2, <1>3 DEF SharedTyped, Homes

\* The registries, the directory and the requests hold what their types say, whatever
\* happens on whatever replicas.
THEOREM TypeCorrect == Spec => []TypeOK
  <1>1. SharedTyped => TypeOK
    BY DEF SharedTyped
  <1> QED
    BY <1>1, StartsTyped, TypedKept, PTL DEF Spec

-----------------------------------------------------------------------------
(* What is written in the directory.                                       *)

\* No publish that is over is begun again.
ThroughStays == \A j \in Job : Through(j) => Through(j)'

\* Where the only threads that publish after a step did so before it.
LEMMA PublishLess ==
  ASSUME PublishOnce, published \subseteq published',
         \A t \in Thread : thread'[t].at \in Publishing => thread'[t] = thread[t]
  PROVE  PublishOnce' /\ ThroughStays
  BY DEF PublishOnce, ThroughStays, Through, Busy

\* Where one thread moves: it goes on publishing, or is the first to publish.
LEMMA PublishKept ==
  ASSUME PublishOnce, NEW t \in Thread, NEW a, NEW on, NEW job, NEW mine, NEW saw, NEW got, Moved(t, a, on, job, mine, saw, got),
         published \subseteq published',
         a \in Publishing => \/ thread[t].at \in Publishing /\ job = thread[t].job
                             \/ job \notin published /\ job \in published'
  PROVE  PublishOnce' /\ ThroughStays
  <1>1. \A u \in Thread : thread'[u].at \in Publishing => thread'[u].job \in published'
    BY DEF PublishOnce, Moved
  <1>2. \A u \in Thread : u # t => thread'[u] = thread[u]
    BY DEF Moved
  <1>3. thread'[t].at = a /\ thread'[t].job = job
    BY DEF Moved
  <1>4. \A u, w \in Thread, j \in Job :
          thread'[u].at \in Publishing /\ thread'[u].job = j /\ thread'[w].at \in Publishing /\ thread'[w].job = j => u = w
    <2> SUFFICES ASSUME NEW u \in Thread, NEW w \in Thread, NEW j \in Job, u # w,
                        thread'[u].at \in Publishing, thread'[u].job = j,
                        thread'[w].at \in Publishing, thread'[w].job = j
                 PROVE  FALSE
      OBVIOUS
    <2>1. CASE u # t /\ w # t
      BY <1>2, <2>1 DEF PublishOnce, Busy
    <2>2. CASE u = t
      BY <1>2, <1>3, <2>2 DEF PublishOnce, Busy
    <2>3. CASE w = t
      BY <1>2, <1>3, <2>3 DEF PublishOnce, Busy
    <2> QED
      BY <2>1, <2>2, <2>3
  <1>5. ThroughStays
    BY <1>2, <1>3 DEF ThroughStays, Through, PublishOnce, Busy
  <1> QED
    BY <1>1, <1>4, <1>5 DEF PublishOnce, Busy

\* One thread moves: what it carries and what it writes is true of the query.
LEMMA RecordsKept ==
  ASSUME SharedInv, NEW t \in Thread, NEW a, NEW on, NEW job, NEW mine, NEW saw, NEW got, Moved(t, a, on, job, mine, saw, got),
         published \subseteq published',
         a \in Publishing => \/ thread[t].at \in Publishing /\ job = thread[t].job
                             \/ job \notin published /\ job \in published',
         \A j \in Job : work[j] = "done" => work'[j] = "done",
         a \in {"publish", "markwrite"} \union Publishing /\ saw.state = "done" =>
           job \in Job /\ work[job] = "done" /\ (a = "markwrite" => Through(job)),
         \A j \in Job : \/ json'[j] = json[j] \/ json'[j] = None
                        \/ json'[j].state = "done" =>
                             work[j] = "done" /\ (Through(j) \/ (Busy(t, j, Publishing) /\ a = "idle"))
  PROVE  PublishOnce' /\ RecordsTrue' /\ ThroughStays
  <1>1. PublishOnce' /\ ThroughStays
    BY PublishKept DEF SharedInv
  <1>2. \A j \in Job : Busy(t, j, Publishing) /\ a = "idle" => Through(j)'
    BY DEF SharedInv, PublishOnce, Moved, Busy, Through, Publishing
  <1>3. \A j \in Job : json'[j] # None /\ json'[j].state = "done" => work'[j] = "done" /\ Through(j)'
    BY <1>1, <1>2 DEF SharedInv, RecordsTrue, ThroughStays
  <1>4. ASSUME NEW u \in Thread, thread'[u].at \in {"publish", "markwrite"} \union Publishing, thread'[u].saw.state = "done"
        PROVE  work'[thread'[u].job] = "done" /\ (thread'[u].at = "markwrite" => Through(thread[u].job)')
    <2>1. CASE u = t
      BY <1>1, <1>4, <2>1 DEF Moved, ThroughStays
    <2>2. CASE u # t
      <3>1. thread'[u] = thread[u] /\ thread[u].job \in Job
        BY <1>4, <2>2 DEF Moved, SharedInv, SharedTyped, Homes, ThreadsHomed, Publishing
      <3> QED
        BY <1>1, <1>4, <3>1 DEF SharedInv, RecordsTrue, ThroughStays
    <2> QED
      BY <2>1, <2>2
  <1> QED
    BY <1>1, <1>3, <1>4 DEF RecordsTrue

\* The steps of a request or a watcher that has begun.
LEMMA StepShared ==
  ASSUME SharedInv, NEW t \in Thread, Step(t)
  PROVE  SharedInv' /\ ThroughStays
  <1> DEFINE j == thread[t].job
             rest == PublishOnce' /\ RecordsTrue' /\ ThroughStays
  <1>1. SharedTyped /\ SharedTyped' /\ DOMAIN json = Job
    BY StepTyped DEF SharedInv, SharedTyped, TypeOK
  <1>2. thread[t].at # "idle" => j \in Job
    BY <1>1 DEF SharedTyped, Homes, ThreadsHomed
  <1>3. thread[t].at \in {"publish", "markwrite"} \union Publishing /\ thread[t].saw.state = "done" =>
          work[j] = "done" /\ (thread[t].at = "markwrite" => Through(j))
    BY DEF SharedInv, RecordsTrue
  <1>4. ASSUME Sample(t) PROVE rest
    <2>1. UNCHANGED <<work, json, published>> /\ thread[t].at = "sample"
      BY <1>4 DEF Sample, history, registry, query, store
    <2>2. CASE Done(t)
      BY <2>1, <2>2, RecordsKept DEF Done, Publishing
    <2>3. ASSUME NEW rec \in Record, Goes(t, "publish", rec, FALSE), rec.state = "done" => work[j] = "done" PROVE rest
      BY <1>2, <2>1, <2>3, RecordsKept DEF Goes, Publishing
    <2> QED
      BY <1>1, <1>4, <2>2, <2>3, StepIs
  <1>5. ASSUME Publish(t) PROVE rest
    <2>1. UNCHANGED <<work, json>> /\ thread[t].at = "publish"
      BY <1>5 DEF Publish, history, query, store
    <2>2. CASE Done(t) /\ UNCHANGED published
      BY <2>1, <2>2, RecordsKept DEF Done, Publishing
    <2>3. CASE Goes(t, "spool", thread[t].saw, thread[t].got) /\ j \notin published /\ published' = published \union {j}
      BY <1>2, <1>3, <2>1, <2>3, RecordsKept DEF Goes, Publishing
    <2> QED
      BY <1>1, <1>5, <2>2, <2>3, StepIs
  <1>6. ASSUME Spool(t) PROVE rest
    <2>1. UNCHANGED <<work, published>> /\ thread[t].at = "spool"
      BY <1>6 DEF Spool, history, registry, query
    <2>2. PICK a \in {"parquet", "record"}, rec \in Record : Goes(t, a, rec, FALSE) /\ rec.state = thread[t].saw.state
      BY <1>1, <1>6, StepIs
    <2>3. \A k \in Job : json'[k] = json[k] \/ json'[k] = None
      BY <1>6 DEF Spool, Kept
    <2>4. /\ thread[t].at \in Publishing /\ j \in Job
          /\ rec.state = "done" => work[j] = "done"
          /\ a \in Publishing /\ a # "markwrite"
      BY <1>2, <1>3, <2>1, <2>2 DEF Publishing
    <2> QED
      BY <2>1, <2>2, <2>3, <2>4, RecordsKept DEF Goes
  <1>7. ASSUME PublishParquet(t) PROVE rest
    <2>1. UNCHANGED <<work, published, json>> /\ thread[t].at = "parquet"
      BY <1>7 DEF PublishParquet, history, registry, query
    <2>2. Goes(t, "record", thread[t].saw, thread[t].got)
      BY <1>1, <1>7, StepIs
    <2>3. /\ thread[t].at \in Publishing /\ j \in Job /\ "record" \in Publishing
          /\ thread[t].saw.state = "done" => work[j] = "done"
      BY <1>2, <1>3, <2>1 DEF Publishing
    <2> QED
      BY <2>1, <2>2, <2>3, RecordsKept DEF Goes
  <1>8. ASSUME PublishRecord(t) PROVE rest
    <2>1. UNCHANGED <<work, published>> /\ thread[t].at = "record" /\ json' = [json EXCEPT ![j] = thread[t].saw]
      BY <1>8 DEF PublishRecord, history, registry, query
    <2>2. Done(t)
      BY <1>1, <1>8, StepIs
    <2>3. \A k \in Job : json'[k] = json[k] \/ (k = j /\ json'[k] = thread[t].saw)
      BY <1>1, <2>1
    <2>4. Busy(t, j, Publishing)
      BY <2>1 DEF Busy, Publishing
    <2> QED
      BY <1>3, <2>1, <2>2, <2>3, <2>4, RecordsKept DEF Done, Publishing
  <1>9. ASSUME Claim(t) \/ Steal(t) \/ Arrow(t) \/ Hand(t) \/ ReadParquet(t) \/ Unlink(t) \/ Unclaim(t) PROVE rest
    <2>1. UNCHANGED <<work, published, json>>
      BY <1>9 DEF Claim, Steal, Arrow, Hand, ReadParquet, Unlink, Unclaim, history, registry, query, store
    <2>2. \E a \in {"idle", "arrow", "read", "steal", "hand", "markread", "unclaim"} :
            \E on, job, mine, saw, got : Moved(t, a, on, job, mine, saw, got)
      BY <1>1, <1>9, StepIs DEF Done, Goes, Claimed
    <2>3. ASSUME NEW a \in {"idle", "arrow", "read", "steal", "hand", "markread", "unclaim"}, NEW on, NEW job, NEW mine, NEW saw, NEW got,
                 Moved(t, a, on, job, mine, saw, got)
          PROVE  rest
      <3>1. a \notin {"publish", "markwrite"} \union Publishing
        BY DEF Publishing
      <3> QED
        BY <2>1, <2>3, <3>1, RecordsKept
    <2> QED
      BY <2>2, <2>3
  <1>10. ASSUME MarkRead(t) PROVE rest
    <2>1. UNCHANGED <<work, published, json>> /\ thread[t].at = "markread"
      BY <1>10 DEF MarkRead, history, registry, query, store
    <2>2. CASE Goes(t, "unlink", thread[t].saw, thread[t].got)
      BY <2>1, <2>2, RecordsKept DEF Goes, Publishing
    <2>3. CASE Goes(t, "markwrite", json[j], thread[t].got) /\ json[j] # None
      <3>1. json[j].state = "done" => work[j] = "done" /\ Through(j)
        BY <1>2, <2>1, <2>3 DEF SharedInv, RecordsTrue
      <3> QED
        BY <1>2, <2>1, <2>3, <3>1, RecordsKept DEF Goes, Publishing
    <2> QED
      BY <1>1, <1>10, <2>2, <2>3, StepIs
  <1>11. ASSUME MarkWrite(t) PROVE rest
    <2>1. UNCHANGED <<work, published>> /\ thread[t].at = "markwrite"
          /\ json' = [json EXCEPT ![j] = [thread[t].saw EXCEPT !.fetched = TRUE, !.file = FALSE]]
      BY <1>11 DEF MarkWrite, history, registry, query
    <2>2. Goes(t, "unlink", thread[t].saw, thread[t].got) /\ thread[t].saw \in Record
      BY <1>1, <1>11, StepIs
    <2>3. [thread[t].saw EXCEPT !.fetched = TRUE, !.file = FALSE].state = thread[t].saw.state
      BY <2>2 DEF Record
    <2>4. \A k \in Job : json'[k] = json[k] \/ (k = j /\ json'[k].state = thread[t].saw.state)
      BY <1>1, <2>1, <2>3
    <2> QED
      BY <1>3, <2>1, <2>2, <2>4, RecordsKept DEF Goes, Publishing
  <1> QED
    BY <1>1, <1>4, <1>5, <1>6, <1>7, <1>8, <1>9, <1>10, <1>11 DEF Step, SharedInv

\* Where a request begins, and what is so then.
Begins(c) ==
  \E r \in Replica, j \in Job, mine \in BOOLEAN, got \in BOOLEAN :
    \/ \E a \in {"tombstone", "sample", "flag", "cancelread"} : Moved(c, a, r, j, mine, None, got)
    \/ /\ Moved(c, "claim", r, j, mine, None, got)
       /\ mine => work[j] = "done"
       /\ ~mine => json[j] # None /\ json[j].state = "done"

LEMMA RequestIs ==
  ASSUME SharedTyped, NEW c \in Client, Request(c)
  PROVE  /\ thread[c].at = "idle" /\ UNCHANGED <<json, parquet, claim, flag, published, crashes, history>>
         /\ fetched \subseteq fetched'
         /\ \A k \in Job : work[k] \in Finished \union {"lost"} => work'[k] = work[k]
         /\ UNCHANGED thread \/ Begins(c)
  <1>1. PICK r \in Replica, j \in Job :
          \/ Submit(c, r, j) \/ Status(c, r, j) \/ Take(c, r, j)
          \/ TakeShared(c, r, j) \/ CancelLocal(c, r, j) \/ CancelShared(c, r, j)
    BY DEF Request
  <1>2. thread \in Threads /\ TypeOK /\ c \in Thread
    BY DEF SharedTyped, TypeOK, Threads, Thread
  <1>3. ASSUME NEW a \in At, NEW m \in BOOLEAN, Begin(c, a, r, j, m) PROVE Moved(c, a, r, j, m, None, FALSE)
    BY <1>2, <1>3, BeginIs
  <1>4. /\ thread[c].at = "idle" /\ UNCHANGED <<json, parquet, claim, flag, published, crashes, history>>
        /\ fetched \subseteq fetched'
    <2>1. thread[c] = Idle /\ UNCHANGED <<published, store, crashes, history>>
      BY <1>1 DEF Submit, Status, StatusLock, Take, TakeShared, CancelLocal, CancelShared, registry
    <2>2. fetched \subseteq fetched'
      BY <1>1 DEF Submit, Status, StatusLock, Take, TakeShared, CancelLocal, CancelShared, Reconcile, registry
    <2> QED
      BY <2>1, <2>2 DEF Idle, store
  <1>5. \A k \in Job : work[k] \in Finished \union {"lost"} => work'[k] = work[k]
    <2>1. CASE Submit(c, r, j)
      <3>1. work[j] = "none"
        BY <2>1 DEF Submit, SharedTyped, Homes, JobsHomed
      <3>2. UNCHANGED work \/ work' = [work EXCEPT ![j] = "starting"]
        BY <2>1 DEF Submit
      <3> QED
        BY <1>2, <3>1, <3>2 DEF TypeOK, Finished
    <2>2. CASE ~Submit(c, r, j)
      BY <1>1, <1>2, <2>2 DEF Status, StatusLock, Take, TakeShared, CancelLocal, CancelShared, CancelQuery, query, TypeOK,
                              Finished
    <2> QED
      BY <2>1, <2>2
  <1>6. UNCHANGED thread \/ Begins(c)
    <2>1. CASE Submit(c, r, j)
      BY <1>3, <2>1 DEF Submit, At, Begins
    <2>2. CASE Status(c, r, j)
      BY <1>2, <2>2, StatusTyped DEF Status, Begins
    <2>3. CASE Take(c, r, j)
      BY <1>3, <2>3 DEF Take, At, query, Begins
    <2>4. CASE TakeShared(c, r, j)
      BY <1>3, <2>4 DEF TakeShared, At, Begins
    <2>5. CASE CancelLocal(c, r, j)
      BY <1>3, <2>5 DEF CancelLocal, At, Begins
    <2>6. CASE CancelShared(c, r, j)
      BY <1>3, <2>6 DEF CancelShared, At, Begins
    <2> QED
      BY <1>1, <2>1, <2>2, <2>3, <2>4, <2>5, <2>6
  <1> QED
    BY <1>4, <1>5, <1>6

\* Where no thread takes along anything new and nothing new is written of an outcome.
LEMMA RecordsStay ==
  ASSUME SharedInv, ThroughStays, \A j \in Job : work[j] = "done" => work'[j] = "done",
         \A t \in Thread : thread'[t].at \in {"publish", "markwrite"} \union Publishing => thread'[t] = thread[t],
         \A j \in Job : json'[j] = json[j] \/ json'[j] = None \/ json'[j].state # "done"
  PROVE  RecordsTrue'
  <1>1. \A t \in Thread : thread'[t].at \in {"publish", "markwrite"} \union Publishing =>
          thread'[t] = thread[t] /\ thread[t].job \in Job
    BY DEF SharedInv, SharedTyped, Homes, ThreadsHomed, Publishing
  <1>2. \A j \in Job : json'[j] # None /\ json'[j].state = "done" => work'[j] = "done" /\ Through(j)'
    BY DEF SharedInv, RecordsTrue, ThroughStays
  <1>3. ASSUME NEW u \in Thread, thread'[u].at \in {"publish", "markwrite"} \union Publishing, thread'[u].saw.state = "done"
        PROVE  work'[thread'[u].job] = "done" /\ (thread'[u].at = "markwrite" => Through(thread[u].job)')
    BY <1>1, <1>3 DEF SharedInv, RecordsTrue, ThroughStays
  <1> QED
    BY <1>2, <1>3 DEF RecordsTrue

LEMMA RequestShared ==
  ASSUME SharedInv, NEW c \in Client, Request(c)
  PROVE  SharedInv' /\ ThroughStays
  <1>1. SharedTyped /\ SharedTyped' /\ PublishOnce
    BY RequestTyped DEF SharedInv
  <1>2. UNCHANGED <<json, published>> /\ \A j \in Job : work[j] = "done" => work'[j] = "done"
    BY <1>1, RequestIs DEF Finished
  <1>3. \A t \in Thread : thread'[t].at \in {"publish", "markwrite"} \union Publishing => thread'[t] = thread[t]
    BY <1>1, RequestIs DEF Begins, Moved, Publishing
  <1>4. PublishOnce' /\ ThroughStays
    BY <1>1, <1>2, <1>3, PublishLess
  <1> QED
    BY <1>1, <1>2, <1>3, <1>4, RecordsStay DEF SharedInv

LEMMA ClientStepShared ==
  ASSUME SharedInv, NEW c \in Client, ClientStep(c)
  PROVE  SharedInv' /\ ThroughStays
  <1> DEFINE j == thread[c].job
  <1>1. SharedTyped /\ SharedTyped' /\ PublishOnce /\ DOMAIN json = Job
    BY ClientStepTyped DEF SharedInv, SharedTyped, TypeOK
  <1>2. UNCHANGED <<work, published>>
    BY DEF ClientStep, Tombstone, RaiseFlag, CancelRead, CancelWrite, history, registry, query
  <1>3. \A t \in Thread : thread'[t].at \in {"publish", "markwrite"} \union Publishing => thread'[t] = thread[t]
    <2>1. CASE Tombstone(c)
      <3>1. /\ thread'[c].at = "idle" /\ thread'[j].at = "watch"
            /\ \A u \in Thread \ {c, j} : thread'[u] = thread[u]
        BY <1>1, <2>1, TombstoneIs DEF Idle
      <3> QED
        BY <3>1 DEF Publishing
    <2>2. CASE RaiseFlag(c) \/ CancelRead(c) \/ CancelWrite(c)
      BY <1>1, <2>2, CancelIs DEF Goes, Done, Moved, Publishing
    <2> QED
      BY <2>1, <2>2 DEF ClientStep
  <1>4. PublishOnce' /\ ThroughStays
    BY <1>1, <1>2, <1>3, PublishLess
  <1>5. \A k \in Job : json'[k] = json[k] \/ json'[k] = None \/ json'[k].state # "done"
    <2>1. CASE Tombstone(c)
      BY <2>1 DEF Tombstone, Kept
    <2>2. CASE RaiseFlag(c) \/ CancelRead(c)
      BY <2>2 DEF RaiseFlag, CancelRead, history, store
    <2>3. CASE CancelWrite(c)
      <3>1. json' = [json EXCEPT ![j] = [thread[c].saw EXCEPT !.state = "cancelled", !.file = FALSE, !.wall = Now]]
        BY <2>3 DEF CancelWrite
      <3>2. [thread[c].saw EXCEPT !.state = "cancelled", !.file = FALSE, !.wall = Now].state = "cancelled"
        BY <1>1, <2>3, CancelIs DEF Record
      <3> QED
        BY <1>1, <3>1, <3>2
    <2> QED
      BY <2>1, <2>2, <2>3 DEF ClientStep
  <1> QED
    BY <1>1, <1>2, <1>3, <1>4, <1>5, RecordsStay DEF SharedInv

LEMMA SharedKept == SharedInv /\ [Next]_vars => SharedInv' /\ ThroughStays
  <1> SUFFICES ASSUME SharedInv, [Next]_vars PROVE SharedInv' /\ ThroughStays
    OBVIOUS
  <1>1. SharedTyped /\ SharedTyped' /\ PublishOnce /\ DOMAIN work = Job
    BY TypedKept DEF SharedInv, SharedTyped, TypeOK
  <1>2. ASSUME UNCHANGED <<json, published>>, \A j \in Job : work[j] = "done" => work'[j] = "done",
               \A t \in Thread : thread'[t].at \in {"publish", "markwrite"} \union Publishing => thread'[t] = thread[t]
        PROVE  SharedInv' /\ ThroughStays
    <2>1. PublishOnce' /\ ThroughStays
      BY <1>1, <1>2, PublishLess
    <2> QED
      BY <1>1, <1>2, <2>1, RecordsStay DEF SharedInv
  <1>3. CASE UNCHANGED vars
    BY <1>2, <1>3 DEF vars, history, registry, query, store
  <1>4. ASSUME NEW j \in Job, Still(j) PROVE SharedInv' /\ ThroughStays
    BY <1>1, <1>2, <1>4, StillIs DEF Unfinished
  <1>5. ASSUME NEW j \in Job, Wakes(j) \/ Forgets(j) PROVE SharedInv' /\ ThroughStays
    <2>1. CASE Wakes(j)
      <3>1. StatusLock(j, home[j], j) /\ j \in Thread /\ home[j] \in Replica /\ Owns(home[j], j)
        BY <2>1 DEF Wakes, Thread
      <3>2. \E got \in BOOLEAN : Moved(j, "sample", home[j], j, TRUE, None, got)
        BY <1>1, <3>1, StatusTyped
      <3> QED
        BY <1>2, <3>1, <3>2 DEF StatusLock, Moved, Publishing, query, store
    <2>2. CASE Forgets(j)
      BY <1>2, <2>2 DEF Forgets, Done, Moved, Publishing, registry, query, store
    <2> QED
      BY <1>5, <2>1, <2>2
  <1>6. ASSUME NEW r \in Replica, Crash(r) PROVE SharedInv' /\ ThroughStays
    <2>1. UNCHANGED <<json, published>> /\ \A j \in Job : work[j] = "done" => work'[j] = "done"
      BY <1>6 DEF Crash, Unfinished
    <2>2. \A t \in Thread : thread'[t] = Idle \/ thread'[t] = thread[t]
      BY <1>6 DEF Crash
    <2> QED
      BY <1>2, <2>1, <2>2 DEF Idle, Publishing
  <1>7. ASSUME NEW r \in Replica, OtherSubmit(r) PROVE SharedInv' /\ ThroughStays
    BY <1>2, <1>7 DEF OtherSubmit, query, store
  <1>8. CASE OthersClean
    <2>1. /\ UNCHANGED <<work, published, thread>>
          /\ \A j \in Job : json'[j] = json[j] \/ json'[j] = None
      BY <1>8 DEF OthersClean, Cleaned, Kept, registry, query
    <2>2. PublishOnce' /\ ThroughStays
      BY <1>1, <2>1, PublishLess
    <2> QED
      BY <1>1, <2>1, <2>2, RecordsStay DEF SharedInv
  <1> QED
    BY <1>1, <1>3, <1>4, <1>5, <1>6, <1>7, <1>8, NextIs, RequestShared, ClientStepShared, StepShared

LEMMA SharedStarts == Init => SharedInv
  BY StartsTyped DEF Init, SharedInv, PublishOnce, RecordsTrue, Busy, Idle, Publishing
-----------------------------------------------------------------------------
(* Who hands over.                                                         *)

\* What lasts: how a query ended, and what the history remembers.
LEMMA Lasts ==
  ASSUME SharedTyped, [Next]_vars
  PROVE  /\ \A j \in Job : work[j] \in Finished \union {"lost"} => work'[j] = work[j]
         /\ loose \subseteq loose' /\ touched \subseteq touched'
  <1> DEFINE ends == \A j \in Job : work[j] \in Finished \union {"lost"} => work'[j] = work[j]
             kept == loose \subseteq loose' /\ touched \subseteq touched'
  <1>1. CASE UNCHANGED vars
    BY <1>1 DEF vars, query, history
  <1>2. ASSUME NEW c \in Client, Request(c) PROVE ends /\ kept
    BY <1>2, RequestIs DEF history
  <1>3. ASSUME NEW c \in Client, ClientStep(c) PROVE ends /\ kept
    BY <1>3 DEF ClientStep, Tombstone, RaiseFlag, CancelRead, CancelWrite, Touches, Drop, query, history
  <1>4. ASSUME NEW t \in Thread, Step(t) PROVE ends /\ kept
    <2>1. CASE Spool(t) \/ MarkRead(t) \/ Unclaim(t)
      BY <2>1 DEF Spool, MarkRead, Unclaim, Touches, Drop, query
    <2>2. CASE ~(Spool(t) \/ MarkRead(t) \/ Unclaim(t))
      BY <1>4, <2>2 DEF Step, Sample, Publish, PublishParquet, PublishRecord, Claim, Steal, Arrow, Hand, ReadParquet,
                        MarkWrite, Unlink, query, history
    <2> QED
      BY <2>1, <2>2
  <1>5. ASSUME NEW k \in Job, Still(k) PROVE ends /\ kept
    BY <1>5, StillIs DEF Unfinished, Finished
  <1>6. ASSUME NEW k \in Job, Wakes(k) \/ Forgets(k) PROVE ends /\ kept
    BY <1>6 DEF Wakes, Forgets, StatusLock, query, history
  <1>7. ASSUME NEW r \in Replica, Crash(r) PROVE ends /\ kept
    BY <1>7 DEF Crash, Unfinished, Finished, history
  <1>8. ASSUME NEW r \in Replica, OtherSubmit(r) PROVE ends /\ kept
    BY <1>8 DEF OtherSubmit, query, history
  <1>9. CASE OthersClean
    BY <1>9 DEF OthersClean, Cleaned, Drop, query
  <1> QED
    BY <1>1, <1>2, <1>3, <1>4, <1>5, <1>6, <1>7, <1>8, <1>9, NextIs

\* What no step of a client or of others does to a thread that fetches: only the step of
\* that thread itself, or a crash, changes it.
LEMMA ClientStepMoves ==
  ASSUME SharedTyped, NEW c \in Client, ClientStep(c), NEW u \in Thread, thread'[u].at \in Fetching \union Publishing
  PROVE  thread'[u] = thread[u]
  <1>1. CASE Tombstone(c)
    <2> DEFINE j == thread[c].job
    <2>1. /\ thread'[c].at = "idle" /\ thread'[j].at = "watch"
          /\ \A w \in Thread \ {c, j} : thread'[w] = thread[w]
      BY <1>1, TombstoneIs DEF Idle
    <2> QED
      BY <2>1 DEF Fetching, Claimant, Publishing
  <1>2. CASE RaiseFlag(c) \/ CancelRead(c) \/ CancelWrite(c)
    BY <1>2, CancelIs DEF Goes, Done, Moved, Fetching, Claimant, Publishing
  <1> QED
    BY <1>1, <1>2 DEF ClientStep

LEMMA WatchMoves ==
  ASSUME SharedTyped, NEW k \in Job, Wakes(k) \/ Forgets(k), NEW u \in Thread, thread'[u].at \in Fetching \union Publishing
  PROVE  thread'[u] = thread[u]
  <1>1. CASE Wakes(k)
    <2>1. \E got \in BOOLEAN : Moved(k, "sample", home[k], k, TRUE, None, got)
      BY <1>1, StatusTyped DEF Wakes, Thread
    <2> QED
      BY <2>1 DEF Moved, Fetching, Claimant, Publishing
  <1>2. CASE Forgets(k)
    BY <1>2 DEF Forgets, Done, Moved, Fetching, Claimant, Publishing
  <1> QED
    BY <1>1, <1>2

\* A fetch goes on as it began, the owner's from its own table, any other's from the
\* directory, or begins: of a result the owner has, or that the directory tells of.
FetchBegins(u) ==
  LET j == thread'[u].job
  IN /\ thread'[u].at = "claim" /\ j \in Job
     /\ thread'[u].mine => work[j] = "done"
     /\ ~thread'[u].mine => json[j] # None /\ json[j].state = "done"
FetchGoesOn(u) ==
  /\ thread[u].at \in Fetching /\ thread'[u].mine = thread[u].mine /\ thread'[u].job = thread[u].job
  /\ thread'[u].at \in {"arrow", "hand"} => thread[u].at = "arrow" \/ thread[u].mine
  /\ thread'[u].at = "read" => ~thread[u].mine

LEMMA FetchMoves ==
  ASSUME SharedTyped, [Next]_vars, NEW u \in Thread, thread'[u].at \in Fetching
  PROVE  thread'[u] = thread[u] \/ FetchGoesOn(u) \/ FetchBegins(u)
  <1>1. CASE UNCHANGED vars
    BY <1>1 DEF vars
  <1>2. ASSUME NEW c \in Client, Request(c) PROVE thread'[u] = thread[u] \/ FetchBegins(u)
    <2>1. CASE u = c /\ ~ UNCHANGED thread
      <3>1. Begins(c)
        BY <1>2, <2>1, RequestIs
      <3>2. thread'[c].at \notin {"tombstone", "sample", "flag", "cancelread"}
        BY <2>1 DEF Fetching, Claimant
      <3> QED
        BY <2>1, <3>1, <3>2 DEF Begins, FetchBegins, Moved
    <2>2. CASE u # c \/ UNCHANGED thread
      BY <1>2, <2>2, RequestIs DEF Begins, Moved
    <2> QED
      BY <2>1, <2>2
  <1>3. ASSUME NEW c \in Client, ClientStep(c) PROVE thread'[u] = thread[u]
    BY <1>3, ClientStepMoves
  <1>4. ASSUME NEW t \in Thread, Step(t) PROVE thread'[u] = thread[u] \/ FetchGoesOn(u)
    <2>1. CASE Sample(t) \/ Publish(t) \/ Spool(t) \/ PublishParquet(t) \/ PublishRecord(t) \/ Unclaim(t)
      BY <2>1, StepIs DEF Goes, Done, Moved, Fetching, Claimant
    <2>2. CASE Claim(t) \/ Steal(t)
      BY ZenonT(40), <2>2, StepIs DEF Goes, Done, Moved, Fetching, Claimant, Claimed, FetchGoesOn, Claim, Steal
    <2>3. CASE Arrow(t) \/ Hand(t) \/ ReadParquet(t)
      BY <2>3, StepIs DEF Goes, Done, Moved, Fetching, Claimant, FetchGoesOn, Arrow, Hand, ReadParquet
    <2>4. CASE MarkRead(t) \/ MarkWrite(t) \/ Unlink(t)
      BY <2>4, StepIs DEF Goes, Done, Moved, Fetching, Claimant, FetchGoesOn, MarkRead, MarkWrite, Unlink
    <2> QED
      BY <1>4, <2>1, <2>2, <2>3, <2>4 DEF Step
  <1>5. ASSUME NEW k \in Job, Still(k) PROVE thread'[u] = thread[u]
    BY <1>5, StillIs
  <1>6. ASSUME NEW k \in Job, Wakes(k) \/ Forgets(k) PROVE thread'[u] = thread[u]
    BY <1>6, WatchMoves
  <1>7. ASSUME NEW r \in Replica, Crash(r) \/ OtherSubmit(r) PROVE thread'[u] = thread[u]
    BY <1>7 DEF Crash, OtherSubmit, Idle, Fetching, Claimant
  <1>8. CASE OthersClean
    BY <1>8 DEF OthersClean
  <1> QED
    BY <1>1, <1>2, <1>3, <1>4, <1>5, <1>6, <1>7, <1>8, NextIs

LEMMA FetchesKept ==
  ASSUME SharedInv, ThroughStays, Fetches, [Next]_vars
  PROVE  Fetches'
  <1>1. SharedTyped /\ SharedTyped'
    BY TypedKept DEF SharedInv
  <1>2. ASSUME NEW u \in Thread, NEW j \in Job, thread'[u].at \in Fetching, thread'[u].job = j
        PROVE  /\ work'[j] = "done"
               /\ thread'[u].mine => thread'[u].at # "read"
               /\ ~thread'[u].mine => thread'[u].at \notin {"arrow", "hand"} /\ Through(j)'
    <2>1. work[j] = "done" => work'[j] = "done"
      BY <1>1, Lasts DEF Finished
    <2>2. CASE thread'[u] = thread[u]
      BY <1>2, <2>1, <2>2 DEF Fetches, ThroughStays
    <2>3. CASE FetchGoesOn(u)
      <3>1. thread[u].at \in Fetching /\ thread[u].job = j /\ thread'[u].mine = thread[u].mine
        BY <1>2, <2>3 DEF FetchGoesOn
      <3>2. work[j] = "done" /\ (~thread[u].mine => Through(j))
        BY <3>1 DEF Fetches
      <3>3. /\ thread'[u].mine => thread'[u].at # "read"
            /\ ~thread'[u].mine => thread'[u].at \notin {"arrow", "hand"}
        BY <2>3, <3>1 DEF FetchGoesOn, Fetches
      <3> QED
        BY <2>1, <3>1, <3>2, <3>3 DEF ThroughStays
    <2>4. CASE FetchBegins(u)
      <3>1. work[j] = "done" /\ (~thread'[u].mine => Through(j)) /\ thread'[u].at = "claim"
        BY <1>2, <2>4 DEF FetchBegins, SharedInv, RecordsTrue
      <3> QED
        BY <2>1, <3>1 DEF ThroughStays
    <2> QED
      BY <1>1, <1>2, <2>2, <2>3, <2>4, FetchMoves
  <1>3. \A u \in Thread : thread'[u].at \in Fetching => thread'[u].job \in Job
    BY <1>1 DEF SharedTyped, Homes, ThreadsHomed, Fetching, Claimant
  <1> QED
    BY <1>2, <1>3 DEF Fetches, Through, Busy

\* Only a step that hands over, reads the table or gives it to the client changes who has a
\* result in hand or what was given.
HandsStill ==
  /\ UNCHANGED handed /\ fetched \subseteq fetched'
  /\ \A u \in Thread : thread'[u].at \in Marking /\ thread'[u].got =>
       /\ thread[u].at \in Marking /\ thread[u].got /\ thread'[u].job = thread[u].job
       /\ thread'[u].mine = thread[u].mine

LEMMA HandMoves ==
  ASSUME SharedTyped, [Next]_vars
  PROVE  HandsStill \/ \E t \in Thread : Hand(t) \/ ReadParquet(t) \/ Unclaim(t)
  <1>1. CASE UNCHANGED vars
    BY <1>1 DEF vars, registry, history, HandsStill
  <1>2. ASSUME NEW c \in Client, Request(c) PROVE HandsStill
    <2>1. UNCHANGED handed /\ fetched \subseteq fetched'
      BY <1>2, RequestIs DEF history
    <2>2. \A u \in Thread : thread'[u].at \in Marking => thread'[u] = thread[u]
      BY <1>2, RequestIs DEF Begins, Moved, Marking
    <2> QED
      BY <2>1, <2>2 DEF HandsStill
  <1>3. ASSUME NEW c \in Client, ClientStep(c) PROVE HandsStill
    <2>1. UNCHANGED <<handed, fetched>>
      BY <1>3 DEF ClientStep, Tombstone, RaiseFlag, CancelRead, CancelWrite, registry, history
    <2> QED
      BY <1>3, <2>1, ClientStepMoves DEF HandsStill, Marking, Fetching, Claimant
  <1>4. ASSUME NEW t \in Thread, Step(t), ~Hand(t), ~ReadParquet(t), ~Unclaim(t) PROVE HandsStill
    <2>1. UNCHANGED <<handed, fetched>>
      BY <1>4 DEF Step, Sample, Publish, Spool, PublishParquet, PublishRecord, Claim, Steal, Arrow, MarkRead, MarkWrite,
                  Unlink, registry, history
    <2>2. CASE Sample(t) \/ Publish(t) \/ Spool(t) \/ PublishParquet(t) \/ PublishRecord(t) \/ Claim(t) \/ Steal(t) \/ Arrow(t)
      BY <2>1, <2>2, StepIs DEF Goes, Done, Moved, Marking, Claimed, HandsStill
    <2>3. CASE MarkRead(t) \/ MarkWrite(t) \/ Unlink(t)
      BY <2>1, <2>3, StepIs DEF Goes, Moved, Marking, MarkRead, MarkWrite, Unlink, HandsStill
    <2> QED
      BY <1>4, <2>2, <2>3 DEF Step
  <1>5. ASSUME NEW k \in Job, Still(k) PROVE HandsStill
    BY <1>5, StillIs DEF HandsStill
  <1>6. ASSUME NEW k \in Job, Wakes(k) \/ Forgets(k) PROVE HandsStill
    <2>1. UNCHANGED handed /\ fetched \subseteq fetched'
      BY <1>6 DEF Wakes, Forgets, StatusLock, Reconcile, registry, history
    <2> QED
      BY <1>6, <2>1, WatchMoves DEF HandsStill, Marking, Fetching, Claimant
  <1>7. ASSUME NEW r \in Replica, Crash(r) \/ OtherSubmit(r) PROVE HandsStill
    BY <1>7 DEF Crash, OtherSubmit, Idle, Marking, history, HandsStill
  <1>8. CASE OthersClean
    BY <1>8 DEF OthersClean, registry, HandsStill
  <1> QED
    BY <1>1, <1>2, <1>3, <1>4, <1>5, <1>6, <1>7, <1>8, NextIs

LEMMA OwnerHandsKept ==
  ASSUME SharedTyped, Fetches, OwnerHands, [Next]_vars
  PROVE  OwnerHands'
  <1>1. /\ handed \in [Job -> [Way -> Nat]] /\ "owner" \in Way /\ "store" \in Way
        /\ \A u \in Thread : thread[u].at # "idle" => thread[u].job \in Job
    BY DEF SharedTyped, TypeOK, Homes, ThreadsHomed, Way
  <1>2. CASE HandsStill
    BY <1>2 DEF HandsStill, OwnerHands, Gives, Busy
  <1>3. ASSUME NEW t \in Thread, Hand(t) PROVE OwnerHands'
    <2> DEFINE j == thread[t].job
    <2>1. thread[t].at = "hand" /\ UNCHANGED handed /\ fetched' = fetched \union {j} /\ j \in Job
      BY <1>1, <1>3 DEF Hand, history
    <2>2. /\ thread'[t].at = "markread" /\ thread'[t].job = j /\ thread'[t].got = (j \notin fetched)
          /\ \A u \in Thread \ {t} : thread'[u] = thread[u]
      BY <1>3, StepIs DEF Goes, Moved
    <2>3. j \notin fetched => handed[j]["owner"] = 0 /\ \A u \in Thread : ~Gives(u, j, TRUE)
      BY <2>1 DEF OwnerHands
    <2>4. \A u \in Thread, k \in Job : Gives(u, k, TRUE)' =>
            (u # t /\ Gives(u, k, TRUE)) \/ (u = t /\ k = j /\ j \notin fetched)
      BY <2>1, <2>2 DEF Gives, Busy
    <2> QED
      BY ZenonT(40), <2>1, <2>3, <2>4 DEF OwnerHands
  <1>4. ASSUME NEW t \in Thread, ReadParquet(t) PROVE OwnerHands'
    <2>1. ~thread[t].mine /\ UNCHANGED <<handed, fetched>>
      BY <1>4 DEF ReadParquet, Fetches, Fetching, Claimant, registry, history
    <2>2. ~thread'[t].mine /\ \A u \in Thread \ {t} : thread'[u] = thread[u]
      BY <1>4, <2>1, StepIs DEF Goes, Moved
    <2>3. \A u \in Thread, k \in Job : Gives(u, k, TRUE)' => Gives(u, k, TRUE)
      BY <2>2 DEF Gives, Busy
    <2> QED
      BY <2>1, <2>3 DEF OwnerHands
  <1>5. ASSUME NEW t \in Thread, Unclaim(t) PROVE OwnerHands'
    <2> DEFINE j == thread[t].job
    <2>1. thread[t].at = "unclaim" /\ UNCHANGED fetched /\ j \in Job
      BY <1>1, <1>5 DEF Unclaim, registry
    <2>2. thread'[t].at = "idle" /\ \A u \in Thread \ {t} : thread'[u] = thread[u]
      BY <1>5, StepIs DEF Done, Moved
    <2>3. \A u \in Thread, k \in Job : Gives(u, k, TRUE)' => u # t /\ Gives(u, k, TRUE)
      BY <2>2 DEF Gives, Busy, Marking
    <2>4. CASE Gives(t, j, TRUE)
      <3>1. handed' = [handed EXCEPT ![j]["owner"] = @ + 1] /\ handed[j]["owner"] = 0 /\ j \in fetched
        BY <1>5, <2>1, <2>4 DEF Unclaim, Gives, OwnerHands
      <3>2. handed'[j]["owner"] = 1 /\ \A k \in Job \ {j} : handed'[k] = handed[k]
        BY <1>1, <2>1, <3>1
      <3>3. \A u \in Thread, k \in Job : Gives(u, k, TRUE)' => k # j /\ Gives(u, k, TRUE)
        BY <2>1, <2>3, <2>4 DEF OwnerHands
      <3>4. \A k \in Job : handed'[k]["owner"] = 0 \/ (handed'[k]["owner"] = 1 /\ k \in fetched)
        BY <2>1, <3>1, <3>2 DEF OwnerHands
      <3>5. \A u \in Thread, k \in Job : Gives(u, k, TRUE)' => k \in fetched /\ handed'[k]["owner"] = 0
        BY <3>2, <3>3 DEF OwnerHands
      <3> QED
        BY <2>1, <2>3, <3>4, <3>5 DEF OwnerHands
    <2>5. CASE ~Gives(t, j, TRUE)
      <3>1. UNCHANGED handed \/ handed' = [handed EXCEPT ![j]["store"] = @ + 1]
        BY <1>1, <1>5, <2>1, <2>5 DEF Unclaim, Gives, Busy, Marking
      <3>2. \A k \in Job : handed'[k]["owner"] = handed[k]["owner"]
        BY <1>1, <3>1
      <3> QED
        BY <2>1, <2>3, <3>2 DEF OwnerHands
    <2> QED
      BY <2>4, <2>5
  <1> QED
    BY <1>2, <1>3, <1>4, <1>5, HandMoves

\* No table comes back once the publish of its job is over.
LEMMA NoNewTable ==
  ASSUME SharedInv, [Next]_vars, NEW j \in Job, Through(j), j \in parquet'
  PROVE  j \in parquet
  <1>1. SharedTyped
    BY DEF SharedInv
  <1>2. CASE UNCHANGED vars
    BY <1>2 DEF vars, store
  <1>3. ASSUME NEW c \in Client, Request(c) PROVE UNCHANGED parquet
    BY <1>1, <1>3, RequestIs
  <1>4. ASSUME NEW c \in Client, ClientStep(c) PROVE parquet' \subseteq parquet
    BY <1>4 DEF ClientStep, Tombstone, RaiseFlag, CancelRead, CancelWrite, store, Drop
  <1>5. ASSUME NEW t \in Thread, Step(t) PROVE j \in parquet
    <2>1. CASE PublishParquet(t)
      <3>1. thread[t].at \in Publishing /\ parquet' = parquet \union {thread[t].job}
        BY <2>1 DEF PublishParquet, Publishing
      <3>2. thread[t].job # j
        BY <3>1 DEF Through, Busy
      <3> QED
        BY <3>1, <3>2
    <2>2. CASE ~PublishParquet(t)
      BY <1>5, <2>2 DEF Step, Sample, Publish, Spool, PublishRecord, Claim, Steal, Arrow, Hand, ReadParquet,
                        MarkRead, MarkWrite, Unlink, Unclaim, store, Drop
    <2> QED
      BY <2>1, <2>2
  <1>6. ASSUME NEW k \in Job, Still(k) PROVE UNCHANGED parquet
    BY <1>1, <1>6, StillIs
  <1>7. ASSUME NEW k \in Job, Wakes(k) \/ Forgets(k) PROVE UNCHANGED parquet
    BY <1>7 DEF Wakes, Forgets, StatusLock, store
  <1>8. ASSUME NEW r \in Replica, Crash(r) \/ OtherSubmit(r) PROVE UNCHANGED parquet
    BY <1>8 DEF Crash, OtherSubmit, store
  <1>9. CASE OthersClean
    BY <1>9 DEF OthersClean, Cleaned, Drop
  <1> QED
    BY <1>1, <1>2, <1>3, <1>4, <1>5, <1>6, <1>7, <1>8, <1>9, NextIs

\* So a table that needs no claim any more never will.
LEMMA UnguardedStays ==
  ASSUME SharedInv, ThroughStays, [Next]_vars, NEW j \in Job, Guarded(j)'
  PROVE  Guarded(j)
  <1>1. CASE j \in parquet'
    BY <1>1, NoNewTable DEF Guarded
  <1>2. CASE ~Through(j)'
    BY <1>2 DEF Guarded, ThroughStays
  <1> QED
    BY <1>1, <1>2 DEF Guarded

\* Where nobody gets a claim on a job.
LEMMA ClaimLess ==
  ASSUME NEW j \in Job, ClaimBinds(j), Guarded(j)' => Guarded(j), claim'[j] # "stale",
         \A u \in Thread :
           /\ ~Busy(u, j, {"steal"})'
           /\ Busy(u, j, Claimant)' => Busy(u, j, Claimant) /\ (Guarded(j)' => claim'[j] = claim[j])
           /\ Busy(u, j, {"unclaim"})' /\ ~thread'[u].mine => j \notin parquet'
  PROVE  ClaimBinds(j)'
  <1>1. Guarded(j)' => /\ \A t \in Thread : Busy(t, j, Claimant)' => claim'[j] = "held"
                       /\ \A t, u \in Thread : Busy(t, j, Claimant)' /\ Busy(u, j, Claimant)' => t = u
    BY DEF ClaimBinds
  <1> QED
    BY <1>1 DEF ClaimBinds

\* Where a cleanup goes, a claim may be freed, but then the table is gone, and nobody will
\* bring it back, or the owner's own fetch has lost it.
LEMMA ClaimDropped ==
  ASSUME SharedInv, Fetches, NEW gone \in SUBSET Job, Drop(gone), NEW j \in Job \ loose', ClaimBinds(j),
         ThroughStays, Guarded(j)' => Guarded(j),
         \A u \in Thread : thread'[u].at \in Fetching => thread'[u] = thread[u]
  PROVE  ClaimBinds(j)'
  <1>1. /\ parquet' = parquet \ gone /\ claim \in [Job -> {"free", "held", "orphan", "stale"}]
        /\ loose' = loose \union {k \in gone : \E t \in Thread : thread[t].mine /\ Busy(t, k, Claimant)}
        /\ claim[j] # "stale"
    BY DEF Drop, SharedInv, SharedTyped, TypeOK, ClaimBinds
  <1>2. claim'[j] = IF j \in gone THEN "free" ELSE claim[j]
    BY <1>1 DEF Drop
  <1>3. \A u \in Thread : /\ Busy(u, j, {"steal"})' => Busy(u, j, {"steal"})
                          /\ Busy(u, j, Claimant)' => Busy(u, j, Claimant) /\ thread'[u] = thread[u]
                          /\ Busy(u, j, {"unclaim"})' => Busy(u, j, {"unclaim"}) /\ thread'[u] = thread[u]
    BY DEF Busy, Fetching, Claimant
  <1>4. ASSUME NEW u \in Thread, Busy(u, j, Claimant), Guarded(j)', j \in gone PROVE FALSE
    <2>1. ~thread[u].mine
      BY <1>1, <1>4
    <2>2. Through(j)
      BY <1>4, <2>1 DEF Fetches, Busy, Fetching
    <2>3. Through(j)' /\ j \notin parquet'
      BY <1>1, <1>4, <2>2 DEF ThroughStays
    <2> QED
      BY <1>4, <2>3 DEF Guarded
  <1>5. \A u \in Thread :
           /\ ~Busy(u, j, {"steal"})'
           /\ Busy(u, j, Claimant)' => Busy(u, j, Claimant) /\ (Guarded(j)' => claim'[j] = claim[j])
           /\ Busy(u, j, {"unclaim"})' /\ ~thread'[u].mine => j \notin parquet'
    BY <1>1, <1>2, <1>3, <1>4 DEF ClaimBinds
  <1> QED
    BY <1>1, <1>2, <1>5, ClaimLess

\* Until a claim on the job may be taken for abandoned, it is a lock on the table.
LEMMA StepKeepsClaim ==
  ASSUME SharedInv, Fetches, ThroughStays, NEW t \in Thread, Step(t), NEW j \in Job \ loose', ClaimBinds(j),
         Guarded(j)' => Guarded(j)
  PROVE  ClaimBinds(j)'
  <1>1. /\ SharedTyped /\ claim \in [Job -> {"free", "held", "orphan", "stale"}] /\ claim[j] # "stale"
        /\ \A u \in Thread : thread[u].at # "idle" => thread[u].job \in Job
        /\ \A u \in Thread : Busy(u, j, {"unclaim"}) /\ ~thread[u].mine => j \notin parquet
    BY DEF SharedInv, SharedTyped, TypeOK, Homes, ThreadsHomed, ClaimBinds
  <1> DEFINE same(u) == thread'[u] = thread[u]
  \* The claim and who has one stay as they are, or somebody goes on with one.
  <1>2. ASSUME claim'[j] = claim[j], parquet' \subseteq parquet \/ ~Through(j),
               NEW a \in At, thread'[t].at = a, a \notin {"steal", "unclaim"},
               a \in Claimant => thread[t].at \in Claimant /\ thread'[t].job = thread[t].job,
               \A u \in Thread \ {t} : same(u)
        PROVE  ClaimBinds(j)'
    <2>1. \A u \in Thread : Busy(u, j, {"unclaim"})' /\ ~thread'[u].mine => j \notin parquet'
      <3> SUFFICES ASSUME NEW u \in Thread, thread'[u].at = "unclaim", thread'[u].job = j, ~thread'[u].mine
                   PROVE  j \notin parquet'
        BY DEF Busy
      <3>1. u # t /\ thread'[u] = thread[u]
        BY <1>2
      <3>2. j \notin parquet /\ Through(j)
        BY <1>1, <3>1 DEF Busy, Fetches, Fetching, Claimant
      <3> QED
        BY <1>2, <3>2
    <2>2. \A u \in Thread : ~Busy(u, j, {"steal"})' /\ (Busy(u, j, Claimant)' => Busy(u, j, Claimant))
      BY <1>2 DEF ClaimBinds, Busy
    <2> QED
      BY <1>1, <1>2, <2>1, <2>2, ClaimLess
  <1>3. CASE Sample(t) \/ Publish(t) \/ PublishRecord(t)
    <2>1. UNCHANGED <<claim, parquet>>
      BY <1>3 DEF Sample, Publish, PublishRecord, store
    <2>2. thread'[t].at \in {"idle", "publish", "spool"} /\ \A u \in Thread \ {t} : same(u)
      BY <1>1, <1>3, StepIs DEF Goes, Done, Moved
    <2> QED
      BY <1>2, <2>1, <2>2 DEF Claimant, At
  <1>4. CASE Spool(t)
    <2>1. PICK gone \in SUBSET Job : Drop(gone)
      BY <1>4 DEF Spool
    <2>2. thread'[t].at \in {"parquet", "record"} /\ \A u \in Thread \ {t} : same(u)
      BY <1>1, <1>4, StepIs DEF Goes, Moved
    <2>3. \A u \in Thread : thread'[u].at \in Fetching => same(u)
      BY <2>2 DEF Fetching, Claimant
    <2> QED
      BY <2>1, <2>3, ClaimDropped
  <1>5. CASE PublishParquet(t)
    <2>1. parquet' = parquet \union {thread[t].job} /\ UNCHANGED claim /\ thread[t].at = "parquet"
      BY <1>5 DEF PublishParquet
    <2>2. thread'[t].at = "record" /\ \A u \in Thread \ {t} : same(u)
      BY <1>1, <1>5, StepIs DEF Goes, Moved
    <2>3. \A u \in Thread : Busy(u, j, {"unclaim"})' /\ ~thread'[u].mine => j \notin parquet'
      <3> SUFFICES ASSUME NEW u \in Thread, thread'[u].at = "unclaim", thread'[u].job = j, ~thread'[u].mine
                   PROVE  j \notin parquet'
        BY DEF Busy
      <3>1. thread'[u] = thread[u]
        BY <2>2
      <3>2. j \notin parquet /\ Through(j)
        BY <1>1, <3>1 DEF Busy, Fetches, Fetching, Claimant
      <3> QED
        BY <2>1, <3>2 DEF Through, Busy, Publishing
    <2>4. \A u \in Thread : ~Busy(u, j, {"steal"})' /\ (Busy(u, j, Claimant)' => Busy(u, j, Claimant))
      BY <2>2 DEF ClaimBinds, Busy, Claimant
    <2> QED
      BY <1>1, <2>1, <2>3, <2>4, ClaimLess
  <1>6. CASE Claim(t)
    <2>1. thread[t].at = "claim" /\ UNCHANGED parquet /\ thread[t].job \in Job
      BY <1>1, <1>6 DEF Claim
    <2>2. CASE /\ Goes(t, Claimed(t), thread[t].saw, thread[t].got) /\ claim[thread[t].job] = "free"
               /\ claim' = [claim EXCEPT ![thread[t].job] = "held"]
      <3>1. /\ thread'[t].at \in {"arrow", "read"} /\ thread'[t].job = thread[t].job
            /\ \A u \in Thread \ {t} : same(u)
        BY <2>2 DEF Goes, Moved, Claimed
      <3>2. CASE thread[t].job # j
        <4>1. claim'[j] = claim[j]
          BY <1>1, <2>1, <2>2, <3>2
        <4>2. \A u \in Thread : /\ ~Busy(u, j, {"steal"})'
                                /\ Busy(u, j, Claimant)' => Busy(u, j, Claimant)
                                /\ Busy(u, j, {"unclaim"})' /\ ~thread'[u].mine => j \notin parquet'
          BY <1>1, <2>1, <3>1, <3>2 DEF ClaimBinds, Busy
        <4> QED
          BY <1>1, <4>1, <4>2, ClaimLess
      <3>3. CASE thread[t].job = j
        <4>1. claim'[j] = "held" /\ claim[j] = "free"
          BY <1>1, <2>1, <2>2, <3>3
        <4>2. Guarded(j)' => \A u \in Thread : ~Busy(u, j, Claimant)
          BY <4>1 DEF ClaimBinds
        <4>3. \A u \in Thread : /\ ~Busy(u, j, {"steal"})'
                                /\ Busy(u, j, {"unclaim"})' /\ ~thread'[u].mine => j \notin parquet'
                                /\ Busy(u, j, Claimant)' => u = t \/ Busy(u, j, Claimant)
          BY <1>1, <2>1, <3>1 DEF ClaimBinds, Busy
        <4> QED
          BY <4>1, <4>2, <4>3 DEF ClaimBinds
      <3> QED
        BY <3>2, <3>3
    <2>3. CASE Done(t) /\ UNCHANGED claim
      BY <1>2, <2>1, <2>3 DEF Done, Moved, Claimant, At
    <2>4. CASE claim[thread[t].job] = "stale" /\ Goes(t, "steal", thread[t].saw, thread[t].got) /\ UNCHANGED claim
      <3>1. thread[t].job # j /\ thread'[t].at = "steal" /\ thread'[t].job = thread[t].job
            /\ \A u \in Thread \ {t} : same(u)
        BY <1>1, <2>4 DEF Goes, Moved
      <3>2. \A u \in Thread : /\ ~Busy(u, j, {"steal"})'
                              /\ Busy(u, j, Claimant)' => Busy(u, j, Claimant)
                              /\ Busy(u, j, {"unclaim"})' /\ ~thread'[u].mine => j \notin parquet'
        BY <1>1, <2>1, <3>1 DEF ClaimBinds, Busy
      <3> QED
        BY <1>1, <2>4, <3>2, ClaimLess
    <2> QED
      BY <1>1, <1>6, <2>2, <2>3, <2>4, StepIs
  <1>7. CASE Steal(t)
    <2>1. thread[t].at = "steal" /\ UNCHANGED parquet /\ claim' = [claim EXCEPT ![thread[t].job] = "held"]
      BY <1>7 DEF Steal
    <2>2. thread[t].job # j /\ thread[t].job \in Job
      BY <1>1, <2>1 DEF ClaimBinds, Busy
    <2>3. /\ thread'[t].at \in {"arrow", "read"} /\ thread'[t].job = thread[t].job
          /\ \A u \in Thread \ {t} : same(u)
      BY <1>1, <1>7, StepIs DEF Goes, Moved, Claimed
    <2>4. claim'[j] = claim[j]
      BY <1>1, <2>1, <2>2
    <2>5. \A u \in Thread : /\ ~Busy(u, j, {"steal"})'
                            /\ Busy(u, j, Claimant)' => Busy(u, j, Claimant)
                            /\ Busy(u, j, {"unclaim"})' /\ ~thread'[u].mine => j \notin parquet'
      BY <1>1, <2>1, <2>2, <2>3 DEF ClaimBinds, Busy
    <2> QED
      BY <1>1, <2>4, <2>5, ClaimLess
  <1>8. CASE Arrow(t)
    <2>1. thread[t].at = "arrow" /\ UNCHANGED parquet
      BY <1>8 DEF Arrow
    <2>2. CASE Goes(t, "hand", thread[t].saw, thread[t].got) /\ UNCHANGED claim
      BY <1>2, <2>1, <2>2 DEF Goes, Moved, Claimant, At
    <2>3. CASE Done(t) /\ Abandons({t})
      <3>1. thread'[t].at = "idle" /\ \A u \in Thread \ {t} : same(u)
        BY <2>3 DEF Done, Moved
      <3>2. claim'[j] # "stale" /\ \A u \in Thread \ {t} : Busy(u, j, Claimant) => claim'[j] = claim[j]
        BY <1>1, <2>3 DEF Abandons
      <3>3. \A u \in Thread : /\ ~Busy(u, j, {"steal"})'
                              /\ Busy(u, j, Claimant)' => u # t /\ Busy(u, j, Claimant)
                              /\ Busy(u, j, {"unclaim"})' /\ ~thread'[u].mine => j \notin parquet'
        BY <1>1, <2>1, <3>1 DEF ClaimBinds, Busy, Claimant
      <3> QED
        BY <3>2, <3>3, ClaimLess
    <2> QED
      BY <1>1, <1>8, <2>2, <2>3, StepIs
  <1>9. CASE Hand(t) \/ ReadParquet(t) \/ MarkRead(t) \/ MarkWrite(t)
    <2>1. thread[t].at \in Claimant /\ UNCHANGED <<claim, parquet>>
      BY <1>9 DEF Hand, ReadParquet, MarkRead, MarkWrite, Claimant, store
    <2>2. /\ thread'[t].job = thread[t].job /\ \A u \in Thread \ {t} : same(u)
          /\ thread'[t].at \in {"markread", "markwrite", "unlink"}
      BY <1>1, <1>9, StepIs DEF Goes, Moved
    <2> QED
      BY <1>2, <2>1, <2>2 DEF At
  <1>10. CASE Unlink(t)
    <2>1. thread[t].at = "unlink" /\ UNCHANGED claim /\ parquet' = parquet \ {thread[t].job}
      BY <1>10 DEF Unlink
    <2>2. /\ thread'[t].at = "unclaim" /\ thread'[t].job = thread[t].job
          /\ \A u \in Thread \ {t} : same(u)
      BY <1>1, <1>10, StepIs DEF Goes, Moved
    <2>3. \A u \in Thread : /\ ~Busy(u, j, {"steal"})'
                            /\ Busy(u, j, Claimant)' => Busy(u, j, Claimant)
                            /\ Busy(u, j, {"unclaim"})' /\ ~thread'[u].mine => j \notin parquet'
      BY <1>1, <2>1, <2>2 DEF ClaimBinds, Busy, Claimant
    <2> QED
      BY <1>1, <2>1, <2>3, ClaimLess
  <1>11. CASE Unclaim(t)
    <2>1. thread[t].at = "unclaim" /\ UNCHANGED parquet /\ claim' = [claim EXCEPT ![thread[t].job] = "free"]
          /\ thread[t].job \in Job
      BY <1>1, <1>11 DEF Unclaim
    <2>2. thread'[t].at = "idle" /\ \A u \in Thread \ {t} : same(u)
      BY <1>1, <1>11, StepIs DEF Done, Moved
    <2>3. claim'[j] = IF thread[t].job = j THEN "free" ELSE claim[j]
      BY <1>1, <2>1
    <2>4. \A u \in Thread : /\ ~Busy(u, j, {"steal"})'
                            /\ Busy(u, j, Claimant)' => u # t /\ Busy(u, j, Claimant)
                            /\ Busy(u, j, {"unclaim"})' /\ ~thread'[u].mine => j \notin parquet'
      BY <1>1, <2>1, <2>2 DEF ClaimBinds, Busy, Claimant
    <2>5. thread[t].job = j /\ Guarded(j)' => \A u \in Thread \ {t} : ~Busy(u, j, Claimant)
      <3>1. thread[t].job = j => Busy(t, j, Claimant)
        BY <2>1 DEF Busy, Claimant
      <3> QED
        BY <3>1 DEF ClaimBinds
    <2> QED
      BY <1>1, <2>3, <2>4, <2>5, ClaimLess
  <1> QED
    BY <1>3, <1>4, <1>5, <1>6, <1>7, <1>8, <1>9, <1>10, <1>11 DEF Step

LEMMA ClaimsKept ==
  ASSUME SharedInv, Fetches, ThroughStays, Claims, [Next]_vars
  PROVE  Claims'
  <1> SUFFICES ASSUME NEW j \in Job \ loose' PROVE ClaimBinds(j)'
    BY DEF Claims
  <1>1. SharedTyped
    BY DEF SharedInv
  <1>2. ClaimBinds(j) /\ (Guarded(j)' => Guarded(j))
    BY <1>1, Lasts, UnguardedStays DEF Claims
  <1>3. ASSUME claim'[j] = claim[j], UNCHANGED parquet, \A u \in Thread : thread'[u].at \in Fetching => thread'[u] = thread[u]
        PROVE  ClaimBinds(j)'
    <2>1. \A u \in Thread : /\ Busy(u, j, {"steal"})' => Busy(u, j, {"steal"})
                            /\ Busy(u, j, Claimant)' => Busy(u, j, Claimant)
                            /\ Busy(u, j, {"unclaim"})' => Busy(u, j, {"unclaim"}) /\ thread'[u] = thread[u]
      BY <1>3 DEF Busy, Fetching, Claimant
    <2> QED
      BY <1>2, <1>3, <2>1, ClaimLess DEF ClaimBinds
  <1>4. CASE UNCHANGED vars
    BY <1>3, <1>4 DEF vars, store
  <1>5. ASSUME NEW c \in Client, Request(c) PROVE ClaimBinds(j)'
    <2>1. UNCHANGED <<claim, parquet>> /\ (UNCHANGED thread \/ Begins(c))
      BY <1>1, <1>5, RequestIs
    <2>2. CASE UNCHANGED thread
      BY <1>3, <2>1, <2>2
    <2>3. CASE Begins(c)
      <3>1. thread'[c].at \notin Claimant \union {"steal"} /\ \A u \in Thread \ {c} : thread'[u] = thread[u]
        BY <2>3 DEF Begins, Moved, Claimant
      <3>2. \A u \in Thread : /\ ~Busy(u, j, {"steal"})'
                              /\ Busy(u, j, Claimant)' => Busy(u, j, Claimant)
                              /\ Busy(u, j, {"unclaim"})' /\ ~thread'[u].mine => j \notin parquet'
        BY <1>2, <2>1, <3>1 DEF ClaimBinds, Busy, Claimant
      <3> QED
        BY <1>2, <2>1, <3>2, ClaimLess DEF ClaimBinds
    <2> QED
      BY <2>1, <2>2, <2>3
  <1>6. ASSUME NEW c \in Client, ClientStep(c) PROVE ClaimBinds(j)'
    <2>1. \A u \in Thread : thread'[u].at \in Fetching => thread'[u] = thread[u]
      BY <1>1, <1>6, ClientStepMoves
    <2>2. CASE Tombstone(c)
      <3>1. PICK gone \in SUBSET Job : Drop(gone)
        BY <2>2 DEF Tombstone
      <3> QED
        BY <1>2, <2>1, <3>1, ClaimDropped
    <2>3. CASE RaiseFlag(c) \/ CancelRead(c) \/ CancelWrite(c)
      BY <1>3, <2>1, <2>3 DEF RaiseFlag, CancelRead, CancelWrite, store
    <2> QED
      BY <1>6, <2>2, <2>3 DEF ClientStep
  <1>7. ASSUME NEW t \in Thread, Step(t) PROVE ClaimBinds(j)'
    BY <1>2, <1>7, StepKeepsClaim
  <1>8. ASSUME NEW k \in Job, Still(k) PROVE ClaimBinds(j)'
    BY <1>1, <1>3, <1>8, StillIs
  <1>9. ASSUME NEW k \in Job, Wakes(k) \/ Forgets(k) PROVE ClaimBinds(j)'
    <2>1. UNCHANGED <<claim, parquet>>
      BY <1>9 DEF Wakes, Forgets, StatusLock, store
    <2> QED
      BY <1>1, <1>3, <1>9, <2>1, WatchMoves
  <1>10. ASSUME NEW r \in Replica, Crash(r) PROVE ClaimBinds(j)'
    <2> DEFINE gone == {t \in Thread : thread[t].on = r}
    <2>1. UNCHANGED parquet /\ Abandons(gone) /\ \A u \in Thread : thread'[u] = IF u \in gone THEN Idle ELSE thread[u]
      BY <1>10 DEF Crash
    <2>2. claim'[j] # "stale" /\ \A u \in Thread \ gone : Busy(u, j, Claimant) => claim'[j] = claim[j]
      BY <1>2, <2>1 DEF Abandons, ClaimBinds
    <2>3. \A u \in Thread : /\ ~Busy(u, j, {"steal"})'
                            /\ Busy(u, j, Claimant)' => u \notin gone /\ Busy(u, j, Claimant)
                            /\ Busy(u, j, {"unclaim"})' /\ ~thread'[u].mine => j \notin parquet'
      BY <1>2, <2>1 DEF ClaimBinds, Busy, Claimant, Idle
    <2> QED
      BY <1>2, <2>2, <2>3, ClaimLess
  <1>11. ASSUME NEW r \in Replica, OtherSubmit(r) PROVE ClaimBinds(j)'
    BY <1>3, <1>11 DEF OtherSubmit, store
  <1>12. CASE OthersClean
    <2>1. PICK gone \in SUBSET Job : Drop(gone)
      BY <1>12 DEF OthersClean, Cleaned
    <2> QED
      BY <1>2, <1>12, <2>1, ClaimDropped DEF OthersClean
  <1> QED
    BY <1>1, <1>4, <1>5, <1>6, <1>7, <1>8, <1>9, <1>10, <1>11, <1>12, NextIs

LEMMA StoreHandsKept ==
  ASSUME SharedInv, ThroughStays, Fetches, Claims, StoreHands, [Next]_vars
  PROVE  StoreHands'
  <1> SUFFICES ASSUME NEW j \in Job \ loose'
               PROVE  /\ handed'[j]["store"] = 0 \/ (handed'[j]["store"] = 1 /\ j \notin parquet' /\ Through(j)')
                      /\ \A t \in Thread : Gives(t, j, FALSE)' => handed'[j]["store"] = 0
                      /\ \A t, u \in Thread : Gives(t, j, FALSE)' /\ Gives(u, j, FALSE)' => t = u
    BY DEF StoreHands
  <1>1. /\ SharedTyped /\ handed \in [Job -> [Way -> Nat]] /\ "owner" \in Way /\ "store" \in Way
        /\ \A u \in Thread : thread[u].at # "idle" => thread[u].job \in Job
    BY DEF SharedInv, SharedTyped, TypeOK, Homes, ThreadsHomed, Way
  <1>2. j \in Job \ loose
    BY <1>1, Lasts
  <1>3. j \notin parquet /\ Through(j) => j \notin parquet' /\ Through(j)'
    BY NoNewTable DEF ThroughStays
  <1>4. ClaimBinds(j)
    BY <1>2 DEF Claims
  <1>5. ASSUME handed'[j]["store"] = handed[j]["store"], \A u \in Thread : Gives(u, j, FALSE)' => Gives(u, j, FALSE)
        PROVE  /\ handed'[j]["store"] = 0 \/ (handed'[j]["store"] = 1 /\ j \notin parquet' /\ Through(j)')
               /\ \A t \in Thread : Gives(t, j, FALSE)' => handed'[j]["store"] = 0
               /\ \A t, u \in Thread : Gives(t, j, FALSE)' /\ Gives(u, j, FALSE)' => t = u
    BY <1>2, <1>3, <1>5 DEF StoreHands
  <1>6. CASE HandsStill
    <2>1. \A u \in Thread : Gives(u, j, FALSE)' => Gives(u, j, FALSE)
      BY <1>6 DEF HandsStill, Gives, Busy
    <2> QED
      BY <1>5, <1>6, <2>1 DEF HandsStill
  <1>7. ASSUME NEW t \in Thread, Hand(t)
        PROVE  handed'[j]["store"] = handed[j]["store"] /\ \A u \in Thread : Gives(u, j, FALSE)' => Gives(u, j, FALSE)
    <2>1. thread[t].mine /\ UNCHANGED handed
      BY <1>7 DEF Hand, Fetches, Fetching, Claimant, history
    <2>2. thread'[t].mine /\ \A u \in Thread \ {t} : thread'[u] = thread[u]
      BY <1>1, <1>7, <2>1, StepIs DEF Goes, Moved
    <2> QED
      BY <2>1, <2>2 DEF Gives, Busy
  <1>8. ASSUME NEW t \in Thread, ReadParquet(t)
        PROVE  /\ handed'[j]["store"] = 0 \/ (handed'[j]["store"] = 1 /\ j \notin parquet' /\ Through(j)')
               /\ \A u \in Thread : Gives(u, j, FALSE)' => handed'[j]["store"] = 0
               /\ \A u, w \in Thread : Gives(u, j, FALSE)' /\ Gives(w, j, FALSE)' => u = w
    <2>1. PICK read \in BOOLEAN : Goes(t, "markread", None, read) /\ (read => thread[t].job \in parquet)
      BY <1>1, <1>8, StepIs
    <2>2. thread[t].at = "read" /\ UNCHANGED handed
      BY <1>8 DEF ReadParquet, history
    <2>3. /\ thread'[t].got => thread[t].job \in parquet
          /\ thread'[t].job = thread[t].job
          /\ \A u \in Thread \ {t} : thread'[u] = thread[u]
      BY <2>1 DEF Goes, Moved
    <2>4. CASE thread'[t].got /\ thread[t].job = j
      <3>1. Busy(t, j, Claimant) /\ j \in parquet
        BY <2>2, <2>3, <2>4 DEF Busy, Claimant
      <3>2. \A u \in Thread : Busy(u, j, Claimant) => u = t
        BY <1>4, <3>1 DEF ClaimBinds, Guarded
      <3>3. \A u \in Thread : Gives(u, j, FALSE)' => u = t
        BY <2>3, <3>2 DEF Gives, Busy, Marking, Claimant
      <3>4. handed'[j]["store"] = 0
        BY <1>2, <2>2, <3>1 DEF StoreHands
      <3> QED
        BY <3>3, <3>4
    <2>5. CASE ~(thread'[t].got /\ thread[t].job = j)
      <3>1. \A u \in Thread : Gives(u, j, FALSE)' => Gives(u, j, FALSE)
        BY <2>3, <2>5 DEF Gives, Busy
      <3> QED
        BY <1>5, <2>2, <3>1
    <2> QED
      BY <2>4, <2>5
  <1>9. ASSUME NEW t \in Thread, Unclaim(t)
        PROVE  /\ handed'[j]["store"] = 0 \/ (handed'[j]["store"] = 1 /\ j \notin parquet' /\ Through(j)')
               /\ \A u \in Thread : Gives(u, j, FALSE)' => handed'[j]["store"] = 0
               /\ \A u, w \in Thread : Gives(u, j, FALSE)' /\ Gives(w, j, FALSE)' => u = w
    <2>1. thread[t].at = "unclaim" /\ thread[t].job \in Job
      BY <1>1, <1>9 DEF Unclaim
    <2>2. thread'[t].at = "idle" /\ \A u \in Thread \ {t} : thread'[u] = thread[u]
      BY <1>1, <1>9, StepIs DEF Done, Moved
    <2>3. \A u \in Thread : Gives(u, j, FALSE)' => u # t /\ Gives(u, j, FALSE)
      BY <2>2 DEF Gives, Busy, Marking
    <2>4. CASE Gives(t, j, FALSE)
      <3>1. handed' = [handed EXCEPT ![j]["store"] = @ + 1] /\ handed[j]["store"] = 0
        BY <1>2, <1>9, <2>4 DEF Unclaim, Gives, Busy, StoreHands
      <3>2. handed'[j]["store"] = 1
        BY <1>1, <1>2, <3>1
      <3>3. \A u \in Thread : ~(u # t /\ Gives(u, j, FALSE))
        BY <1>2, <2>4 DEF StoreHands
      <3>4. j \notin parquet /\ Through(j)
        BY <1>4, <2>1, <2>4 DEF ClaimBinds, Fetches, Gives, Busy, Fetching, Claimant
      <3> QED
        BY <1>3, <2>3, <3>2, <3>3, <3>4
    <2>5. CASE ~Gives(t, j, FALSE)
      <3>1. handed'[j]["store"] = handed[j]["store"]
        <4>1. CASE UNCHANGED handed
          BY <4>1
        <4>2. CASE handed' = [handed EXCEPT ![thread[t].job]["owner"] = @ + 1]
          BY <1>1, <1>2, <2>1, <4>2
        <4>3. CASE handed' = [handed EXCEPT ![thread[t].job]["store"] = @ + 1] /\ thread[t].got /\ ~thread[t].mine
          <5>1. thread[t].job # j
            BY <1>1, <2>1, <2>5, <4>3 DEF Gives, Busy, Marking, SharedTyped, TypeOK
          <5> QED
            BY <1>1, <1>2, <2>1, <4>3, <5>1
        <4> QED
          BY <1>9, <4>1, <4>2, <4>3 DEF Unclaim
      <3> QED
        BY <1>5, <2>3, <3>1
    <2> QED
      BY <2>4, <2>5
  <1> QED
    BY <1>1, <1>5, <1>6, <1>7, <1>8, <1>9, HandMoves

LEMMA HandInvHolds == Spec => []HandInv
  <1>1. Init => HandInv
    <2> SUFFICES ASSUME Init PROVE HandInv
      OBVIOUS
    <2>1. SharedInv
      BY SharedStarts
    <2>2. Fetches /\ OwnerHands /\ Claims /\ StoreHands
      BY DEF Init, Idle, Way, Fetches, Fetching, OwnerHands, Gives, Claims, ClaimBinds, StoreHands, Busy, Claimant, Marking
    <2> QED
      BY <2>1, <2>2 DEF HandInv
  <1>2. HandInv /\ [Next]_vars => HandInv'
    <2> SUFFICES ASSUME HandInv, [Next]_vars PROVE HandInv'
      OBVIOUS
    <2>1. SharedInv' /\ ThroughStays /\ SharedTyped
      BY SharedKept DEF HandInv, SharedInv
    <2> QED
      BY <2>1, FetchesKept, OwnerHandsKept, ClaimsKept, StoreHandsKept DEF HandInv
  <1> QED
    BY <1>1, <1>2, PTL DEF Spec

\* What the clients see of a query.
Outcome == [j \in Job |-> IF work[j] \in Unfinished THEN "running" ELSE work[j]]

LEMMA HandOverSteps ==
  ASSUME HandInv, [Next]_vars
  PROVE  [HandOver!Next]_(HandOver!vars)
  <1>1. /\ SharedTyped /\ work \in [Job -> {"none", "lost"} \union Unfinished \union Finished]
        /\ handed \in [Job -> [Way -> Nat]] /\ loose' \in SUBSET Job /\ loose \subseteq loose'
        /\ \A t \in Thread : thread[t].at # "idle" => thread[t].job \in Job
    <2>1. SharedTyped /\ SharedTyped'
      BY TypedKept DEF HandInv, SharedInv
    <2> QED
      BY <2>1, Lasts DEF SharedTyped, TypeOK, Homes, ThreadsHomed
  <1>2. (Outcome' = Outcome /\ UNCHANGED <<handed, loose>>) => UNCHANGED HandOver!vars
    BY DEF HandOver!vars, Outcome
  <1>3. UNCHANGED work => Outcome' = Outcome
    BY DEF Outcome
  <1>4. ASSUME NEW j \in Job, NEW s, work' = [work EXCEPT ![j] = s]
        PROVE  Outcome' = [Outcome EXCEPT ![j] = IF s \in Unfinished THEN "running" ELSE s]
    BY <1>1, <1>4 DEF Outcome
  \* A claim ages, or a cleanup drops one.
  <1>5. (Outcome' = Outcome /\ UNCHANGED handed) => HandOver!Next
    <2> SUFFICES ASSUME Outcome' = Outcome, UNCHANGED handed PROVE HandOver!Next
      OBVIOUS
    <2>1. loose' = loose \union loose'
      BY <1>1
    <2>2. HandOver!Loosen(loose')
      BY <2>1 DEF HandOver!Loosen, Outcome
    <2> QED
      BY <1>1, <2>2 DEF HandOver!Next
  <1>6. CASE UNCHANGED vars
    BY <1>2, <1>3, <1>6 DEF vars, query, history
  <1>7. ASSUME NEW c \in Client, Request(c) PROVE HandOver!Next
    <2>1. PICK r \in Replica, j \in Job :
            \/ Submit(c, r, j) \/ Status(c, r, j) \/ Take(c, r, j)
            \/ TakeShared(c, r, j) \/ CancelLocal(c, r, j) \/ CancelShared(c, r, j)
      BY <1>7 DEF Request
    <2>2. UNCHANGED <<handed, loose>>
      BY <1>1, <1>7, RequestIs DEF history
    <2>3. CASE Submit(c, r, j)
      <3>1. \/ UNCHANGED work
            \/ work' = [work EXCEPT ![j] = "starting"] /\ work[j] = "none"
        BY <2>3 DEF Submit, SharedTyped, Homes, JobsHomed, HandInv, SharedInv
      <3>2. ASSUME work' = [work EXCEPT ![j] = "starting"], work[j] = "none" PROVE HandOver!Next
        <4>1. Outcome[j] = "none" /\ Outcome' = [Outcome EXCEPT ![j] = "running"]
          BY <1>4, <3>2 DEF Outcome, Unfinished
        <4>2. HandOver!Start(j)
          BY <2>2, <4>1 DEF HandOver!Start, Outcome
        <4> QED
          BY <4>2 DEF HandOver!Next
      <3> QED
        BY <1>3, <1>5, <2>2, <3>1, <3>2
    <2>4. CASE CancelLocal(c, r, j)
      <3>1. work' = [work EXCEPT ![j] = IF work[j] = "executing" THEN "interrupted" ELSE work[j]]
        BY <2>4 DEF CancelLocal, CancelQuery
      <3>2. Outcome' = Outcome
        BY <1>1, <3>1 DEF Outcome, Unfinished
      <3> QED
        BY <1>5, <2>2, <3>2
    <2>5. CASE Status(c, r, j) \/ Take(c, r, j) \/ TakeShared(c, r, j) \/ CancelShared(c, r, j)
      BY <1>3, <1>5, <2>2, <2>5 DEF Status, StatusLock, Take, TakeShared, CancelShared, query
    <2> QED
      BY <2>1, <2>3, <2>4, <2>5
  <1>8. ASSUME NEW c \in Client, ClientStep(c) PROVE HandOver!Next
    BY <1>3, <1>5, <1>8 DEF ClientStep, Tombstone, RaiseFlag, CancelRead, CancelWrite, query, history
  <1>9. ASSUME NEW t \in Thread, Step(t) PROVE HandOver!Next
    <2> DEFINE j == thread[t].job
    <2>1. CASE Unclaim(t)
      <3>1. thread[t].at = "unclaim" /\ UNCHANGED <<work, loose>> /\ j \in Job
        BY <1>1, <2>1 DEF Unclaim, query
      <3>2. ASSUME thread[t].got, NEW w \in Way, w = IF thread[t].mine THEN "owner" ELSE "store"
            PROVE  HandOver!Next
        <4>1. handed' = [handed EXCEPT ![j][w] = @ + 1]
          BY <2>1, <3>2 DEF Unclaim
        <4>2. handed[j][w] = 0 \/ (w = "store" /\ j \in loose)
          <5>1. Busy(t, j, Marking)
            BY <3>1 DEF Busy, Marking
          <5>2. CASE thread[t].mine
            BY <3>1, <3>2, <5>1, <5>2 DEF HandInv, OwnerHands, Gives
          <5>3. CASE ~thread[t].mine
            <6>1. Gives(t, j, FALSE)
              BY <1>1, <3>1, <3>2, <5>1, <5>3 DEF Gives, SharedTyped, TypeOK
            <6> QED
              BY <3>1, <3>2, <5>3, <6>1 DEF HandInv, StoreHands
          <5> QED
            BY <5>2, <5>3
        <4>3. work[j] = "done"
          BY <3>1 DEF HandInv, Fetches, Fetching, Claimant
        <4>4. Outcome[j] = "done" /\ Outcome' = Outcome
          BY <1>3, <3>1, <4>3 DEF Outcome, Unfinished
        <4>5. HandOver!HandOver(j, w)
          BY <3>1, <4>1, <4>2, <4>4 DEF HandOver!HandOver, Outcome
        <4> QED
          BY <3>1, <3>2, <4>5 DEF HandOver!Next
      <3>3. CASE ~thread[t].got
        BY <1>3, <1>5, <2>1, <3>1, <3>3 DEF Unclaim
      <3> QED
        BY <3>2, <3>3 DEF Way
    <2>2. CASE ~Unclaim(t)
      BY <1>3, <1>5, <1>9, <2>2 DEF Step, Sample, Publish, Spool, PublishParquet, PublishRecord, Claim, Steal, Arrow,
                                    Hand, ReadParquet, MarkRead, MarkWrite, Unlink, query, history
    <2> QED
      BY <2>1, <2>2
  <1>10. ASSUME NEW j \in Job, Still(j) PROVE HandOver!Next
    <2>1. CASE WatchFlag(j)
      <3>1. work' = [work EXCEPT ![j] = IF work[j] = "executing" THEN "interrupted" ELSE work[j]] /\ UNCHANGED handed
        BY <2>1 DEF WatchFlag, CancelQuery, history
      <3>2. Outcome' = Outcome
        BY <1>1, <3>1 DEF Outcome, Unfinished
      <3> QED
        BY <1>5, <3>1, <3>2
    <2>2. CASE Open(j)
      <3>1. work' = [work EXCEPT ![j] = "executing"] /\ work[j] = "starting" /\ UNCHANGED handed
        BY <2>2 DEF Open, history
      <3>2. Outcome' = Outcome
        BY <1>1, <3>1 DEF Outcome, Unfinished
      <3> QED
        BY <1>5, <3>1, <3>2
    <2>3. CASE ClaimAges(j)
      BY <1>3, <1>5, <2>3 DEF ClaimAges, query
    <2>4. ASSUME NEW s \in Finished, QueryEnds(j, s) PROVE HandOver!Next
      <3>1. work' = [work EXCEPT ![j] = s] /\ work[j] \in Unfinished /\ UNCHANGED <<handed, loose>>
        BY <2>4 DEF QueryEnds, Unfinished, history
      <3>2. s \notin Unfinished /\ s \in {"done", "error", "cancelled"}
        BY DEF Finished, Unfinished
      <3>3. Outcome[j] = "running" /\ Outcome' = [Outcome EXCEPT ![j] = s]
        BY <1>4, <3>1, <3>2 DEF Outcome
      <3>4. HandOver!End(j, s)
        BY <3>1, <3>3 DEF HandOver!End, Outcome
      <3> QED
        BY <3>2, <3>4 DEF HandOver!Next
    <2> QED
      BY <1>10, <2>1, <2>2, <2>3, <2>4 DEF Still
  <1>11. ASSUME NEW j \in Job, Wakes(j) \/ Forgets(j) PROVE HandOver!Next
    BY <1>3, <1>5, <1>11 DEF Wakes, Forgets, StatusLock, query, history
  <1>12. ASSUME NEW r \in Replica, Crash(r) PROVE HandOver!Next
    <2>1. PICK lost \in SUBSET Job : lost = {j \in Job : home[j] = r /\ work[j] \in Unfinished}
      OBVIOUS
    <2>2. /\ UNCHANGED <<handed, loose>>
          /\ work' = [j \in Job |-> IF home[j] = r /\ work[j] \in Unfinished THEN "lost" ELSE work[j]]
      BY <1>12 DEF Crash, history
    <2>3. \A j \in lost : Outcome[j] = "running"
      BY <2>1 DEF Outcome
    <2>4. Outcome' = [j \in Job |-> IF j \in lost THEN "lost" ELSE Outcome[j]]
      BY <2>1, <2>2 DEF Outcome, Unfinished
    <2>5. HandOver!Lose(lost)
      BY <2>2, <2>3, <2>4 DEF HandOver!Lose, Outcome
    <2> QED
      BY <2>5 DEF HandOver!Next
  <1>13. ASSUME NEW r \in Replica, OtherSubmit(r) PROVE HandOver!Next
    BY <1>3, <1>5, <1>13 DEF OtherSubmit, query, history
  <1>14. CASE OthersClean
    BY <1>3, <1>5, <1>14 DEF OthersClean, query
  <1> QED
    BY <1>1, <1>6, <1>7, <1>8, <1>9, <1>10, <1>11, <1>12, <1>13, <1>14, NextIs

\* What the deployment does with a job and its result is what JobHandOver promises, for any
\* mix of requests to the owner and to others, whatever is evicted, cleaned up, crashes or
\* ages: once from the owner and once from the store, and from the store again only after
\* a claim was taken for abandoned, or was dropped under the owner's own fetch.
THEOREM HandsOverOnce == Spec => HandOverKept
  <1>1. Init => HandOver!Init
    BY DEF Init, HandOver!Init, Unfinished
  <1>2. HandInv /\ [Next]_vars => [HandOver!Next]_(HandOver!vars)
    BY HandOverSteps
  <1> QED
    BY <1>1, <1>2, HandInvHolds, PTL DEF Spec, HandOverKept, HandOver!Spec

\* No two clients are given a result by its owner, nor, while its claims bind, by the
\* replicas that read it from the directory.
OncePerWay ==
  \A j \in Job : handed[j]["owner"] <= 1 /\ (j \notin loose => handed[j]["store"] <= 1)

THEOREM FetchedOnce == Spec => []OncePerWay
  <1>1. HandInv => OncePerWay
    <2> SUFFICES ASSUME HandInv, NEW j \in Job
                 PROVE  handed[j]["owner"] <= 1 /\ (j \notin loose => handed[j]["store"] <= 1)
      BY DEF OncePerWay
    <2>1. handed[j]["owner"] = 0 \/ handed[j]["owner"] = 1
      BY DEF HandInv, OwnerHands
    <2>2. j \notin loose => handed[j]["store"] = 0 \/ handed[j]["store"] = 1
      BY DEF HandInv, StoreHands
    <2> QED
      BY <2>1, <2>2
  <1> QED
    BY <1>1, HandInvHolds, PTL

-----------------------------------------------------------------------------
(* The table behind the record.                                            *)

Dates(rec) == rec.state # "running" \/ rec.wall > 0

\* Where a record of a job is kept, dropped or written without naming a table.
LEMMA TableKept ==
  ASSUME NEW j \in Job, TableBehind(j), ThroughStays,
         \/ json'[j] = json[j] \/ json'[j] = None
         \/ ~json'[j].file /\ (Dates(json'[j]) => Through(j)),
         j \in parquet /\ j \notin parquet' => /\ json'[j] = None \/ ~json'[j].file
                                               /\ \A u \in Thread : ~Busy(u, j, {"record"}),
         \A u \in Thread :
           /\ Busy(u, j, {"record"})' /\ thread'[u].saw.file =>
                (Busy(u, j, {"record"}) /\ thread[u].saw.file) \/ j \in parquet'
           /\ Busy(u, j, {"markwrite", "unlink"})' => Through(j)
           /\ Busy(u, j, {"unlink"})' => Busy(u, j, {"unlink"}) \/ json'[j] = None \/ ~json'[j].file
  PROVE  TableBehind(j)'
  <1>1. Through(j) => Through(j)'
    BY DEF ThroughStays
  <1>2. json'[j] # None /\ (json'[j].state # "running" \/ json'[j].wall > 0) => Through(j)'
    BY <1>1 DEF TableBehind, Dates
  <1>3. \A u \in Thread : Busy(u, j, {"record"})' /\ thread'[u].saw.file => j \in parquet'
    BY DEF TableBehind
  <1>4. \A u \in Thread : Busy(u, j, {"unlink"})' => json'[j] = None \/ ~json'[j].file
    BY DEF TableBehind
  <1>5. json'[j] # None /\ json'[j].file => j \in parquet'
    BY DEF TableBehind
  <1>6. \A u \in Thread : Busy(u, j, {"markwrite", "unlink"})' => Through(j)'
    BY <1>1
  <1> QED
    BY <1>2, <1>3, <1>4, <1>5, <1>6 DEF TableBehind

\* Where nothing happens to a job's record and table, and no thread comes to write one.
LEMMA TableStill ==
  ASSUME NEW j \in Job, TableBehind(j), ThroughStays, json'[j] = json[j], j \in parquet => j \in parquet',
         \A u \in Thread : thread'[u].at \in {"record", "markwrite", "unlink"} => thread'[u] = thread[u]
  PROVE  TableBehind(j)'
  <1>1. \A u \in Thread :
           /\ Busy(u, j, {"record"})' /\ thread'[u].saw.file => Busy(u, j, {"record"}) /\ thread[u].saw.file
           /\ Busy(u, j, {"markwrite", "unlink"})' => Busy(u, j, {"markwrite", "unlink"})
           /\ Busy(u, j, {"unlink"})' => Busy(u, j, {"unlink"})
    BY DEF Busy
  <1>2. \A u \in Thread : Busy(u, j, {"markwrite", "unlink"})' => Through(j)
    BY <1>1 DEF TableBehind
  <1> QED
    BY <1>1, <1>2, TableKept

\* A cleanup takes record and table together, and never from a publish under way.
LEMMA TableDropped ==
  ASSUME NEW gone \in SUBSET Job, Swept(gone), Drop(gone), NEW j \in Job, TableBehind(j), ThroughStays,
         \/ json'[j] = Kept(gone)[j]
         \/ ~json'[j].file /\ ~Dates(json'[j]),
         \A u \in Thread :
           \/ thread'[u].at \notin {"record", "markwrite", "unlink"} \/ thread'[u] = thread[u]
           \/ thread'[u].at = "record" /\ ~thread'[u].saw.file
  PROVE  TableBehind(j)'
  <1>1. parquet' = parquet \ gone /\ Kept(gone)[j] = IF j \in gone THEN None ELSE json[j]
    BY DEF Drop, Kept
  <1>2. j \in gone => \A u \in Thread : ~Busy(u, j, {"record"})
    <2>1. \A u \in Thread : Busy(u, j, {"record"}) => Busy(u, j, Publishing) /\ Busy(u, j, Reporting)
      BY DEF Busy, Publishing, Reporting
    <2>2. j \in gone => Through(j) \/ \A u \in Thread : ~Busy(u, j, Reporting)
      BY DEF Swept, TableBehind
    <2> QED
      BY <2>1, <2>2 DEF Through
  <1>3. \A u \in Thread :
           /\ Busy(u, j, {"record"})' /\ thread'[u].saw.file => Busy(u, j, {"record"}) /\ thread[u].saw.file
           /\ Busy(u, j, {"markwrite", "unlink"})' => Busy(u, j, {"markwrite", "unlink"})
           /\ Busy(u, j, {"unlink"})' => Busy(u, j, {"unlink"})
    BY DEF Busy
  <1>4. \A u \in Thread : Busy(u, j, {"markwrite", "unlink"})' => Through(j)
    BY <1>3 DEF TableBehind
  <1>5. j \in parquet /\ j \notin parquet' => j \in gone
    BY <1>1
  <1>6. j \in gone => json'[j] = None \/ ~json'[j].file
    BY <1>1
  <1>7. json'[j] = json[j] \/ json'[j] = None \/ (~json'[j].file /\ (Dates(json'[j]) => Through(j)))
    BY <1>1
  <1> QED
    BY <1>2, <1>3, <1>4, <1>5, <1>6, <1>7, TableKept

LEMMA StepKeepsTable ==
  ASSUME SharedInv, ThroughStays, NEW t \in Thread, Step(t), NEW j \in Job \ touched', TableBehind(j)
  PROVE  TableBehind(j)'
  <1>1. /\ SharedTyped /\ DOMAIN json = Job /\ json \in [Job -> Record \union {None}]
        /\ \A u \in Thread : thread[u].at # "idle" => thread[u].job \in Job
    BY DEF SharedInv, SharedTyped, TypeOK, Homes, ThreadsHomed
  <1>2. CASE Sample(t) \/ Publish(t) \/ Claim(t) \/ Steal(t) \/ Arrow(t) \/ Hand(t) \/ ReadParquet(t) \/ Unclaim(t)
    <2>1. UNCHANGED <<json, parquet>>
      BY <1>2 DEF Sample, Publish, Claim, Steal, Arrow, Hand, ReadParquet, Unclaim, store
    <2>2. /\ thread'[t].at \notin {"record", "markwrite", "unlink"}
          /\ \A u \in Thread \ {t} : thread'[u] = thread[u]
      BY <1>1, <1>2, StepIs DEF Goes, Done, Moved, Claimed
    <2> QED
      BY <2>1, <2>2, TableStill
  <1>3. CASE Spool(t)
    <2>1. PICK gone \in SUBSET Job : Sweeps(gone) /\ Drop(gone) /\ json' = Kept(gone)
      BY <1>3 DEF Spool
    <2>2. /\ thread'[t].at = "parquet" \/ (thread'[t].at = "record" /\ ~thread'[t].saw.file)
          /\ \A u \in Thread \ {t} : thread'[u] = thread[u]
      BY <1>1, <1>3, StepIs DEF Goes, Moved
    <2>3. \A u \in Thread :
           \/ thread'[u].at \notin {"record", "markwrite", "unlink"} \/ thread'[u] = thread[u]
           \/ thread'[u].at = "record" /\ ~thread'[u].saw.file
      BY <2>2
    <2> QED
      BY <2>1, <2>3, SweptWere, TableDropped
  <1>4. CASE PublishParquet(t)
    <2>1. parquet' = parquet \union {thread[t].job} /\ UNCHANGED json
      BY <1>4 DEF PublishParquet
    <2>2. /\ thread'[t].at = "record" /\ thread'[t].job = thread[t].job
          /\ \A u \in Thread \ {t} : thread'[u] = thread[u]
      BY <1>1, <1>4, StepIs DEF Goes, Moved
    <2>3. \A u \in Thread :
           /\ Busy(u, j, {"record"})' /\ thread'[u].saw.file =>
                (Busy(u, j, {"record"}) /\ thread[u].saw.file) \/ j \in parquet'
           /\ Busy(u, j, {"markwrite", "unlink"})' => Through(j)
           /\ Busy(u, j, {"unlink"})' => Busy(u, j, {"unlink"})
      BY <2>1, <2>2 DEF Busy, TableBehind
    <2> QED
      BY <2>1, <2>3, TableKept
  <1>5. CASE PublishRecord(t)
    <2>1. thread[t].at = "record" /\ thread[t].job \in Job /\ UNCHANGED parquet
          /\ json' = [json EXCEPT ![thread[t].job] = thread[t].saw]
      BY <1>1, <1>5 DEF PublishRecord
    <2>2. thread'[t].at = "idle" /\ \A u \in Thread \ {t} : thread'[u] = thread[u]
      BY <1>1, <1>5, StepIs DEF Done, Moved
    <2>3. CASE thread[t].job # j
      <3>1. json'[j] = json[j]
        BY <1>1, <2>1, <2>3
      <3> QED
        BY <2>1, <2>2, <3>1, TableStill
    <2>4. CASE thread[t].job = j
      <3>1. json'[j] = thread[t].saw /\ Busy(t, j, {"record"}) /\ Busy(t, j, Publishing)
        BY <1>1, <2>1, <2>4 DEF Busy, Publishing
      <3>2. json'[j].file => j \in parquet'
        BY <2>1, <3>1 DEF TableBehind
      <3>3. \A u \in Thread : Busy(u, j, Publishing) => u = t
        BY <3>1 DEF SharedInv, PublishOnce
      <3>4. Through(j)'
        BY <2>1, <2>2, <2>4, <3>1, <3>3, <1>5 DEF Through, Busy, SharedInv, PublishOnce, Publishing, PublishRecord, registry
      <3>5. ~Through(j)
        BY <3>1 DEF Through
      <3>6. \A u \in Thread : ~Busy(u, j, {"markwrite", "unlink"})
        BY <3>5 DEF TableBehind
      <3>7. \A u \in Thread : ~Busy(u, j, {"markwrite", "unlink"})' /\ ~Busy(u, j, {"unlink"})'
        BY <2>2, <3>6 DEF Busy
      <3>8. \A u \in Thread : ~Busy(u, j, {"record"})'
        BY <2>2, <3>3 DEF Busy, Publishing
      <3> QED
        BY <3>2, <3>4, <3>7, <3>8 DEF TableBehind
    <2> QED
      BY <2>3, <2>4
  <1>6. CASE MarkRead(t)
    <2>1. UNCHANGED <<json, parquet>> /\ Touches(thread[t].job)
      BY <1>6 DEF MarkRead, store
    <2>2. \/ thread'[t].at = "unlink" /\ json[thread[t].job] = None
          \/ thread'[t].at = "markwrite"
      BY <1>1, <1>6, StepIs DEF Goes, Moved
    <2>3. thread'[t].job = thread[t].job /\ \A u \in Thread \ {t} : thread'[u] = thread[u]
      BY <1>1, <1>6, StepIs DEF Goes, Moved
    <2>4. thread[t].job = j => Through(j)
      BY <2>1 DEF Touches
    <2>5. \A u \in Thread :
           /\ Busy(u, j, {"record"})' /\ thread'[u].saw.file => Busy(u, j, {"record"}) /\ thread[u].saw.file
           /\ Busy(u, j, {"markwrite", "unlink"})' => Through(j)
           /\ Busy(u, j, {"unlink"})' => Busy(u, j, {"unlink"}) \/ json'[j] = None
      BY <2>1, <2>2, <2>3, <2>4 DEF Busy, TableBehind
    <2> QED
      BY <2>1, <2>5, TableKept
  <1>7. CASE MarkWrite(t)
    <2>1. thread[t].at = "markwrite" /\ thread[t].job \in Job /\ UNCHANGED parquet
          /\ json' = [json EXCEPT ![thread[t].job] = [thread[t].saw EXCEPT !.fetched = TRUE, !.file = FALSE]]
      BY <1>1, <1>7 DEF MarkWrite
    <2>2. /\ thread'[t].at = "unlink" /\ thread'[t].job = thread[t].job /\ thread[t].saw \in Record
          /\ \A u \in Thread \ {t} : thread'[u] = thread[u]
      BY <1>1, <1>7, StepIs DEF Goes, Moved
    <2>3. [thread[t].saw EXCEPT !.fetched = TRUE, !.file = FALSE].file = FALSE
      BY <2>2 DEF Record
    <2>4. CASE thread[t].job # j
      <3>1. json'[j] = json[j]
        BY <1>1, <2>1, <2>4
      <3>2. \A u \in Thread :
           /\ Busy(u, j, {"record"})' /\ thread'[u].saw.file => Busy(u, j, {"record"}) /\ thread[u].saw.file
           /\ Busy(u, j, {"markwrite", "unlink"})' => Through(j)
           /\ Busy(u, j, {"unlink"})' => Busy(u, j, {"unlink"})
        BY <2>2, <2>4 DEF Busy, TableBehind
      <3> QED
        BY <2>1, <3>1, <3>2, TableKept
    <2>5. CASE thread[t].job = j
      <3>1. json'[j].file = FALSE /\ Through(j)
        BY <1>1, <2>1, <2>3, <2>5 DEF TableBehind, Busy
      <3>2. \A u \in Thread :
           /\ Busy(u, j, {"record"})' /\ thread'[u].saw.file => Busy(u, j, {"record"}) /\ thread[u].saw.file
           /\ Busy(u, j, {"unlink"})' => ~json'[j].file
        BY <2>2, <3>1 DEF Busy
      <3> QED
        BY <2>1, <3>1, <3>2, TableKept
    <2> QED
      BY <2>4, <2>5
  <1>8. CASE Unlink(t)
    <2>1. thread[t].at = "unlink" /\ parquet' = parquet \ {thread[t].job} /\ UNCHANGED json
      BY <1>8 DEF Unlink
    <2>2. thread'[t].at = "unclaim" /\ \A u \in Thread \ {t} : thread'[u] = thread[u]
      BY <1>1, <1>8, StepIs DEF Goes, Moved
    <2>3. \A u \in Thread :
           /\ Busy(u, j, {"record"})' /\ thread'[u].saw.file => Busy(u, j, {"record"}) /\ thread[u].saw.file
           /\ Busy(u, j, {"markwrite", "unlink"})' => Through(j)
           /\ Busy(u, j, {"unlink"})' => Busy(u, j, {"unlink"})
      BY <2>2 DEF Busy, TableBehind
    <2>4. thread[t].job = j => /\ json'[j] = None \/ ~json'[j].file
                               /\ \A u \in Thread : ~Busy(u, j, {"record"})
      <3> SUFFICES ASSUME thread[t].job = j
                   PROVE  /\ json'[j] = None \/ ~json'[j].file
                          /\ \A u \in Thread : ~Busy(u, j, {"record"})
        OBVIOUS
      <3>1. Busy(t, j, {"unlink"}) /\ Busy(t, j, {"markwrite", "unlink"})
        BY <2>1 DEF Busy
      <3>2. Through(j) /\ (json[j] = None \/ ~json[j].file)
        BY <3>1 DEF TableBehind
      <3>3. \A u \in Thread : ~Busy(u, j, {"record"})
        BY <3>2 DEF Through, Busy, Publishing
      <3> QED
        BY <2>1, <3>2, <3>3
    <2> QED
      BY <2>1, <2>3, <2>4, TableKept
  <1> QED
    BY <1>2, <1>3, <1>4, <1>5, <1>6, <1>7, <1>8 DEF Step

LEMMA TablesKept ==
  ASSUME SharedInv, ThroughStays, Tables, [Next]_vars
  PROVE  Tables'
  <1> SUFFICES ASSUME NEW j \in Job \ touched' PROVE TableBehind(j)'
    BY DEF Tables
  <1>1. SharedTyped /\ DOMAIN json = Job
    BY DEF SharedInv, SharedTyped, TypeOK
  <1>2. TableBehind(j)
    BY <1>1, Lasts DEF Tables
  <1>3. ASSUME UNCHANGED <<json, parquet>>,
               \A u \in Thread : thread'[u].at \in {"record", "markwrite", "unlink"} => thread'[u] = thread[u]
        PROVE  TableBehind(j)'
    BY <1>2, <1>3, TableStill
  <1>4. CASE UNCHANGED vars
    BY <1>3, <1>4 DEF vars, store
  <1>5. ASSUME NEW c \in Client, Request(c) PROVE TableBehind(j)'
    BY <1>1, <1>3, <1>5, RequestIs DEF Begins, Moved
  <1>6. ASSUME NEW c \in Client, ClientStep(c) PROVE TableBehind(j)'
    <2>1. \A u \in Thread : thread'[u].at \in {"record", "markwrite", "unlink"} => thread'[u] = thread[u]
      BY <1>1, <1>6, ClientStepMoves DEF Fetching, Claimant, Publishing
    <2>2. CASE Tombstone(c)
      <3>1. PICK gone \in SUBSET Job :
              /\ Sweeps(gone) /\ Drop(gone)
              /\ json' = [Kept(gone) EXCEPT ![thread[c].job] = [state |-> "running", fetched |-> FALSE,
                                                                file |-> FALSE, wall |-> 0]]
        BY <2>2 DEF Tombstone
      <3>2. json'[j] = Kept(gone)[j] \/ (~json'[j].file /\ ~Dates(json'[j]))
        BY <3>1 DEF Kept, Dates
      <3> QED
        BY <1>2, <2>1, <3>1, <3>2, SweptWere, TableDropped
    <2>3. CASE RaiseFlag(c) \/ CancelRead(c)
      BY <1>3, <2>1, <2>3 DEF RaiseFlag, CancelRead, store
    <2>4. CASE CancelWrite(c)
      <3> DEFINE rec == [thread[c].saw EXCEPT !.state = "cancelled", !.file = FALSE, !.wall = Now]
      <3>1. json' = [json EXCEPT ![thread[c].job] = rec] /\ UNCHANGED parquet /\ Touches(thread[c].job)
        BY <2>4 DEF CancelWrite
      <3>2. rec.file = FALSE
        BY <1>1, <2>4, CancelIs DEF Record
      <3>3. json'[j] = json[j] \/ (~json'[j].file /\ Through(j))
        BY <1>1, <3>1, <3>2 DEF Touches
      <3>4. \A u \in Thread :
             /\ Busy(u, j, {"record"})' /\ thread'[u].saw.file => Busy(u, j, {"record"}) /\ thread[u].saw.file
             /\ Busy(u, j, {"markwrite", "unlink"})' => Through(j)
             /\ Busy(u, j, {"unlink"})' => Busy(u, j, {"unlink"})
        BY <1>2, <2>1 DEF Busy, TableBehind
      <3> QED
        BY <1>2, <3>1, <3>3, <3>4, TableKept
    <2> QED
      BY <1>6, <2>2, <2>3, <2>4 DEF ClientStep
  <1>7. ASSUME NEW t \in Thread, Step(t) PROVE TableBehind(j)'
    BY <1>2, <1>7, StepKeepsTable
  <1>8. ASSUME NEW k \in Job, Still(k) PROVE TableBehind(j)'
    BY <1>1, <1>3, <1>8, StillIs
  <1>9. ASSUME NEW k \in Job, Wakes(k) \/ Forgets(k) PROVE TableBehind(j)'
    <2>1. UNCHANGED <<json, parquet>>
      BY <1>9 DEF Wakes, Forgets, StatusLock, store
    <2>2. \A u \in Thread : thread'[u].at \in {"record", "markwrite", "unlink"} => thread'[u] = thread[u]
      BY <1>1, <1>9, WatchMoves DEF Fetching, Claimant, Publishing
    <2> QED
      BY <1>3, <2>1, <2>2
  <1>10. ASSUME NEW r \in Replica, Crash(r) \/ OtherSubmit(r) PROVE TableBehind(j)'
    BY <1>3, <1>10 DEF Crash, OtherSubmit, Idle, store
  <1>11. CASE OthersClean
    <2>1. PICK gone \in SUBSET Job : Swept(gone) /\ Drop(gone) /\ json' = Kept(gone)
      BY <1>11 DEF OthersClean, Cleaned
    <2> QED
      BY <1>2, <1>11, <2>1, TableDropped DEF OthersClean
  <1> QED
    BY <1>1, <1>4, <1>5, <1>6, <1>7, <1>8, <1>9, <1>10, <1>11, NextIs

LEMMA TableInvHolds == Spec => []TableInv
  <1>1. Init => TableInv
    BY SharedStarts DEF Init, TableInv, Tables, TableBehind, Busy, Idle
  <1>2. TableInv /\ [Next]_vars => TableInv'
    BY SharedKept, TablesKept DEF TableInv
  <1> QED
    BY <1>1, <1>2, PTL DEF Spec

\* Whatever fetches, cancels, cleanups and crashes do on whatever replicas, a record that
\* names a table has it, but for the jobs a cancel dated, or a fetch on the owner marked,
\* before their publish was through.
THEOREM TableBehindRecord == Spec => []FileBehindRecord
  <1>1. TableInv => FileBehindRecord
    BY DEF TableInv, Tables, TableBehind, FileBehindRecord
  <1> QED
    BY <1>1, TableInvHolds, PTL
=============================================================================
