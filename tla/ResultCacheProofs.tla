------------------------- MODULE ResultCacheProofs -------------------------
(***************************************************************************)
(* Proofs about ResultCache, for any replicas and clients, any number of   *)
(* changes of the table, any mix of queries and any depth of the queue.    *)
(***************************************************************************)
EXTENDS ResultCache, TLAPS

\* A request that has rows in hand has them from a generation there was.
HasRows == {"warm", "tag", "canon", "store", "unhandle", "unl1", "flush", "unl2"}
RowsReal ==
  \A c \in Client : thread[c].at \in HasRows => thread[c].rows \in 0..table.gen

\* So does whatever is on the shared volume, from where rows are warmed.
L2Real == \A k \in Key : l2[k] # None => l2[k] \in 0..table.gen
QueueReal == queue \in [Replica -> Seq([key : Key, rows : 0..table.gen])]

TypeInv == TypeOK /\ RowsReal /\ L2Real /\ QueueReal

-----------------------------------------------------------------------------
LEMMA TypeInit == Init => TypeInv
  <1> SUFFICES ASSUME Init PROVE TypeInv
    OBVIOUS
  <1> USE DEF Init, Idle, Gen, Key
  <1>1. TypeOK
    BY BoundsTyped DEF TypeOK, Steps
  <1>2. RowsReal /\ L2Real
    BY BoundsTyped DEF RowsReal, HasRows, L2Real
  <1>3. QueueReal
    <2>1. <<>> \in Seq([key : Key, rows : 0..table.gen])
      OBVIOUS
    <2> QED
      BY <2>1 DEF QueueReal
  <1> QED
    BY <1>1, <1>2, <1>3 DEF TypeInv

\* The keys there are, and the rows there have been.
LEMMA KeyFacts ==
  ASSUME TypeOK
  PROVE  /\ \A kind \in {"scan", "exact", "canon"} : <<kind, table.ver>> \in Key
         /\ \A c \in Client : Own(c) \in Key
         /\ \A c \in Client : thread[c].key \in Key
  BY DEF TypeOK, Key, Own

LEMMA RowFacts ==
  ASSUME TypeOK
  PROVE  /\ table.gen \in 0..table.gen /\ 0..table.gen \in SUBSET Gen
         /\ table.gen \in Nat /\ table.ver \in Gen /\ acked \in Gen /\ 0 \in Gen
         /\ None \notin 0..table.gen /\ None \notin Gen
  BY BoundsTyped, NoneIsNoGeneration DEF TypeOK, Gen

LEMMA HomeFacts == \A c \in Client : Home[c] \in Replica
  BY HomeTyped

\* Putting rows there have been into memory keeps the SQL's keys cached.
LEMMA PutKeeps ==
  ASSUME TypeOK, NEW r \in Replica, NEW k \in Key, NEW rows \in 0..table.gen,
         Put(r, k, rows)
  PROVE  /\ l1' \in [Replica -> [Key -> Gen \union {None}]]
         /\ l1'[r][k] # None
         /\ \A s \in Replica : \A j \in mapped[s] : l1'[s][j] # None
  BY RowFacts DEF TypeOK, Put

LEMMA AppendAt ==
  ASSUME NEW R, NEW S, NEW f \in [R -> Seq(S)], NEW r \in R, NEW e \in S
  PROVE  [f EXCEPT ![r] = Append(@, e)] \in [R -> Seq(S)]
  <1>1. Append(f[r], e) \in Seq(S)
    OBVIOUS
  <1> QED
    BY <1>1

LEMMA TailAt ==
  ASSUME NEW R, NEW S, NEW f \in [R -> Seq(S)], NEW r \in R, f[r] # <<>>
  PROVE  [f EXCEPT ![r] = Tail(@)] \in [R -> Seq(S)] /\ Head(f[r]) \in S
  <1>1. Tail(f[r]) \in Seq(S) /\ Head(f[r]) \in S
    OBVIOUS
  <1> QED
    BY <1>1

\* Publishing them keeps the shared volume and the queue real.
LEMMA PublishKeeps ==
  ASSUME TypeInv, NEW r \in Replica, NEW k \in Key, NEW rows \in 0..table.gen,
         Publish(r, k, rows), table' = table
  PROVE  /\ l2' \in [Key -> Gen \union {None}] /\ L2Real'
         /\ queue' \in [Replica -> Seq([key : Key, rows : Gen])] /\ QueueReal'
  <1> USE DEF TypeInv
  <1>1. CASE L2On /\ Len(queue[r]) < QueueDepth
    <2> DEFINE e == [key |-> k, rows |-> rows]
    <2>1. e \in [key : Key, rows : Gen] /\ e \in [key : Key, rows : 0..table.gen]
      BY RowFacts
    <2>2. queue' = [queue EXCEPT ![r] = Append(@, e)] /\ l2' = l2
      BY <1>1 DEF Publish
    <2> HIDE DEF e
    <2>3. ASSUME NEW S, queue \in [Replica -> Seq(S)], e \in S
          PROVE  queue' \in [Replica -> Seq(S)]
      BY <2>2, <2>3, AppendAt
    <2>4. queue' \in [Replica -> Seq([key : Key, rows : Gen])]
      <3>1. queue \in [Replica -> Seq([key : Key, rows : Gen])]
        BY DEF TypeOK
      <3> QED
        BY <2>1, <2>3, <3>1
    <2>5. QueueReal'
      <3>1. queue' \in [Replica -> Seq([key : Key, rows : 0..table.gen])]
        BY <2>1, <2>3 DEF QueueReal
      <3> QED
        BY <3>1 DEF QueueReal
    <2> QED
      BY <2>2, <2>4, <2>5 DEF TypeOK, L2Real
  <1>2. CASE ~(L2On /\ Len(queue[r]) < QueueDepth)
    <2>1. l2' = [l2 EXCEPT ![k] = IF L2On THEN rows ELSE @] /\ queue' = queue
      BY <1>2 DEF Publish
    <2> QED
      BY <2>1, RowFacts DEF TypeOK, L2Real, QueueReal
  <1> QED
    BY <1>1, <1>2

-----------------------------------------------------------------------------
(* The invariant, by what it is about.                                     *)

Request == [at : {"idle", "hit"} \union Steps, query : Query \union {None},
            token : Gen, key : Key, rows : Gen \union {None}, floor : Gen]

TablePart == /\ table \in [gen : Gen, ver : Gen, base : Gen] /\ table.ver <= table.gen
             /\ acked \in 0..table.gen
HandlePart ==
  /\ handle \in [Replica -> {None} \union [gen : Gen, ver : Gen, recent : BOOLEAN]]
  /\ \A r \in Replica : handle[r] # None => handle[r].gen <= table.gen
MemoryPart ==
  /\ l1 \in [Replica -> [Key -> Gen \union {None}]] /\ mapped \in [Replica -> SUBSET Key]
  /\ \A r \in Replica : \A k \in mapped[r] : l1[r][k] # None
SharedPart == l2 \in [Key -> Gen \union {None}] /\ L2Real
QueuePart == queue \in [Replica -> Seq([key : Key, rows : Gen])] /\ QueueReal
ThreadPart == thread \in [Client -> Request] /\ RowsReal

LEMMA Parts ==
  /\ TypeInv <=> /\ TablePart /\ HandlePart /\ MemoryPart
                 /\ SharedPart /\ QueuePart /\ ThreadPart
  /\ TypeInv' <=> /\ TablePart' /\ HandlePart' /\ MemoryPart'
                  /\ SharedPart' /\ QueuePart' /\ ThreadPart'
  BY DEF TypeInv, TypeOK, Request, TablePart, HandlePart, MemoryPart, SharedPart,
         QueuePart, ThreadPart

\* While the table stays, what is left alone keeps its part.
LEMMA Kept ==
  ASSUME TypeInv, table' = table
  PROVE  /\ acked' = acked => TablePart'
         /\ handle' = handle => HandlePart'
         /\ l1' = l1 /\ mapped' = mapped => MemoryPart'
         /\ l2' = l2 => SharedPart'
         /\ queue' = queue => QueuePart'
         /\ thread' = thread => ThreadPart'
  BY Parts DEF TablePart, HandlePart, MemoryPart, SharedPart, QueuePart, ThreadPart,
       L2Real, QueueReal, RowsReal

\* And when the table changes, all the rows there have been still have been.
LEMMA Grown ==
  ASSUME TypeInv, table' \in [gen : Gen, ver : Gen, base : Gen],
         table'.gen = table.gen + 1, UNCHANGED caches
  PROVE  HandlePart' /\ MemoryPart' /\ SharedPart' /\ QueuePart'
  <1>1. 0..table.gen \subseteq 0..table'.gen
    BY RowFacts, BoundsTyped DEF TypeInv, TypeOK, Gen
  <1>2. HandlePart' /\ MemoryPart' /\ SharedPart'
    BY <1>1, Parts, RowFacts DEF TypeInv, caches, HandlePart, MemoryPart, SharedPart, L2Real, Gen
  <1>3. QueuePart'
    <2>1. ASSUME NEW S, NEW T, S \subseteq T, NEW q \in [Replica -> Seq(S)]
          PROVE  q \in [Replica -> Seq(T)]
      <3>1. \A x \in Seq(S) : x \in Seq(T)
        BY <2>1
      <3> QED
        BY <3>1
    <2>2. [key : Key, rows : 0..table.gen] \subseteq [key : Key, rows : 0..table'.gen]
      BY <1>1
    <2>3. queue' \in [Replica -> Seq([key : Key, rows : 0..table'.gen])]
      <3>1. queue \in [Replica -> Seq([key : Key, rows : 0..table.gen])] /\ queue' = queue
        BY DEF TypeInv, QueueReal, caches
      <3>2. queue \in [Replica -> Seq([key : Key, rows : 0..table'.gen])]
        BY ONLY ZenonT(40), <2>1, <2>2, <3>1
      <3> QED
        BY <3>1, <3>2
    <2> QED
      BY <2>3, Parts DEF QueuePart, QueueReal, caches
  <1> QED
    BY <1>2, <1>3

\* A replica's handle goes, or becomes one with rows there have been.
OpenHandle == [gen : Gen, ver : Gen, recent : BOOLEAN]
LEMMA Handled ==
  ASSUME TypeInv, table' = table, NEW r \in Replica, NEW h \in {None} \union OpenHandle,
         h # None => h.gen <= table.gen, handle' = [handle EXCEPT ![r] = h]
  PROVE  HandlePart'
  <1>1. handle \in [Replica -> {None} \union OpenHandle]
    BY Parts DEF HandlePart, OpenHandle
  <1>2. handle' \in [Replica -> {None} \union OpenHandle]
    BY <1>1
  <1>3. ASSUME NEW s \in Replica, handle'[s] # None
        PROVE  handle'[s].gen <= table'.gen
    BY <1>1, <1>3, Parts DEF HandlePart
  <1> QED
    BY <1>2, <1>3 DEF HandlePart, OpenHandle

\* A request that moves on, to a state with rows there have been or with none.
LEMMA Moved ==
  ASSUME TypeInv, NEW c \in Client, NEW t \in Request,
         thread' = [thread EXCEPT ![c] = t],
         t.at \in HasRows => t.rows \in 0..table'.gen,
         table'.gen \in Nat, table.gen <= table'.gen
  PROVE  ThreadPart'
  <1>1. thread' \in [Client -> Request]
    BY Parts DEF ThreadPart
  <1>2. ASSUME NEW d \in Client, thread'[d].at \in HasRows
        PROVE  thread'[d].rows \in 0..table'.gen
    <2>1. CASE d = c
      BY <1>2, <2>1, Parts DEF ThreadPart
    <2>2. CASE d # c
      BY <1>2, <2>2, Parts, RowFacts DEF ThreadPart, RowsReal, TypeInv, HasRows
    <2> QED
      BY <2>1, <2>2
  <1> QED
    BY <1>1, <1>2 DEF ThreadPart, RowsReal, HasRows

\* Where a request can go from a step of its own.
LEMMA Moves ==
  ASSUME TypeInv, table' = table, NEW c \in Client
  PROVE  /\ \A at \in Steps : Go(c, at) /\ (at \in HasRows => thread[c].rows \in 0..table.gen)
                              => ThreadPart'
         /\ \A at \in Steps : \A rows \in 0..table.gen : Found(c, at, rows) => ThreadPart'
         /\ \A rows \in Gen : Hit(c, rows) => ThreadPart'
         /\ Done(c) => ThreadPart'
         /\ Miss(c) => ThreadPart'
  <1> DEFINE old == thread[c]
  <1>1. old \in Request /\ thread \in [Client -> Request] /\ Idle \in Request
    BY Parts, RowFacts DEF ThreadPart, TypeInv, Request, Idle, Steps, Key
  <1>2. table'.gen \in Nat /\ table.gen <= table'.gen /\ table'.gen = table.gen
    BY RowFacts DEF TypeInv
  <1>3. ASSUME NEW at \in Steps, Go(c, at), at \in HasRows => old.rows \in 0..table.gen
        PROVE  ThreadPart'
    <2> DEFINE t == [old EXCEPT !.at = at]
    <2>1. t \in Request /\ t.at = at /\ t.rows = old.rows
      BY <1>1 DEF Request
    <2>2. thread' = [thread EXCEPT ![c] = t]
      BY <1>3 DEF Go
    <2> QED
      BY <1>2, <1>3, <2>1, <2>2, Moved
  <1>4. ASSUME NEW at \in Steps, NEW rows \in 0..table.gen, Found(c, at, rows)
        PROVE  ThreadPart'
    <2> DEFINE t == [old EXCEPT !.at = at, !.rows = rows]
    <2>1. t \in Request /\ t.rows = rows
      BY <1>1, RowFacts DEF Request, TypeInv
    <2>2. thread' = [thread EXCEPT ![c] = t]
      BY <1>1, <1>4 DEF Found
    <2> QED
      BY <1>2, <2>1, <2>2, Moved
  <1>5. ASSUME NEW rows \in Gen, Hit(c, rows)
        PROVE  ThreadPart'
    <2> DEFINE t == [Idle EXCEPT !.at = "hit", !.rows = rows, !.floor = old.floor]
    <2>1. t \in Request /\ t.at \notin HasRows
      BY <1>1 DEF Request, HasRows
    <2>2. thread' = [thread EXCEPT ![c] = t]
      BY <1>5 DEF Hit
    <2> QED
      BY <1>2, <2>1, <2>2, Moved
  <1>6. ASSUME Done(c)
        PROVE  ThreadPart'
    BY <1>1, <1>2, <1>6, Moved DEF Done, Idle, HasRows
  <1>7. ASSUME Miss(c)
        PROVE  ThreadPart'
    <2>1. CASE thread[c].key[1] = "exact"
      <3> DEFINE t == [old EXCEPT !.at = "l1", !.key = <<"canon", table.ver>>]
      <3>1. t \in Request /\ t.at \notin HasRows
        BY <1>1, KeyFacts DEF Request, HasRows, Steps, TypeInv
      <3>2. thread' = [thread EXCEPT ![c] = t]
        BY <1>1, <1>7, <2>1 DEF Miss
      <3> QED
        BY <1>2, <3>1, <3>2, Moved
    <2>2. CASE thread[c].key[1] # "exact"
      <3>1. Go(c, "open")
        BY <1>7, <2>2 DEF Miss, Go
      <3> QED
        BY <1>3, <3>1 DEF Steps, HasRows
    <2> QED
      BY <2>1, <2>2
  <1> QED
    BY <1>3, <1>4, <1>5, <1>6, <1>7

-----------------------------------------------------------------------------
(* One lemma for the steps of a reader, one for those of a writer, and one *)
(* for what happens without either.                                        *)

LEMMA ReadKeeps ==
  ASSUME TypeInv, NEW c \in Client, ReadStep(c)
  PROVE  TypeInv'
  <1> USE DEF Steps, HasRows
  <1>1. ThreadPart /\ MemoryPart /\ SharedPart /\ TypeOK /\ Home[c] \in Replica
    BY Parts, HomeFacts DEF TypeInv
  <1>2. CASE LookL1(c)
    <2>1. l1[Home[c]][thread[c].key] \in Gen \union {None} /\ table' = table
      BY <1>1, <1>2, KeyFacts DEF MemoryPart, LookL1
    <2>2. ThreadPart'
      BY <1>2, <2>1, Moves DEF LookL1
    <2> QED
      BY <1>2, <2>1, <2>2, Kept, Parts DEF LookL1, caches
  <1>3. CASE LookL2(c)
    <2> DEFINE rows == l2[thread[c].key]
    <2>1. (rows = None \/ rows \in 0..table.gen) /\ table' = table
      BY <1>1, <1>3, KeyFacts DEF SharedPart, L2Real, LookL2
    <2>2. Miss(c) \/ (rows \in 0..table.gen /\ Found(c, "warm", rows))
      BY <1>3, <2>1 DEF LookL2
    <2> HIDE DEF rows
    <2>3. ThreadPart'
      BY <2>1, <2>2, Moves
    <2> QED
      BY <1>3, <2>1, <2>3, Kept, Parts DEF LookL2, caches
  <1>4. CASE Warm(c)
    <2>1. thread[c].rows \in 0..table.gen /\ thread[c].key \in Key /\ table' = table
      BY <1>1, <1>4, KeyFacts DEF ThreadPart, RowsReal, Warm
    <2>2. MemoryPart'
      BY <1>1, <1>4, <2>1, PutKeeps DEF Warm, MemoryPart
    <2>3. ThreadPart'
      BY <1>1, <1>4, <2>1, RowFacts, Moves DEF Warm
    <2> QED
      BY <1>4, <2>1, <2>2, <2>3, Kept, Parts DEF Warm
  <1>5. CASE Open(c)
    <2> DEFINE h == handle[Home[c]]
    <2>1. table' = table /\ table.gen \in 0..table.gen
      BY <1>1, <1>5, RowFacts DEF Open
    <2>2. CASE ~(h # None /\ (h.recent \/ h.ver = table.ver))
      <3>1. Found(c, "tag", table.gen) /\ handle' = handle
        BY <1>5, <2>2 DEF Open
      <3>2. ThreadPart'
        BY <2>1, <3>1, Moves
      <3> QED
        BY <1>5, <2>1, <3>1, <3>2, Kept, Parts DEF Open
    <2>3. CASE h # None /\ (h.recent \/ h.ver = table.ver)
      <3>1. /\ handle' = [handle EXCEPT ![Home[c]].recent = TRUE]
            /\ Done(c) \/ \E at \in Compute(c) : Found(c, at, h.gen)
        BY <1>5, <2>3 DEF Open
      <3>2. h.gen \in 0..table.gen
        BY <1>1, <2>3, RowFacts DEF TypeOK, Gen
      <3>3. ThreadPart'
        BY <2>1, <3>1, <3>2, Moves DEF Compute
      <3>4. HandlePart'
        <4> DEFINE g == [h EXCEPT !.recent = TRUE]
        <4>1. h \in OpenHandle /\ h.gen <= table.gen
          BY <1>1, <2>3 DEF TypeOK, OpenHandle
        <4>2. g \in OpenHandle /\ g.gen <= table.gen
          BY <4>1 DEF OpenHandle
        <4>3. handle' = [handle EXCEPT ![Home[c]] = g]
          BY <1>1, <3>1
        <4> QED
          BY <1>1, <2>1, <4>2, <4>3, Handled
      <3> QED
        BY <1>5, <2>1, <3>3, <3>4, Kept, Parts DEF Open
    <2> QED
      BY <2>2, <2>3
  <1>6. CASE Tag(c)
    <2>1. thread[c].rows \in 0..table.gen /\ table' = table
      BY <1>1, <1>6 DEF ThreadPart, RowsReal, Tag
    <2>2. HandlePart'
      <3> DEFINE g == [gen |-> thread[c].rows, ver |-> table.ver, recent |-> TRUE]
      <3>1. g \in OpenHandle /\ g.gen <= table.gen
        BY <1>1, <2>1, RowFacts DEF OpenHandle
      <3>2. handle' = [handle EXCEPT ![Home[c]] = g]
        BY <1>6 DEF Tag
      <3> QED
        BY <1>1, <2>1, <3>1, <3>2, Handled
    <2>3. ThreadPart'
      BY <1>6, <2>1, Moves DEF Tag, Compute
    <2> QED
      BY <1>6, <2>1, <2>2, <2>3, Kept, Parts DEF Tag
  <1>7. CASE StoreCanon(c)
    <2> DEFINE k == <<"canon", table.ver>>
               there == IF l1[Home[c]][k] # None THEN l1[Home[c]][k]
                        ELSE IF L2On THEN l2[k] ELSE None
    <2>1. thread[c].rows \in 0..table.gen /\ k \in Key /\ table' = table
      BY <1>1, <1>7, KeyFacts DEF ThreadPart, RowsReal, StoreCanon
    <2>2. there \in Gen \union {None}
      BY <1>1, <2>1 DEF MemoryPart, SharedPart
    <2>3. ThreadPart'
      BY <1>7, <2>1, Moves DEF StoreCanon
    <2>4. CASE Put(Home[c], k, thread[c].rows) /\ Publish(Home[c], k, thread[c].rows)
      <3>1. MemoryPart'
        BY <1>1, <1>7, <2>1, <2>4, PutKeeps DEF StoreCanon, MemoryPart
      <3>2. SharedPart' /\ QueuePart'
        BY <1>1, <2>1, <2>4, PublishKeeps DEF SharedPart, QueuePart
      <3> QED
        BY <1>7, <2>1, <2>3, <3>1, <3>2, Kept, Parts DEF StoreCanon
    <2>5. CASE there # None /\ Put(Home[c], k, there) /\ UNCHANGED <<l2, queue>>
      <3>1. MemoryPart'
        BY ZenonT(40), <1>1, <1>7, <2>1, <2>2, <2>5, RowFacts DEF StoreCanon, MemoryPart, Put
      <3> QED
        BY <1>7, <2>1, <2>3, <2>5, <3>1, Kept, Parts DEF StoreCanon
    <2> QED
      BY <1>7, <2>4, <2>5 DEF StoreCanon
  <1>8. CASE Store(c)
    <2>1. thread[c].rows \in 0..table.gen /\ Own(c) \in Key /\ table' = table
      BY <1>1, <1>8, KeyFacts DEF ThreadPart, RowsReal, Store
    <2>2. Put(Home[c], Own(c), thread[c].rows) /\ Publish(Home[c], Own(c), thread[c].rows)
      BY <1>8 DEF Store
    <2>3. MemoryPart'
      BY <1>1, <1>8, <2>1, <2>2, PutKeeps DEF Store, MemoryPart
    <2>4. SharedPart' /\ QueuePart'
      BY <1>1, <2>1, <2>2, PublishKeeps DEF SharedPart, QueuePart
    <2>5. ThreadPart'
      BY <1>8, <2>1, Moves DEF Store
    <2> QED
      BY <1>8, <2>1, <2>3, <2>4, <2>5, Kept, Parts DEF Store
  <1> QED
    BY <1>2, <1>3, <1>4, <1>5, <1>6, <1>7, <1>8 DEF ReadStep

LEMMA WriteKeeps ==
  ASSUME TypeInv, NEW c \in Client, WriteStep(c)
  PROVE  TypeInv'
  <1> USE DEF Steps, HasRows
  <1>1. ThreadPart /\ MemoryPart /\ SharedPart /\ TypeOK /\ Home[c] \in Replica
    BY Parts, HomeFacts DEF TypeInv
  <1>2. thread[c].rows \in 0..table.gen /\ table' = table
    BY <1>1 DEF ThreadPart, RowsReal, WriteStep, EvictHandle, EvictL1, Flush, EvictL2
  <1>3. CASE EvictHandle(c)
    <2>1. HandlePart'
      BY <1>1, <1>2, <1>3, Handled DEF EvictHandle
    <2>2. ThreadPart'
      BY <1>2, <1>3, Moves DEF EvictHandle
    <2> QED
      BY <1>2, <1>3, <2>1, <2>2, Kept, Parts DEF EvictHandle
  <1>4. CASE EvictL1(c)
    <2>1. MemoryPart'
      BY <1>1, <1>4 DEF MemoryPart, EvictL1
    <2>2. ThreadPart'
      BY <1>2, <1>4, Moves DEF EvictL1
    <2> QED
      BY <1>2, <1>4, <2>1, <2>2, Kept, Parts DEF EvictL1
  <1>5. CASE Flush(c)
    <2>1. ThreadPart'
      BY <1>2, <1>5, Moves DEF Flush
    <2> QED
      BY <1>2, <1>5, <2>1, Kept, Parts DEF Flush, caches
  <1>6. CASE EvictL2(c)
    <2>1. SharedPart'
      BY <1>1, <1>2, <1>6 DEF SharedPart, L2Real, EvictL2
    <2>2. TablePart'
      BY <1>1, <1>2, <1>6 DEF TypeOK, TablePart, EvictL2
    <2>3. ThreadPart'
      BY <1>2, <1>6, Moves DEF EvictL2
    <2> QED
      BY <1>2, <1>6, <2>1, <2>2, <2>3, Kept, Parts DEF EvictL2
  <1> QED
    BY <1>3, <1>4, <1>5, <1>6 DEF WriteStep

\* The table changes: what is cached stays as it is.
LEMMA ChangeKeeps ==
  ASSUME TypeInv, Commit \/ \E c \in Client : \E how \in Change : Write(c, how)
  PROVE  TypeInv'
  <1>1. TypeOK /\ ThreadPart /\ table.gen < MaxGen
    BY Parts DEF TypeInv, Commit, Write
  <1>2. /\ table' \in [gen : Gen, ver : Gen, base : Gen] /\ table'.gen = table.gen + 1
        /\ table'.ver <= table'.gen /\ UNCHANGED caches
    <2>1. table.gen \in Nat /\ table.ver \in Nat /\ table.gen + 1 \in Gen /\ table.ver + 1 \in Gen
          /\ 0 \in Gen /\ table.ver + 1 <= table.gen + 1
      BY <1>1, BoundsTyped DEF TypeOK, Gen
    <2>2. table \in [gen : Gen, ver : Gen, base : Gen]
      BY <1>1 DEF TypeOK
    <2>3. \/ table' = [table EXCEPT !.gen = @ + 1, !.ver = @ + 1]
          \/ table' = [gen |-> table.gen + 1, ver |-> 0, base |-> table.gen + 1]
      BY DEF Commit, Write
    <2>4. UNCHANGED caches
      BY DEF Commit, Write
    <2>5. CASE table' = [table EXCEPT !.gen = @ + 1, !.ver = @ + 1]
      <3>1. table' = [gen |-> table.gen + 1, ver |-> table.ver + 1, base |-> table.base]
        BY <2>2, <2>5
      <3> QED
        BY <2>1, <2>2, <2>4, <3>1
    <2>6. CASE table' = [gen |-> table.gen + 1, ver |-> 0, base |-> table.gen + 1]
      BY <2>1, <2>4, <2>6
    <2> QED
      BY <2>3, <2>5, <2>6
  <1>3. HandlePart' /\ MemoryPart' /\ SharedPart' /\ QueuePart'
    BY <1>2, Grown
  <1>4. TablePart'
    BY <1>1, <1>2, BoundsTyped DEF Commit, Write, TypeOK, TablePart, Gen
  <1>5. ThreadPart'
    <2>1. CASE Commit
      BY <1>1, <1>2, <2>1, RowFacts DEF Commit, ThreadPart, RowsReal
    <2>2. ASSUME NEW c \in Client, NEW how \in Change, Write(c, how)
          PROVE  ThreadPart'
      <3> DEFINE t == [Idle EXCEPT !.at = "unhandle", !.rows = table.gen + 1]
      <3>1. /\ table.gen + 1 \in Gen /\ table.gen + 1 \in 0..table'.gen
            /\ table'.gen \in Nat /\ table.gen <= table'.gen
        BY <1>1, <1>2, RowFacts
      <3>2. t \in Request /\ t.rows \in 0..table'.gen
        BY <1>1, <3>1, RowFacts DEF Request, Idle, Steps, Key
      <3>3. thread' = [thread EXCEPT ![c] = t]
        BY <2>2 DEF Write
      <3> HIDE DEF t
      <3> QED
        BY <3>1, <3>2, <3>3, Moved
    <2> QED
      BY <2>1, <2>2
  <1> QED
    BY <1>3, <1>4, <1>5, Parts

LEMMA AskKeeps ==
  ASSUME TypeInv, NEW c \in Client, NEW q \in Query, Ask(c, q)
  PROVE  TypeInv'
  <1> DEFINE t == [Idle EXCEPT !.at = "l1", !.query = q, !.token = table.ver, !.floor = acked,
                    !.key = <<IF q = "scan" THEN "scan" ELSE "exact", table.ver>>]
  <1>1. thread' = [thread EXCEPT ![c] = t] /\ UNCHANGED <<table, acked, caches>>
    BY DEF Ask
  <1>2. t \in Request /\ t.at \notin HasRows
    BY RowFacts DEF TypeInv, Request, Idle, Steps, Key, HasRows
  <1> HIDE DEF t
  <1>3. table'.gen \in Nat /\ table.gen <= table'.gen
    BY <1>1, RowFacts DEF TypeInv
  <1>4. ThreadPart'
    BY <1>1, <1>2, <1>3, Moved
  <1> QED
    BY <1>1, <1>4, Kept, Parts DEF caches

\* The write-out of a queue, and whatever ends by itself.
LEMMA AloneKeeps ==
  ASSUME TypeInv,
         (\E r \in Replica : WriteOut(r) \/ Expiry(r)) \/ (\E k \in Key : L2Ends(k))
  PROVE  TypeInv'
  <1>1. HandlePart /\ MemoryPart /\ SharedPart /\ QueuePart
    BY Parts
  <1>2. ASSUME NEW r \in Replica, WriteOut(r)
        PROVE  TypeInv'
    <2> DEFINE e == Head(queue[r])
    <2>1. ASSUME NEW S, queue \in [Replica -> Seq(S)]
          PROVE  queue' \in [Replica -> Seq(S)] /\ e \in S
      BY <1>2, <2>1, TailAt DEF WriteOut
    <2>2. queue' \in [Replica -> Seq([key : Key, rows : Gen])] /\ e \in [key : Key, rows : Gen]
      <3>1. queue \in [Replica -> Seq([key : Key, rows : Gen])]
        BY <1>1 DEF QueuePart
      <3> QED
        BY <2>1, <3>1
    <2>3. /\ queue' \in [Replica -> Seq([key : Key, rows : 0..table.gen])]
          /\ e \in [key : Key, rows : 0..table.gen]
      BY <1>1, <2>1 DEF QueuePart, QueueReal
    <2>4. QueuePart'
      <3>1. table' = table
        BY <1>2 DEF WriteOut
      <3> QED
        BY <2>2, <2>3, <3>1 DEF QueuePart, QueueReal
    <2>5. SharedPart'
      <3>1. l2' = [l2 EXCEPT ![e.key] = e.rows] /\ table' = table
        BY <1>2 DEF WriteOut
      <3> QED
        BY <1>1, <2>2, <2>3, <3>1 DEF SharedPart, L2Real
    <2> QED
      BY <1>2, <2>4, <2>5, Kept, Parts DEF WriteOut
  <1>3. ASSUME NEW r \in Replica, CheckEnds(r)
        PROVE  TypeInv'
    <2> DEFINE g == [handle[r] EXCEPT !.recent = FALSE]
    <2>1. handle[r] \in OpenHandle /\ handle[r].gen <= table.gen
      BY <1>1, <1>3 DEF CheckEnds, HandlePart, OpenHandle
    <2>2. g \in OpenHandle /\ g.gen <= table.gen
      BY <2>1 DEF OpenHandle
    <2>3. handle' = [handle EXCEPT ![r] = g] /\ table' = table
      BY <1>3 DEF CheckEnds
    <2>4. HandlePart'
      BY <2>2, <2>3, Handled
    <2> QED
      BY <1>3, <2>4, Kept, Parts DEF CheckEnds
  <1>4. ASSUME NEW r \in Replica, HandleEnds(r)
        PROVE  TypeInv'
    <2>1. HandlePart'
      BY <1>4, Handled DEF HandleEnds
    <2> QED
      BY <1>4, <2>1, Kept, Parts DEF HandleEnds
  <1>5. ASSUME NEW r \in Replica, NEW k \in Key, L1Ends(r, k)
        PROVE  TypeInv'
    <2>1. MemoryPart'
      BY <1>1, <1>5 DEF L1Ends, MemoryPart
    <2> QED
      BY <1>5, <2>1, Kept, Parts DEF L1Ends
  <1>6. ASSUME NEW k \in Key, L2Ends(k)
        PROVE  TypeInv'
    <2>1. SharedPart'
      BY <1>1, <1>6 DEF L2Ends, SharedPart, L2Real
    <2> QED
      BY <1>6, <2>1, Kept, Parts DEF L2Ends
  <1> QED
    BY <1>2, <1>3, <1>4, <1>5, <1>6 DEF Expiry

LEMMA TypeStep == TypeInv /\ [Next]_vars => TypeInv'
  <1>1. TypeInv /\ UNCHANGED vars => TypeInv'
    BY Kept, Parts DEF vars, caches
  <1>2. TypeInv /\ Next => TypeInv'
    BY AskKeeps, ReadKeeps, WriteKeeps, ChangeKeeps, AloneKeeps DEF Next
  <1> QED
    BY <1>1, <1>2

\* The caches and the requests stay well-formed: in-memory results whose SQL is
\* kept are there (_result_cache_sql has no key _result_cache lacks), and no
\* open dataset is of a table that has yet to be.
THEOREM TypeCorrect == Spec => []TypeOK
  <1>1. TypeInv => TypeOK
    BY DEF TypeInv
  <1> QED
    BY TypeInit, TypeStep, <1>1, PTL DEF Spec

-----------------------------------------------------------------------------
(* Where nothing is old, nothing old comes up.                             *)

\* What a reader carries on its way into the caches.
Reading == {"warm", "tag", "canon", "store"}

HandlesFresh == \A r \in Replica : handle[r] # None => handle[r].gen = table.gen
MemoryFresh == \A r \in Replica : \A k \in Key : Current(l1[r][k])
VolumeFresh == \A k \in Key : Current(l2[k])
QueueFresh == \A r \in Replica : \A i \in 1..Len(queue[r]) : queue[r][i].rows = table.gen
RequestsFresh == \A c \in Client : thread[c].at \in Reading => thread[c].rows = table.gen
Fresh == HandlesFresh /\ MemoryFresh /\ VolumeFresh /\ QueueFresh /\ RequestsFresh

\* Who is answered from a cache by this step is given the table's rows.
HitsFresh ==
  \A c \in Client : thread'[c].at = "hit" => thread'[c] = thread[c] \/ thread'[c].rows = table.gen

\* While the table rests, what is left alone stays fresh.
LEMMA FreshKept ==
  ASSUME Fresh, table' = table
  PROVE  /\ handle' = handle => HandlesFresh'
         /\ l1' = l1 => MemoryFresh'
         /\ l2' = l2 => VolumeFresh'
         /\ queue' = queue => QueueFresh'
         /\ thread' = thread => RequestsFresh' /\ HitsFresh
  BY DEF Fresh, HandlesFresh, MemoryFresh, VolumeFresh, QueueFresh, RequestsFresh, HitsFresh, Current

\* A request that moves on with the table's rows, or with none to pass on.
LEMMA FreshMoved ==
  ASSUME TypeInv, Fresh, table' = table, NEW c \in Client, NEW t,
         thread' = [thread EXCEPT ![c] = t],
         t.at \in Reading \union {"hit"} => t.rows = table.gen
  PROVE  RequestsFresh' /\ HitsFresh
  <1>1. thread \in [Client -> Request]
    BY Parts DEF ThreadPart
  <1> QED
    BY <1>1 DEF Fresh, RequestsFresh, HitsFresh, Reading

\* Where a request can go from a step of its own.
LEMMA FreshMoves ==
  ASSUME TypeInv, Fresh, table' = table, NEW c \in Client
  PROVE  /\ \A at : Go(c, at) /\ at # "hit" /\ (at \in Reading => thread[c].rows = table.gen)
                    => RequestsFresh' /\ HitsFresh
         /\ \A at : Found(c, at, table.gen) => RequestsFresh' /\ HitsFresh
         /\ Hit(c, table.gen) => RequestsFresh' /\ HitsFresh
         /\ Done(c) => RequestsFresh' /\ HitsFresh
         /\ Miss(c) => RequestsFresh' /\ HitsFresh
  <1> DEFINE old == thread[c]
  <1>1. thread \in [Client -> Request] /\ old \in Request
    BY Parts DEF ThreadPart
  <1>2. ASSUME NEW at, Go(c, at), at # "hit", at \in Reading => old.rows = table.gen
        PROVE  RequestsFresh' /\ HitsFresh
    <2> DEFINE t == [old EXCEPT !.at = at]
    <2>1. t.at = at /\ t.rows = old.rows
      BY <1>1 DEF Request
    <2>2. thread' = [thread EXCEPT ![c] = t]
      BY <1>2 DEF Go
    <2> QED
      BY <1>2, <2>1, <2>2, FreshMoved
  <1>3. ASSUME NEW at, Found(c, at, table.gen)
        PROVE  RequestsFresh' /\ HitsFresh
    <2> DEFINE t == [old EXCEPT !.at = at, !.rows = table.gen]
    <2>1. t.rows = table.gen
      BY <1>1 DEF Request
    <2>2. thread' = [thread EXCEPT ![c] = t]
      BY <1>1, <1>3 DEF Found
    <2> QED
      BY <2>1, <2>2, FreshMoved
  <1>4. ASSUME Hit(c, table.gen)
        PROVE  RequestsFresh' /\ HitsFresh
    <2> DEFINE t == [Idle EXCEPT !.at = "hit", !.rows = table.gen, !.floor = old.floor]
    <2>1. t.rows = table.gen
      BY DEF Idle
    <2>2. thread' = [thread EXCEPT ![c] = t]
      BY <1>4 DEF Hit
    <2> QED
      BY <2>1, <2>2, FreshMoved
  <1>5. ASSUME Done(c)
        PROVE  RequestsFresh' /\ HitsFresh
    <2>1. thread' = [thread EXCEPT ![c] = Idle] /\ Idle.at = "idle"
      BY <1>5 DEF Done, Idle
    <2> QED
      BY <2>1, FreshMoved DEF Reading
  <1>6. ASSUME Miss(c)
        PROVE  RequestsFresh' /\ HitsFresh
    <2>1. CASE thread[c].key[1] = "exact"
      <3> DEFINE t == [old EXCEPT !.at = "l1", !.key = <<"canon", table.ver>>]
      <3>1. t.at = "l1"
        BY <1>1 DEF Request
      <3>2. thread' = [thread EXCEPT ![c] = t]
        BY <1>1, <1>6, <2>1 DEF Miss
      <3> QED
        BY <3>1, <3>2, FreshMoved DEF Reading
    <2>2. CASE thread[c].key[1] # "exact"
      <3>1. Go(c, "open")
        BY <1>6, <2>2 DEF Miss, Go
      <3> QED
        BY <1>2, <3>1 DEF Reading
    <2> QED
      BY <2>1, <2>2
  <1> QED
    BY <1>2, <1>3, <1>4, <1>5, <1>6

\* Storing the table's rows keeps memory, volume and queue fresh.
LEMMA FreshPut ==
  ASSUME TypeInv, Fresh, table' = table, NEW r \in Replica, NEW k \in Key, Put(r, k, table.gen)
  PROVE  MemoryFresh'
  BY Parts DEF MemoryPart, Fresh, MemoryFresh, Current, Put

LEMMA FreshPublish ==
  ASSUME TypeInv, Fresh, table' = table, NEW r \in Replica, NEW k \in Key, Publish(r, k, table.gen)
  PROVE  VolumeFresh' /\ QueueFresh'
  <1>1. CASE L2On /\ Len(queue[r]) < QueueDepth
    <2> DEFINE e == [key |-> k, rows |-> table.gen]
    <2>1. queue' = [queue EXCEPT ![r] = Append(@, e)] /\ l2' = l2
      BY <1>1 DEF Publish
    <2>2. queue \in [Replica -> Seq([key : Key, rows : Gen])]
      BY Parts DEF QueuePart
    <2>3. e \in [key : Key, rows : Gen] /\ e.rows = table.gen
      BY RowFacts DEF TypeInv
    <2> HIDE DEF e
    <2>4. \A i \in 1..Len(Append(queue[r], e)) : Append(queue[r], e)[i].rows = table.gen
      BY <2>2, <2>3 DEF Fresh, QueueFresh
    <2>5. QueueFresh'
      BY <2>1, <2>2, <2>4 DEF Fresh, QueueFresh
    <2> QED
      BY <2>1, <2>5, FreshKept
  <1>2. CASE ~(L2On /\ Len(queue[r]) < QueueDepth)
    <2>1. l2' = [l2 EXCEPT ![k] = IF L2On THEN table.gen ELSE @] /\ queue' = queue
      BY <1>2 DEF Publish
    <2> QED
      BY <2>1, FreshKept, Parts DEF SharedPart, Fresh, VolumeFresh, Current
  <1> QED
    BY <1>1, <1>2

LEMMA FreshReads ==
  ASSUME TypeInv, Fresh, NEW c \in Client, ReadStep(c)
  PROVE  Fresh' /\ HitsFresh
  <1>1. Home[c] \in Replica /\ thread[c].key \in Key /\ Own(c) \in Key /\ <<"canon", table.ver>> \in Key
    BY HomeFacts, KeyFacts DEF TypeInv
  <1>2. Current(l1[Home[c]][thread[c].key]) /\ Current(l2[thread[c].key])
    BY <1>1 DEF Fresh, MemoryFresh, VolumeFresh
  <1>3. CASE LookL1(c)
    <2>1. table' = table /\ UNCHANGED caches
      BY <1>3 DEF LookL1
    <2>2. RequestsFresh' /\ HitsFresh
      BY <1>2, <1>3, <2>1, FreshMoves DEF LookL1, Current, Reading
    <2> QED
      BY <2>1, <2>2, FreshKept DEF caches, Fresh
  <1>4. CASE LookL2(c)
    <2>1. table' = table /\ UNCHANGED caches
      BY <1>4 DEF LookL2
    <2>2. RequestsFresh' /\ HitsFresh
      BY <1>2, <1>4, <2>1, FreshMoves DEF LookL2, Current
    <2> QED
      BY <2>1, <2>2, FreshKept DEF caches, Fresh
  <1>5. CASE Warm(c)
    <2>1. /\ table' = table /\ handle' = handle /\ l2' = l2 /\ queue' = queue
          /\ thread[c].rows = table.gen /\ Put(Home[c], thread[c].key, table.gen)
      BY <1>5 DEF Warm, Fresh, RequestsFresh, Reading
    <2>2. RequestsFresh' /\ HitsFresh
      BY <1>5, <2>1, FreshMoves DEF Warm, Reading
    <2> QED
      BY <1>1, <2>1, <2>2, FreshPut, FreshKept DEF Fresh
  <1>6. CASE Open(c)
    <2>1. /\ table' = table /\ l1' = l1 /\ l2' = l2 /\ queue' = queue
      BY <1>6 DEF Open
    <2>2. handle[Home[c]] # None => handle[Home[c]].gen = table.gen
      BY <1>1 DEF Fresh, HandlesFresh
    <2>3. CASE Found(c, "tag", table.gen) /\ UNCHANGED handle
      BY <2>1, <2>3, FreshMoves, FreshKept DEF Fresh
    <2>4. CASE /\ handle[Home[c]] # None
               /\ handle' = [handle EXCEPT ![Home[c]].recent = TRUE]
               /\ Done(c) \/ \E at \in Compute(c) : Found(c, at, handle[Home[c]].gen)
      <3>1. RequestsFresh' /\ HitsFresh
        BY <2>1, <2>2, <2>4, FreshMoves
      <3>2. HandlesFresh'
        BY <1>1, <2>1, <2>2, <2>4, Parts DEF HandlePart, Fresh, HandlesFresh
      <3> QED
        BY <2>1, <3>1, <3>2, FreshKept DEF Fresh
    <2> QED
      BY <1>6, <2>3, <2>4 DEF Open
  <1>7. CASE Tag(c)
    <2>1. /\ table' = table /\ l1' = l1 /\ l2' = l2 /\ queue' = queue /\ thread[c].rows = table.gen
      BY <1>7 DEF Tag, Fresh, RequestsFresh, Reading
    <2>2. handle' = [handle EXCEPT ![Home[c]] = [gen |-> table.gen, ver |-> table.ver, recent |-> TRUE]]
      BY <1>7, <2>1 DEF Tag
    <2>3. HandlesFresh'
      BY <1>1, <2>1, <2>2, Parts DEF HandlePart, Fresh, HandlesFresh
    <2>4. RequestsFresh' /\ HitsFresh
      BY <1>7, <2>1, FreshMoves DEF Tag, Compute
    <2> QED
      BY <2>1, <2>3, <2>4, FreshKept DEF Fresh
  <1>8. CASE StoreCanon(c)
    <2> DEFINE k == <<"canon", table.ver>>
               there == IF l1[Home[c]][k] # None THEN l1[Home[c]][k] ELSE IF L2On THEN l2[k] ELSE None
    <2>1. /\ table' = table /\ handle' = handle /\ thread[c].rows = table.gen
      BY <1>8 DEF StoreCanon, Fresh, RequestsFresh, Reading
    <2>2. RequestsFresh' /\ HitsFresh
      BY <1>8, <2>1, FreshMoves DEF StoreCanon, Reading
    <2>3. there # None => there = table.gen
      BY <1>1 DEF Fresh, MemoryFresh, VolumeFresh, Current
    <2>4. CASE Put(Home[c], k, table.gen) /\ Publish(Home[c], k, table.gen)
      BY <1>1, <2>1, <2>2, <2>4, FreshPut, FreshPublish, FreshKept DEF Fresh
    <2>5. CASE Put(Home[c], k, table.gen) /\ UNCHANGED <<l2, queue>>
      BY <1>1, <2>1, <2>2, <2>5, FreshPut, FreshKept DEF Fresh
    <2> QED
      BY <1>8, <2>1, <2>3, <2>4, <2>5 DEF StoreCanon
  <1>9. CASE Store(c)
    <2>1. /\ table' = table /\ handle' = handle
          /\ Put(Home[c], Own(c), table.gen) /\ Publish(Home[c], Own(c), table.gen) /\ Done(c)
      BY <1>9 DEF Store, Fresh, RequestsFresh, Reading
    <2> QED
      BY <1>1, <2>1, FreshPut, FreshPublish, FreshMoves, FreshKept DEF Fresh
  <1> QED
    BY <1>3, <1>4, <1>5, <1>6, <1>7, <1>8, <1>9 DEF ReadStep

LEMMA FreshWrites ==
  ASSUME TypeInv, Fresh, NEW c \in Client, WriteStep(c)
  PROVE  Fresh' /\ HitsFresh
  <1>1. Home[c] \in Replica
    BY HomeFacts
  <1>2. CASE EvictHandle(c)
    <2>1. table' = table /\ l1' = l1 /\ l2' = l2 /\ queue' = queue
      BY <1>2 DEF EvictHandle
    <2>2. HandlesFresh'
      BY <1>2, <2>1, Parts DEF EvictHandle, HandlePart, Fresh, HandlesFresh
    <2>3. RequestsFresh' /\ HitsFresh
      BY <1>2, <2>1, FreshMoves DEF EvictHandle, Reading
    <2> QED
      BY <2>1, <2>2, <2>3, FreshKept DEF Fresh
  <1>3. CASE EvictL1(c)
    <2>1. table' = table /\ handle' = handle /\ l2' = l2 /\ queue' = queue
      BY <1>3 DEF EvictL1
    <2>2. MemoryFresh'
      BY <1>3, <2>1, Parts DEF EvictL1, MemoryPart, Fresh, MemoryFresh, Current
    <2>3. RequestsFresh' /\ HitsFresh
      BY <1>3, <2>1, FreshMoves DEF EvictL1, Reading
    <2> QED
      BY <2>1, <2>2, <2>3, FreshKept DEF Fresh
  <1>4. CASE Flush(c)
    <2>1. table' = table /\ UNCHANGED caches
      BY <1>4 DEF Flush
    <2>2. RequestsFresh' /\ HitsFresh
      BY <1>4, <2>1, FreshMoves DEF Flush, Reading
    <2> QED
      BY <2>1, <2>2, FreshKept DEF Fresh, caches
  <1>5. CASE EvictL2(c)
    <2>1. table' = table /\ handle' = handle /\ l1' = l1 /\ queue' = queue /\ Done(c)
      BY <1>5 DEF EvictL2
    <2>2. VolumeFresh'
      BY <1>5, <2>1, Parts DEF EvictL2, Fresh, VolumeFresh, Current
    <2>3. RequestsFresh' /\ HitsFresh
      BY <2>1, FreshMoves
    <2> QED
      BY <2>1, <2>2, <2>3, FreshKept DEF Fresh
  <1> QED
    BY <1>2, <1>3, <1>4, <1>5 DEF WriteStep

\* The write-out and the clock bring nothing old.
LEMMA FreshAlone ==
  ASSUME TypeInv, Fresh,
         \/ \E r \in Replica : WriteOut(r) \/ Expiry(r)
         \/ \E k \in Key : L2Ends(k)
  PROVE  Fresh' /\ HitsFresh
  <1>1. table' = table /\ thread' = thread
    BY DEF WriteOut, Expiry, CheckEnds, HandleEnds, L1Ends, L2Ends
  <1>2. ASSUME NEW r \in Replica, WriteOut(r)
        PROVE  Fresh' /\ HitsFresh
    <2>1. queue \in [Replica -> Seq([key : Key, rows : Gen])] /\ queue[r] # <<>>
      BY <1>2, Parts DEF QueuePart, WriteOut
    <2>2. /\ Len(queue[r]) \in Nat \ {0} /\ Head(queue[r]) = queue[r][1]
          /\ Len(Tail(queue[r])) = Len(queue[r]) - 1
          /\ \A i \in 1..Len(Tail(queue[r])) : Tail(queue[r])[i] = queue[r][i + 1]
      BY <2>1
    <2>3. /\ Head(queue[r]).rows = table.gen
          /\ \A i \in 1..Len(Tail(queue[r])) : Tail(queue[r])[i].rows = table.gen
      BY <2>2 DEF Fresh, QueueFresh
    <2>4. QueueFresh'
      BY <1>1, <1>2, <2>1, <2>3 DEF WriteOut, Fresh, QueueFresh
    <2>5. VolumeFresh'
      BY <1>1, <1>2, <2>3, Parts DEF WriteOut, SharedPart, Fresh, VolumeFresh, Current
    <2> QED
      BY <1>1, <1>2, <2>4, <2>5, FreshKept DEF WriteOut, Fresh
  <1>3. ASSUME NEW r \in Replica, CheckEnds(r) \/ HandleEnds(r)
        PROVE  Fresh' /\ HitsFresh
    <2>1. HandlesFresh'
      BY <1>1, <1>3, Parts DEF CheckEnds, HandleEnds, HandlePart, Fresh, HandlesFresh
    <2> QED
      BY <1>1, <1>3, <2>1, FreshKept DEF CheckEnds, HandleEnds, Fresh
  <1>4. ASSUME NEW r \in Replica, NEW k \in Key, L1Ends(r, k)
        PROVE  Fresh' /\ HitsFresh
    <2>1. MemoryFresh'
      BY <1>1, <1>4, Parts DEF L1Ends, MemoryPart, Fresh, MemoryFresh, Current
    <2> QED
      BY <1>1, <1>4, <2>1, FreshKept DEF L1Ends, Fresh
  <1>5. ASSUME NEW k \in Key, L2Ends(k)
        PROVE  Fresh' /\ HitsFresh
    <2>1. VolumeFresh'
      BY <1>1, <1>5, Parts DEF L2Ends, SharedPart, Fresh, VolumeFresh, Current
    <2> QED
      BY <1>1, <1>5, <2>1, FreshKept DEF L2Ends, Fresh
  <1> QED
    BY <1>2, <1>3, <1>4, <1>5 DEF Expiry

LEMMA FreshStep ==
  ASSUME TypeInv, Fresh, [Next]_vars, table' = table
  PROVE  Fresh' /\ HitsFresh
  <1>1. CASE UNCHANGED vars
    BY <1>1, FreshKept DEF vars, caches, Fresh
  <1>2. ASSUME NEW c \in Client, NEW q \in Query, Ask(c, q)
        PROVE  Fresh' /\ HitsFresh
    <2> DEFINE t == [Idle EXCEPT !.at = "l1", !.query = q, !.token = table.ver, !.floor = acked,
                                 !.key = <<IF q = "scan" THEN "scan" ELSE "exact", table.ver>>]
    <2>1. t.at = "l1" /\ thread' = [thread EXCEPT ![c] = t] /\ UNCHANGED caches
      BY <1>2 DEF Ask, Idle
    <2>2. RequestsFresh' /\ HitsFresh
      BY <2>1, FreshMoved DEF Reading
    <2> QED
      BY <2>1, <2>2, FreshKept DEF caches, Fresh
  <1>3. ASSUME NEW c \in Client, NEW how \in Change, Write(c, how)
        PROVE  FALSE
    <2>1. table'.gen = table.gen + 1
      <3>1. table \in [gen : Gen, ver : Gen, base : Gen]
        BY DEF TypeInv, TypeOK
      <3>2. CASE how = "overwrite"
        BY <1>3, <3>2 DEF Write
      <3>3. CASE how # "overwrite"
        BY <1>3, <3>1, <3>3 DEF Write
      <3> QED
        BY <3>2, <3>3
    <2> QED
      BY <2>1, RowFacts DEF TypeInv
  <1>4. ASSUME Commit
        PROVE  FALSE
    <2>1. table'.gen = table.gen + 1
      BY <1>4, RowFacts DEF Commit, TypeInv, TypeOK
    <2> QED
      BY <2>1, RowFacts DEF TypeInv
  <1> QED
    BY <1>1, <1>2, <1>3, <1>4, FreshReads, FreshWrites, FreshAlone DEF Next

\* Old rows come from changes of the table alone: once none are left, in a cache, a queue,
\* an open dataset or a request's hands, and as long as the table rests, none come back, and
\* every answer from a cache has the rows of the table.
THEOREM FreshStays == Spec => [][Fresh /\ table' = table => Fresh' /\ HitsFresh]_vars
  <1>1. TypeInv /\ [Next]_vars => [Fresh /\ table' = table => Fresh' /\ HitsFresh]_vars
    BY FreshStep
  <1> QED
    BY TypeInit, TypeStep, <1>1, PTL DEF Spec

\* What StaleEnds says, short of the fairness that brings the caches there: if nothing is
\* old at some time after the table's last change, the caches have healed for good.
THEOREM HealedForGood == Spec /\ <>(Fresh /\ [][table' = table]_vars) => StaleEnds
  <1> DEFINE Healed == /\ \A k \in Key : Current(l2[k]) /\ \A r \in Replica : Current(l1[r][k])
                       /\ \A r \in Replica : handle[r] # None => Current(handle[r].gen)
  <1>1. TypeInv /\ Fresh /\ [Next]_vars /\ [table' = table]_vars => Fresh'
    <2>1. UNCHANGED vars => table' = table
      BY DEF vars
    <2> QED
      BY <2>1, FreshStep
  <1>2. Fresh => Healed
    BY DEF Fresh, HandlesFresh, MemoryFresh, VolumeFresh, Current
  <1>3. StaleEnds <=> <>[]Healed
    BY DEF StaleEnds
  <1> HIDE DEF Healed
  <1> QED
    BY TypeInit, TypeStep, <1>1, <1>2, <1>3, PTL DEF Spec
=============================================================================
