---------------------------- MODULE ResultCache ----------------------------
(***************************************************************************)
(* The caches between a query and one Delta table it reads (engine.py,     *)
(* l2cache.py): the dataset handle and the in-memory results (L1) of each  *)
(* replica, the results on the shared volume (L2) with each replica's      *)
(* queue of results to publish there, and what a write of the write tier   *)
(* throws away.                                                            *)
(*                                                                         *)
(* Rows are the generation of the table they were read from.  A result key *)
(* is an identity and the version token the table had when the key was     *)
(* made; a "preview" is a bare SELECT ... LIMIT, which has a key of its    *)
(* own ("exact") and one that all row counts share ("canon").              *)
(***************************************************************************)
EXTENDS Integers, Sequences

CONSTANTS Replica, Client,
          Home,      \* client -> the replica its requests reach
          None,
          Query,     \* what is asked: a subset of {"scan", "preview"}
          Change,    \* how the table changes: {"overwrite", "insert", "commit"}
          MaxGen,    \* bound: how often it changes
          QueueDepth, \* DEFAULT_ASYNC_QUEUE_DEPTH; 0: results are published at once
          L2On       \* is SQLHANDLER_L2_DIR set?

ASSUME HomeTyped == Home \in [Client -> Replica]
ASSUME QueryTyped == Query \in SUBSET {"scan", "preview"}
ASSUME NoneIsNoGeneration == None \notin Nat
ASSUME BoundsTyped == MaxGen \in Nat /\ QueueDepth \in Nat

VARIABLES
  table,     \* its generation, its version token, and the last overwrite
  acked,     \* the newest generation whose writer has been answered
  handle,    \* replica -> its open dataset, or None
  l1,        \* replica -> key -> the rows cached in memory, or None
  mapped,    \* replica -> keys of _result_cache_sql
  l2,        \* key -> the rows on the shared volume, or None
  queue,     \* replica -> results it has still to publish
  thread     \* client -> what its request is doing

caches == <<handle, l1, mapped, l2, queue>>
vars == <<table, acked, caches, thread>>

Gen == 0..MaxGen
Key == {"scan", "exact", "canon"} \X Gen

Idle == [at |-> "idle", query |-> None, token |-> 0, key |-> <<"scan", 0>>,
         rows |-> None, floor |-> 0]

Steps == {"l1", "l2", "warm", "open", "tag", "canon", "store",
          "unhandle", "unl1", "flush", "unl2"}

TypeOK ==
  /\ table \in [gen : Gen, ver : Gen, base : Gen] /\ table.ver <= table.gen
  /\ acked \in 0..table.gen
  /\ handle \in [Replica -> {None} \union [gen : Gen, ver : Gen, recent : BOOLEAN]]
  /\ \A r \in Replica : handle[r] # None => handle[r].gen <= table.gen
  /\ l1 \in [Replica -> [Key -> Gen \union {None}]]
  /\ mapped \in [Replica -> SUBSET Key]
  /\ \A r \in Replica : \A k \in mapped[r] : l1[r][k] # None
  /\ l2 \in [Key -> Gen \union {None}]
  /\ queue \in [Replica -> Seq([key : Key, rows : Gen])]
  /\ thread \in [Client -> [at : {"idle", "hit"} \union Steps,
                            query : Query \union {None}, token : Gen, key : Key,
                            rows : Gen \union {None}, floor : Gen]]

Init ==
  /\ table = [gen |-> 0, ver |-> 0, base |-> 0] /\ acked = 0
  /\ handle = [r \in Replica |-> None]
  /\ l1 = [r \in Replica |-> [k \in Key |-> None]] /\ mapped = [r \in Replica |-> {}]
  /\ l2 = [k \in Key |-> None] /\ queue = [r \in Replica |-> <<>>]
  /\ thread = [c \in Client |-> Idle]

-----------------------------------------------------------------------------
(* Helpers.                                                                *)

Free(c) == thread[c].at \in {"idle", "hit"}
Go(c, at) == thread' = [thread EXCEPT ![c].at = at]
Found(c, at, rows) == thread' = [thread EXCEPT ![c].at = at, ![c].rows = rows]

\* What is kept of an answer: rows that came from a cache, and what they had
\* to be as new as.
Hit(c, rows) ==
  thread' = [thread EXCEPT ![c] = [Idle EXCEPT !.at = "hit", !.rows = rows, !.floor = thread[c].floor]]
Done(c) == thread' = [thread EXCEPT ![c] = Idle]

\* A request is done with its key: what follows no longer depends on it.
Miss(c) ==
  thread' = IF thread[c].key[1] = "exact"
            THEN [thread EXCEPT ![c].at = "l1", ![c].key = <<"canon", table.ver>>]
            ELSE [thread EXCEPT ![c].at = "open"]

Own(c) == <<IF thread[c].query = "scan" THEN "scan" ELSE "exact", thread[c].token>>

\* _result_cache_store's memory half, and its asynchronous publishing half.
Put(r, k, rows) == l1' = [l1 EXCEPT ![r][k] = rows]
Publish(r, k, rows) ==
  IF L2On /\ Len(queue[r]) < QueueDepth
  THEN queue' = [queue EXCEPT ![r] = Append(@, [key |-> k, rows |-> rows])] /\ UNCHANGED l2
  ELSE l2' = [l2 EXCEPT ![k] = IF L2On THEN rows ELSE @] /\ UNCHANGED queue

-----------------------------------------------------------------------------
(* query_duckdb(): the caches first.                                       *)

\* The key is made of the version token the provider has now.
Ask(c, q) ==
  /\ Free(c)
  /\ thread' = [thread EXCEPT ![c] =
       [Idle EXCEPT !.at = "l1", !.query = q, !.token = table.ver, !.floor = acked,
                    !.key = <<IF q = "scan" THEN "scan" ELSE "exact", table.ver>>]]
  /\ UNCHANGED <<table, acked, caches>>

\* A shared preview is declined when it has fewer rows than are asked for.
LookL1(c) ==
  LET rows == l1[Home[c]][thread[c].key]
  IN /\ thread[c].at = "l1"
     /\ \/ rows # None /\ Hit(c, rows)
        \/ rows # None /\ thread[c].key[1] = "canon" /\ Go(c, "open")
        \/ rows = None /\ L2On /\ Go(c, "l2")
        \/ rows = None /\ ~L2On /\ Miss(c)
     /\ UNCHANGED <<table, acked, caches>>

LookL2(c) ==
  LET rows == l2[thread[c].key]
  IN /\ thread[c].at = "l2"
     /\ IF rows = None THEN Miss(c) ELSE Found(c, "warm", rows)
     /\ UNCHANGED <<table, acked, caches>>

\* Seeded bug: what was just read from the shared volume is published again.
WarmRepublishes(c) ==
  /\ thread[c].at = "warm"
  /\ Put(Home[c], thread[c].key, thread[c].rows)
  /\ Publish(Home[c], thread[c].key, thread[c].rows)
  /\ \/ Hit(c, thread[c].rows)
     \/ thread[c].key[1] = "canon" /\ Go(c, "open")
  /\ UNCHANGED <<table, acked, handle, mapped>>

\* An L2 hit is put into memory, without its SQL.
Warm(c) ==
  /\ thread[c].at = "warm"
  /\ Put(Home[c], thread[c].key, thread[c].rows)
  /\ \/ Hit(c, thread[c].rows)
     \/ thread[c].key[1] = "canon" /\ Go(c, "open")
  /\ UNCHANGED <<table, acked, handle, mapped, l2, queue>>

-----------------------------------------------------------------------------
(* A miss: the table is read, and the result stored.                       *)

Compute(c) == IF thread[c].query = "scan" THEN {"store"} ELSE {"canon", "store"}

\* _open_dataset: a handle that was checked a moment ago, or whose version
\* token still is the table's, is used as it is; the files of one that was
\* overwritten are gone.
Open(c) ==
  LET r == Home[c]
      h == handle[r]
      reuse == h # None /\ (h.recent \/ h.ver = table.ver)
  IN /\ thread[c].at = "open"
     /\ IF ~reuse
        THEN Found(c, "tag", table.gen) /\ UNCHANGED handle
        ELSE /\ handle' = [handle EXCEPT ![r].recent = TRUE]
             /\ IF h.gen < table.base
                THEN Done(c)
                ELSE \E at \in Compute(c) : Found(c, at, h.gen)
     /\ UNCHANGED <<table, acked, l1, mapped, l2, queue>>

\* A new handle gets the version token of a second look at the table.
Tag(c) ==
  /\ thread[c].at = "tag"
  /\ handle' = [handle EXCEPT ![Home[c]] =
                  [gen |-> thread[c].rows, ver |-> table.ver, recent |-> TRUE]]
  /\ \E at \in Compute(c) : Go(c, at)
  /\ UNCHANGED <<table, acked, l1, mapped, l2, queue>>

\* _preview_canonical_store: under a key made now, without the SQL; a stored
\* preview that has as many rows stays, and one found on the volume is put
\* into memory.
StoreCanon(c) ==
  LET r == Home[c]
      k == <<"canon", table.ver>>
      there == IF l1[r][k] # None THEN l1[r][k] ELSE IF L2On THEN l2[k] ELSE None
  IN /\ thread[c].at = "canon"
     /\ Go(c, "store")
     /\ \/ Put(r, k, thread[c].rows) /\ Publish(r, k, thread[c].rows)
        \/ there # None /\ Put(r, k, there) /\ UNCHANGED <<l2, queue>>
     /\ UNCHANGED <<table, acked, handle, mapped>>

Store(c) ==
  LET r == Home[c]
  IN /\ thread[c].at = "store"
     /\ Put(r, Own(c), thread[c].rows) /\ Publish(r, Own(c), thread[c].rows)
     /\ mapped' = [mapped EXCEPT ![r] = @ \union {Own(c)}]
     /\ Done(c)
     /\ UNCHANGED <<table, acked, handle>>

\* The worker of the write-out queue.
WriteOut(r) ==
  /\ queue[r] # <<>>
  /\ l2' = [l2 EXCEPT ![Head(queue[r]).key] = Head(queue[r]).rows]
  /\ queue' = [queue EXCEPT ![r] = Tail(@)]
  /\ UNCHANGED <<table, acked, handle, l1, mapped, thread>>

-----------------------------------------------------------------------------
(* execute_write(): the table, then each cache.                            *)

\* An overwrite drops the table and creates it again, at version 0.
Write(c, how) ==
  /\ Free(c) /\ how # "commit" /\ table.gen < MaxGen
  /\ table' = IF how = "overwrite"
              THEN [gen |-> table.gen + 1, ver |-> 0, base |-> table.gen + 1]
              ELSE [table EXCEPT !.gen = @ + 1, !.ver = @ + 1]
  /\ thread' = [thread EXCEPT ![c] = [Idle EXCEPT !.at = "unhandle", !.rows = table.gen + 1]]
  /\ UNCHANGED <<acked, caches>>

EvictHandle(c) ==
  /\ thread[c].at = "unhandle"
  /\ handle' = [handle EXCEPT ![Home[c]] = None]
  /\ Go(c, "unl1")
  /\ UNCHANGED <<table, acked, l1, mapped, l2, queue>>

\* The entries whose SQL is known to name the table.
EvictL1(c) ==
  LET r == Home[c]
  IN /\ thread[c].at = "unl1"
     /\ l1' = [l1 EXCEPT ![r] = [k \in Key |-> IF k \in mapped[r] THEN None ELSE @[k]]]
     /\ mapped' = [mapped EXCEPT ![r] = {}]
     /\ Go(c, IF L2On THEN "flush" ELSE "unl2")
     /\ UNCHANGED <<table, acked, handle, l2, queue>>

\* Its own replica's queue is drained first, or five seconds have passed.
Flush(c) ==
  /\ thread[c].at = "flush"
  /\ Go(c, "unl2")
  /\ UNCHANGED <<table, acked, caches>>

\* drop_for_table: entries that name the table; when there is none, entries
\* that name no tables.
EvictL2(c) ==
  LET named == {k \in Key : l2[k] # None /\ k[1] # "canon"}
      unnamed == {k \in Key : l2[k] # None /\ k[1] = "canon"}
  IN /\ thread[c].at = "unl2"
     /\ l2' = [k \in Key |-> IF k \in (IF named # {} THEN named ELSE unnamed) THEN None ELSE l2[k]]
     /\ acked' = IF thread[c].rows > acked THEN thread[c].rows ELSE acked
     /\ Done(c)
     /\ UNCHANGED <<table, handle, l1, mapped, queue>>

-----------------------------------------------------------------------------
(* The table's own writers, and time.                                      *)

\* An ETL job commits: the version token moves on, and nobody is told.
Commit ==
  /\ "commit" \in Change /\ table.gen < MaxGen
  /\ table' = [table EXCEPT !.gen = @ + 1, !.ver = @ + 1]
  /\ acked' = table.gen + 1
  /\ UNCHANGED <<caches, thread>>

\* version_check_interval and dataset_cache_ttl have passed.
CheckEnds(r) ==
  /\ handle[r] # None /\ handle[r].recent
  /\ handle' = [handle EXCEPT ![r].recent = FALSE]
  /\ UNCHANGED <<table, acked, l1, mapped, l2, queue, thread>>

HandleEnds(r) ==
  /\ handle[r] # None
  /\ handle' = [handle EXCEPT ![r] = None]
  /\ UNCHANGED <<table, acked, l1, mapped, l2, queue, thread>>

\* A result's TTL has passed: it is dropped on sight.
L1Ends(r, k) ==
  /\ l1[r][k] # None
  /\ l1' = [l1 EXCEPT ![r][k] = None]
  /\ mapped' = [mapped EXCEPT ![r] = @ \ {k}]
  /\ UNCHANGED <<table, acked, handle, l2, queue, thread>>

L2Ends(k) ==
  /\ l2[k] # None
  /\ l2' = [l2 EXCEPT ![k] = None]
  /\ UNCHANGED <<table, acked, handle, l1, mapped, queue, thread>>

-----------------------------------------------------------------------------
ReadStep(c) == \/ LookL1(c) \/ LookL2(c) \/ Warm(c)
               \/ Open(c) \/ Tag(c) \/ StoreCanon(c) \/ Store(c)
WriteStep(c) == EvictHandle(c) \/ EvictL1(c) \/ Flush(c) \/ EvictL2(c)
Expiry(r) == CheckEnds(r) \/ HandleEnds(r) \/ \E k \in Key : L1Ends(r, k)

Next == \/ \E c \in Client : \/ \E q \in Query : Ask(c, q)
                             \/ \E how \in Change : Write(c, how)
                             \/ ReadStep(c) \/ WriteStep(c)
        \/ \E r \in Replica : WriteOut(r) \/ Expiry(r)
        \/ \E k \in Key : L2Ends(k)
        \/ Commit

Spec == Init /\ [][Next]_vars

\* Threads and the write-out go on, and whatever is cached ends some time.
FairSpec ==
  /\ Spec
  /\ \A c \in Client : WF_vars(ReadStep(c) \/ WriteStep(c))
  /\ \A r \in Replica : /\ WF_vars(WriteOut(r)) /\ WF_vars(CheckEnds(r))
                        /\ WF_vars(HandleEnds(r))
                        /\ \A k \in Key : WF_vars(L1Ends(r, k))
  /\ \A k \in Key : WF_vars(L2Ends(k))

-----------------------------------------------------------------------------
(* Properties.                                                             *)

\* "a read of the written table cached before the write must never be served
\* after it (the never-stale rule)" (execute_write), and a commit
\* "invalidate[s] a cached result IMMEDIATELY" (_throttled_version).
NoStaleHit == \A c \in Client : thread[c].at = "hit" => thread[c].rows >= thread[c].floor

\* The caches heal by themselves: once the table stops changing, nothing old is
\* left in any of them, for good, however they fed each other before.
Current(rows) == rows \in {None, table.gen}
StaleEnds ==
  <>[](/\ \A k \in Key : Current(l2[k]) /\ \A r \in Replica : Current(l1[r][k])
       /\ \A r \in Replica : handle[r] # None => Current(handle[r].gen))
=============================================================================
