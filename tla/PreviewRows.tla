------------------------------- MODULE PreviewRows -------------------------------
(***************************************************************************)
(* sql-handler engine.py: how many rows a bare preview (SELECT .. FROM t   *)
(* LIMIT n) gets, from query_duckdb's exact entry, from the one canonical  *)
(* entry that previews of every limit share, from the first data file, or  *)
(* from the query itself.  Which rows they are, and of which version, is   *)
(* ResultCache's matter: here the table rests.                             *)
(***************************************************************************)
EXTENDS Integers, FiniteSetsExt

CONSTANTS Thread, Replica, ReplicaOf, None,
          Canon,      \* the canonical key: without LIMIT, limit and cap
          Ask,        \* requests: the LIMIT n of the SQL, the call's limit and row_cap
          TableRows,  \* rows of the table
          FirstRows,  \* rows of its first data file
          MaxRows     \* SQLHANDLER_MAX_ROWS, 0 for no cap

\* What is assumed of the constants.
Parameters ==
  /\ Ask \subseteq [n : Nat, limit : Nat \union {None}, cap : Nat \union {None}]
  /\ Ask # {} /\ None \notin Nat
  /\ ReplicaOf \in [Thread -> Replica] /\ Canon \notin Ask
  /\ TableRows \in Nat /\ FirstRows \in 0..TableRows /\ MaxRows \in Nat

VARIABLES
  at,    \* thread -> what its request does next
  ask,   \* thread -> what it was asked
  rows,  \* thread -> the number of rows in its hands
  l1,    \* replica -> key -> the rows of the entry in its memory, or None
  l2     \* key -> the rows of the entry on the shared volume, or None

vars == <<at, ask, rows, l1, l2>>

\* An exact key is the request itself.
Key == Ask \union {Canon}
Rows == 0..TableRows
Steps == {"idle", "exact", "canon", "read", "compare", "keep", "store", "job", "answered"}

TypeOK ==
  /\ at \in [Thread -> Steps] /\ ask \in [Thread -> Ask] /\ rows \in [Thread -> Rows]
  /\ l1 \in [Replica -> [Key -> Rows \union {None}]] /\ l2 \in [Key -> Rows \union {None}]

Init ==
  /\ at = [t \in Thread |-> "idle"] /\ ask = [t \in Thread |-> CHOOSE a \in Ask : TRUE]
  /\ rows = [t \in Thread |-> 0]
  /\ l1 = [r \in Replica |-> [k \in Key |-> None]] /\ l2 = [k \in Key |-> None]

-----------------------------------------------------------------------------
(* Counting.                                                               *)

Given(x) == {x} \ {None}
Positive(x) == Given(x) \ {0}

\* The cap on a request: its own, or the server's.
Cap(a) == IF a.cap # None THEN a.cap ELSE MaxRows

\* What is asked of the canonical entry (eff_ask).
EffAsk(a) == Min({a.n} \union Given(a.limit) \union (IF Positive(a.cap) # {} THEN Positive(a.cap) ELSE Positive(MaxRows)))

\* The first rows of the first file, cut to the caps (eff_cap: 0 cuts nothing).
Least(a) == Min({a.n, FirstRows})
EffCap(a) == IF Cap(a) > 0 THEN Min({Cap(a)} \union Given(a.limit))
             ELSE IF a.limit # None THEN a.limit ELSE 0
FastRows(a) == Min({Least(a)} \union Positive(EffCap(a)))

\* QueryJob._run: the query with its LIMIT, under the limit and the cap.
JobRows(a) == Min({a.n, TableRows} \union Given(a.limit) \union Positive(Cap(a)))

-----------------------------------------------------------------------------
(* Steps of a request, one at a time in its thread.                        *)

To(t, step) == at' = [at EXCEPT ![t] = step]
R(t) == ReplicaOf[t]
Answer(t, n) == To(t, "answered") /\ rows' = [rows EXCEPT ![t] = n]

\* _result_cache_lookup: memory, then the volume, whose entry is kept in memory.
Found(t, k) == IF l1[R(t)][k] # None THEN l1[R(t)][k] ELSE l2[k]
Warm(t, k) == l1' = [l1 EXCEPT ![R(t)][k] = Found(t, k)]

Call(t) == \E a \in Ask :
  /\ at[t] = "idle" /\ To(t, "exact") /\ ask' = [ask EXCEPT ![t] = a] /\ UNCHANGED <<rows, l1, l2>>

ExactLookup(t) ==
  /\ at[t] = "exact" /\ Warm(t, ask[t]) /\ UNCHANGED <<ask, l2>>
  /\ \/ Found(t, ask[t]) # None /\ Answer(t, Found(t, ask[t]))
     \/ Found(t, ask[t]) = None /\ To(t, "canon") /\ UNCHANGED rows

\* Seeded bug: a shorter entry is taken for a complete table.
EnoughIfThere(t) == Found(t, Canon) # None

\* An entry is enough that has the rows asked for; it may be a small table's or a
\* larger one's, so a shorter one is no answer.
Enough(t) == Found(t, Canon) # None /\ Found(t, Canon) >= EffAsk(ask[t])

\* A request for as much as the cap allows does not look.
WholeCap(a) == Cap(a) > 0 /\ EffAsk(a) >= Cap(a)

SupersedeLookup(t) ==
  /\ at[t] = "canon" /\ UNCHANGED <<ask, l2>>
  /\ \/ WholeCap(ask[t]) /\ To(t, "read") /\ UNCHANGED <<rows, l1>>
     \/ ~WholeCap(ask[t]) /\ Warm(t, Canon) /\ Enough(t) /\ Answer(t, Min({EffAsk(ask[t]), Found(t, Canon)}))
     \/ ~WholeCap(ask[t]) /\ Warm(t, Canon) /\ ~Enough(t) /\ To(t, "read") /\ UNCHANGED rows

\* The read of the first file fails over to the query.
FastPath(t) ==
  /\ at[t] = "read" /\ UNCHANGED <<ask, l1, l2>>
  /\ \/ To(t, "compare") /\ rows' = [rows EXCEPT ![t] = FastRows(ask[t])]
     \/ To(t, "job") /\ UNCHANGED rows

\* _preview_canonical_store looks first: a smaller result displaces no larger one ..
Compare(t) ==
  /\ at[t] = "compare" /\ Warm(t, Canon) /\ UNCHANGED <<ask, rows, l2>>
  /\ To(t, IF Found(t, Canon) # None /\ Found(t, Canon) >= rows[t] THEN "store" ELSE "keep")

\* _result_cache_store: memory and, when it is large enough for it, the volume.
Store(t, k, shared) ==
  /\ l1' = [l1 EXCEPT ![R(t)][k] = rows'[t]]
  /\ l2' = IF shared THEN [l2 EXCEPT ![k] = rows'[t]] ELSE l2

\* .. and then stores, which another thread may have done meanwhile.
Keep(t) == at[t] = "keep" /\ UNCHANGED <<ask, rows>> /\ Store(t, Canon, TRUE) /\ To(t, "store")

StoreExact(t) == at[t] = "store" /\ Answer(t, rows[t]) /\ Store(t, ask[t], TRUE) /\ UNCHANGED ask

RunJob(t) == \E shared \in BOOLEAN :
  at[t] = "job" /\ Answer(t, JobRows(ask[t])) /\ Store(t, ask[t], shared) /\ UNCHANGED ask

\* Entries age out, make room for others, and are evicted.
Drop == /\ UNCHANGED <<at, ask, rows>>
        /\ \E k \in Key : \/ \E r \in Replica : l1[r][k] # None /\ l1' = [l1 EXCEPT ![r][k] = None] /\ UNCHANGED l2
                          \/ l2[k] # None /\ l2' = [l2 EXCEPT ![k] = None] /\ UNCHANGED l1

Step(t) == \/ Call(t) \/ ExactLookup(t) \/ SupersedeLookup(t) \/ FastPath(t)
           \/ Compare(t) \/ Keep(t) \/ StoreExact(t) \/ RunJob(t)

Next == Drop \/ \E t \in Thread : Step(t)

Spec == Init /\ [][Next]_vars

-----------------------------------------------------------------------------
(* Property.                                                               *)

\* What a request comes to by itself, of a table with so many rows.
Due(a, available) == Min({available, a.n} \union Given(a.limit) \union Positive(Cap(a)))

\* Whatever other requests left in the shared entry, under other limits and caps and
\* in whatever order: an answer has the rows that its own request is due, no more, and
\* fewer only as the first file has fewer (query_duckdb 3806-3816).
AnswerIsDue ==
  \A t \in Thread : at[t] = "answered" =>
    rows[t] \in Due(ask[t], FirstRows)..Due(ask[t], TableRows)
=============================================================================
