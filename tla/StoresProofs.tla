------------------------------ MODULE StoresProofs ------------------------------
(***************************************************************************)
(* Proofs about SavedNames, for any names, any way to sanitize them and    *)
(* any cap; about WebJobs, for any threads and any cap; about AdminKeys    *)
(* and SavedQueries, for any replicas, threads and requests; about         *)
(* PreviewRows, for any table, any caps and any requests; and about        *)
(* WriteLease, for any writes, processes, hosts and number of attempts.    *)
(***************************************************************************)
EXTENDS Stores, SequenceTheorems, FiniteSetTheorems, TLAPS

\* What holds between calls: every store is as the program makes it, and the one
\* behind the path holds what the file says.
IInv ==
  /\ TypeOK
  /\ Good(memory)
  /\ cached # None => Good(cached) /\ cached.entries = Told(file)
  /\ file # None => Kept(file)

\* An empty store is one as the program makes it.
LEMMA FreshGood == Fresh \in Store /\ Good(Fresh)
  BY DEF Fresh, Store, Entries, NoEntries, Good, Kept

\* A file that the program wrote is loaded as such a store.
LEMMA LoadGood ==
  ASSUME Parameters, NEW f \in Entries \union {None}, f # None => Kept(f)
  PROVE  Load(f) \in Store /\ Good(Load(f)) /\ Load(f).entries = Told(f)
  <1> DEFINE e == Told(f)
  <1>1. e \in Entries /\ Kept(e)
    BY DEF Told, Entries, NoEntries, Kept
  <1>2. \A n \in Name : RebuildAliases(e)[n] # None => RebuildAliases(e)[n] \in Name /\ Aliased(e, n, RebuildAliases(e)[n])
    BY DEF RebuildAliases
  <1>3. \A n \in Name : RebuildAliases(e)[n] # None => RebuildAliases(e)[n] = Clean[n]
    BY <1>1, <1>2 DEF Aliased, Kept
  <1>4. RebuildAliases(e) \in [Name -> Name \union {None}]
    BY <1>2 DEF RebuildAliases
  <1> QED
    BY <1>1, <1>3, <1>4 DEF Load, Store, Good

\* Such a store stays one when a name is saved in it, or the save undone.
LEMMA SavedGood ==
  ASSUME Parameters, NEW s \in Store, Good(s), NEW n \in Name, NEW q \in Query
  PROVE  /\ Saved(s, n, q) \in Store /\ Good(Saved(s, n, q))
         /\ SaveUndone(s, n, q) \in Store /\ Good(SaveUndone(s, n, q))
         /\ SaveUndone(s, n, q).entries = s.entries
  <1> DEFINE new == [raw |-> n, query |-> q]
             e == [s.entries EXCEPT ![Clean[n]] = new]
             a == IF n = Clean[n] THEN s.aliases ELSE [s.aliases EXCEPT ![n] = Clean[n]]
  <1>1. new \in Entry /\ new.raw = n /\ Clean[n] \in Name /\ Clean[Clean[n]] = Clean[n]
    BY DEF Entry, Parameters
  <1>2. s.entries \in Entries /\ s.aliases \in [Name -> Name \union {None}]
    BY DEF Store
  <1>3. e \in Entries /\ a \in [Name -> Name \union {None}]
    BY <1>1, <1>2 DEF Entries
  <1>4. \A k \in Name : e[k] = IF k = Clean[n] THEN new ELSE s.entries[k]
    BY <1>2 DEF Entries
  <1>5. Kept(e)
    <2> SUFFICES ASSUME NEW k \in Name, e[k] # None PROVE Clean[k] = k /\ Clean[e[k].raw] = k
      BY DEF Kept
    <2>1. CASE k = Clean[n]
      BY <2>1, <1>1, <1>4
    <2>2. CASE k # Clean[n]
      BY <2>2, <1>4 DEF Good, Kept
    <2> QED
      BY <2>1, <2>2
  <1>6. \A m \in Name : a[m] # None => a[m] = Clean[m]
    BY <1>2 DEF Good
  <1>7. Saved(s, n, q) = [entries |-> e, aliases |-> a] /\ SaveUndone(s, n, q) = [entries |-> s.entries, aliases |-> a]
    BY DEF Saved, SaveUndone
  <1>8. Kept(s.entries)
    BY DEF Good
  <1> HIDE DEF e, a
  <1>9. Saved(s, n, q) \in Store /\ Good(Saved(s, n, q))
    BY <1>3, <1>5, <1>6, <1>7 DEF Store, Good
  <1>10. SaveUndone(s, n, q) \in Store /\ Good(SaveUndone(s, n, q))
    BY <1>2, <1>3, <1>6, <1>7, <1>8 DEF Store, Good
  <1> QED
    BY <1>7, <1>9, <1>10

\* And when what a name leads to is deleted from it.
LEMMA DeletedGood ==
  ASSUME Parameters, NEW s \in Store, Good(s), NEW n \in Name, Lead(s, n) # None
  PROVE  Deleted(s, n) \in Store /\ Good(Deleted(s, n))
  <1> DEFINE k == Lead(s, n)
             e == [s.entries EXCEPT ![k] = None]
  <1>1. s.entries \in Entries /\ s.aliases \in [Name -> Name \union {None}]
    BY DEF Store
  <1>2. \A m \in Name : e[m] = IF m = k THEN None ELSE s.entries[m]
    BY <1>1 DEF Entries
  <1>3. e \in Entries /\ Kept(e)
    BY <1>1, <1>2 DEF Entries, Good, Kept
  <1>4. Deleted(s, n) = [entries |-> e, aliases |-> s.aliases]
    BY <1>1 DEF Deleted, Store
  <1> HIDE DEF e, k
  <1> QED
    BY <1>1, <1>3, <1>4 DEF Store, Good

\* In such a store a name leads to the entry under its sanitized form.
LEMMA GetIs ==
  ASSUME Parameters, NEW s \in Store, Good(s), NEW n \in Name
  PROVE  Get(s, n) = s.entries[Clean[n]]
  <1>1. Clean[n] \in Name /\ Clean[Clean[n]] = Clean[n] /\ None \notin Name
    BY DEF Parameters
  <1>2. CASE s.entries[n] # None
    BY <1>1, <1>2 DEF Get, Lead, Good, Kept
  <1>3. CASE s.entries[n] = None /\ s.entries[Clean[n]] # None
    BY <1>1, <1>3 DEF Get, Lead
  <1>4. CASE s.entries[n] = None /\ s.entries[Clean[n]] = None
    BY <1>1, <1>4 DEF Get, Lead, Good
  <1> QED
    BY <1>2, <1>3, <1>4

\* A change of the configured store to a good one, or back to one with the same
\* entries, keeps the invariant.
LEMMA ChangeKeeps ==
  ASSUME Parameters, IInv, NEW good \in Store, NEW undone \in Store,
         Good(good), Good(undone), undone.entries = Current.entries, Change(good, undone)
  PROVE  IInv'
  <1>1. good.entries \in Entries /\ Kept(good.entries)
    BY DEF Store, Good
  <1>2. CASE path /\ cached' = good /\ file' = good.entries /\ UNCHANGED <<memory, path>>
    <2>1. good.entries # None
      BY <1>1 DEF Parameters
    <2> QED
      BY <1>1, <1>2, <2>1 DEF IInv, TypeOK, Told
  <1>3. CASE path /\ cached' = undone /\ UNCHANGED <<memory, path, file>>
    <2>1. Current.entries = Told(file)
      BY <1>3, LoadGood DEF Current, FileStore, IInv, TypeOK
    <2> QED
      BY <1>3, <2>1 DEF IInv, TypeOK
  <1>4. CASE ~path /\ memory' = good /\ UNCHANGED <<cached, path, file>>
    BY <1>4 DEF IInv, TypeOK
  <1> QED
    BY <1>2, <1>3, <1>4 DEF Change

\* The configured store is as the program makes it.
LEMMA CurrentGood ==
  ASSUME Parameters, IInv
  PROVE  /\ Current \in Store /\ Good(Current)
         /\ FileStore \in Store /\ Good(FileStore) /\ FileStore.entries = Told(file)
  <1>1. FileStore \in Store /\ Good(FileStore) /\ FileStore.entries = Told(file)
    BY LoadGood DEF FileStore, IInv, TypeOK
  <1> QED
    BY <1>1 DEF Current, IInv, TypeOK

LEMMA InitKeeps == Parameters /\ Init => IInv
  <1> SUFFICES ASSUME Parameters, Init PROVE IInv
    OBVIOUS
  <1>1. ASSUME NEW n \in Name, NEW q \in Query, file = [NoEntries EXCEPT ![Clean[n]] = [raw |-> n, query |-> q]]
        PROVE  file \in Entries /\ Kept(file)
    <2>1. Clean[n] \in Name /\ Clean[Clean[n]] = Clean[n] /\ [raw |-> n, query |-> q] \in Entry
      BY DEF Parameters, Entry
    <2>2. NoEntries \in Entries
      BY DEF NoEntries, Entries
    <2>3. \A k \in Name : file[k] = IF k = Clean[n] THEN [raw |-> n, query |-> q] ELSE None
      BY <1>1, <2>1 DEF NoEntries
    <2>4. file \in Entries
      BY <1>1, <2>1, <2>2 DEF Entries
    <2> QED
      BY <2>1, <2>3, <2>4 DEF Kept
  <1>2. file # None => \E n \in Name, q \in Query : file = [NoEntries EXCEPT ![Clean[n]] = [raw |-> n, query |-> q]]
    BY DEF Init
  <1>3. file \in Entries \union {None} /\ (file # None => Kept(file))
    BY <1>1, <1>2
  <1> QED
    BY <1>3, FreshGood DEF Init, IInv, TypeOK

LEMMA StepKeeps == Parameters /\ IInv /\ [Next]_vars => IInv'
  <1> SUFFICES ASSUME Parameters, IInv, [Next]_vars PROVE IInv'
    OBVIOUS
  <1>1. ASSUME NEW n \in Name, NEW q \in Query, Save(n, q) PROVE IInv'
    BY <1>1, CurrentGood, SavedGood, ChangeKeeps DEF Save
  <1>2. ASSUME NEW n \in Name, Delete(n) PROVE IInv'
    BY <1>2, CurrentGood, DeletedGood, ChangeKeeps DEF Delete, DeleteUndone
  <1>3. CASE Look
    BY <1>3, CurrentGood DEF Look, IInv, TypeOK
  <1>4. CASE SetPath
    BY <1>4 DEF SetPath, IInv, TypeOK
  <1>5. CASE Repoint
    BY <1>5 DEF Repoint, IInv, TypeOK
  <1>6. CASE Restart
    BY <1>6, FreshGood DEF Restart, IInv, TypeOK
  <1>7. CASE UNCHANGED vars
    BY <1>7 DEF vars, IInv, TypeOK
  <1> QED
    BY <1>1, <1>2, <1>3, <1>4, <1>5, <1>6, <1>7 DEF Next

\* Both stores, the path and the file keep their types, for any names and any cap
\* (SavedQueryStore, get_store).
THEOREM TypeCorrect == ASSUME Parameters PROVE Spec => []TypeOK
  <1>1. IInv => TypeOK
    BY DEF IInv
  <1> QED
    BY <1>1, InitKeeps, StepKeeps, PTL DEF Spec

\* A restart changes no answer, and neither does the spelling of a name: through
\* failed writes, overwrites and changes of the path, for any names, any idempotent
\* way to sanitize them and any cap (save, delete, _load, _name_candidates).
THEOREM RestartSafe == ASSUME Parameters PROVE Spec => []RestartChangesNothing
  <1>1. ASSUME IInv PROVE RestartChangesNothing
    <2> SUFFICES ASSUME cached # None, NEW n \in Name PROVE Get(cached, n) = Get(Load(file), Clean[n])
      BY DEF RestartChangesNothing
    <2>1. Clean[n] \in Name /\ Clean[Clean[n]] = Clean[n]
      BY DEF Parameters
    <2>2. cached \in Store /\ Good(cached) /\ cached.entries = Told(file)
      BY <1>1 DEF IInv, TypeOK
    <2>3. Load(file) \in Store /\ Good(Load(file)) /\ Load(file).entries = Told(file)
      BY <1>1, LoadGood DEF IInv, TypeOK
    <2>4. Get(cached, n) = Told(file)[Clean[n]]
      BY <2>2, GetIs
    <2>5. Get(Load(file), Clean[n]) = Told(file)[Clean[n]]
      BY <2>1, <2>3, GetIs
    <2> QED
      BY <2>4, <2>5
  <1>2. IInv => RestartChangesNothing
    BY <1>1
  <1> QED
    BY <1>2, InitKeeps, StepKeeps, PTL DEF Spec

-----------------------------------------------------------------------------
(* WebJobs.                                                                *)

\* WebJobs counts as this module does.
LEMMA WebCounts ==
  ASSUME NEW A
  PROVE  (W!IsFiniteSet(A) <=> IsFiniteSet(A)) /\ W!Cardinality(A) = Cardinality(A)
  <1>1. W!IsFiniteSet(A) <=> IsFiniteSet(A)
    BY DEF W!IsFiniteSet, IsFiniteSet
  <1>2. W!Cardinality(A) = Cardinality(A)
    BY DEF W!Cardinality, Cardinality
  <1> QED
    BY <1>1, <1>2

\* The registry is a sequence of keys.
RegistryTyped == jobs \in Seq(Id) /\ W!IsInjective(jobs)

LEMMA PutKey ==
  ASSUME RegistryTyped, NEW i \in Id
  PROVE  /\ W!Put(i) \in Seq(Id) /\ W!IsInjective(W!Put(i))
         /\ W!ToSet(W!Put(i)) = W!Tracked \union {i}
  <1>1. CASE i \in W!Tracked
    BY <1>1 DEF RegistryTyped, W!Put, W!Tracked
  <1>2. CASE i \notin W!Tracked
    <2> DEFINE s == Append(jobs, i)
               n == Len(jobs)
    <2>1. n \in Nat /\ DOMAIN jobs = 1..n /\ jobs \in Seq(Id) /\ \A m \in 1..n : jobs[m] # i
      BY <1>2, LenProperties DEF RegistryTyped, W!Tracked, W!ToSet
    <2>2. /\ s \in Seq(Id) /\ Len(s) = n + 1 /\ s[n + 1] = i
          /\ \A m \in 1..n : s[m] = jobs[m]
      BY <2>1, AppendProperties
    <2>3. DOMAIN s = 1..n + 1
      BY <2>2, LenProperties
    <2>4. W!Put(i) = s
      BY <1>2 DEF W!Put
    <2> HIDE DEF s, n
    <2>5. W!IsInjective(s)
      BY <2>1, <2>2, <2>3 DEF W!IsInjective, RegistryTyped
    <2>6. W!ToSet(s) = W!Tracked \union {i}
      BY <2>1, <2>2, <2>3 DEF W!ToSet, W!Tracked
    <2> QED
      BY <2>2, <2>4, <2>5, <2>6
  <1> QED
    BY <1>1, <1>2

LEMMA RemoveKey ==
  ASSUME RegistryTyped, NEW i \in Id
  PROVE  /\ W!Removed(i) \in Seq(Id) /\ W!IsInjective(W!Removed(i))
         /\ W!ToSet(W!Removed(i)) = W!Tracked \ {i}
  <1>1. CASE i \notin W!Tracked
    BY <1>1 DEF RegistryTyped, W!Removed, W!Tracked
  <1>2. CASE i \in W!Tracked
    <2> DEFINE k == CHOOSE k \in DOMAIN jobs : jobs[k] = i
               s == W!RemoveAt(jobs, k)
    <2>1. k \in 1..Len(jobs) /\ jobs[k] = i /\ Len(jobs) \in Nat
      BY <1>2 DEF W!Tracked, W!ToSet, RegistryTyped
    <2>2. W!Removed(i) = s
      BY <1>2 DEF W!Removed
    <2> HIDE DEF k
    <2>3. /\ s \in Seq(Id) /\ Len(s) = Len(jobs) - 1 /\ DOMAIN s = 1..Len(jobs) - 1
          /\ \A m \in 1..Len(jobs) - 1 : s[m] = IF m < k THEN jobs[m] ELSE jobs[m + 1]
      <3> DEFINE head == SubSeq(jobs, 1, k - 1)
                 tail == SubSeq(jobs, k + 1, Len(jobs))
                 n == Len(jobs)
      <3>1. n \in Nat /\ k \in 1..n /\ \A m \in 1..n : jobs[m] \in Id
        BY <2>1, LenProperties DEF RegistryTyped
      <3>2. /\ head \in Seq(Id) /\ Len(head) = k - 1
            /\ \A m \in 1..k - 1 : head[m] = jobs[m]
        <4>1. 1 \in Int /\ k - 1 \in Int /\ (\A m \in 1..k - 1 : jobs[m] \in Id)
          BY <3>1
        <4>2. /\ head \in Seq(Id) /\ Len(head) = IF 1 <= k - 1 THEN (k - 1) - 1 + 1 ELSE 0
              /\ \A m \in 1..(k - 1) - 1 + 1 : head[m] = jobs[1 + m - 1]
          BY <4>1, SubSeqProperties
        <4> HIDE DEF head, n
        <4> QED
          BY <3>1, <4>2
      <3>3. /\ tail \in Seq(Id) /\ Len(tail) = n - k
            /\ \A m \in 1..n - k : tail[m] = jobs[k + m]
        <4>1. k + 1 \in Int /\ n \in Int /\ (\A m \in k + 1..n : jobs[m] \in Id)
          BY <3>1
        <4>2. /\ tail \in Seq(Id) /\ Len(tail) = IF k + 1 <= n THEN n - (k + 1) + 1 ELSE 0
              /\ \A m \in 1..n - (k + 1) + 1 : tail[m] = jobs[(k + 1) + m - 1]
          BY <4>1, SubSeqProperties
        <4> HIDE DEF tail, n
        <4> QED
          BY <3>1, <4>2
      <3> HIDE DEF head, tail
      <3>4. /\ head \o tail \in Seq(Id) /\ Len(head \o tail) = Len(head) + Len(tail)
            /\ \A m \in 1..Len(head) + Len(tail) :
                  (head \o tail)[m] = IF m <= Len(head) THEN head[m] ELSE tail[m - Len(head)]
        BY <3>2, <3>3, ConcatProperties
      <3>5. s = head \o tail
        BY DEF head, tail, W!RemoveAt
      <3> HIDE DEF s, n
      <3>6. s \in Seq(Id) /\ Len(s) = n - 1
        BY <3>1, <3>2, <3>3, <3>4, <3>5
      <3>7. ASSUME NEW m \in 1..n - 1 PROVE s[m] = IF m < k THEN jobs[m] ELSE jobs[m + 1]
        <4>1. CASE m < k
          BY <3>1, <3>2, <3>3, <3>4, <3>5, <4>1
        <4>2. CASE m >= k
          <5>1. m - (k - 1) \in 1..n - k /\ k + (m - (k - 1)) = m + 1
            BY <3>1, <4>2
          <5> QED
            BY SMTT(30), <3>1, <3>2, <3>3, <3>4, <3>5, <4>2, <5>1
        <4> QED
          BY <3>1, <4>1, <4>2
      <3> QED
        BY <3>1, <3>6, <3>7, LenProperties DEF n
    <2>4. W!IsInjective(s)
      <3> SUFFICES ASSUME NEW a \in 1..Len(jobs) - 1, NEW b \in 1..Len(jobs) - 1, s[a] = s[b]
                   PROVE  a = b
        BY <2>3 DEF W!IsInjective
      <3>1. \A c, d \in 1..Len(jobs) : jobs[c] = jobs[d] => c = d
        BY LenProperties DEF RegistryTyped, W!IsInjective
      <3> QED
        BY <2>1, <2>3, <3>1
    <2>5. W!ToSet(s) \subseteq W!Tracked \ {i}
      <3> SUFFICES ASSUME NEW m \in 1..Len(jobs) - 1 PROVE s[m] \in W!Tracked \ {i}
        BY <2>3 DEF W!ToSet
      <3>1. DOMAIN jobs = 1..Len(jobs) /\ \A c, d \in 1..Len(jobs) : jobs[c] = jobs[d] => c = d
        BY LenProperties DEF RegistryTyped, W!IsInjective
      <3> DEFINE l == IF m < k THEN m ELSE m + 1
      <3>2. l \in 1..Len(jobs) /\ l # k /\ s[m] = jobs[l]
        BY <2>1, <2>3
      <3> HIDE DEF l
      <3> QED
        BY <2>1, <3>1, <3>2 DEF W!ToSet, W!Tracked
    <2>6. ASSUME NEW j \in W!Tracked \ {i} PROVE j \in W!ToSet(s)
      <3>1. PICK m \in 1..Len(jobs) : jobs[m] = j
        BY DEF W!ToSet, W!Tracked, RegistryTyped
      <3>2. CASE m < k
        BY <2>1, <2>3, <3>1, <3>2 DEF W!ToSet
      <3>3. CASE m > k
        <4>1. m - 1 \in 1..Len(s) /\ s[m - 1] = j
          BY <2>1, <2>3, <3>1, <3>3
        <4> QED
          BY <2>3, <4>1 DEF W!ToSet
      <3> QED
        BY <2>1, <3>1, <3>2, <3>3
    <2> QED
      BY <2>2, <2>3, <2>4, <2>5, <2>6
  <1> QED
    BY <1>1, <1>2

\* There are no more keys than places.
LEMMA TrackedCount ==
  ASSUME RegistryTyped
  PROVE  IsFiniteSet(W!Tracked) /\ Cardinality(W!Tracked) <= Len(jobs)
  <1>1. Len(jobs) \in Nat /\ jobs \in [1..Len(jobs) -> W!Tracked]
    BY DEF RegistryTyped, W!Tracked, W!ToSet
  <1>2. jobs \in Surjection(1..Len(jobs), W!Tracked)
    BY <1>1 DEF Surjection, W!Tracked, W!ToSet
  <1>3. IsFiniteSet(1..Len(jobs)) /\ Cardinality(1..Len(jobs)) = Len(jobs)
    BY <1>1, FS_Interval
  <1> QED
    BY <1>2, <1>3, FS_Surjection

\* Of the registry: no entry's query is yet to start, and a finished entry's is over.
\* What a thread ages is over; a thread has an id between the start and the entry.
WebInv ==
  /\ RegistryTyped /\ W!TypeOK
  /\ \A i \in W!Tracked : query[i] # "none" /\ (i \in ended => query[i] = "over")
  /\ \A t \in Page : atW[t] = "age" => \A i \in todo[t] : query[i] = "over"
  /\ \A t \in Page : atW[t] = "register" => id[t] \in Id /\ query[id[t]] # "none"
  /\ \A t \in Page : atW[t] # "register" => id[t] = None
  /\ \A i \in Id : query[i] = "running" => i \in W!Tracked \/ \E t \in Page : id[t] = i

\* Queries that the registry holds and that run, and threads that are past the
\* check of the cap: together they are too few to break the bound.
Counted == {i \in W!Tracked : query[i] = "running"}
Coming == {t \in Page : atW[t] \in {"gate", "register"}}
NotTooMany == Cardinality(Counted) + Cardinality(Coming) < MaxJobs + Cardinality(Page)

\* What the steps leave of the registry.
LEMMA WebPut ==
  ASSUME WebInv, NEW i \in Id, jobs' = W!Put(i)
  PROVE  RegistryTyped' /\ (W!Tracked)' = W!Tracked \union {i}
  BY PutKey DEF WebInv, RegistryTyped, W!Tracked

LEMMA WebRemoved ==
  ASSUME WebInv, NEW i \in Id, jobs' = W!Removed(i)
  PROVE  RegistryTyped' /\ (W!Tracked)' = W!Tracked \ {i}
  BY RemoveKey DEF WebInv, RegistryTyped, W!Tracked

LEMMA WebSame ==
  ASSUME WebInv, UNCHANGED jobs
  PROVE  RegistryTyped' /\ (W!Tracked)' = W!Tracked
  BY DEF WebInv, RegistryTyped, W!Tracked, W!ToSet, W!IsInjective

LEMMA WebKeeps ==
  ASSUME W!Parameters, WebInv, [W!Next]_(W!vars)
  PROVE  WebInv'
  <1> USE DEF W!To, W!Through
  <1>1. /\ atW \in [Page -> W!Steps] /\ id \in [Page -> Id \union {None}] /\ todo \in [Page -> SUBSET Id]
        /\ op \in [Page -> {"submit", "get"}] /\ query \in [Id -> {"none", "running", "over"}]
        /\ W!Tracked \subseteq Id /\ ended \subseteq W!Tracked
    BY DEF WebInv, W!TypeOK
  <1>2. None \notin Id
    BY DEF W!Parameters
  <1> USE DEF W!Steps
  <1>3. ASSUME NEW t \in Page, W!Begin(t) \/ W!Cleaned(t) \/ W!WalkFails(t) \/ W!Check(t) PROVE WebInv'
    BY SMTT(30), <1>1, <1>3, WebSame DEF W!Begin, W!Cleaned, W!WalkFails, W!Check, WebInv, W!TypeOK, RegistryTyped
  <1>4. ASSUME NEW t \in Page, W!Stamp(t) PROVE WebInv'
    BY <1>1, <1>4, WebSame, WebPut DEF W!Stamp, WebInv, W!TypeOK, RegistryTyped
  <1>5. ASSUME NEW t \in Page, W!List(t) PROVE WebInv'
    BY <1>1, <1>5, WebSame DEF W!List, WebInv, W!TypeOK, RegistryTyped
  <1>6. ASSUME NEW t \in Page, W!Age(t) PROVE WebInv'
    BY SMTT(30), <1>1, <1>6, WebRemoved DEF W!Age, WebInv, W!TypeOK, RegistryTyped
  <1>7. ASSUME NEW t \in Page, W!Room(t) PROVE WebInv'
    BY <1>1, <1>7, WebRemoved DEF W!Room, W!OldestDone, WebInv, W!TypeOK, RegistryTyped
  <1>8. ASSUME NEW t \in Page, W!Construct(t) PROVE WebInv'
    BY SMTT(30), <1>1, <1>2, <1>8, WebSame DEF W!Construct, WebInv, W!TypeOK, RegistryTyped
  <1>9. ASSUME NEW t \in Page, W!Register(t) PROVE WebInv'
    BY <1>1, <1>2, <1>9, WebPut DEF W!Register, WebInv, W!TypeOK, RegistryTyped
  <1>10. ASSUME NEW i \in Id, W!End(i) PROVE WebInv'
    BY <1>1, <1>10, WebSame DEF W!End, WebInv, W!TypeOK, RegistryTyped
  <1>11. ASSUME UNCHANGED W!vars PROVE WebInv'
    BY <1>1, <1>11, WebSame DEF W!vars, WebInv, W!TypeOK, RegistryTyped
  <1> QED
    BY <1>3, <1>4, <1>5, <1>6, <1>7, <1>8, <1>9, <1>10, <1>11 DEF W!Next, W!Step

\* Fewer or as many of both are not more together.
LEMMA NoMore ==
  ASSUME NEW A, NEW B, NEW C, NEW D, IsFiniteSet(A), IsFiniteSet(B), C \subseteq A, D \subseteq B
  PROVE  /\ Cardinality(A) \in Nat /\ Cardinality(B) \in Nat
         /\ Cardinality(C) \in Nat /\ Cardinality(D) \in Nat
         /\ Cardinality(C) + Cardinality(D) <= Cardinality(A) + Cardinality(B)
  BY FS_Subset, FS_CardinalityType

LEMMA CrowdKeeps ==
  ASSUME W!Parameters, WebInv, WebInv', NotTooMany, [W!Next]_(W!vars)
  PROVE  NotTooMany'
  <1> USE DEF W!To, W!Through
  <1>1. /\ atW \in [Page -> W!Steps] /\ query \in [Id -> {"none", "running", "over"}]
        /\ W!Tracked \subseteq Id /\ ended \subseteq W!Tracked /\ \A i \in W!Tracked : query[i] # "none"
    BY DEF WebInv, W!TypeOK
  <1>2. /\ IsFiniteSet(Page) /\ Cardinality(Page) \in Nat /\ MaxJobs \in Nat \ {0}
        /\ Coming \subseteq Page /\ Coming' \subseteq Page
    BY WebCounts, FS_CardinalityType DEF W!Parameters, Coming
  <1>3. IsFiniteSet(Coming) /\ IsFiniteSet(Coming')
    BY <1>2, FS_Subset
  <1>4. IsFiniteSet(Counted)
    BY TrackedCount, FS_Subset DEF WebInv, Counted
  <1>5. ASSUME Counted' \subseteq Counted, Coming' \subseteq Coming PROVE NotTooMany'
    <2>1. /\ Cardinality(Counted) \in Nat /\ Cardinality(Coming) \in Nat
          /\ Cardinality(Counted') \in Nat /\ Cardinality(Coming') \in Nat
          /\ Cardinality(Counted') + Cardinality(Coming') <= Cardinality(Counted) + Cardinality(Coming)
      BY <1>3, <1>4, <1>5, NoMore
    <2> QED
      BY <1>2, <2>1 DEF NotTooMany
  <1>6. ASSUME NEW t \in Page,
               W!Begin(t) \/ W!List(t) \/ W!Cleaned(t) \/ W!WalkFails(t)
        PROVE  NotTooMany'
    BY <1>1, <1>5, <1>6, WebSame DEF W!Begin, W!List, W!Cleaned, W!WalkFails, Counted, Coming
  <1>7. ASSUME NEW t \in Page, W!Stamp(t) PROVE NotTooMany'
    <2>1. todo[t] \subseteq Id
      BY DEF WebInv, W!TypeOK
    <2> QED
      BY <1>1, <1>5, <1>7, <2>1, WebSame, WebPut DEF W!Stamp, Counted, Coming
  <1>8. ASSUME NEW t \in Page, W!Age(t) \/ W!Room(t) PROVE NotTooMany'
    <2>1. todo[t] \subseteq Id
      BY DEF WebInv, W!TypeOK
    <2> QED
      BY <1>1, <1>5, <1>8, <2>1, WebRemoved DEF W!Age, W!Room, Counted, Coming
  <1>9. ASSUME NEW t \in Page, W!Check(t) PROVE NotTooMany'
    <2>1. CASE Len(jobs) >= MaxJobs
      BY <1>1, <1>5, <1>9, <2>1, WebSame DEF W!Check, Counted, Coming
    <2>2. CASE ~(Len(jobs) >= MaxJobs)
      <3>1. Counted' \subseteq W!Tracked
        BY <1>9, WebSame DEF W!Check, Counted
      <3>2. IsFiniteSet(W!Tracked) /\ Cardinality(W!Tracked) <= Len(jobs) /\ Len(jobs) \in Nat
        BY TrackedCount, LenProperties DEF WebInv, RegistryTyped
      <3>3. /\ Cardinality(W!Tracked) \in Nat /\ Cardinality(Counted') \in Nat /\ Cardinality(Coming') \in Nat
            /\ Cardinality(Counted') + Cardinality(Coming') <= Cardinality(W!Tracked) + Cardinality(Page)
        BY <1>2, <3>1, <3>2, NoMore
      <3> QED
        BY <1>2, <2>2, <3>2, <3>3 DEF NotTooMany
    <2> QED
      BY <2>1, <2>2
  <1>10. ASSUME NEW t \in Page, W!Construct(t) PROVE NotTooMany'
    BY <1>1, <1>5, <1>10, WebSame DEF W!Construct, Counted, Coming
  <1>11. ASSUME NEW t \in Page, W!Register(t) PROVE NotTooMany'
    <2>1. id[t] \in Id /\ (W!Tracked)' = W!Tracked \union {id[t]} /\ UNCHANGED query
      BY <1>11, WebPut DEF W!Register, WebInv
    <2>2. Counted' \subseteq Counted \union {id[t]}
      BY <2>1 DEF Counted
    <2>3. t \in Coming /\ Coming' \subseteq Coming \ {t}
      BY <1>1, <1>11 DEF W!Register, Coming
    <2>4. /\ IsFiniteSet(Counted \union {id[t]}) /\ IsFiniteSet(Coming \ {t})
          /\ Cardinality(Counted \union {id[t]}) <= Cardinality(Counted) + 1
          /\ Cardinality(Coming \ {t}) = Cardinality(Coming) - 1
          /\ Cardinality(Counted) \in Nat /\ Cardinality(Coming) \in Nat
      <3>1. Cardinality(Counted) \in Nat /\ Cardinality(Coming) \in Nat
        BY <1>3, <1>4, FS_CardinalityType
      <3>2. IsFiniteSet(Counted \union {id[t]}) /\ Cardinality(Counted \union {id[t]}) <= Cardinality(Counted) + 1
        BY <1>4, <3>1, FS_AddElement
      <3>3. IsFiniteSet(Coming \ {t}) /\ Cardinality(Coming \ {t}) = Cardinality(Coming) - 1
        BY <1>3, <2>3, FS_RemoveElement
      <3> QED
        BY <3>1, <3>2, <3>3
    <2>5. /\ Cardinality(Counted \union {id[t]}) \in Nat
          /\ Cardinality(Counted') \in Nat /\ Cardinality(Coming') \in Nat
          /\ Cardinality(Counted') + Cardinality(Coming')
                <= Cardinality(Counted \union {id[t]}) + Cardinality(Coming \ {t})
      BY <2>2, <2>3, <2>4, NoMore
    <2> QED
      BY <1>2, <2>4, <2>5 DEF NotTooMany
  <1>12. ASSUME NEW i \in Id, W!End(i) PROVE NotTooMany'
    BY <1>1, <1>5, <1>12, WebSame DEF W!End, Counted, Coming
  <1>13. ASSUME UNCHANGED W!vars PROVE NotTooMany'
    BY <1>5, <1>13, WebSame DEF W!vars, Counted, Coming
  <1> QED
    BY <1>6, <1>7, <1>8, <1>9, <1>10, <1>11, <1>12, <1>13 DEF W!Next, W!Step

\* Whatever the cleanups of any number of threads write back and delete, a query that
\* runs can be reached, and there are fewer than the cap and the threads together
\* (QueryJobManager._cleanup, submit).
THEOREM RunningReached == ASSUME W!Parameters PROVE W!Spec => [](W!TypeOK /\ RunningInHand)
  <1>1. ASSUME W!Init PROVE WebInv /\ NotTooMany
    <2>1. RegistryTyped /\ W!Tracked = {}
      BY <1>1, EmptySeq DEF W!Init, RegistryTyped, W!Tracked, W!ToSet, W!IsInjective
    <2>2. WebInv
      BY <1>1, <2>1 DEF W!Init, WebInv, W!TypeOK, W!Steps, RegistryTyped
    <2>3. Counted = {} /\ Coming = {}
      BY <1>1, <2>1 DEF W!Init, Counted, Coming
    <2>4. Cardinality(Page) \in Nat /\ MaxJobs \in Nat \ {0}
      BY WebCounts, FS_CardinalityType DEF W!Parameters
    <2> QED
      BY <2>2, <2>3, <2>4, FS_EmptySet DEF NotTooMany
  <1>2. ASSUME WebInv, NotTooMany PROVE W!TypeOK /\ RunningInHand
    <2>1. {i \in Id : query[i] = "running"} \intersect W!Tracked = Counted
      BY <1>2 DEF Counted, WebInv, W!TypeOK
    <2>2. \A i \in Id : query[i] = "running" => i \in W!Tracked \union {id[t] : t \in Page}
      BY <1>2 DEF WebInv
    <2>3. /\ Cardinality(Counted) \in Nat /\ Cardinality(Coming) \in Nat
          /\ Cardinality(Page) \in Nat /\ MaxJobs \in Nat
      <3>1. IsFiniteSet(Page) /\ MaxJobs \in Nat
        BY WebCounts DEF W!Parameters
      <3>2. IsFiniteSet(Counted) /\ IsFiniteSet(Coming)
        BY <1>2, <3>1, TrackedCount, FS_Subset DEF WebInv, Counted, Coming
      <3> QED
        BY <3>1, <3>2, FS_CardinalityType
    <2>4. Cardinality(Counted) < MaxJobs + Cardinality(Page)
      BY <1>2, <2>3 DEF NotTooMany
    <2> QED
      BY <1>2, <2>1, <2>2, <2>4, WebCounts DEF RunningInHand, W!RunningInHand, WebInv
  <1>3. WebInv /\ NotTooMany /\ [W!Next]_(W!vars) => WebInv' /\ NotTooMany'
    BY WebKeeps, CrowdKeeps
  <1> QED
    BY <1>1, <1>2, <1>3, PTL DEF W!Spec

-----------------------------------------------------------------------------
(* AdminKeys.                                                              *)

Adds(t) == want[t].op = "add_key"
Removes(t) == want[t].op = "remove_key"
Matches(t) == want[t].op = "match_presentation"

\* A mint whose key is not in the file yet.
Unminted(t) == Adds(t) /\ pc[t] \notin {"restat", "over"}

\* A revocation that has replaced the file, and has answered so or is about to.
Revoked(t) == Removes(t) /\ (pc[t] = "restat" \/ said[t])

\* The lock of a replica is its writer's; while nobody has crossed, all writers
\* under way are on one replica; signatures are of the past.
KeyLocks ==
  /\ \A r \in Replica, t \in Thread : rmw[r] = t <=> ThreadOf[t] = r /\ K!Writes(t) /\ K!Running(t)
  /\ ~crossed => \A t, u \in Thread :
       K!Writes(t) /\ K!Running(t) /\ K!Writes(u) /\ K!Running(u) => ThreadOf[t] = ThreadOf[u]
  /\ \A t \in Thread : sig[t] <= version
  /\ \A r \in Replica : stat[r] <= version
  /\ harm \subseteq {"restart"} => look = "good"
  /\ \A t \in Thread : (pc[t] = "start" => ~said[t]) /\ (pc[t] \in {"replace", "restat"} => K!Writes(t))

\* A key is nowhere before its mint has replaced the file, and it has one mint; a
\* revocation goes on only with a key that was there.
KeyFresh ==
  /\ \A t, u \in Thread : Adds(t) /\ Adds(u) /\ want[t].key = want[u].key => t = u
  /\ \A t \in Thread : Unminted(t) =>
       /\ want[t].key \notin keys
       /\ \A r \in Replica : cache[r] # None => want[t].key \notin cache[r]
       /\ \A u \in Thread : want[t].key \in have[u] => u = t /\ pc[t] = "replace"
  /\ \A t, u \in Thread : Removes(t) /\ (pc[t] = "replace" \/ Revoked(t))
                         /\ Adds(u) /\ want[u].key = want[t].key => ~Unminted(u)
  /\ \A t \in Thread : Removes(t) /\ pc[t] \in {"replace", "restat"} => want[t].key \notin have[t]

\* While turns are taken: what is cached or read under the file's signature is what the
\* file holds, and a writer works on what it holds.
KeyHeld ==
  K!TurnsTaken =>
    /\ \A r \in Replica : cache[r] # None /\ stat[r] = version => cache[r] = keys
    /\ \A t \in Thread : pc[t] = "swap" /\ sig[t] = version => have[t] = keys
    /\ \A t \in Thread : K!Writes(t) =>
         /\ pc[t] = "cached" => sig[t] = version
         /\ pc[t] \in {"swap", "decide", "restat"} => have[t] = keys
         /\ pc[t] = "replace" /\ Adds(t) => have[t] = keys \union {want[t].key}
         /\ pc[t] = "replace" /\ Removes(t) => have[t] = keys \ {want[t].key}

\* While turns are taken: what was revoked is gone.
KeyGone == K!TurnsTaken => \A t \in Thread : Revoked(t) => want[t].key \notin keys

\* While turns are taken: what was minted is there, unless somebody revokes it.
KeyLanded ==
  K!TurnsTaken => \A t \in Thread :
    /\ Adds(t) /\ (pc[t] = "restat" \/ said[t])
    /\ \A u \in Thread : Removes(u) => want[u].key # want[t].key
    => want[t].key \in keys

\* While a replica is alone: a key it has revoked is nowhere it could come back from.
StaysOut(t) ==
  /\ Revoked(t) => want[t].key \notin keys
  /\ said[t] =>
       /\ cache[ThreadOf[t]] # None => want[t].key \notin cache[ThreadOf[t]]
       /\ \A u \in Thread : K!Writes(u) /\ pc[u] \in {"swap", "decide", "replace", "restat"} =>
            want[t].key \notin have[u]
KeyAlone == K!Alone => \A t \in Thread : Removes(t) => StaysOut(t)

\* While turns are taken: whatever a match has in hand, or may yet find under the
\* signature it took, the file held while it ran.
InHand(t) ==
  /\ K!Running(t) => (want[t].key \in keys) \in could[t]
  /\ pc[t] = "cached" =>
       /\ \A r \in Replica : cache[r] # None /\ stat[r] = sig[t] => (want[t].key \in cache[r]) \in could[t]
       /\ \A u \in Thread : pc[u] = "swap" /\ sig[u] = sig[t] => (want[t].key \in have[u]) \in could[t]
  /\ pc[t] \in {"swap", "decide"} => (want[t].key \in have[t]) \in could[t]
  /\ pc[t] = "over" => said[t] \in could[t]
KeyMatch == K!TurnsTaken => \A t \in Thread : Matches(t) => InHand(t)

LEMMA KeysTyped ==
  ASSUME K!Parameters, K!TypeOK, [K!Next]_(K!vars)
  PROVE  K!TypeOK'
  <1> USE DEF K!TypeOK, K!Steps, K!Harms, K!Go, K!Home, K!Loaded, K!disk, K!ghosts, K!Running, K!Writes, K!Answer
  <1>1. \A t \in Thread : ThreadOf[t] \in Replica /\ want[t].key \in Fingerprint
    BY DEF K!Parameters
  <1>2. ASSUME NEW t \in Thread, K!Begin(t) PROVE K!TypeOK'
    BY <1>1, <1>2 DEF K!Begin
  <1>3. ASSUME NEW t \in Thread, K!Stat(t) PROVE K!TypeOK'
    BY <1>1, <1>3 DEF K!Stat
  <1>4. ASSUME NEW t \in Thread, K!Cached(t) PROVE K!TypeOK'
    BY <1>1, <1>4 DEF K!Cached
  <1>5. ASSUME NEW t \in Thread, K!Read(t) PROVE K!TypeOK'
    BY <1>1, <1>5 DEF K!Read
  <1>6. ASSUME NEW t \in Thread, K!Swap(t) PROVE K!TypeOK'
    BY <1>1, <1>6 DEF K!Swap
  <1>7. ASSUME NEW t \in Thread, K!Decide(t) PROVE K!TypeOK'
    <2> DEFINE yes == want[t].key \in have[t]
    <2>1. yes \in BOOLEAN
      OBVIOUS
    <2> HIDE DEF yes
    <2>2. ASSUME K!AddKey(t) \/ K!RemoveKey(t) PROVE K!TypeOK'
      <3>1. have' \in [Thread -> SUBSET Fingerprint]
        BY <1>1, <2>2 DEF K!AddKey, K!RemoveKey
      <3>2. pc' \in [Thread -> K!Steps] /\ said' \in [Thread -> BOOLEAN] /\ rmw' \in [Replica -> Thread \union {None}]
        <4>1. K!Answer(t, FALSE) \/ (K!Go(t, "replace") /\ UNCHANGED <<said, rmw>>)
          BY <2>2, Zenon DEF K!AddKey, K!RemoveKey
        <4> QED
          BY <1>1, <4>1
      <3>3. UNCHANGED <<want, sig, cache, stat, keys, look, version, harm, crossed, could>>
        BY <1>7 DEF K!Decide
      <3> QED
        BY <3>1, <3>2, <3>3
    <2>3. CASE want[t].op = "match_presentation" /\ K!Answer(t, yes) /\ UNCHANGED have
      BY <1>1, <1>7, <2>1, <2>3 DEF K!Decide
    <2> QED
      BY <1>7, <2>2, <2>3 DEF K!Decide, K!MatchPresentation, yes
  <1>8. ASSUME NEW t \in Thread, K!Replace(t) PROVE K!TypeOK'
    <2>1. could' \in [Thread -> SUBSET BOOLEAN]
      <3>1. CASE K!Could(have[t])
        <4> DEFINE new(u) == IF K!Running(u) /\ ~K!Writes(u) THEN could[u] \union {want[u].key \in have[t]} ELSE could[u]
        <4>1. \A u \in Thread : (want[u].key \in have[t]) \in BOOLEAN
          OBVIOUS
        <4>2. \A u \in Thread : could[u] \subseteq BOOLEAN
          OBVIOUS
        <4>3. \A u \in Thread : new(u) \in SUBSET BOOLEAN
          BY <4>1, <4>2, Zenon
        <4>4. could' = [u \in Thread |-> new(u)]
          BY <3>1 DEF K!Could
        <4> HIDE DEF new
        <4> QED
          BY <4>3, <4>4
      <3>2. CASE UNCHANGED could
        BY <3>2
      <3> QED
        BY <1>8, <3>1, <3>2 DEF K!Replace
    <2>2. pc' \in [Thread -> K!Steps] /\ said' \in [Thread -> BOOLEAN] /\ rmw' \in [Replica -> Thread \union {None}]
      BY ZenonT(40), <1>1, <1>8 DEF K!Replace
    <2>3. keys' \subseteq Fingerprint /\ look' \in {"absent", "good", "broken", "misshapen"} /\ version' \in Nat \ {0}
      BY <1>8 DEF K!Replace
    <2> QED
      BY <1>8, <2>1, <2>2, <2>3 DEF K!Replace
  <1>9. ASSUME NEW t \in Thread, K!Restat(t) PROVE K!TypeOK'
    BY <1>1, <1>9 DEF K!Restat
  <1>10. ASSUME NEW how \in {"vanish", "break"}, K!Harm(how) PROVE K!TypeOK'
    BY <1>1, <1>10 DEF K!Harm
  <1>11. ASSUME NEW r \in Replica, K!Restart(r) PROVE K!TypeOK'
    BY <1>1, <1>11 DEF K!Restart
  <1>12. ASSUME K!Return \/ UNCHANGED K!vars PROVE K!TypeOK'
    BY <1>1, <1>12 DEF K!Return, K!vars
  <1> HIDE DEF K!TypeOK
  <1> QED
    BY <1>2, <1>3, <1>4, <1>5, <1>6, <1>7, <1>8, <1>9, <1>10, <1>11, <1>12 DEF K!Next, K!Step

LEMMA LocksKeep ==
  ASSUME K!Parameters, K!TypeOK, KeyLocks, [K!Next]_(K!vars)
  PROVE  KeyLocks'
  <1> USE DEF K!Go, K!Home, K!Loaded, K!disk, K!ghosts, K!Running, K!Writes, K!Answer
  <1>1. /\ \A t \in Thread : ThreadOf[t] \in Replica
        /\ None \notin Thread
        /\ DOMAIN pc = Thread /\ DOMAIN sig = Thread /\ DOMAIN have = Thread /\ DOMAIN said = Thread
        /\ DOMAIN rmw = Replica /\ DOMAIN stat = Replica /\ DOMAIN cache = Replica
        /\ version \in Nat /\ (\A t \in Thread : sig[t] \in Nat) /\ (\A r \in Replica : stat[r] \in Nat)
    BY DEF K!Parameters, K!TypeOK
  <1>2. ASSUME NEW t \in Thread, K!Begin(t) PROVE KeyLocks'
    <2> USE DEF K!Begin
    <2>1. \A r \in Replica, u \in Thread : rmw'[r] = u <=> ThreadOf[u] = r /\ K!Writes(u)' /\ K!Running(u)'
      BY <1>1, <1>2 DEF KeyLocks
    <2>2. ASSUME ~crossed', NEW u \in Thread, NEW v \in Thread,
                 K!Writes(u)', K!Running(u)', K!Writes(v)', K!Running(v)'
          PROVE  ThreadOf[u] = ThreadOf[v]
      <3>1. \A w \in Thread : K!Writes(t) /\ K!Writes(w) /\ K!Running(w) => ThreadOf[w] = ThreadOf[t]
        BY <1>1, <1>2, <2>2 DEF K!Active
      <3>2. ~crossed
        BY <1>2, <2>2
      <3> QED
        BY <1>1, <1>2, <2>2, <3>1, <3>2 DEF KeyLocks
    <2>3. sig' = sig /\ version' = version /\ stat' = stat /\ harm' = harm /\ look' = look /\ said' = said
      BY <1>2
    <2> QED
      BY <1>1, <1>2, <2>1, <2>2, <2>3 DEF KeyLocks
  <1>3. ASSUME NEW t \in Thread, K!Stat(t) PROVE KeyLocks'
    BY <1>1, <1>3 DEF K!Stat, KeyLocks
  <1>4. ASSUME NEW t \in Thread, K!Cached(t) PROVE KeyLocks'
    BY <1>1, <1>4 DEF K!Cached, KeyLocks
  <1>5. ASSUME NEW t \in Thread, K!Read(t) PROVE KeyLocks'
    BY <1>1, <1>5 DEF K!Read, KeyLocks
  <1>6. ASSUME NEW t \in Thread, K!Swap(t) PROVE KeyLocks'
    BY <1>1, <1>6 DEF K!Swap, KeyLocks
  <1>7. ASSUME NEW t \in Thread, K!Decide(t) PROVE KeyLocks'
    BY <1>1, <1>7 DEF K!Decide, K!AddKey, K!RemoveKey, K!MatchPresentation, KeyLocks
  <1>8. ASSUME NEW t \in Thread, K!Replace(t) PROVE KeyLocks'
    BY <1>1, <1>8 DEF K!Replace, KeyLocks
  <1>9. ASSUME NEW t \in Thread, K!Restat(t) PROVE KeyLocks'
    BY <1>1, <1>9 DEF K!Restat, KeyLocks
  <1>10. ASSUME NEW how \in {"vanish", "break"}, K!Harm(how) PROVE KeyLocks'
    BY <1>1, <1>10 DEF K!Harm, KeyLocks
  <1>11. ASSUME NEW r \in Replica, K!Restart(r) PROVE KeyLocks'
    BY <1>1, <1>11 DEF K!Restart, KeyLocks
  <1>12. ASSUME K!Return \/ UNCHANGED K!vars PROVE KeyLocks'
    BY <1>1, <1>12 DEF K!Return, K!vars, KeyLocks
  <1> QED
    BY <1>2, <1>3, <1>4, <1>5, <1>6, <1>7, <1>8, <1>9, <1>10, <1>11, <1>12 DEF K!Next, K!Step

LEMMA FreshKeeps ==
  ASSUME K!Parameters, K!TypeOK, KeyLocks, KeyFresh, [K!Next]_(K!vars)
  PROVE  KeyFresh'
  <1> USE DEF K!Go, K!Home, K!Loaded, K!disk, K!ghosts, K!Running, K!Writes, K!Answer, Adds, Removes, Unminted, Revoked
  <1>1. /\ \A t \in Thread : ThreadOf[t] \in Replica
        /\ DOMAIN pc = Thread /\ DOMAIN sig = Thread /\ DOMAIN have = Thread /\ DOMAIN said = Thread
        /\ DOMAIN cache = Replica
    BY DEF K!Parameters, K!TypeOK
  <1>2. ASSUME NEW t \in Thread, K!Begin(t) PROVE KeyFresh'
    BY <1>1, <1>2 DEF K!Begin, KeyFresh
  <1>3. ASSUME NEW t \in Thread, K!Stat(t) PROVE KeyFresh'
    BY <1>1, <1>3 DEF K!Stat, KeyFresh
  <1>4. ASSUME NEW t \in Thread, K!Cached(t) PROVE KeyFresh'
    BY <1>1, <1>4 DEF K!Cached, KeyFresh
  <1>5. ASSUME NEW t \in Thread, K!Read(t) PROVE KeyFresh'
    BY <1>1, <1>5 DEF K!Read, KeyFresh
  <1>6. ASSUME NEW t \in Thread, K!Swap(t) PROVE KeyFresh'
    BY <1>1, <1>6 DEF K!Swap, KeyFresh
  <1>7. ASSUME NEW t \in Thread, K!Decide(t) PROVE KeyFresh'
    BY <1>1, <1>7 DEF K!Decide, K!AddKey, K!RemoveKey, K!MatchPresentation, KeyFresh
  <1>8. ASSUME NEW t \in Thread, K!Replace(t) PROVE KeyFresh'
    BY <1>1, <1>8 DEF K!Replace, KeyFresh
  <1>9. ASSUME NEW t \in Thread, K!Restat(t) PROVE KeyFresh'
    BY <1>1, <1>9 DEF K!Restat, KeyFresh
  <1>10. ASSUME NEW how \in {"vanish", "break"}, K!Harm(how) PROVE KeyFresh'
    BY <1>1, <1>10 DEF K!Harm, KeyFresh
  <1>11. ASSUME NEW r \in Replica, K!Restart(r) PROVE KeyFresh'
    BY <1>1, <1>11 DEF K!Restart, KeyFresh
  <1>12. ASSUME K!Return \/ UNCHANGED K!vars PROVE KeyFresh'
    BY <1>1, <1>12 DEF K!Return, K!vars, KeyFresh
  <1> QED
    BY <1>2, <1>3, <1>4, <1>5, <1>6, <1>7, <1>8, <1>9, <1>10, <1>11, <1>12 DEF K!Next, K!Step

\* While turns are taken, one request at a time changes the file.
LEMMA OneWriter ==
  ASSUME K!Parameters, KeyLocks, ~crossed, NEW t \in Thread, NEW u \in Thread,
         K!Writes(t), K!Running(t), K!Writes(u), K!Running(u)
  PROVE  t = u
  BY DEF KeyLocks, K!Parameters

LEMMA HeldKeeps ==
  ASSUME K!Parameters, K!TypeOK, KeyLocks, KeyHeld, [K!Next]_(K!vars)
  PROVE  KeyHeld'
  <1> USE DEF K!Go, K!Home, K!Loaded, K!disk, K!ghosts, K!Running, K!Writes, K!Answer, Adds, Removes, Revoked, Unminted, K!TurnsTaken
  <1>1. /\ \A t \in Thread : ThreadOf[t] \in Replica
        /\ \A t \in Thread : want[t].op \in {"add_key", "remove_key", "match_presentation"}
        /\ DOMAIN pc = Thread /\ DOMAIN sig = Thread /\ DOMAIN have = Thread /\ DOMAIN said = Thread
        /\ DOMAIN cache = Replica /\ DOMAIN stat = Replica /\ DOMAIN could = Thread
        /\ version \in Nat /\ (\A t \in Thread : sig[t] \in Nat) /\ (\A r \in Replica : stat[r] \in Nat)
    BY DEF K!Parameters, K!TypeOK
  <1>2. /\ \A t \in Thread : sig[t] <= version
        /\ \A r \in Replica : stat[r] <= version
        /\ K!TurnsTaken => look = "good"
        /\ \A t \in Thread : pc[t] \in {"replace", "restat"} => K!Writes(t)
        /\ K!TurnsTaken => \A t, u \in Thread : K!Writes(t) /\ K!Running(t) /\ K!Writes(u) /\ K!Running(u) => t = u
    BY <1>1, OneWriter DEF KeyLocks, K!TurnsTaken
  <1>3. ASSUME NEW t \in Thread, K!Begin(t) PROVE KeyHeld'
    BY <1>1, <1>2, <1>3 DEF K!Begin, KeyHeld
  <1>4. ASSUME NEW t \in Thread, K!Stat(t) PROVE KeyHeld'
    BY <1>1, <1>2, <1>4 DEF K!Stat, KeyHeld
  <1>5. ASSUME NEW t \in Thread, K!Cached(t) PROVE KeyHeld'
    BY <1>1, <1>2, <1>5 DEF K!Cached, KeyHeld
  <1>6. ASSUME NEW t \in Thread, K!Read(t) PROVE KeyHeld'
    BY <1>1, <1>2, <1>6 DEF K!Read, KeyHeld
  <1>7. ASSUME NEW t \in Thread, K!Swap(t) PROVE KeyHeld'
    BY <1>1, <1>2, <1>7 DEF K!Swap, KeyHeld
  <1>8. ASSUME NEW t \in Thread, K!Decide(t) PROVE KeyHeld'
    BY <1>1, <1>2, <1>8 DEF K!Decide, K!AddKey, K!RemoveKey, K!MatchPresentation, KeyHeld
  <1>9. ASSUME NEW t \in Thread, K!Replace(t) PROVE KeyHeld'
    BY <1>1, <1>2, <1>9 DEF K!Replace, KeyHeld
  <1>10. ASSUME NEW t \in Thread, K!Restat(t) PROVE KeyHeld'
    BY <1>1, <1>2, <1>10 DEF K!Restat, KeyHeld
  <1>11. ASSUME NEW how \in {"vanish", "break"}, K!Harm(how) PROVE KeyHeld'
    BY <1>1, <1>2, <1>11 DEF K!Harm, KeyHeld
  <1>12. ASSUME NEW r \in Replica, K!Restart(r) PROVE KeyHeld'
    BY <1>1, <1>2, <1>12 DEF K!Restart, KeyHeld
  <1>13. ASSUME K!Return \/ UNCHANGED K!vars PROVE KeyHeld'
    BY <1>1, <1>2, <1>13 DEF K!Return, K!vars, KeyHeld
  <1> QED
    BY <1>3, <1>4, <1>5, <1>6, <1>7, <1>8, <1>9, <1>10, <1>11, <1>12, <1>13 DEF K!Next, K!Step

LEMMA GoneKeeps ==
  ASSUME K!Parameters, K!TypeOK, KeyLocks, KeyFresh, KeyHeld, KeyGone, [K!Next]_(K!vars)
  PROVE  KeyGone'
  <1> USE DEF K!Go, K!Home, K!Loaded, K!disk, K!ghosts, K!Running, K!Writes, K!Answer, Adds, Removes, Revoked, Unminted, K!TurnsTaken
  <1>1. /\ \A t \in Thread : ThreadOf[t] \in Replica
        /\ \A t \in Thread : want[t].op \in {"add_key", "remove_key", "match_presentation"}
        /\ DOMAIN pc = Thread /\ DOMAIN sig = Thread /\ DOMAIN have = Thread /\ DOMAIN said = Thread
        /\ DOMAIN cache = Replica /\ DOMAIN stat = Replica /\ DOMAIN could = Thread
        /\ version \in Nat /\ (\A t \in Thread : sig[t] \in Nat) /\ (\A r \in Replica : stat[r] \in Nat)
    BY DEF K!Parameters, K!TypeOK
  <1>2. /\ \A t \in Thread : sig[t] <= version
        /\ \A r \in Replica : stat[r] <= version
        /\ K!TurnsTaken => look = "good"
        /\ \A t \in Thread : pc[t] \in {"replace", "restat"} => K!Writes(t)
        /\ K!TurnsTaken => \A t, u \in Thread : K!Writes(t) /\ K!Running(t) /\ K!Writes(u) /\ K!Running(u) => t = u
    BY <1>1, OneWriter DEF KeyLocks, K!TurnsTaken
  <1>3. ASSUME NEW t \in Thread, K!Begin(t) PROVE KeyGone'
    BY <1>1, <1>2, <1>3 DEF K!Begin, KeyGone
  <1>4. ASSUME NEW t \in Thread, K!Stat(t) PROVE KeyGone'
    BY <1>1, <1>2, <1>4 DEF K!Stat, KeyGone
  <1>5. ASSUME NEW t \in Thread, K!Cached(t) PROVE KeyGone'
    BY <1>1, <1>2, <1>5 DEF K!Cached, KeyGone
  <1>6. ASSUME NEW t \in Thread, K!Read(t) PROVE KeyGone'
    BY <1>1, <1>2, <1>6 DEF K!Read, KeyGone
  <1>7. ASSUME NEW t \in Thread, K!Swap(t) PROVE KeyGone'
    BY <1>1, <1>2, <1>7 DEF K!Swap, KeyGone
  <1>8. ASSUME NEW t \in Thread, K!Decide(t) PROVE KeyGone'
    BY <1>1, <1>2, <1>8 DEF K!Decide, K!AddKey, K!RemoveKey, K!MatchPresentation, KeyGone
  <1>9. ASSUME NEW t \in Thread, K!Replace(t) PROVE KeyGone'
    <2> SUFFICES ASSUME K!TurnsTaken', NEW u \in Thread, Revoked(u)' PROVE want'[u].key \notin keys'
      BY DEF KeyGone
    <2>1. K!TurnsTaken /\ want' = want
      BY <1>9 DEF K!Replace
    <2>2. CASE UNCHANGED keys /\ K!Answer(t, FALSE)
      <3>1. Revoked(u)
        BY <1>1, <1>9, <2>2 DEF K!Replace
      <3> QED
        BY <2>1, <2>2, <3>1 DEF KeyGone
    <2>3. CASE keys' = have[t] /\ K!Go(t, "restat") /\ said' = said
      <3>1. want[t].op \in {"add_key", "remove_key"} /\ pc[t] = "replace"
        BY <1>2, <1>9 DEF K!Replace
      <3>2. CASE u = t
        <4>1. Removes(t)
          BY <2>1, <3>2
        <4>2. keys' = keys \ {want[t].key}
          BY <2>1, <2>3, <3>1, <4>1 DEF KeyHeld
        <4> QED
          BY <2>1, <3>2, <4>2
      <3>3. CASE u # t
        <4>1. Revoked(u) /\ Removes(u)
          BY <1>1, <2>1, <2>3, <3>3
        <4>2. want[u].key \notin keys
          BY <2>1, <4>1 DEF KeyGone
        <4>3. Adds(t) => want[t].key # want[u].key
          BY <3>1, <4>1 DEF KeyFresh
        <4>4. (keys' = keys \union {want[t].key} /\ Adds(t)) \/ keys' = keys \ {want[t].key}
          BY <2>1, <2>3, <3>1 DEF KeyHeld
        <4> QED
          BY <2>1, <4>2, <4>3, <4>4
      <3> QED
        BY <3>2, <3>3
    <2> QED
      BY <1>9, <2>2, <2>3 DEF K!Replace
  <1>10. ASSUME NEW t \in Thread, K!Restat(t) PROVE KeyGone'
    BY <1>1, <1>2, <1>10 DEF K!Restat, KeyGone
  <1>11. ASSUME NEW how \in {"vanish", "break"}, K!Harm(how) PROVE KeyGone'
    BY <1>1, <1>2, <1>11 DEF K!Harm, KeyGone
  <1>12. ASSUME NEW r \in Replica, K!Restart(r) PROVE KeyGone'
    BY <1>1, <1>2, <1>12 DEF K!Restart, KeyGone
  <1>13. ASSUME K!Return \/ UNCHANGED K!vars PROVE KeyGone'
    BY <1>1, <1>2, <1>13 DEF K!Return, K!vars, KeyGone
  <1> QED
    BY <1>3, <1>4, <1>5, <1>6, <1>7, <1>8, <1>9, <1>10, <1>11, <1>12, <1>13 DEF K!Next, K!Step

LEMMA LandedKeeps ==
  ASSUME K!Parameters, K!TypeOK, KeyLocks, KeyHeld, KeyLanded, [K!Next]_(K!vars)
  PROVE  KeyLanded'
  <1> USE DEF K!Go, K!Home, K!Loaded, K!disk, K!ghosts, K!Running, K!Writes, K!Answer, Adds, Removes, Revoked, Unminted, K!TurnsTaken
  <1>1. /\ \A t \in Thread : ThreadOf[t] \in Replica
        /\ \A t \in Thread : want[t].op \in {"add_key", "remove_key", "match_presentation"}
        /\ DOMAIN pc = Thread /\ DOMAIN sig = Thread /\ DOMAIN have = Thread /\ DOMAIN said = Thread
        /\ DOMAIN cache = Replica /\ DOMAIN stat = Replica /\ DOMAIN could = Thread
        /\ version \in Nat /\ (\A t \in Thread : sig[t] \in Nat) /\ (\A r \in Replica : stat[r] \in Nat)
    BY DEF K!Parameters, K!TypeOK
  <1>2. /\ \A t \in Thread : sig[t] <= version
        /\ \A r \in Replica : stat[r] <= version
        /\ K!TurnsTaken => look = "good"
        /\ \A t \in Thread : pc[t] \in {"replace", "restat"} => K!Writes(t)
        /\ K!TurnsTaken => \A t, u \in Thread : K!Writes(t) /\ K!Running(t) /\ K!Writes(u) /\ K!Running(u) => t = u
    BY <1>1, OneWriter DEF KeyLocks, K!TurnsTaken
  <1>3. ASSUME NEW t \in Thread, K!Begin(t) PROVE KeyLanded'
    BY <1>1, <1>2, <1>3 DEF K!Begin, KeyLanded
  <1>4. ASSUME NEW t \in Thread, K!Stat(t) PROVE KeyLanded'
    BY <1>1, <1>2, <1>4 DEF K!Stat, KeyLanded
  <1>5. ASSUME NEW t \in Thread, K!Cached(t) PROVE KeyLanded'
    BY <1>1, <1>2, <1>5 DEF K!Cached, KeyLanded
  <1>6. ASSUME NEW t \in Thread, K!Read(t) PROVE KeyLanded'
    BY <1>1, <1>2, <1>6 DEF K!Read, KeyLanded
  <1>7. ASSUME NEW t \in Thread, K!Swap(t) PROVE KeyLanded'
    BY <1>1, <1>2, <1>7 DEF K!Swap, KeyLanded
  <1>8. ASSUME NEW t \in Thread, K!Decide(t) PROVE KeyLanded'
    BY <1>1, <1>2, <1>8 DEF K!Decide, K!AddKey, K!RemoveKey, K!MatchPresentation, KeyLanded
  <1>9. ASSUME NEW t \in Thread, K!Replace(t) PROVE KeyLanded'
    <2> SUFFICES ASSUME K!TurnsTaken', NEW u \in Thread, Adds(u)', pc'[u] = "restat" \/ said'[u],
                        \A v \in Thread : Removes(v)' => want'[v].key # want'[u].key
                 PROVE  want'[u].key \in keys'
      BY DEF KeyLanded
    <2>1. K!TurnsTaken /\ want' = want
      BY <1>9 DEF K!Replace
    <2>2. CASE UNCHANGED keys /\ K!Answer(t, FALSE)
      <3>1. pc[u] = "restat" \/ said[u]
        BY <1>1, <2>2
      <3> QED
        BY <2>1, <2>2, <3>1 DEF KeyLanded
    <2>3. CASE keys' = have[t] /\ K!Go(t, "restat") /\ said' = said
      <3>1. want[t].op \in {"add_key", "remove_key"} /\ pc[t] = "replace"
        BY <1>2, <1>9 DEF K!Replace
      <3>2. (Adds(t) => keys' = keys \union {want[t].key}) /\ (Removes(t) => keys' = keys \ {want[t].key})
        BY <2>1, <2>3, <3>1 DEF KeyHeld
      <3>3. CASE u = t
        <4>1. Adds(t)
          BY <2>1, <3>3
        <4> QED
          BY <2>1, <3>2, <3>3, <4>1
      <3>4. CASE u # t
        <4>1. want[u].key \in keys
          BY <1>1, <2>1, <2>3, <3>4 DEF KeyLanded
        <4>2. Removes(t) => want[t].key # want[u].key
          BY <2>1
        <4> QED
          BY <2>1, <3>1, <3>2, <4>1, <4>2
      <3> QED
        BY <3>3, <3>4
    <2> QED
      BY <1>9, <2>2, <2>3 DEF K!Replace
  <1>10. ASSUME NEW t \in Thread, K!Restat(t) PROVE KeyLanded'
    BY <1>1, <1>2, <1>10 DEF K!Restat, KeyLanded
  <1>11. ASSUME NEW how \in {"vanish", "break"}, K!Harm(how) PROVE KeyLanded'
    BY <1>1, <1>2, <1>11 DEF K!Harm, KeyLanded
  <1>12. ASSUME NEW r \in Replica, K!Restart(r) PROVE KeyLanded'
    BY <1>1, <1>2, <1>12 DEF K!Restart, KeyLanded
  <1>13. ASSUME K!Return \/ UNCHANGED K!vars PROVE KeyLanded'
    BY <1>1, <1>2, <1>13 DEF K!Return, K!vars, KeyLanded
  <1> QED
    BY <1>3, <1>4, <1>5, <1>6, <1>7, <1>8, <1>9, <1>10, <1>11, <1>12, <1>13 DEF K!Next, K!Step

LEMMA AloneKeeps ==
  ASSUME K!Parameters, K!TypeOK, KeyLocks, KeyFresh, KeyAlone, [K!Next]_(K!vars)
  PROVE  KeyAlone'
  <1> USE DEF K!Go, K!Home, K!Loaded, K!disk, K!ghosts, K!Running, K!Writes, K!Answer, Adds, Removes, Revoked, Unminted, K!Alone, StaysOut
  <1>1. /\ \A t \in Thread : ThreadOf[t] \in Replica
        /\ \A t \in Thread : want[t].op \in {"add_key", "remove_key", "match_presentation"}
        /\ DOMAIN pc = Thread /\ DOMAIN sig = Thread /\ DOMAIN have = Thread /\ DOMAIN said = Thread
        /\ DOMAIN cache = Replica /\ DOMAIN stat = Replica /\ DOMAIN could = Thread
        /\ version \in Nat /\ (\A t \in Thread : sig[t] \in Nat) /\ (\A r \in Replica : stat[r] \in Nat)
    BY DEF K!Parameters, K!TypeOK
  <1>2. /\ \A t, u \in Thread : K!Writes(t) /\ K!Running(t) /\ K!Writes(u) /\ K!Running(u)
                               /\ ThreadOf[t] = ThreadOf[u] => t = u
        /\ \A t \in Thread : (pc[t] = "start" => ~said[t]) /\ (pc[t] \in {"replace", "restat"} => K!Writes(t))
    BY <1>1 DEF KeyLocks
  <1>3. ASSUME NEW t \in Thread, K!Begin(t) PROVE KeyAlone'
    BY <1>1, <1>2, <1>3 DEF K!Begin, KeyAlone
  <1>4. ASSUME NEW t \in Thread, K!Stat(t) PROVE KeyAlone'
    BY <1>1, <1>2, <1>4 DEF K!Stat, KeyAlone
  <1>5. ASSUME NEW t \in Thread, K!Cached(t) PROVE KeyAlone'
    BY <1>1, <1>2, <1>5 DEF K!Cached, KeyAlone
  <1>6. ASSUME NEW t \in Thread, K!Read(t) PROVE KeyAlone'
    BY <1>1, <1>2, <1>6 DEF K!Read, KeyAlone
  <1>7. ASSUME NEW t \in Thread, K!Swap(t) PROVE KeyAlone'
    BY <1>1, <1>2, <1>7 DEF K!Swap, KeyAlone
  <1>8. ASSUME NEW t \in Thread, K!Decide(t) PROVE KeyAlone'
    <2> SUFFICES ASSUME K!Alone', NEW u \in Thread, Removes(u)
                 PROVE  StaysOut(u)'
      BY <1>8 DEF KeyAlone, K!Decide
    <2>1. /\ want' = want /\ cache' = cache /\ keys' = keys /\ pc[t] = "decide" /\ pc'[t] \in {"over", "replace"}
          /\ \A v \in Thread \ {t} : pc'[v] = pc[v] /\ have'[v] = have[v] /\ said'[v] = said[v]
      BY <1>1, <1>8 DEF K!Decide, K!AddKey, K!RemoveKey, K!MatchPresentation
    <2>2. K!Alone
      BY <2>1
    <2>3. K!Writes(t) => ~said'[t] \/ said'[t] = said[t]
      BY <1>1, <1>8 DEF K!Decide, K!AddKey, K!RemoveKey, K!MatchPresentation
    <2>4. K!Writes(t) => have'[t] \subseteq have[t] \union (IF Adds(t) THEN {want[t].key} ELSE {})
      BY <1>1, <1>8 DEF K!Decide, K!AddKey, K!RemoveKey, K!MatchPresentation
    <2>5. Revoked(u)' => Revoked(u) /\ (said'[u] => said[u]) /\ (pc'[u] = "restat" => u # t)
      BY <2>1, <2>3
    <2>6. Revoked(u) /\ Adds(t) => want[t].key # want[u].key
      BY <2>1 DEF KeyFresh
    <2> QED
      BY <2>1, <2>2, <2>4, <2>5, <2>6 DEF KeyAlone
  <1>9. ASSUME NEW t \in Thread, K!Replace(t) PROVE KeyAlone'
    <2> SUFFICES ASSUME K!Alone', NEW u \in Thread, Removes(u)
                 PROVE  StaysOut(u)'
      BY <1>9 DEF KeyAlone, K!Replace
    <2>1. /\ want' = want /\ cache' = cache /\ have' = have /\ pc[t] = "replace" /\ K!Writes(t)
          /\ pc'[t] \in {"over", "restat"} /\ (said'[t] => said[t])
          /\ \A v \in Thread \ {t} : pc'[v] = pc[v] /\ said'[v] = said[v]
          /\ keys' = have[t] \/ (keys' = keys /\ pc'[t] = "over")
      <3>1. want' = want /\ cache' = cache /\ have' = have /\ pc[t] = "replace" /\ K!Writes(t)
        BY <1>2, <1>9 DEF K!Replace
      <3>2. CASE keys' = have[t] /\ K!Go(t, "restat") /\ said' = said
        <4>1. pc'[t] \in {"over", "restat"} /\ \A v \in Thread \ {t} : pc'[v] = pc[v]
          BY <1>1, <3>2
        <4>2. (said'[t] => said[t]) /\ \A v \in Thread \ {t} : said'[v] = said[v]
          BY <3>2
        <4> QED
          BY <3>1, <3>2, <4>1, <4>2, Zenon
      <3>3. CASE keys' = keys /\ K!Answer(t, FALSE)
        BY <1>1, <3>1, <3>3
      <3> QED
        BY <1>9, <3>2, <3>3 DEF K!Replace
    <2>2. K!Alone
      BY <2>1
    <2>3. ASSUME Revoked(u)' PROVE want[u].key \notin keys'
      <3>1. CASE u = t
        BY <2>1, <2>2, <2>3, <3>1 DEF KeyFresh, KeyAlone
      <3>2. CASE u # t
        <4>1. Revoked(u) /\ want[u].key \notin keys
          BY <2>1, <2>2, <2>3, <3>2 DEF KeyAlone
        <4>2. pc[u] # "restat"
          BY <1>2, <2>1, <2>2, <3>2
        <4>3. want[u].key \notin have[t]
          BY <2>1, <2>2, <4>1, <4>2 DEF KeyAlone
        <4> QED
          BY <2>1, <4>1, <4>3
      <3> QED
        BY <3>1, <3>2
    <2>4. said'[u] => said[u]
      BY <2>1
    <2> QED
      BY <2>1, <2>2, <2>3, <2>4 DEF KeyAlone
  <1>10. ASSUME NEW t \in Thread, K!Restat(t) PROVE KeyAlone'
    <2> SUFFICES ASSUME K!Alone', NEW u \in Thread, Removes(u)
                 PROVE  StaysOut(u)'
      BY <1>10 DEF KeyAlone, K!Restat
    <2>1. /\ want' = want /\ have' = have /\ keys' = keys /\ pc[t] = "restat" /\ K!Writes(t) /\ pc'[t] = "over"
          /\ cache' = [cache EXCEPT ![ThreadOf[t]] = have[t]]
          /\ \A v \in Thread \ {t} : pc'[v] = pc[v] /\ said'[v] = said[v]
      BY <1>1, <1>2, <1>10 DEF K!Restat
    <2>2. K!Alone
      BY <2>1
    <2>3. CASE u = t
      <3>1. want[t].key \notin have[t] /\ want[t].key \notin keys
        BY <2>1, <2>2, <2>3 DEF KeyFresh, KeyAlone
      <3>2. \A v \in Thread : K!Writes(v) /\ K!Running(v) => v = t
        BY <1>2, <2>1, <2>2
      <3> QED
        BY <1>1, <2>1, <2>3, <3>1, <3>2
    <2>4. CASE u # t
      <3>1. said[u] => want[u].key \notin have[t]
        BY <2>1, <2>2 DEF KeyAlone
      <3>2. \A v \in Thread : pc'[v] \in {"swap", "decide", "replace", "restat"} => pc'[v] = pc[v]
        BY <2>1
      <3> QED
        BY <1>1, <2>1, <2>2, <2>4, <3>1, <3>2 DEF KeyAlone
    <2> QED
      BY <2>3, <2>4
  <1>11. ASSUME NEW how \in {"vanish", "break"}, K!Harm(how) PROVE KeyAlone'
    BY <1>1, <1>2, <1>11 DEF K!Harm, KeyAlone
  <1>12. ASSUME NEW r \in Replica, K!Restart(r) PROVE KeyAlone'
    BY <1>1, <1>2, <1>12 DEF K!Restart, KeyAlone
  <1>13. ASSUME K!Return \/ UNCHANGED K!vars PROVE KeyAlone'
    BY <1>1, <1>2, <1>13 DEF K!Return, K!vars, KeyAlone
  <1> QED
    BY <1>3, <1>4, <1>5, <1>6, <1>7, <1>8, <1>9, <1>10, <1>11, <1>12, <1>13 DEF K!Next, K!Step

LEMMA MatchKeeps ==
  ASSUME K!Parameters, K!TypeOK, KeyLocks, KeyHeld, KeyMatch, [K!Next]_(K!vars)
  PROVE  KeyMatch'
  <1> USE DEF K!Go, K!Home, K!Loaded, K!disk, K!ghosts, K!Running, K!Writes, K!Answer, Adds, Removes, Revoked, Matches, K!TurnsTaken, InHand
  <1>1. /\ \A t \in Thread : ThreadOf[t] \in Replica
        /\ \A t \in Thread : want[t].op \in {"add_key", "remove_key", "match_presentation"}
        /\ DOMAIN pc = Thread /\ DOMAIN sig = Thread /\ DOMAIN have = Thread /\ DOMAIN said = Thread
        /\ DOMAIN cache = Replica /\ DOMAIN stat = Replica /\ DOMAIN could = Thread
        /\ version \in Nat /\ (\A t \in Thread : sig[t] \in Nat) /\ (\A r \in Replica : stat[r] \in Nat)
    BY DEF K!Parameters, K!TypeOK
  <1>2. /\ \A t \in Thread : sig[t] <= version
        /\ \A r \in Replica : stat[r] <= version
        /\ K!TurnsTaken => look = "good"
        /\ \A t \in Thread : pc[t] \in {"replace", "restat"} => K!Writes(t)
        /\ K!TurnsTaken => \A t, u \in Thread : K!Writes(t) /\ K!Running(t) /\ K!Writes(u) /\ K!Running(u) => t = u
    BY <1>1, OneWriter DEF KeyLocks, K!TurnsTaken
  <1>3. ASSUME NEW t \in Thread, K!Begin(t) PROVE KeyMatch'
    <2> SUFFICES ASSUME K!TurnsTaken', NEW u \in Thread, Matches(u)
                 PROVE  InHand(u)'
      BY <1>3 DEF KeyMatch, K!Begin
    <2>1. /\ K!TurnsTaken /\ pc' = [pc EXCEPT ![t] = "stat"]
          /\ UNCHANGED <<want, sig, have, said, cache, stat, keys>>
      BY <1>3 DEF K!Begin
    <2>2. CASE u = t
      <3>1. could'[u] = {want[u].key \in keys}
        BY <1>1, <1>3, <2>2 DEF K!Begin
      <3>2. (want'[u].key \in keys') \in could'[u]
        BY <2>1, <3>1, Zenon
      <3> QED
        BY <1>1, <2>1, <2>2, <3>2
    <2>3. CASE u # t
      <3>1. could'[u] = could[u] /\ pc'[u] = pc[u]
        BY <1>1, <1>3, <2>1, <2>3 DEF K!Begin
      <3>2. \A v \in Thread : pc'[v] = "swap" => pc[v] = "swap"
        BY <1>1, <2>1
      <3> QED
        BY <2>1, <3>1, <3>2 DEF KeyMatch
    <2> QED
      BY <2>2, <2>3
  <1>4. ASSUME NEW t \in Thread, K!Stat(t) PROVE KeyMatch'
    <2> SUFFICES ASSUME K!TurnsTaken', NEW u \in Thread, Matches(u) PROVE InHand(u)'
      BY <1>4 DEF KeyMatch, K!Stat
    <2>1. K!TurnsTaken /\ UNCHANGED <<want, said, cache, stat, keys, could, version>>
      BY <1>4 DEF K!Stat
    <2>2. sig' = [sig EXCEPT ![t] = version] /\ pc' = [pc EXCEPT ![t] = "cached"] /\ have' = have /\ pc[t] = "stat"
      BY <1>2, <1>4, <2>1 DEF K!Stat
    <2>3. \A v \in Thread : pc'[v] = "swap" => pc[v] = "swap" /\ sig'[v] = sig[v]
      BY <1>1, <2>2
    <2>4. CASE u = t
      <3>1. (want[u].key \in keys) \in could[u]
        BY <2>1, <2>2, <2>4 DEF KeyMatch
      <3>2. \A r \in Replica : cache[r] # None /\ stat[r] = version => cache[r] = keys
        BY <2>1 DEF KeyHeld
      <3>3. \A v \in Thread : pc[v] = "swap" /\ sig[v] = version => have[v] = keys
        BY <2>1 DEF KeyHeld
      <3>4. pc'[u] = "cached" /\ sig'[u] = version
        BY <1>1, <2>2, <2>4
      <3>5. \A r \in Replica : cache[r] # None /\ stat[r] = version => (want[u].key \in cache[r]) \in could[u]
        BY <3>1, <3>2, Zenon
      <3>6. \A v \in Thread : pc[v] = "swap" /\ sig[v] = version => (want[u].key \in have[v]) \in could[u]
        BY <3>1, <3>3, Zenon
      <3> QED
        BY <2>1, <2>2, <2>3, <3>1, <3>4, <3>5, <3>6
    <2>5. CASE u # t
      <3>1. pc'[u] = pc[u] /\ sig'[u] = sig[u]
        BY <1>1, <2>2, <2>5
      <3> QED
        BY <2>1, <2>2, <2>3, <3>1 DEF KeyMatch
    <2> QED
      BY <2>4, <2>5
  <1>5. ASSUME NEW t \in Thread, K!Cached(t) PROVE KeyMatch'
    BY <1>1, <1>2, <1>5 DEF K!Cached, KeyMatch
  <1>6. ASSUME NEW t \in Thread, K!Read(t) PROVE KeyMatch'
    BY <1>1, <1>2, <1>6 DEF K!Read, KeyMatch
  <1>7. ASSUME NEW t \in Thread, K!Swap(t) PROVE KeyMatch'
    BY <1>1, <1>2, <1>7 DEF K!Swap, KeyMatch
  <1>8. ASSUME NEW t \in Thread, K!Decide(t) PROVE KeyMatch'
    BY <1>1, <1>2, <1>8 DEF K!Decide, K!AddKey, K!RemoveKey, K!MatchPresentation, KeyMatch
  <1>9. ASSUME NEW t \in Thread, K!Replace(t) PROVE KeyMatch'
    BY <1>1, <1>2, <1>9 DEF K!Replace, K!Could, KeyMatch
  <1>10. ASSUME NEW t \in Thread, K!Restat(t) PROVE KeyMatch'
    <2> SUFFICES ASSUME K!TurnsTaken', NEW u \in Thread, Matches(u) PROVE InHand(u)'
      BY <1>10 DEF KeyMatch, K!Restat
    <2>1. /\ K!TurnsTaken /\ UNCHANGED <<want, sig, have, keys, could>> /\ pc[t] = "restat" /\ K!Writes(t)
          /\ cache' = [cache EXCEPT ![ThreadOf[t]] = have[t]]
      BY <1>2, <1>10 DEF K!Restat
    <2>2. have[t] = keys
      BY <2>1 DEF KeyHeld
    <2>3. u # t
      BY <2>1
    <2>4. /\ pc'[u] = pc[u] /\ said'[u] = said[u]
          /\ \A v \in Thread : pc'[v] = "swap" => pc[v] = "swap"
          /\ \A r \in Replica \ {ThreadOf[t]} : stat'[r] = stat[r] /\ cache'[r] = cache[r]
      BY <1>1, <1>10, <2>3 DEF K!Restat
    <2>5. cache'[ThreadOf[t]] = keys
      BY <1>1, <2>1, <2>2
    <2>6. InHand(u)
      BY <2>1 DEF KeyMatch
    <2>7. ASSUME pc[u] = "cached", NEW r \in Replica, cache'[r] # None, stat'[r] = sig[u]
          PROVE  (want[u].key \in cache'[r]) \in could[u]
      <3>1. (want[u].key \in keys) \in could[u]
        BY <2>6, <2>7
      <3>2. CASE r = ThreadOf[t]
        BY <2>5, <3>1, <3>2, Zenon
      <3>3. CASE r # ThreadOf[t]
        BY <2>4, <2>6, <2>7, <3>3
      <3> QED
        BY <3>2, <3>3
    <2> QED
      BY <2>1, <2>4, <2>6, <2>7
  <1>11. ASSUME NEW how \in {"vanish", "break"}, K!Harm(how) PROVE KeyMatch'
    BY <1>1, <1>2, <1>11 DEF K!Harm, KeyMatch
  <1>12. ASSUME NEW r \in Replica, K!Restart(r) PROVE KeyMatch'
    <2> SUFFICES ASSUME K!TurnsTaken', NEW u \in Thread, Matches(u) PROVE InHand(u)'
      BY <1>12 DEF KeyMatch, K!Restart
    <2>1. /\ UNCHANGED <<want, sig, have, said, keys>>
          /\ cache' = [cache EXCEPT ![r] = None] /\ stat' = [stat EXCEPT ![r] = 0]
          /\ \A v \in Thread : pc'[v] = IF ThreadOf[v] = r /\ K!Running(v) THEN "over" ELSE pc[v]
      BY <1>1, <1>12 DEF K!Restart
    <2>2. K!TurnsTaken
      BY <1>12 DEF K!Restart
    <2>3. InHand(u)
      BY <2>2 DEF KeyMatch
    <2>4. CASE ThreadOf[u] = r /\ K!Running(u)
      <3>1. could'[u] = BOOLEAN /\ pc'[u] = "over"
        BY <1>12, <2>1, <2>4 DEF K!Restart
      <3>2. said[u] \in BOOLEAN
        BY DEF K!TypeOK
      <3> QED
        BY <2>1, <3>1, <3>2
    <2>5. CASE ~(ThreadOf[u] = r /\ K!Running(u))
      <3>1. could'[u] = could[u] /\ pc'[u] = pc[u]
        BY <1>12, <2>1, <2>5 DEF K!Restart
      <3>2. /\ \A v \in Thread : pc'[v] = "swap" => pc[v] = "swap"
            /\ \A q \in Replica : cache'[q] # None => cache'[q] = cache[q] /\ stat'[q] = stat[q]
        BY <1>1, <2>1
      <3> QED
        BY <2>1, <2>3, <3>1, <3>2
    <2> QED
      BY <2>4, <2>5
  <1>13. ASSUME K!Return \/ UNCHANGED K!vars PROVE KeyMatch'
    BY <1>1, <1>2, <1>13 DEF K!Return, K!vars, KeyMatch
  <1> QED
    BY <1>3, <1>4, <1>5, <1>6, <1>7, <1>8, <1>9, <1>10, <1>11, <1>12, <1>13 DEF K!Next, K!Step

KeyInv == K!TypeOK /\ KeyLocks /\ KeyFresh /\ KeyHeld /\ KeyGone /\ KeyLanded /\ KeyAlone /\ KeyMatch

LEMMA KeysStart == ASSUME K!Parameters, K!Init PROVE KeyInv
  <1> USE DEF K!Init
  <1>1. K!TypeOK
    <2>1. cache \in [Replica -> {None} \union SUBSET Fingerprint] /\ rmw \in [Replica -> Thread \union {None}]
      OBVIOUS
    <2>2. could \in [Thread -> SUBSET BOOLEAN] /\ have \in [Thread -> SUBSET Fingerprint]
      OBVIOUS
    <2>3. pc \in [Thread -> K!Steps] /\ sig \in [Thread -> Nat] /\ said \in [Thread -> BOOLEAN] /\ stat \in [Replica -> Nat]
      BY DEF K!Steps
    <2>4. keys \subseteq Fingerprint /\ harm \subseteq K!Harms /\ crossed \in BOOLEAN
      BY DEF K!Parameters
    <2>5. look \in {"absent", "good", "broken", "misshapen"} /\ version \in Nat \ {0} /\ want \in [Thread -> Want]
      OBVIOUS
    <2> HIDE DEF K!Init
    <2> QED
      BY <2>1, <2>2, <2>3, <2>4, <2>5 DEF K!TypeOK
  <1>2. KeyLocks
    BY DEF K!Parameters, KeyLocks, K!Running
  <1>3. KeyFresh
    BY DEF KeyFresh, Adds, Removes, Unminted, Revoked
  <1>4. KeyHeld /\ KeyGone /\ KeyLanded
    BY DEF KeyHeld, KeyGone, KeyLanded, Revoked
  <1>5. KeyAlone /\ KeyMatch
    BY DEF KeyAlone, StaysOut, KeyMatch, InHand, Revoked, K!Running
  <1> QED
    BY <1>1, <1>2, <1>3, <1>4, <1>5 DEF KeyInv

LEMMA KeysKeep == K!Parameters /\ KeyInv /\ [K!Next]_(K!vars) => KeyInv'
  BY KeysTyped, LocksKeep, FreshKeeps, HeldKeeps, GoneKeeps, LandedKeeps, AloneKeeps, MatchKeeps DEF KeyInv

\* For any replicas, threads, requests and number of mishaps: no mint brings a revoked key
\* back and both of two mints land, while turns are taken at a file that stays, or
\* (revocations) on a replica that nobody else uses, whatever befalls the file
\* (add_key, remove_key, _load, _write).
THEOREM KeysStayAsSaid == ASSUME K!Parameters PROVE K!Spec => [](K!TypeOK /\ KeysAsSaid)
  <1>1. ASSUME KeyInv PROVE K!TypeOK /\ KeysAsSaid
    <2> SUFFICES ASSUME NEW key \in Fingerprint
                 PROVE  /\ K!Succeeded("remove_key", key) /\ (K!Alone \/ K!TurnsTaken) => key \notin keys
                        /\ K!Succeeded("add_key", key) /\ key \notin keys /\ K!TurnsTaken =>
                             \E t \in Thread : want[t].op = "remove_key" /\ want[t].key = key
      BY <1>1 DEF KeysAsSaid, K!KeysAsSaid, KeyInv
    <2>1. ASSUME K!Succeeded("remove_key", key), K!Alone \/ K!TurnsTaken PROVE key \notin keys
      <3>1. PICK t \in Thread : said[t] /\ Removes(t) /\ want[t].key = key
        BY <2>1 DEF K!Succeeded, Removes
      <3>2. Revoked(t)
        BY <3>1 DEF Revoked
      <3> QED
        BY <1>1, <2>1, <3>1, <3>2 DEF KeyInv, KeyAlone, StaysOut, KeyGone
    <2>2. ASSUME K!Succeeded("add_key", key), key \notin keys, K!TurnsTaken
          PROVE  \E t \in Thread : want[t].op = "remove_key" /\ want[t].key = key
      <3>1. PICK t \in Thread : said[t] /\ Adds(t) /\ want[t].key = key
        BY <2>2 DEF K!Succeeded, Adds
      <3> QED
        BY <1>1, <2>2, <3>1 DEF KeyInv, KeyLanded, Removes
    <2> QED
      BY <2>1, <2>2
  <1>2. KeyInv => K!TypeOK /\ KeysAsSaid
    BY <1>1
  <1> QED
    BY <1>2, KeysStart, KeysKeep, PTL DEF K!Spec

\* For any replicas, threads and requests: while turns are taken at a file that stays, a
\* presented key is answered as the file stood at some moment of the request, though
\* slow loads leave old contents in the cache (match_presentation, _load).
THEOREM MatchesStayCurrent == ASSUME K!Parameters PROVE K!Spec => []MatchesAreCurrent
  <1>1. KeyInv => MatchesAreCurrent
    BY DEF KeyInv, KeyMatch, InHand, Matches, MatchesAreCurrent, K!MatchesAreCurrent
  <1> QED
    BY <1>1, KeysStart, KeysKeep, PTL DEF K!Spec

-----------------------------------------------------------------------------
(* SavedQueries.                                                           *)

Locked == {"check", "load", "aside", "write"}

\* The thread lock of a replica is that of its call under way, and unless a call has
\* gone on without it the file lock is that of the call that is at the file.
SaveLocks ==
  /\ \A c \in Saver, r \in Replica : inside[r] = c <=> SaverOf[c] = r /\ at[c] \in Locked \union {"flock"}
  /\ unsure = {} => \A c \in Saver : at[c] \in Locked => flock = c

\* No file has no entries; and what a call is about to write over is what it loaded.
SaveBase ==
  /\ state = "absent" => store = S!Empty
  /\ unsure = {} => \A c \in Saver : at[c] = "write" => base[c] = store

LEMMA SavedTyped ==
  ASSUME S!Parameters, S!TypeOK, [S!Next]_(S!vars)
  PROVE  S!TypeOK'
  <1> USE DEF S!Go, S!Op, S!Target, S!Unlock, S!KeepLocks, S!file, S!First, S!Steps, S!Entries, S!Empty, S!In
  <1>1. \A c \in Saver : /\ SaverOf[c] \in Replica /\ c # None
                         /\ ask[c].op \in {"save", "delete", "look"} /\ ask[c].name \in Title
    BY DEF S!Parameters, S!TypeOK
  <1>2. S!Empty \in S!Entries /\ store \in S!Entries /\ S!In(store) \subseteq Saver
    BY DEF S!TypeOK
  <1>3. ASSUME NEW c \in Saver, S!Enter(c) PROVE S!TypeOK'
    BY <1>1, <1>3 DEF S!Enter, S!TypeOK
  <1>4. ASSUME NEW c \in Saver, S!Lock(c) PROVE S!TypeOK'
    BY <1>1, <1>4 DEF S!Lock, S!TypeOK
  <1>5. ASSUME NEW c \in Saver, S!GoUnlocked(c) PROVE S!TypeOK'
    BY <1>1, <1>5 DEF S!GoUnlocked, S!TypeOK
  <1>6. ASSUME NEW c \in Saver, S!Check(c) PROVE S!TypeOK'
    BY <1>1, <1>6 DEF S!Check, S!TypeOK
  <1>7. ASSUME NEW c \in Saver, S!Load(c) PROVE S!TypeOK'
    <2>1. PICK e \in {store, S!Empty} :
            S!Decide(c, e) \/ (S!Go(c, "aside") /\ UNCHANGED <<inside, flock, base, done>>)
      BY <1>7, Zenon DEF S!Load
    <2>2. at' \in [Saver -> S!Steps] /\ base' \in [Saver -> S!Entries] /\ done' \subseteq Saver
      BY <1>2, <2>1 DEF S!Decide, S!TypeOK
    <2>3. inside' \in [Replica -> Saver \union {None}] /\ flock' \in Saver \union {None, "other"}
      BY <1>1, <2>1 DEF S!Decide, S!TypeOK
    <2>4. unsure' \subseteq Saver /\ UNCHANGED <<ask, given, state, store, aside>>
      BY <1>7 DEF S!Load, S!TypeOK
    <2> QED
      BY <2>2, <2>3, <2>4 DEF S!TypeOK
  <1>8. ASSUME NEW c \in Saver, S!Quarantine(c) PROVE S!TypeOK'
    <2>1. S!Decide(c, S!Empty)
      BY <1>8 DEF S!Quarantine
    <2>2. at' \in [Saver -> S!Steps] /\ base' \in [Saver -> S!Entries] /\ done' \subseteq Saver
      BY <1>2, <2>1 DEF S!Decide, S!TypeOK
    <2>3. inside' \in [Replica -> Saver \union {None}] /\ flock' \in Saver \union {None, "other"}
      BY <1>1, <2>1 DEF S!Decide, S!TypeOK
    <2>4. UNCHANGED <<ask, given>> /\ unsure' \subseteq Saver
      BY <1>8 DEF S!Quarantine, S!TypeOK
    <2>5. state' \in {"absent", "good", "garbled", "misshapen"} /\ store' \in S!Entries /\ aside' \subseteq Saver
      BY <1>2, <1>8 DEF S!Quarantine, S!TypeOK
    <2> QED
      BY <2>2, <2>3, <2>4, <2>5 DEF S!TypeOK
  <1>9. ASSUME NEW c \in Saver, S!WriteFile(c) PROVE S!TypeOK'
    BY <1>1, <1>9 DEF S!WriteFile, S!TypeOK
  <1>10. ASSUME NEW r \in Replica, S!Crash(r) PROVE S!TypeOK'
    BY <1>1, <1>10 DEF S!Crash, S!TypeOK
  <1>11. ASSUME NEW s \in {"garbled", "misshapen"}, S!Damage(s) PROVE S!TypeOK'
    BY <1>1, <1>11 DEF S!Damage, S!TypeOK
  <1>12. ASSUME UNCHANGED S!vars PROVE S!TypeOK'
    BY <1>1, <1>12 DEF S!vars, S!TypeOK
  <1> QED
    BY <1>3, <1>4, <1>5, <1>6, <1>7, <1>8, <1>9, <1>10, <1>11, <1>12 DEF S!Next, S!Step

LEMMA SaveLocksKeep ==
  ASSUME S!Parameters, S!TypeOK, SaveLocks, [S!Next]_(S!vars)
  PROVE  SaveLocks'
  <1> USE DEF S!Go, S!Op, S!Target, S!Unlock, S!KeepLocks, S!file, S!First, Locked
  <1>1. /\ \A c \in Saver : SaverOf[c] \in Replica /\ c # None
        /\ DOMAIN at = Saver /\ DOMAIN inside = Replica /\ DOMAIN base = Saver
    BY DEF S!Parameters, S!TypeOK
  <1>2. ASSUME NEW c \in Saver, S!Enter(c) PROVE SaveLocks'
    BY <1>1, <1>2 DEF S!Enter, SaveLocks
  <1>3. ASSUME NEW c \in Saver, S!Lock(c) PROVE SaveLocks'
    BY <1>1, <1>3 DEF S!Lock, SaveLocks
  <1>4. ASSUME NEW c \in Saver, S!GoUnlocked(c) PROVE SaveLocks'
    BY <1>1, <1>4 DEF S!GoUnlocked, SaveLocks
  <1>5. ASSUME NEW c \in Saver, S!Check(c) PROVE SaveLocks'
    BY <1>1, <1>5 DEF S!Check, SaveLocks
  <1>6. ASSUME NEW c \in Saver, S!Load(c) PROVE SaveLocks'
    BY <1>1, <1>6 DEF S!Load, S!Decide, SaveLocks
  <1>7. ASSUME NEW c \in Saver, S!Quarantine(c) PROVE SaveLocks'
    BY <1>1, <1>7 DEF S!Quarantine, S!Decide, SaveLocks
  <1>8. ASSUME NEW c \in Saver, S!WriteFile(c) PROVE SaveLocks'
    BY <1>1, <1>8 DEF S!WriteFile, SaveLocks
  <1>9. ASSUME NEW r \in Replica, S!Crash(r) PROVE SaveLocks'
    <2>1. inside[r] \in Saver /\ SaverOf[inside[r]] = r
      BY <1>9 DEF S!Crash, S!TypeOK, SaveLocks
    <2> DEFINE c == inside[r]
    <2>2. /\ at' = [at EXCEPT ![c] = "over"] /\ inside' = [inside EXCEPT ![r] = None] /\ unsure' = unsure
          /\ flock' = IF flock = c THEN None ELSE flock
      BY <1>9, <2>1 DEF S!Crash
    <2> HIDE DEF c
    <2>3. c \in Saver /\ SaverOf[c] = r /\ inside[r] = c
      BY <2>1 DEF c
    <2> QED
      BY <1>1, <2>2, <2>3 DEF SaveLocks
  <1>10. ASSUME NEW s \in {"garbled", "misshapen"}, S!Damage(s) PROVE SaveLocks'
    BY <1>1, <1>10 DEF S!Damage, SaveLocks
  <1>11. ASSUME UNCHANGED S!vars PROVE SaveLocks'
    BY <1>1, <1>11 DEF S!vars, SaveLocks
  <1> QED
    BY <1>2, <1>3, <1>4, <1>5, <1>6, <1>7, <1>8, <1>9, <1>10, <1>11 DEF S!Next, S!Step

LEMMA SaveBaseKeeps ==
  ASSUME S!Parameters, S!TypeOK, SaveLocks, SaveBase, [S!Next]_(S!vars)
  PROVE  SaveBase'
  <1> USE DEF S!Go, S!Op, S!Target, S!Unlock, S!KeepLocks, S!file, S!First, Locked
  <1>1. /\ \A c \in Saver : SaverOf[c] \in Replica /\ c # None
        /\ DOMAIN at = Saver /\ DOMAIN inside = Replica /\ DOMAIN base = Saver
    BY DEF S!Parameters, S!TypeOK
  <1>2. ASSUME NEW c \in Saver, S!Enter(c) PROVE SaveBase'
    BY <1>1, <1>2 DEF S!Enter, SaveBase
  <1>3. ASSUME NEW c \in Saver, S!Lock(c) PROVE SaveBase'
    BY <1>1, <1>3 DEF S!Lock, SaveBase
  <1>4. ASSUME NEW c \in Saver, S!GoUnlocked(c) PROVE SaveBase'
    BY <1>1, <1>4 DEF S!GoUnlocked, SaveBase
  <1>5. ASSUME NEW c \in Saver, S!Check(c) PROVE SaveBase'
    BY <1>1, <1>5 DEF S!Check, SaveBase
  <1>6. ASSUME NEW c \in Saver, S!Load(c) PROVE SaveBase'
    BY <1>1, <1>6 DEF S!Load, S!Decide, SaveBase
  <1>7. ASSUME NEW c \in Saver, S!Quarantine(c) PROVE SaveBase'
    <2>1. state' = "absent" => store' = S!Empty
      BY <1>7 DEF S!Quarantine, SaveBase
    <2>2. ASSUME unsure' = {}, NEW d \in Saver, at'[d] = "write" PROVE base'[d] = store'
      <3>1. unsure = {} /\ store' = S!Empty /\ base' = [base EXCEPT ![c] = S!Empty] /\ at[c] = "aside"
        BY <1>7, <2>2 DEF S!Quarantine, S!Decide
      <3>2. d # c => at[d] = "write"
        BY <1>1, <1>7, <2>2 DEF S!Quarantine, S!Decide
      <3>3. d = c
        BY <3>1, <3>2 DEF SaveLocks
      <3> QED
        BY <1>1, <3>1, <3>3
    <2> QED
      BY <2>1, <2>2 DEF SaveBase
  <1>8. ASSUME NEW c \in Saver, S!WriteFile(c) PROVE SaveBase'
    <2>1. state' = "absent" => store' = S!Empty
      BY <1>8 DEF S!WriteFile, SaveBase
    <2>2. ASSUME unsure' = {}, NEW d \in Saver, at'[d] = "write" PROVE base'[d] = store'
      <3>1. unsure = {} /\ at[c] = "write" /\ d # c /\ at[d] = "write"
        BY <1>1, <1>8, <2>2 DEF S!WriteFile
      <3> QED
        BY <3>1 DEF SaveLocks
    <2> QED
      BY <2>1, <2>2 DEF SaveBase
  <1>9. ASSUME NEW r \in Replica, S!Crash(r) PROVE SaveBase'
    BY <1>1, <1>9 DEF S!Crash, SaveBase
  <1>10. ASSUME NEW s \in {"garbled", "misshapen"}, S!Damage(s) PROVE SaveBase'
    BY <1>1, <1>10 DEF S!Damage, SaveBase
  <1>11. ASSUME UNCHANGED S!vars PROVE SaveBase'
    BY <1>1, <1>11 DEF S!vars, SaveBase
  <1> QED
    BY <1>2, <1>3, <1>4, <1>5, <1>6, <1>7, <1>8, <1>9, <1>10, <1>11 DEF S!Next, S!Step

LEMMA EntriesKeep ==
  ASSUME S!Parameters, S!TypeOK, SaveLocks, SaveBase, EntriesKept, [S!Next]_(S!vars)
  PROVE  EntriesKept'
  <1> USE DEF S!Go, S!Op, S!Target, S!Unlock, S!KeepLocks, S!file, S!First, S!EntriesKept, Locked
  <1>1. /\ \A c \in Saver : SaverOf[c] \in Replica /\ c # None
        /\ DOMAIN at = Saver /\ DOMAIN inside = Replica /\ DOMAIN base = Saver
    BY DEF S!Parameters, S!TypeOK
  <1>2. ASSUME NEW c \in Saver, S!Enter(c) PROVE EntriesKept'
    BY <1>1, <1>2 DEF S!Enter, EntriesKept
  <1>3. ASSUME NEW c \in Saver, S!Lock(c) PROVE EntriesKept'
    BY <1>1, <1>3 DEF S!Lock, EntriesKept
  <1>4. ASSUME NEW c \in Saver, S!GoUnlocked(c) PROVE EntriesKept'
    BY <1>1, <1>4 DEF S!GoUnlocked, EntriesKept
  <1>5. ASSUME NEW c \in Saver, S!Check(c) PROVE EntriesKept'
    BY <1>1, <1>5 DEF S!Check, EntriesKept
  <1>6. ASSUME NEW c \in Saver, S!Load(c) PROVE EntriesKept'
    BY <1>1, <1>6 DEF S!Load, S!Decide, EntriesKept
  <1>7. ASSUME NEW c \in Saver, S!Quarantine(c) PROVE EntriesKept'
    BY <1>1, <1>7 DEF S!Quarantine, S!Decide, EntriesKept
  <1>8. ASSUME NEW c \in Saver, S!WriteFile(c) PROVE EntriesKept'
    <2> SUFFICES ASSUME unsure' = {}, NEW d \in done', S!Op(d)' = "save"
                 PROVE  d \in S!In(store)' \union aside' \union given'
      BY DEF EntriesKept
    <2>1. UNCHANGED <<ask, aside, unsure>> /\ at[c] = "write"
      BY <1>8 DEF S!WriteFile
    <2>2. CASE UNCHANGED <<store, state, given, done>>
      <3>1. d \in S!In(store) \union aside \union given
        BY <2>1, <2>2 DEF EntriesKept
      <3> QED
        BY <2>1, <2>2, <3>1 DEF S!In
    <2>3. CASE /\ store' = [base[c] EXCEPT ![ask[c].name] = IF ask[c].op = "save" THEN c ELSE None]
               /\ given' = given \union ({base[c][ask[c].name]} \ {None}) /\ done' = done \union {c}
      <3>1. base[c] = store /\ ask[c].name \in Title /\ DOMAIN store = Title /\ None \notin Saver
        BY <2>1 DEF SaveBase, S!TypeOK, S!Entries, S!Parameters
      <3>2. CASE d = c
        <4>1. store'[ask[c].name] = c /\ c # None
          BY <2>1, <2>3, <3>1, <3>2
        <4> QED
          BY <3>1, <3>2, <4>1 DEF S!In
      <3>3. CASE d # c
        <4>1. d \in S!In(store) \union aside \union given
          BY <2>1, <2>3, <3>3 DEF EntriesKept
        <4>2. ASSUME d \in S!In(store) PROVE d \in S!In(store)' \union given'
          <5>1. PICK n \in Title : store[n] = d /\ d # None
            BY <4>2 DEF S!In
          <5>2. CASE n = ask[c].name
            BY <2>3, <3>1, <5>1, <5>2
          <5>3. CASE n # ask[c].name
            <6>1. store'[n] = d
              BY <2>3, <3>1, <5>1, <5>3
            <6> QED
              BY <5>1, <6>1 DEF S!In
          <5> QED
            BY <5>2, <5>3
        <4> QED
          BY <2>1, <2>3, <4>1, <4>2
      <3> QED
        BY <3>2, <3>3
    <2> QED
      BY <1>8, <2>2, <2>3 DEF S!WriteFile
  <1>9. ASSUME NEW r \in Replica, S!Crash(r) PROVE EntriesKept'
    BY <1>1, <1>9 DEF S!Crash, EntriesKept
  <1>10. ASSUME NEW s \in {"garbled", "misshapen"}, S!Damage(s) PROVE EntriesKept'
    BY <1>1, <1>10 DEF S!Damage, EntriesKept
  <1>11. ASSUME UNCHANGED S!vars PROVE EntriesKept'
    BY <1>1, <1>11 DEF S!vars, EntriesKept
  <1> QED
    BY <1>2, <1>3, <1>4, <1>5, <1>6, <1>7, <1>8, <1>9, <1>10, <1>11 DEF S!Next, S!Step

\* For any replicas, calls and requests, any cap, and whatever edits, damage and crashes
\* come together: an entry that was saved is in the file, or put aside, until a call
\* that saw it replaces or deletes it (save, delete, _load, _quarantine).
THEOREM EntriesStay == ASSUME S!Parameters PROVE S!Spec => [](S!TypeOK /\ EntriesKept)
  <1>1. S!Init => S!TypeOK /\ SaveLocks /\ SaveBase /\ EntriesKept
    <2> SUFFICES ASSUME S!Init PROVE S!TypeOK /\ SaveLocks /\ SaveBase /\ EntriesKept
      OBVIOUS
    <2>1. S!TypeOK
      BY DEF S!Init, S!TypeOK, S!Steps, S!Entries, S!Empty
    <2>2. SaveLocks /\ SaveBase /\ EntriesKept
      BY DEF S!Init, S!Parameters, SaveLocks, SaveBase, Locked, EntriesKept, S!EntriesKept
    <2> QED
      BY <2>1, <2>2
  <1>2. S!TypeOK /\ SaveLocks /\ SaveBase /\ EntriesKept /\ [S!Next]_(S!vars)
          => (S!TypeOK /\ SaveLocks /\ SaveBase /\ EntriesKept)'
    BY SavedTyped, SaveLocksKeep, SaveBaseKeeps, EntriesKeep
  <1> QED
    BY <1>1, <1>2, PTL DEF S!Spec

-----------------------------------------------------------------------------
(* PreviewRows.                                                            *)

\* What an entry may hold of a request: what the request is due, whichever way it was
\* answered; a request for no rows at all may have any; and what the requests share is
\* never more than the first file has.
Fit(k) == IF k = Canon THEN 0..FirstRows
          ELSE IF k.limit = 0 THEN P!Rows
          ELSE P!Due(k, FirstRows)..P!Due(k, TableRows)

\* Entries fit their keys, in every memory and on the volume, and a request holds what
\* fits its own key and, on its way to the shared entry, that one too.
PreviewInv ==
  /\ \A k \in P!Key : /\ l2[k] # None => l2[k] \in Fit(k)
                      /\ \A r \in Replica : l1[r][k] # None => l1[r][k] \in Fit(k)
  /\ \A t \in Thread :
       /\ atP[t] \in {"compare", "keep", "store"} => rows[t] \in Fit(askP[t]) \intersect (0..FirstRows)
       /\ atP[t] = "answered" => rows[t] \in Fit(askP[t])

\* AnswerIsDue of every request that asks for rows at all.
DueUnlessZero == \A t \in Thread : atP[t] = "answered" /\ askP[t].limit # 0 =>
  rows[t] \in P!Due(askP[t], FirstRows)..P!Due(askP[t], TableRows)

\* No caller hands in a cap of 0 (webui.api_export's is positive, the others have none).
CapsCut == \A a \in Previews : a.cap # 0

\* What a request names: the rows of its SQL, its limit and its cap.
Asked(a) == {a.n} \union P!Given(a.limit) \union P!Positive(P!Cap(a))

\* A member of a set of numbers that none undercuts is its minimum.
LEMMA MinIs ==
  ASSUME NEW N, N \subseteq Nat, NEW m \in N, \A y \in N : m <= y
  PROVE  P!Min(N) = m
  <1>1. \A z \in N : (\A y \in N : z <= y) => z = m
    OBVIOUS
  <1> QED
    BY <1>1 DEF P!Min

\* What is asked of the shared entry is the least that the request names.
LEMMA EffAskIsLeast ==
  ASSUME P!Parameters, CapsCut, NEW a \in Previews
  PROVE  /\ Asked(a) \subseteq Nat
         /\ P!EffAsk(a) \in Asked(a)
         /\ \A y \in Asked(a) : P!EffAsk(a) <= y
  <1>1. /\ a.n \in Nat /\ a.limit \in Nat \union {None} /\ a.cap \in Nat \union {None} /\ a.cap # 0
        /\ MaxRows \in Nat /\ None \notin Nat
    BY DEF P!Parameters, CapsCut
  <1>2. P!Cap(a) \in Nat
    BY <1>1 DEF P!Cap
  <1>3. Asked(a) \subseteq Nat
    BY <1>1, <1>2 DEF Asked, P!Given, P!Positive
  <1>4. PICK m \in Asked(a) : \A y \in Asked(a) : m <= y
    <2> DEFINE n == IF a.limit # None /\ a.limit < a.n THEN a.limit ELSE a.n
               m == IF P!Cap(a) # 0 /\ P!Cap(a) < n THEN P!Cap(a) ELSE n
    <2>1. m \in Asked(a)
      BY <1>1, <1>2 DEF Asked, P!Given, P!Positive
    <2>2. \A y \in Asked(a) : m <= y
      BY <1>1, <1>2 DEF Asked, P!Given, P!Positive
    <2> QED
      BY <2>1, <2>2
  <1>5. (IF P!Positive(a.cap) # {} THEN P!Positive(a.cap) ELSE P!Positive(MaxRows)) = P!Positive(P!Cap(a))
    BY <1>1 DEF P!Cap, P!Given, P!Positive
  <1>6. P!EffAsk(a) = P!Min(Asked(a))
    BY <1>5 DEF P!EffAsk, Asked
  <1>7. P!EffAsk(a) = m
    BY <1>3, <1>4, <1>6, MinIs
  <1> QED
    BY <1>3, <1>4, <1>7

\* Of a table with so many rows a request is due what it asks, or all of them.
LEMMA DueIs ==
  ASSUME P!Parameters, CapsCut, NEW a \in Previews, NEW k \in Nat
  PROVE  P!Due(a, k) = IF k <= P!EffAsk(a) THEN k ELSE P!EffAsk(a)
  <1> DEFINE m == IF k <= P!EffAsk(a) THEN k ELSE P!EffAsk(a)
  <1>1. P!Due(a, k) = P!Min({k} \union Asked(a))
    <2>1. {k, a.n} \union P!Given(a.limit) \union P!Positive(P!Cap(a)) = {k} \union Asked(a)
      BY DEF Asked
    <2> QED
      BY <2>1 DEF P!Due
  <1>2. {k} \union Asked(a) \subseteq Nat /\ m \in {k} \union Asked(a)
    BY EffAskIsLeast
  <1>3. \A y \in {k} \union Asked(a) : m <= y
    BY EffAskIsLeast
  <1> HIDE DEF m
  <1>4. P!Min({k} \union Asked(a)) = m
    BY <1>2, <1>3, MinIs
  <1> QED
    BY <1>1, <1>4 DEF m

\* The first rows of the first file are what the request is due of them, or, of one that
\* asks for no rows, no more than the file has.
LEMMA FastIs ==
  ASSUME P!Parameters, CapsCut, NEW a \in Previews
  PROVE  /\ P!FastRows(a) \in 0..FirstRows
         /\ a.limit # 0 => P!FastRows(a) = P!Due(a, FirstRows)
  <1>1. /\ a.n \in Nat /\ a.limit \in Nat \union {None} /\ a.cap \in Nat \union {None} /\ a.cap # 0
        /\ MaxRows \in Nat /\ FirstRows \in Nat /\ TableRows \in Nat /\ None \notin Nat
    BY DEF P!Parameters, CapsCut
  <1>2. P!Cap(a) \in Nat
    BY <1>1 DEF P!Cap
  <1> DEFINE least == IF a.n <= FirstRows THEN a.n ELSE FirstRows
             cut == IF P!Cap(a) = 0 THEN IF a.limit = None THEN 0 ELSE a.limit
                    ELSE IF a.limit # None /\ a.limit < P!Cap(a) THEN a.limit ELSE P!Cap(a)
             fast == IF cut # 0 /\ cut < least THEN cut ELSE least
  <1>3. P!Least(a) = least
    BY <1>1, MinIs DEF P!Least
  <1>4. P!EffCap(a) = cut
    <2>1. CASE P!Cap(a) = 0
      BY <1>1, <2>1 DEF P!EffCap
    <2>2. CASE P!Cap(a) # 0
      <3>1. {P!Cap(a)} \union P!Given(a.limit) \subseteq Nat /\ cut \in {P!Cap(a)} \union P!Given(a.limit)
        BY <1>1, <1>2, <2>2 DEF P!Given
      <3>2. \A y \in {P!Cap(a)} \union P!Given(a.limit) : cut <= y
        BY <1>1, <1>2, <2>2 DEF P!Given
      <3>3. P!Min({P!Cap(a)} \union P!Given(a.limit)) = cut
        BY ONLY <3>1, <3>2, MinIs
      <3> QED
        BY <1>2, <2>2, <3>3 DEF P!EffCap
    <2> QED
      BY <2>1, <2>2
  <1>5. least \in Nat /\ cut \in Nat /\ least <= FirstRows
    BY <1>1, <1>2
  <1>6. P!FastRows(a) = fast
    <2> HIDE DEF least, cut
    <2>1. {least} \union P!Positive(cut) \subseteq Nat /\ fast \in {least} \union P!Positive(cut)
      BY <1>1, <1>5 DEF P!Positive, P!Given
    <2>2. \A y \in {least} \union P!Positive(cut) : fast <= y
      BY <1>1, <1>5 DEF P!Positive, P!Given
    <2>3. P!Min({least} \union P!Positive(cut)) = fast
      BY ONLY <2>1, <2>2, MinIs
    <2> QED
      BY <1>3, <1>4, <2>3 DEF P!FastRows
  <1>7. P!FastRows(a) \in 0..FirstRows
    <2> HIDE DEF least, cut
    <2> QED
      BY <1>1, <1>5, <1>6
  <1>8. ASSUME a.limit # 0 PROVE P!FastRows(a) = P!Due(a, FirstRows)
    <2> DEFINE N == {FirstRows, a.n} \union P!Given(a.limit) \union P!Positive(P!Cap(a))
    <2>1. N \subseteq Nat /\ fast \in N
      BY <1>1, <1>2, <1>8 DEF P!Positive, P!Given
    <2>2. \A y \in N : fast <= y
      BY <1>1, <1>2, <1>8 DEF P!Positive, P!Given
    <2> HIDE DEF fast, N
    <2>3. P!Min(N) = fast
      BY <2>1, <2>2, MinIs
    <2> QED
      BY <1>6, <2>3 DEF P!Due, N
  <1> QED
    BY <1>7, <1>8

\* What fits a key are rows of the table.
LEMMA FitsRows ==
  ASSUME P!Parameters, CapsCut, NEW k \in P!Key
  PROVE  Fit(k) \subseteq P!Rows /\ None \notin Fit(k)
  <1>1. FirstRows \in Nat /\ TableRows \in Nat /\ FirstRows <= TableRows /\ None \notin Nat
    BY DEF P!Parameters
  <1>2. CASE k = Canon \/ k.limit = 0
    BY <1>1, <1>2 DEF Fit, P!Rows
  <1>3. CASE k # Canon /\ k.limit # 0
    <2>1. k \in Previews /\ P!EffAsk(k) \in Nat
      BY <1>3, EffAskIsLeast DEF P!Key
    <2>2. P!Due(k, FirstRows) \in Nat /\ P!Due(k, TableRows) \in 0..TableRows
      BY <1>1, <2>1, DueIs
    <2> QED
      BY <1>1, <1>3, <2>2 DEF Fit, P!Rows
  <1> QED
    BY <1>2, <1>3

\* The read of the first file, the query itself, and the first rows of the shared entry
\* when it has all that is asked: each fits the key of the request.
LEMMA AnswersFit ==
  ASSUME P!Parameters, CapsCut, NEW a \in Previews
  PROVE  /\ P!FastRows(a) \in Fit(a) \intersect (0..FirstRows)
         /\ P!JobRows(a) \in Fit(a)
         /\ \A n \in 0..FirstRows : n >= P!EffAsk(a) => P!Min({P!EffAsk(a), n}) \in Fit(a)
  <1>1. FirstRows \in Nat /\ TableRows \in Nat /\ FirstRows <= TableRows /\ a # Canon
    BY DEF P!Parameters
  <1>2. P!EffAsk(a) \in Nat
    BY EffAskIsLeast
  <1>3. /\ P!Due(a, FirstRows) \in 0..FirstRows /\ P!Due(a, TableRows) \in 0..TableRows
        /\ P!Due(a, FirstRows) <= P!Due(a, TableRows)
    BY <1>1, <1>2, DueIs
  <1>4. P!JobRows(a) = P!Due(a, TableRows)
    <2>1. {a.n, TableRows} = {TableRows, a.n}
      OBVIOUS
    <2> QED
      BY <2>1 DEF P!JobRows, P!Due
  <1>5. P!FastRows(a) \in Fit(a) \intersect (0..FirstRows)
    BY <1>1, <1>3, FastIs DEF Fit, P!Rows
  <1>6. P!JobRows(a) \in Fit(a)
    BY <1>1, <1>3, <1>4 DEF Fit, P!Rows
  <1>7. ASSUME NEW n \in 0..FirstRows, n >= P!EffAsk(a) PROVE P!Min({P!EffAsk(a), n}) \in Fit(a)
    <2>1. P!Min({P!EffAsk(a), n}) = P!EffAsk(a)
      BY <1>1, <1>2, <1>7, MinIs
    <2>2. P!Due(a, FirstRows) = P!EffAsk(a)
      BY <1>1, <1>2, <1>7, DueIs
    <2> QED
      BY <1>1, <1>2, <1>3, <1>7, <2>1, <2>2 DEF Fit, P!Rows
  <1> QED
    BY <1>5, <1>6, <1>7

\* The steps of a preview keep the types.
LEMMA PreviewTyped ==
  ASSUME P!Parameters, CapsCut, P!TypeOK, PreviewInv, [P!Next]_(P!vars)
  PROVE  P!TypeOK'
  <1>1. /\ DOMAIN atP = Thread /\ DOMAIN askP = Thread /\ DOMAIN rows = Thread
        /\ DOMAIN l1 = Replica /\ DOMAIN l2 = P!Key /\ \A r \in Replica : DOMAIN l1[r] = P!Key
        /\ Canon \in P!Key /\ \A t \in Thread : ThreadOf[t] \in Replica /\ askP[t] \in Previews /\ askP[t] \in P!Key
    BY DEF P!TypeOK, P!Parameters, P!Key
  <1>2. \A t \in Thread, k \in P!Key : P!Found(t, k) \in P!Rows \union {None}
    BY <1>1 DEF P!Found, P!R, P!TypeOK
  <1>3. \A t \in Thread, k \in P!Key : P!Warm(t, k) => l1' \in [Replica -> [P!Key -> P!Rows \union {None}]]
    BY <1>1, <1>2 DEF P!Warm, P!R, P!TypeOK
  <1>4. ASSUME NEW t \in Thread, P!Call(t) PROVE P!TypeOK'
    BY <1>1, <1>4 DEF P!Call, P!To, P!TypeOK, P!Steps
  <1>5. ASSUME NEW t \in Thread, P!ExactLookup(t) PROVE P!TypeOK'
    <2>1. l1' \in [Replica -> [P!Key -> P!Rows \union {None}]]
      BY <1>1, <1>3, <1>5 DEF P!ExactLookup
    <2>2. /\ atP' \in [Thread -> P!Steps] /\ rows' \in [Thread -> P!Rows] /\ UNCHANGED <<askP, l2>>
      BY <1>1, <1>2, <1>5 DEF P!ExactLookup, P!Answer, P!To, P!TypeOK, P!Steps
    <2> QED
      BY <2>1, <2>2 DEF P!TypeOK
  <1>6. ASSUME NEW t \in Thread, P!SupersedeLookup(t) PROVE P!TypeOK'
    <2>1. l1' \in [Replica -> [P!Key -> P!Rows \union {None}]]
      BY <1>1, <1>3, <1>6 DEF P!SupersedeLookup, P!TypeOK
    <2>2. ASSUME P!Enough(t) PROVE P!Min({P!EffAsk(askP[t]), P!Found(t, Canon)}) \in P!Rows
      <3>1. P!Found(t, Canon) \in 0..FirstRows
        BY <1>1, <2>2 DEF P!Enough, P!Found, P!R, PreviewInv, Fit
      <3> QED
        BY <1>1, <2>2, <3>1, AnswersFit, FitsRows DEF P!Enough
    <2>3. /\ atP' \in [Thread -> P!Steps] /\ rows' \in [Thread -> P!Rows] /\ UNCHANGED <<askP, l2>>
      BY <1>1, <1>6, <2>2 DEF P!SupersedeLookup, P!Answer, P!To, P!TypeOK, P!Steps
    <2> QED
      BY <2>1, <2>3 DEF P!TypeOK
  <1>7. ASSUME NEW t \in Thread, P!FastPath(t) PROVE P!TypeOK'
    <2>1. P!FastRows(askP[t]) \in P!Rows
      BY <1>1, AnswersFit, FitsRows
    <2> QED
      BY <1>1, <1>7, <2>1 DEF P!FastPath, P!To, P!TypeOK, P!Steps
  <1>8. ASSUME NEW t \in Thread, P!Compare(t) PROVE P!TypeOK'
    <2>1. l1' \in [Replica -> [P!Key -> P!Rows \union {None}]]
      BY <1>1, <1>3, <1>8 DEF P!Compare
    <2> QED
      BY <1>1, <1>8, <2>1 DEF P!Compare, P!To, P!TypeOK, P!Steps
  <1>9. ASSUME NEW t \in Thread, P!Keep(t) PROVE P!TypeOK'
    BY <1>1, <1>9 DEF P!Keep, P!Store, P!R, P!To, P!TypeOK, P!Steps
  <1>10. ASSUME NEW t \in Thread, P!StoreExact(t) PROVE P!TypeOK'
    BY <1>1, <1>10 DEF P!StoreExact, P!Answer, P!Store, P!R, P!To, P!TypeOK, P!Steps
  <1>11. ASSUME NEW t \in Thread, P!RunJob(t) PROVE P!TypeOK'
    <2>1. P!JobRows(askP[t]) \in P!Rows
      BY <1>1, AnswersFit, FitsRows
    <2> QED
      BY <1>1, <1>11, <2>1 DEF P!RunJob, P!Answer, P!Store, P!R, P!To, P!TypeOK, P!Steps
  <1>12. ASSUME P!Drop PROVE P!TypeOK'
    <2>1. PICK k \in P!Key :
            \/ \E r \in Replica : l1[r][k] # None /\ l1' = [l1 EXCEPT ![r][k] = None] /\ UNCHANGED l2
            \/ l2[k] # None /\ l2' = [l2 EXCEPT ![k] = None] /\ UNCHANGED l1
      BY <1>12 DEF P!Drop
    <2>2. l1' \in [Replica -> [P!Key -> P!Rows \union {None}]] /\ l2' \in [P!Key -> P!Rows \union {None}]
      <3>1. CASE \E r \in Replica : l1[r][k] # None /\ l1' = [l1 EXCEPT ![r][k] = None] /\ UNCHANGED l2
        BY <1>1, <3>1 DEF P!TypeOK
      <3>2. CASE l2' = [l2 EXCEPT ![k] = None] /\ UNCHANGED l1
        BY <1>1, <3>2 DEF P!TypeOK
      <3> QED
        BY <2>1, <3>1, <3>2
    <2> QED
      BY <1>1, <1>12, <2>2 DEF P!Drop, P!TypeOK
  <1>13. ASSUME UNCHANGED P!vars PROVE P!TypeOK'
    BY <1>13 DEF P!vars, P!TypeOK
  <1> QED
    BY <1>4, <1>5, <1>6, <1>7, <1>8, <1>9, <1>10, <1>11, <1>12, <1>13 DEF P!Next, P!Step

\* Entries fit: what is warmed fits, and what is stored is what the request holds.
LEMMA PreviewInvKeeps ==
  ASSUME P!Parameters, CapsCut, P!TypeOK, PreviewInv, [P!Next]_(P!vars)
  PROVE  PreviewInv'
  <1>1. /\ DOMAIN atP = Thread /\ DOMAIN askP = Thread /\ DOMAIN rows = Thread
        /\ DOMAIN l1 = Replica /\ DOMAIN l2 = P!Key /\ \A r \in Replica : DOMAIN l1[r] = P!Key
        /\ Canon \in P!Key /\ Fit(Canon) = 0..FirstRows
        /\ \A t \in Thread : ThreadOf[t] \in Replica /\ askP[t] \in Previews /\ askP[t] \in P!Key
    BY DEF P!TypeOK, P!Parameters, P!Key, Fit
  <1>2. \A t \in Thread, k \in P!Key : P!Found(t, k) # None => P!Found(t, k) \in Fit(k)
    BY <1>1 DEF P!Found, P!R, PreviewInv
  <1> DEFINE FitMemory == \A k \in P!Key, r \in Replica : l1[r][k] # None => l1[r][k] \in Fit(k)
             FitVolume == \A k \in P!Key : l2[k] # None => l2[k] \in Fit(k)
             FitHands == \A t \in Thread :
               /\ atP[t] \in {"compare", "keep", "store"} => rows[t] \in Fit(askP[t]) \intersect (0..FirstRows)
               /\ atP[t] = "answered" => rows[t] \in Fit(askP[t])
  <1>3. FitMemory /\ FitVolume /\ FitHands
    BY DEF PreviewInv
  <1>4. \A t \in Thread, k \in P!Key : P!Warm(t, k) => FitMemory'
    <2> SUFFICES ASSUME NEW t \in Thread, NEW k \in P!Key, P!Warm(t, k), NEW r \in Replica, NEW j \in P!Key, l1'[r][j] # None
                 PROVE  l1'[r][j] \in Fit(j)
      BY DEF Fit, P!Due
    <2>1. l1'[r][j] = IF r = ThreadOf[t] /\ j = k THEN P!Found(t, k) ELSE l1[r][j]
      BY <1>1 DEF P!Warm, P!R
    <2> QED
      BY <1>2, <1>3, <2>1
  <1>5. \A t \in Thread, k \in P!Key, shared \in BOOLEAN :
          P!Store(t, k, shared) /\ rows'[t] \in Fit(k) => FitMemory' /\ FitVolume'
    <2> SUFFICES ASSUME NEW t \in Thread, NEW k \in P!Key, NEW shared \in BOOLEAN, P!Store(t, k, shared), rows'[t] \in Fit(k)
                 PROVE  /\ \A j \in P!Key, r \in Replica : l1'[r][j] # None => l1'[r][j] \in Fit(j)
                        /\ \A j \in P!Key : l2'[j] # None => l2'[j] \in Fit(j)
      OBVIOUS
    <2>1. \A j \in P!Key, r \in Replica : l1'[r][j] = IF r = ThreadOf[t] /\ j = k THEN rows'[t] ELSE l1[r][j]
      BY <1>1 DEF P!Store, P!R
    <2>2. \A j \in P!Key : l2'[j] = IF shared /\ j = k THEN rows'[t] ELSE l2[j]
      BY <1>1 DEF P!Store
    <2> QED
      BY <1>3, <2>1, <2>2
  <1>6. ASSUME FitMemory', FitVolume', FitHands' PROVE PreviewInv'
    BY <1>6 DEF PreviewInv
  <1>7. ASSUME NEW t \in Thread, P!Call(t) PROVE PreviewInv'
    BY <1>1, <1>3, <1>6, <1>7 DEF P!Call, P!To
  <1>8. ASSUME NEW t \in Thread, P!ExactLookup(t) PROVE PreviewInv'
    <2>1. FitMemory' /\ FitVolume'
      BY <1>1, <1>3, <1>4, <1>8 DEF P!ExactLookup
    <2>2. FitHands'
      BY <1>1, <1>2, <1>3, <1>8 DEF P!ExactLookup, P!Answer, P!To
    <2> QED
      BY <1>6, <2>1, <2>2
  <1>9. ASSUME NEW t \in Thread, P!SupersedeLookup(t) PROVE PreviewInv'
    <2>1. FitMemory' /\ FitVolume'
      BY <1>1, <1>3, <1>4, <1>9 DEF P!SupersedeLookup
    <2>2. ASSUME P!Enough(t) PROVE P!Min({P!EffAsk(askP[t]), P!Found(t, Canon)}) \in Fit(askP[t])
      BY <1>1, <1>2, <2>2, AnswersFit DEF P!Enough
    <2>3. FitHands'
      BY <1>1, <1>3, <1>9, <2>2 DEF P!SupersedeLookup, P!Answer, P!To
    <2> QED
      BY <1>6, <2>1, <2>3
  <1>10. ASSUME NEW t \in Thread, P!FastPath(t) PROVE PreviewInv'
    <2>1. FitHands'
      BY <1>1, <1>3, <1>10, AnswersFit DEF P!FastPath, P!To
    <2> QED
      BY <1>3, <1>6, <1>10, <2>1 DEF P!FastPath
  <1>11. ASSUME NEW t \in Thread, P!Compare(t) PROVE PreviewInv'
    <2>1. FitMemory' /\ FitVolume'
      BY <1>1, <1>3, <1>4, <1>11 DEF P!Compare
    <2>2. FitHands'
      BY <1>1, <1>3, <1>11 DEF P!Compare, P!To
    <2> QED
      BY <1>6, <2>1, <2>2
  <1>12. ASSUME NEW t \in Thread, P!Keep(t) PROVE PreviewInv'
    <2>1. FitMemory' /\ FitVolume'
      BY <1>1, <1>3, <1>5, <1>12 DEF P!Keep
    <2>2. FitHands'
      BY <1>1, <1>3, <1>12 DEF P!Keep, P!To
    <2> QED
      BY <1>6, <2>1, <2>2
  <1>13. ASSUME NEW t \in Thread, P!StoreExact(t) PROVE PreviewInv'
    <2>1. rows'[t] \in Fit(askP[t])
      BY <1>1, <1>3, <1>13 DEF P!StoreExact, P!Answer
    <2>2. FitMemory' /\ FitVolume'
      BY <1>1, <1>5, <1>13, <2>1 DEF P!StoreExact
    <2>3. FitHands'
      BY <1>1, <1>3, <1>13, <2>1 DEF P!StoreExact, P!Answer, P!To
    <2> QED
      BY <1>6, <2>2, <2>3
  <1>14. ASSUME NEW t \in Thread, P!RunJob(t) PROVE PreviewInv'
    <2>1. rows'[t] \in Fit(askP[t])
      BY <1>1, <1>14, AnswersFit DEF P!RunJob, P!Answer
    <2>2. FitMemory' /\ FitVolume'
      BY <1>1, <1>5, <1>14, <2>1 DEF P!RunJob
    <2>3. FitHands'
      BY <1>1, <1>3, <1>14, <2>1 DEF P!RunJob, P!Answer, P!To
    <2> QED
      BY <1>6, <2>2, <2>3
  <1>15. ASSUME P!Drop PROVE PreviewInv'
    <2>1. FitMemory' /\ FitVolume'
      BY <1>1, <1>3, <1>15 DEF P!Drop
    <2>2. FitHands'
      BY <1>3, <1>15 DEF P!Drop
    <2> QED
      BY <1>6, <2>1, <2>2
  <1>16. ASSUME UNCHANGED P!vars PROVE PreviewInv'
    BY <1>16 DEF P!vars, PreviewInv
  <1> QED
    BY <1>7, <1>8, <1>9, <1>10, <1>11, <1>12, <1>13, <1>14, <1>15, <1>16 DEF P!Next, P!Step

\* For any table, server cap and requests, on any threads of any replicas, and whatever is
\* evicted when: a request that asks for rows at all has the rows it is due, whatever the
\* others left in the shared entry, those that ask for none included (limit 0 does break
\* the promise for the request itself); so where none asks for none, every answer is due.
THEOREM AnswersComeDue ==
  ASSUME P!Parameters, CapsCut
  PROVE  P!Spec => /\ [](P!TypeOK /\ DueUnlessZero)
                   /\ (\A a \in Previews : a.limit # 0) => []AnswerIsDue
  <1>1. P!Init => P!TypeOK /\ PreviewInv
    BY DEF P!Init, P!Parameters, P!TypeOK, P!Steps, P!Rows, P!Key, PreviewInv
  <1>2. P!TypeOK /\ PreviewInv /\ [P!Next]_(P!vars) => (P!TypeOK /\ PreviewInv)'
    BY PreviewTyped, PreviewInvKeeps
  <1>3. P!TypeOK /\ PreviewInv => DueUnlessZero
    BY DEF P!TypeOK, P!Parameters, PreviewInv, DueUnlessZero, Fit
  <1>4. P!TypeOK /\ DueUnlessZero /\ (\A a \in Previews : a.limit # 0) => AnswerIsDue
    BY DEF P!TypeOK, DueUnlessZero, AnswerIsDue, P!AnswerIsDue
  <1>5. P!Spec => [](P!TypeOK /\ DueUnlessZero)
    BY <1>1, <1>2, <1>3, PTL DEF P!Spec
  <1>6. ASSUME \A a \in Previews : a.limit # 0 PROVE P!Spec => []AnswerIsDue
    <2>1. P!TypeOK /\ DueUnlessZero => AnswerIsDue
      BY <1>4, <1>6
    <2> QED
      BY <1>5, <2>1, PTL
  <1> QED
    BY <1>5, <1>6

-----------------------------------------------------------------------------
(* WriteLease.  Mutual exclusion is proved for pods, where a host runs one *)
(* process at a time: without that it does not hold.                       *)

\* A write that still tries has attempts left.
TriesLeft == \A w \in Write : atL[w] \in {"new"} \union L!Inside => tries[w] < MaxAttempts

LeaseTyped == L!TypeOK /\ TriesLeft

\* Only a process that is up has writes inside, and one per table.
InsideUp == \A w \in Write : atL[w] \in L!Inside => up[Runs[w]] = "up"
OneInside == \A v, w \in Write : atL[v] \in L!Inside /\ atL[w] \in L!Inside /\ Runs[v] = Runs[w] => v = w
OneUp == \A p, q \in Process : up[p] = "up" /\ up[q] = "up" /\ HostOf[p] = HostOf[q] => p = q

\* A write that made a lease and is not over has its file at the path.
LeaseOwned == \A w \in Write : atL[w] \in {"fill"} \union L!Holding => lease = w
LeaseFilled == \A w \in Write : /\ atL[w] \in L!Holding => w \in full
                           /\ w \in full => atL[w] \in L!Holding \union L!Over

\* A breaker's holder is over, and of the breaker's own host; past its last
\* look at the token, the holder's file is still at the path.
HeldFull == \A w \in Write : atL[w] = "judge" => held[w] \in full
HeldOver ==
  \A w \in Write : atL[w] \in {"stat", "recheck", "restat", "unlink"} =>
    /\ held[w] \in full /\ atL[held[w]] \in L!Over
    /\ HostOf[Runs[held[w]]] = HostOf[Runs[w]]
HeldThere == \A w \in Write : atL[w] \in {"restat", "unlink"} => lease = held[w]

LeaseInv == /\ LeaseTyped /\ InsideUp /\ OneInside /\ OneUp /\ LeaseOwned /\ LeaseFilled
            /\ HeldFull /\ HeldOver /\ HeldThere

USE DEF L!Inside, L!Breaking, L!Holding, L!Over

-----------------------------------------------------------------------------
LEMMA LeaseTypedFirst == ASSUME L!Parameters PROVE L!Init => LeaseTyped
  BY DEF L!Parameters, L!Init, LeaseTyped, L!TypeOK, TriesLeft

LEMMA LeaseTypedKeeps == ASSUME L!Parameters PROVE LeaseTyped /\ [L!Next]_(L!vars) => LeaseTyped'
  <1> SUFFICES ASSUME LeaseTyped, [L!Next]_(L!vars) PROVE LeaseTyped'
    OBVIOUS
  <1> USE DEF LeaseTyped, L!TypeOK, TriesLeft, L!Go, L!File
  <1>1. ASSUME NEW w \in Write, L!Enter(w) PROVE LeaseTyped'
    BY <1>1 DEF L!Parameters, L!Enter
  <1>2. ASSUME NEW w \in Write, L!Create(w) PROVE LeaseTyped'
    BY <1>2 DEF L!Parameters, L!Create
  <1>3. ASSUME NEW w \in Write, L!Fill(w) PROVE LeaseTyped'
    BY <1>3 DEF L!Parameters, L!Fill
  <1>4. ASSUME NEW w \in Write, L!FillFails(w) PROVE LeaseTyped'
    BY <1>4 DEF L!Parameters, L!FillFails
  <1>5. ASSUME NEW w \in Write, L!Read(w) PROVE LeaseTyped'
    BY <1>5 DEF L!Parameters, L!Read, L!Holder
  <1>6. ASSUME NEW w \in Write, L!Judge(w) PROVE LeaseTyped'
    BY <1>6 DEF L!Parameters, L!Judge
  <1>7. ASSUME NEW w \in Write, L!Stat(w) PROVE LeaseTyped'
    BY <1>7 DEF L!Parameters, L!Stat, L!Retry
  <1>8. ASSUME NEW w \in Write, L!Recheck(w) PROVE LeaseTyped'
    BY <1>8 DEF L!Parameters, L!Recheck, L!Retry
  <1>9. ASSUME NEW w \in Write, L!Restat(w) PROVE LeaseTyped'
    BY <1>9 DEF L!Parameters, L!Restat, L!Retry
  <1>10. ASSUME NEW w \in Write, L!Unlink(w) PROVE LeaseTyped'
    BY <1>10 DEF L!Parameters, L!Unlink, L!Retry
  <1>11. ASSUME NEW w \in Write, L!WriteEnds(w) PROVE LeaseTyped'
    BY <1>11 DEF L!Parameters, L!WriteEnds
  <1>12. ASSUME NEW w \in Write, L!ReleaseRead(w) PROVE LeaseTyped'
    BY <1>12 DEF L!Parameters, L!ReleaseRead
  <1>13. ASSUME NEW w \in Write, L!Release(w) PROVE LeaseTyped'
    BY <1>13 DEF L!Parameters, L!Release
  <1>14. ASSUME NEW p \in Process, L!Start(p) PROVE LeaseTyped'
    BY <1>14 DEF L!Start
  <1>15. ASSUME NEW p \in Process, L!Crash(p) PROVE LeaseTyped'
    BY <1>15 DEF L!Crash
  <1>16. CASE UNCHANGED L!vars
    BY <1>16 DEF L!vars
  <1> QED
    BY <1>1, <1>2, <1>3, <1>4, <1>5, <1>6, <1>7, <1>8,
       <1>9, <1>10, <1>11, <1>12, <1>13, <1>14, <1>15, <1>16
    DEF L!Next, L!Step

\* The lease file, the processes and the writes are always of their types, and
\* no write tries more often than it may.
THEOREM LeaseTypeCorrect == ASSUME L!Parameters PROVE L!Spec => []L!TypeOK
  <1>1. LeaseTyped => L!TypeOK
    BY DEF LeaseTyped
  <1> QED
    BY <1>1, LeaseTypedFirst, LeaseTypedKeeps, PTL DEF L!Spec

-----------------------------------------------------------------------------
LEMMA LeaseInvFirst == ASSUME L!Parameters, Pods PROVE L!Init => LeaseInv
  <1> SUFFICES ASSUME L!Init PROVE LeaseInv
    OBVIOUS
  <1>1. LeaseTyped
    BY LeaseTypedFirst
  <1>2. OneUp
    BY DEF L!Init, OneUp
  <1> QED
    BY <1>1, <1>2 DEF L!Init, LeaseInv, InsideUp, OneInside, LeaseOwned, LeaseFilled, HeldFull, HeldOver,
       HeldThere

\* Every step keeps the invariant, in pods.
LEMMA LeaseInvKeeps == ASSUME L!Parameters, Pods PROVE LeaseInv /\ [L!Next]_(L!vars) => LeaseInv'
  <1> SUFFICES ASSUME LeaseInv, [L!Next]_(L!vars) PROVE LeaseInv'
    OBVIOUS
  <1>a. LeaseTyped'
    BY LeaseTypedKeeps DEF LeaseInv
  <1>b. LeaseTyped /\ Runs \in [Write -> Process]
    BY DEF L!Parameters, LeaseInv
  <1> USE <1>a, <1>b DEF LeaseInv, InsideUp, OneInside, OneUp, LeaseOwned, LeaseFilled, HeldFull,
                         HeldOver, HeldThere, LeaseTyped, L!TypeOK, L!Go, L!File
  <1>1. ASSUME NEW w \in Write, L!Enter(w) PROVE LeaseInv'
    BY <1>1 DEF L!Enter
  <1>2. ASSUME NEW w \in Write, L!Create(w) PROVE LeaseInv'
    <2>1. CASE lease = None
      <3>1. \A v \in Write : atL[v] \notin {"fill"} \union L!Holding \union {"restat", "unlink"}
        BY <2>1 DEF L!Parameters
      <3> QED
        BY <1>2, <2>1, <3>1 DEF L!Create
    <2>2. CASE lease # None
      BY <1>2, <2>2 DEF L!Create
    <2> QED
      BY <2>1, <2>2
  <1>3. ASSUME NEW w \in Write, L!Fill(w) PROVE LeaseInv'
    BY <1>3 DEF L!Fill
  <1>4. ASSUME NEW w \in Write, L!FillFails(w) PROVE LeaseInv'
    BY <1>4 DEF L!FillFails
  <1>5. ASSUME NEW w \in Write, L!Read(w) PROVE LeaseInv'
    BY <1>5 DEF L!Read, L!Holder
  <1>6. ASSUME NEW w \in Write, L!Judge(w) PROVE LeaseInv'
    BY <1>6 DEF L!Judge, L!HolderIsAlive, L!Answers
  <1>7. ASSUME NEW w \in Write, L!Stat(w) PROVE LeaseInv'
    BY <1>7 DEF L!Stat, L!Retry
  <1>8. ASSUME NEW w \in Write, L!Recheck(w) PROVE LeaseInv'
    <2>1. CASE L!Holder = held[w]
      <3>1. lease = held[w]
        BY <1>8, <2>1 DEF L!Parameters, L!Recheck, L!Holder
      <3> QED
        BY <1>8, <2>1, <3>1 DEF L!Recheck
    <2>2. CASE L!Holder # held[w]
      BY <1>8, <2>2 DEF L!Recheck, L!Retry
    <2> QED
      BY <2>1, <2>2
  <1>9. ASSUME NEW w \in Write, L!Restat(w) PROVE LeaseInv'
    BY <1>9 DEF L!Restat, L!Retry
  <1>10. ASSUME NEW w \in Write, L!Unlink(w) PROVE LeaseInv'
    <2>1. lease = held[w] /\ atL[lease] \in L!Over
      BY <1>10 DEF L!Unlink
    <2>2. \A v \in Write : atL[v] \notin {"fill"} \union L!Holding
      BY <2>1
    <2>3. \A v \in Write : atL[v] \in {"restat", "unlink"} => v = w
      <3> SUFFICES ASSUME NEW v \in Write, atL[v] \in {"restat", "unlink"} PROVE v = w
        OBVIOUS
      <3>1. HostOf[Runs[v]] = HostOf[Runs[lease]] /\ HostOf[Runs[w]] = HostOf[Runs[lease]]
        BY <1>10, <2>1 DEF L!Unlink
      <3>2. Runs[v] = Runs[w]
        BY <1>10, <3>1 DEF L!Unlink
      <3> QED
        BY <1>10, <3>2 DEF L!Unlink
    <2> QED
      BY <1>10, <2>2, <2>3 DEF L!Unlink, L!Retry
  <1>11. ASSUME NEW w \in Write, L!WriteEnds(w) PROVE LeaseInv'
    BY <1>11 DEF L!WriteEnds
  <1>12. ASSUME NEW w \in Write, L!ReleaseRead(w) PROVE LeaseInv'
    BY <1>12 DEF L!ReleaseRead, L!Holder
  <1>13. ASSUME NEW w \in Write, L!Release(w) PROVE LeaseInv'
    <2>1. lease = w
      BY <1>13 DEF L!Release
    <2>2. \A v \in Write \ {w} : atL[v] \notin {"fill", "restat", "unlink"} \union L!Holding
      BY <1>13, <2>1 DEF L!Release
    <2> QED
      BY <1>13, <2>1, <2>2 DEF L!Release
  <1>14. ASSUME NEW p \in Process, L!Start(p) PROVE LeaseInv'
    BY <1>14 DEF L!Start
  <1>15. ASSUME NEW p \in Process, L!Crash(p) PROVE LeaseInv'
    BY <1>15 DEF L!Crash
  <1>16. CASE UNCHANGED L!vars
    BY <1>16 DEF L!vars
  <1> QED
    BY <1>1, <1>2, <1>3, <1>4, <1>5, <1>6, <1>7, <1>8,
       <1>9, <1>10, <1>11, <1>12, <1>13, <1>14, <1>15, <1>16
    DEF L!Next, L!Step

LEMMA LeaseInvHolds == ASSUME L!Parameters, Pods PROVE L!Spec => []LeaseInv
  BY LeaseInvFirst, LeaseInvKeeps, PTL DEF L!Spec

\* In pods two writes are never at work at once, whatever crashes, restarts,
\* reused pids and broken leases there are.
THEOREM PodsExclude == ASSUME L!Parameters, Pods PROVE L!Spec => []Exclusive
  <1>1. LeaseInv => Exclusive
    BY DEF LeaseInv, LeaseOwned, Exclusive, L!Exclusive
  <1> QED
    BY <1>1, LeaseInvHolds, PTL

\* In pods only its own release takes a live writer's lease away.
THEOREM PodsKeepLeases == ASSUME L!Parameters, Pods PROVE L!Spec => NeverDisplaced
  <1> DEFINE Stays == \A w \in Write : lease = w /\ atL[w] \in L!Holding /\ lease' # w
                       => atL[w] = "drop" /\ atL'[w] = "done"
  <1>1. LeaseInv /\ [L!Next]_(L!vars) => [Stays]_(L!vars)
    <2> SUFFICES ASSUME LeaseInv, L!Next PROVE Stays
      BY DEF L!vars
    <2> USE DEF LeaseInv, LeaseTyped, L!TypeOK, L!Go, L!File
    <2>1. ASSUME NEW w \in Write, L!Create(w) PROVE Stays
      BY <2>1 DEF L!Parameters, L!Create
    <2>2. ASSUME NEW w \in Write, L!Unlink(w) PROVE Stays
      BY <2>2 DEF L!Unlink, HeldOver, HeldThere
    <2>3. ASSUME NEW w \in Write, L!Release(w) PROVE Stays
      BY <2>3 DEF L!Release, LeaseOwned
    <2>4. ASSUME NEW w \in Write,
                 \/ L!Enter(w) \/ L!Fill(w) \/ L!FillFails(w) \/ L!Read(w) \/ L!Judge(w) \/ L!Stat(w)
                 \/ L!Recheck(w) \/ L!Restat(w) \/ L!WriteEnds(w) \/ L!ReleaseRead(w)
          PROVE  lease' = lease
      BY <2>4 DEF L!Enter, L!Fill, L!FillFails, L!Read, L!Judge, L!Stat, L!Recheck, L!Restat, L!WriteEnds,
                  L!ReleaseRead
    <2>5. ASSUME NEW p \in Process, L!Start(p) \/ L!Crash(p) PROVE lease' = lease
      BY <2>5 DEF L!Start, L!Crash
    <2> QED
      BY <2>1, <2>2, <2>3, <2>4, <2>5 DEF L!Next, L!Step
  <1> QED
    BY <1>1, LeaseInvHolds, PTL DEF L!Spec, NeverDisplaced, L!NeverDisplaced
=============================================================================
