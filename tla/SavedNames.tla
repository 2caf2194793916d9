------------------------------- MODULE SavedNames -------------------------------
(***************************************************************************)
(* prometheus-mcp saved_queries.py: queries by name, in memory or with a   *)
(* JSON file behind them.  The tools run on one event loop without an      *)
(* await inside, so a call is one step.  A name and its sanitized form     *)
(* both lead to the entry; a write that fails is rolled back.              *)
(***************************************************************************)
EXTENDS Naturals, FiniteSets

CONSTANTS Name,     \* names as callers spell them
          Clean,    \* name -> its sanitized form (sanitize_name)
          Query, None,
          MaxSaved  \* MAX_SAVED_QUERIES

VARIABLES
  memory,  \* the store of the session: its entries and aliases
  cached,  \* the store behind the path as this process holds it, or None
  path,    \* whether a path is configured now
  file     \* the entries in the file at the path, None when it is no such file

vars == <<memory, cached, path, file>>

Entry == [raw : Name, query : Query]
Entries == [Name -> Entry \union {None}]
Store == [entries : Entries, aliases : [Name -> Name \union {None}]]

\* What is assumed of the constants.  What is sanitized stays as it is.
Parameters ==
  /\ Clean \in [Name -> Name] /\ \A n \in Name : Clean[Clean[n]] = Clean[n]
  /\ None \notin Name \union Entry \union Entries \union Store
  /\ MaxSaved \in Nat

NoEntries == [n \in Name |-> None]
Fresh == [entries |-> NoEntries, aliases |-> NoEntries]

\* What save leaves: sanitized keys, each of the name it was saved under.
Kept(e) == \A k \in Name : e[k] # None => Clean[k] = k /\ Clean[e[k].raw] = k

\* A store as this program makes it: an alias only for a name that sanitizes to it.
Good(s) == Kept(s.entries) /\ \A n \in Name : s.aliases[n] # None => s.aliases[n] = Clean[n]

TypeOK ==
  /\ memory \in Store /\ cached \in Store \union {None}
  /\ path \in BOOLEAN /\ file \in Entries \union {None}

\* The file may be there from before, missing, or no JSON.
Init ==
  /\ memory = Fresh /\ cached = None /\ path \in BOOLEAN
  /\ \/ file = None
     \/ \E n \in Name, q \in Query : file = [NoEntries EXCEPT ![Clean[n]] = [raw |-> n, query |-> q]]

-----------------------------------------------------------------------------
(* A store.                                                                *)

\* What a file says: one that is missing or no JSON says nothing.
Told(f) == IF f = None THEN NoEntries ELSE f

\* k keeps an alias when it was saved under another spelling, n.
Aliased(e, n, k) == e[k] # None /\ e[k].raw = n /\ n # k
RebuildAliases(e) ==
  [n \in Name |-> IF \E k \in Name : Aliased(e, n, k) THEN CHOOSE k \in Name : Aliased(e, n, k) ELSE None]

Load(f) == [entries |-> Told(f), aliases |-> RebuildAliases(Told(f))]

\* The key that a name leads to: itself, its sanitized form, or its alias, the
\* first of them that is there.
Lead(s, n) ==
  IF s.entries[n] # None THEN n
  ELSE IF s.entries[Clean[n]] # None THEN Clean[n]
  ELSE IF s.aliases[n] # None /\ s.entries[s.aliases[n]] # None THEN s.aliases[n]
  ELSE None

Get(s, n) == IF Lead(s, n) = None THEN None ELSE s.entries[Lead(s, n)]

Full(s, n) == s.entries[Clean[n]] = None /\ Cardinality({k \in Name : s.entries[k] # None}) >= MaxSaved

Saved(s, n, q) ==
  [entries |-> [s.entries EXCEPT ![Clean[n]] = [raw |-> n, query |-> q]],
   aliases |-> IF n = Clean[n] THEN s.aliases ELSE [s.aliases EXCEPT ![n] = Clean[n]]]

\* Seeded bug: a failed save keeps the new entry in memory.
SaveKeptAnyway(s, n, q) == Saved(s, n, q)

\* A save whose write failed: the entry goes, a new alias stays.
SaveUndone(s, n, q) == [Saved(s, n, q) EXCEPT !.entries = s.entries]

Deleted(s, n) == [s EXCEPT !.entries = [s.entries EXCEPT ![Lead(s, n)] = None]]
DeleteUndone(s, n) == s

-----------------------------------------------------------------------------
(* Calls.                                                                  *)

\* get_store: the file is read when the process first uses its path.
FileStore == IF cached = None THEN Load(file) ELSE cached

\* A change of the configured store: to good, written through or not; or, when the
\* write fails, to undone.
Change(good, undone) ==
  \/ path /\ cached' = good /\ file' = good.entries /\ UNCHANGED <<memory, path>>
  \/ path /\ cached' = undone /\ UNCHANGED <<memory, path, file>>
  \/ ~path /\ memory' = good /\ UNCHANGED <<cached, path, file>>

Current == IF path THEN FileStore ELSE memory

Save(n, q) == ~Full(Current, n) /\ Change(Saved(Current, n, q), SaveUndone(Current, n, q))

Delete(n) == Lead(Current, n) # None /\ Change(Deleted(Current, n), DeleteUndone(Current, n))

\* A look-up, a list, a refused save and a delete of nothing only load.
Look == path /\ cached = None /\ cached' = FileStore /\ UNCHANGED <<memory, path, file>>

\* The path is set, taken away, or set to another file and back.
SetPath == path' = ~path /\ UNCHANGED <<memory, cached, file>>
Repoint == path /\ cached # None /\ cached' = None /\ UNCHANGED <<memory, path, file>>

Restart == memory' = Fresh /\ cached' = None /\ UNCHANGED <<path, file>>

Next ==
  \/ \E n \in Name, q \in Query : Save(n, q)
  \/ \E n \in Name : Delete(n)
  \/ Look \/ SetPath \/ Repoint \/ Restart

Spec == Init /\ [][Next]_vars

-----------------------------------------------------------------------------
(* Properties.                                                             *)

\* No answer depends on when the process was started, or on the spelling: whatever
\* was saved, deleted, rolled back or overwritten under whichever name, a name leads
\* to the entry that a process which reads the file now would find under its
\* sanitized form (save 264-271 and delete 287-293: a change "that could not be
\* persisted did not happen"; _name_candidates: both spellings work).
RestartChangesNothing ==
  cached # None => \A n \in Name : Get(cached, n) = Get(Load(file), Clean[n])
=============================================================================
