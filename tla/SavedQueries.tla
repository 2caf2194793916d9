------------------------------ MODULE SavedQueries ------------------------------
(***************************************************************************)
(* sql-handler saved.py: query_save, query_delete, query_list and the      *)
(* lookup of query_saved, on one JSON file that several replicas share.    *)
(* Each call holds its replica's thread lock and then a flock on a sidecar *)
(* file, which it does without after ten seconds.  A file that cannot be   *)
(* used is put aside; every write replaces the whole file.                 *)
(***************************************************************************)
EXTENDS Naturals, FiniteSets

CONSTANTS Call, Replica, ReplicaOf, Name, Owner, None,
          Ask,           \* what may be asked: an operation, its name, its caller's owner mark
          MaxEntries     \* SQLHANDLER_SAVED_QUERIES_MAX

\* What is assumed of the constants.
Parameters ==
  /\ Ask \subseteq [op: {"save", "delete", "look"}, name: Name, by: Owner \union {None}]
  /\ ReplicaOf \in [Call -> Replica]
  /\ None \notin Call \union Owner
  /\ MaxEntries \in Nat

VARIABLES
  at,      \* call -> what it does next
  ask,     \* call -> what it was asked
  base,    \* call -> the entries it has loaded
  done,    \* calls that have answered well
  inside,  \* replica -> the call that holds its thread lock, or None
  flock,   \* the call that holds the file lock, "other" for a stuck holder, or None
  state,   \* the file: "absent", "good", "garbled" (no JSON), "misshapen" (other JSON)
  store,   \* name -> the entry in its bytes, or None
  aside,   \* entries in the bytes of files put aside
  given,   \* history: entries that a call knowingly replaced or deleted
  unsure   \* history: calls that went on without the lock or on a failed read, or
           \* that put a file aside over another

vars == <<at, ask, base, done, inside, flock, state, store, aside, given, unsure>>
file == <<state, store, aside>>

Steps == {"start", "flock", "check", "load", "aside", "write", "over"}
Entries == [Name -> Call \union {None}]
Empty == [n \in Name |-> None]
In(e) == {e[n] : n \in Name} \ {None}

TypeOK ==
  /\ at \in [Call -> Steps] /\ ask \in [Call -> Ask]
  /\ base \in [Call -> Entries] /\ done \subseteq Call
  /\ inside \in [Replica -> Call \union {None}]
  /\ flock \in Call \union {None, "other"}
  /\ state \in {"absent", "good", "garbled", "misshapen"} /\ store \in Entries
  /\ aside \subseteq Call /\ given \subseteq Call /\ unsure \subseteq Call

Init ==
  /\ at = [c \in Call |-> "start"] /\ ask \in [Call -> Ask]
  /\ base = [c \in Call |-> Empty] /\ done = {}
  /\ inside = [r \in Replica |-> None] /\ flock \in {None, "other"}
  /\ state = "absent" /\ store = Empty
  /\ aside = {} /\ given = {} /\ unsure = {}

-----------------------------------------------------------------------------
(* Helpers.                                                                *)

Go(c, to) == at' = [at EXCEPT ![c] = to]
Op(c) == ask[c].op
Target(c) == ask[c].name
Unlock(c) == /\ inside' = [inside EXCEPT ![ReplicaOf[c]] = None]
             /\ flock' = IF flock = c THEN None ELSE flock
KeepLocks == UNCHANGED <<inside, flock>>

\* An entry is the call that saved it: no two calls save the same bytes.
\* _owner_of: no owner is recorded while enforcement is off.
OwnerOf(e) == ask[e].by
Foreign(c, e) == ask[c].by # None /\ OwnerOf(e) # None /\ OwnerOf(e) # ask[c].by

\* What a save and a delete do with the entries they have loaded.
SaveRefused(c, e) == e[Target(c)] = None /\ Cardinality(In(e)) >= MaxEntries
DeleteRefused(c, e) == e[Target(c)] = None \/ Foreign(c, e[Target(c)])

-----------------------------------------------------------------------------
(* A call.                                                                 *)

Enter(c) ==
  /\ at[c] = "start" /\ inside[ReplicaOf[c]] = None
  /\ inside' = [inside EXCEPT ![ReplicaOf[c]] = c]
  /\ Go(c, "flock")
  /\ UNCHANGED <<ask, base, done, flock, given, unsure, file>>

First(c) == IF Op(c) = "save" THEN "check" ELSE "load"

\* Seeded bug: the file lock is one per replica.
LockOfReplica(c) ==
  /\ at[c] = "flock"
  /\ flock' = c
  /\ Go(c, First(c))
  /\ UNCHANGED <<ask, base, done, inside, given, unsure, file>>

\* _process_lock: flock ...
Lock(c) ==
  /\ at[c] = "flock" /\ flock = None
  /\ flock' = c
  /\ Go(c, First(c))
  /\ UNCHANGED <<ask, base, done, inside, given, unsure, file>>

\* Seeded bug: the lock is waited for without a limit.
LockForever(c) == FALSE

\* ... which has stayed busy for ten seconds, or whose file cannot be made or opened.
GoUnlocked(c) ==
  /\ at[c] = "flock"
  /\ unsure' = unsure \union {c}
  /\ Go(c, First(c))
  /\ UNCHANGED <<ask, base, done, inside, flock, given, file>>

\* _load_for_write: the file is JSON, or not there; else the save is refused.
Check(c) ==
  /\ at[c] = "check"
  /\ \/ state # "garbled" /\ Go(c, "load") /\ KeepLocks
     \/ state # "absent" /\ Go(c, "over") /\ Unlock(c)
  /\ UNCHANGED <<ask, base, done, given, unsure, file>>

\* What comes of a call that has loaded e.
Decide(c, e) ==
  /\ base' = [base EXCEPT ![c] = e]
  /\ LET refused == \/ Op(c) = "save" /\ SaveRefused(c, e)
                    \/ Op(c) = "delete" /\ DeleteRefused(c, e)
     IN IF Op(c) = "look" \/ refused
        THEN Go(c, "over") /\ Unlock(c)
        ELSE Go(c, "write") /\ KeepLocks
  /\ done' = IF Op(c) = "look" THEN done \union {c} ELSE done

\* _load: a file that is not there is empty, and so is one that cannot be read.
Load(c) ==
  /\ at[c] = "load"
  /\ \/ state = "good" /\ Decide(c, store) /\ UNCHANGED unsure
     \/ state = "absent" /\ Decide(c, Empty) /\ UNCHANGED unsure
     \/ state # "absent" /\ Decide(c, Empty) /\ unsure' = unsure \union {c}   \* OSError
     \/ /\ state \in {"garbled", "misshapen"}
        /\ Go(c, "aside") /\ KeepLocks /\ UNCHANGED <<base, done, unsure>>
  /\ UNCHANGED <<ask, given, file>>

\* _quarantine: whatever has that name by now is renamed, for the second of the clock,
\* over what was put aside in the same second; or the rename fails.
Quarantine(c) ==
  /\ at[c] = "aside"
  /\ \/ /\ state # "absent"
        /\ state' = "absent" /\ store' = Empty
        /\ \E lost \in SUBSET aside :
             /\ aside' = (aside \ lost) \union In(store)
             /\ unsure' = IF lost = {} THEN unsure ELSE unsure \union {c}
     \/ UNCHANGED file /\ unsure' = unsure \union {c}
  /\ Decide(c, Empty)
  /\ UNCHANGED <<ask, given>>

\* _write replaces the file, or raises and leaves it.
WriteFile(c) ==
  /\ at[c] = "write"
  /\ \/ /\ store' = [base[c] EXCEPT ![Target(c)] = IF Op(c) = "save" THEN c ELSE None]
        /\ state' = "good"
        /\ given' = given \union ({base[c][Target(c)]} \ {None})
        /\ done' = done \union {c}
     \/ UNCHANGED <<store, state, given, done>>
  /\ Go(c, "over") /\ Unlock(c)
  /\ UNCHANGED <<ask, base, aside, unsure>>

-----------------------------------------------------------------------------
(* The world.                                                              *)

\* A replica is killed: its calls are over, and the kernel frees its flock.
Crash(r) ==
  /\ inside[r] # None
  /\ at' = [at EXCEPT ![inside[r]] = "over"]
  /\ Unlock(inside[r])
  /\ UNCHANGED <<ask, base, done, given, unsure, file>>

\* Somebody edits the file by hand, and leaves something that cannot be used.
Damage(s) ==
  /\ state = "good" /\ s \in {"garbled", "misshapen"}
  /\ state' = s
  /\ UNCHANGED <<at, ask, base, done, inside, flock, given, unsure, store, aside>>

Step(c) == Enter(c) \/ Lock(c) \/ GoUnlocked(c) \/ Check(c) \/ Load(c) \/ Quarantine(c) \/ WriteFile(c)

Next == \/ \E c \in Call : Step(c)
        \/ \E r \in Replica : Crash(r)
        \/ \E s \in {"garbled", "misshapen"} : Damage(s)

\* Threads run; each call is made once, so the thread lock is free in the end.
Fairness == \A c \in Call : WF_vars(Step(c))

Spec == Init /\ [][Next]_vars /\ Fairness

-----------------------------------------------------------------------------
(* Properties.                                                             *)

\* saved.py:88-94 and 459-462: whatever edits, damage and crashes come together, an entry
\* whose save has answered well is in the file, or in bytes put aside, until a call
\* that saw it replaces or deletes it; unless a call has gone on without the lock,
\* taken a file it failed to read, or to rename, for empty, or put two files aside
\* within a second.
EntriesKept ==
  unsure = {} => \A c \in done : Op(c) = "save" => c \in In(store) \union aside \union given

\* "Never an outage" (96): every call ends, though the lock's holder never lets go.
EveryCallEnds == \A c \in Call : <>(at[c] = "over")
=============================================================================
