------------------------------- MODULE WarmCache -------------------------------
(***************************************************************************)
(* sql-handler engine.py: the list of tables, served stale and listed      *)
(* again in the background, a described table, and the file that both are  *)
(* saved to for the next start.  Requests, the refresh worker, its timer   *)
(* loop and the debounced save are threads; the provider answers or fails. *)
(***************************************************************************)
EXTENDS Naturals

CONSTANTS Caller,    \* threads of requests
          Refresher, \* threads for refreshes of the list
          Timer,     \* threads for debounced saves, started by their timer
          None,
          TTL,       \* cache_ttl
          MaxTime    \* bound: the clock stops there

Thread == Caller \union Refresher \union Timer

Parameters == TTL \in Nat \ {0} /\ MaxTime \in Nat /\ None \notin [asof: Nat, ts: Nat]

VARIABLES
  now,
  at,         \* thread -> what it does next
  have,       \* thread -> when the provider answered it
  packed,     \* thread -> what it saves
  tables,     \* _tables and its time stamp, or None
  desc,       \* the table's entry of _describe_cache, or None
  refreshing, \* _list_refreshing
  pending,    \* _cache_save_pending
  disk        \* the file: the list and the description with their stamps

vars == <<now, at, have, packed, tables, desc, refreshing, pending, disk>>
hands == <<have, packed>>
caches == <<tables, desc>>
flags == <<refreshing, pending>>

\* What is kept is known by the time at which the provider told it.
Entry == [asof: 0..MaxTime, ts: 0..MaxTime]
Saved == [tables: Entry \union {None}, desc: Entry \union {None}]
Entered(a) == [asof |-> a, ts |-> now]

TypeOK ==
  /\ now \in 0..MaxTime
  /\ at \in [Thread -> {"idle", "fill", "filled", "refresh", "unstarted", "listed",
                        "describe", "described", "armed", "flush", "pack", "write"}]
  /\ have \in [Thread -> 0..MaxTime] /\ packed \in [Thread -> Saved]
  /\ tables \in Entry \union {None} /\ desc \in Entry \union {None}
  /\ refreshing \in BOOLEAN /\ pending \in BOOLEAN
  /\ disk \in Saved

Nothing == [tables |-> None, desc |-> None]

\* The process has just been started, cold.
Init ==
  /\ now = 0
  /\ at = [t \in Thread |-> "idle"] /\ have = [t \in Thread |-> 0] /\ packed = [t \in Thread |-> Nothing]
  /\ tables = None /\ desc = None
  /\ refreshing = FALSE /\ pending = FALSE
  /\ disk = Nothing

-----------------------------------------------------------------------------
(* The list.                                                               *)

Fresh(e) == e # None /\ now - e.ts < TTL
Go(t, to) == at' = [at EXCEPT ![t] = to]
Hold(t, a) == have' = [have EXCEPT ![t] = a] /\ UNCHANGED packed

\* _provider_tables without a list: the caller fills it.
Fill(t) ==
  /\ t \in Caller /\ at[t] = "idle" /\ tables = None /\ Go(t, "fill")
  /\ UNCHANGED <<now, hands, caches, flags, disk>>

\* _maybe_refresh_async, called for a stale list and by the loop every TTL: one
\* refresh at a time, on a thread of its own, which may fail to start.
Refresh(t) ==
  /\ t \in Refresher /\ at[t] = "idle" /\ ~refreshing
  /\ refreshing' = TRUE /\ (Go(t, "refresh") \/ Go(t, "unstarted"))
  /\ UNCHANGED <<now, hands, caches, pending, disk>>

\* Whoever asked for it takes the mark back, whoever may have it by now.
MarkBack(t) ==
  /\ at[t] = "unstarted" /\ refreshing' = FALSE /\ Go(t, "idle")
  /\ UNCHANGED <<now, hands, caches, pending, disk>>

\* provider.list_tables() answers.
Listed(t) ==
  /\ at[t] \in {"fill", "refresh"}
  /\ Hold(t, now) /\ Go(t, IF at[t] = "fill" THEN "filled" ELSE "listed")
  /\ UNCHANGED <<now, caches, flags, disk>>

\* Seeded bug: a listing that fails leaves the mark of a refresh.
ListingFailsMarked(t) ==
  /\ at[t] \in {"fill", "refresh"}
  /\ Go(t, "idle")
  /\ UNCHANGED <<now, hands, caches, flags, disk>>

\* It raises: a caller hears of it, a worker only takes its mark back.
ListingFails(t) ==
  /\ at[t] \in {"fill", "refresh"}
  /\ refreshing' = (refreshing /\ at[t] = "fill")
  /\ Go(t, "idle")
  /\ UNCHANGED <<now, hands, caches, pending, disk>>

\* The list is stored, with the time of its storing, and saved at once.  A caller's
\* fill takes the mark of a refresh back as well.
StoreList(t) ==
  /\ at[t] \in {"filled", "listed"}
  /\ tables' = Entered(have[t]) /\ refreshing' = FALSE
  /\ Hold(t, 0) /\ Go(t, "flush")
  /\ UNCHANGED <<now, desc, pending, disk>>

-----------------------------------------------------------------------------
(* describe_table.                                                         *)

\* A fresh description is answered from the cache; else the table is opened.
Describe(t) ==
  /\ t \in Caller /\ at[t] = "idle" /\ ~Fresh(desc) /\ Go(t, "describe")
  /\ UNCHANGED <<now, hands, caches, flags, disk>>

Opened(t) ==
  /\ at[t] = "describe"
  /\ \/ Hold(t, now) /\ Go(t, "described")
     \/ Go(t, "idle") /\ UNCHANGED hands
  /\ UNCHANGED <<now, caches, flags, disk>>

\* The description is stored; the first of a burst arms the timer of a save.
StoreDescription(t) ==
  /\ at[t] = "described"
  /\ desc' = Entered(have[t])
  /\ \/ pending /\ Go(t, "idle") /\ UNCHANGED pending
     \/ ~pending /\ pending' = TRUE
        /\ \E s \in Timer : at[s] = "idle" /\ at' = [at EXCEPT ![t] = "idle", ![s] = "armed"]
  /\ Hold(t, 0)
  /\ UNCHANGED <<now, tables, refreshing, disk>>

\* _catalog: a changed catalog takes the descriptions away.
ClearDescriptions ==
  /\ desc # None /\ desc' = None
  /\ UNCHANGED <<now, at, hands, tables, flags, disk>>

-----------------------------------------------------------------------------
(* _save_cache_to_disk, which several threads may be in.                   *)

Fire(t) == at[t] = "armed" /\ Go(t, "flush") /\ UNCHANGED <<now, hands, caches, flags, disk>>

\* note_query saves every so many opens.
SaveUsage(t) == t \in Caller /\ at[t] = "idle" /\ Go(t, "flush") /\ UNCHANGED <<now, hands, caches, flags, disk>>

Flush(t) ==
  /\ at[t] = "flush" /\ pending' = FALSE /\ Go(t, "pack")
  /\ UNCHANGED <<now, hands, caches, refreshing, disk>>

Restamped(e) == IF e = None THEN None ELSE [e EXCEPT !.ts = now]

\* Both caches as they are, the expired with the rest, stamped with this moment.
Pack(t) ==
  /\ at[t] = "pack"
  /\ packed' = [packed EXCEPT ![t] = [tables |-> Restamped(tables), desc |-> Restamped(desc)]]
  /\ Go(t, "write")
  /\ UNCHANGED <<now, have, caches, flags, disk>>

\* Threads that write at a time have one temporary file: what they leave is unreadable.
Torn(t) == IF \E s \in Thread \ {t} : at[s] = "write" THEN {Nothing} ELSE {}

\* The file is replaced, or that fails and is passed over.
Write(t) ==
  /\ at[t] = "write"
  /\ disk' \in {packed[t], disk} \union Torn(t)
  /\ packed' = [packed EXCEPT ![t] = Nothing] /\ Go(t, "idle")
  /\ UNCHANGED <<now, have, caches, flags>>

\* _load_cache_from_disk: what is younger than the TTL by its stamp, stamped anew.
Loaded(e) == IF Fresh(e) THEN Restamped(e) ELSE None

Restart ==
  /\ at' = [t \in Thread |-> "idle"] /\ have' = [t \in Thread |-> 0]
  /\ packed' = [t \in Thread |-> Nothing]
  /\ tables' = Loaded(disk.tables) /\ desc' = Loaded(disk.desc)
  /\ refreshing' = FALSE /\ pending' = FALSE
  /\ UNCHANGED <<now, disk>>

Tick == now < MaxTime /\ now' = now + 1 /\ UNCHANGED <<at, hands, caches, flags, disk>>

-----------------------------------------------------------------------------

Work(t) ==
  \/ MarkBack(t) \/ Listed(t) \/ ListingFails(t) \/ StoreList(t) \/ Opened(t) \/ StoreDescription(t)
  \/ Fire(t) \/ Flush(t) \/ Pack(t) \/ Write(t)

Next ==
  \/ \E t \in Thread : Work(t) \/ Fill(t) \/ Refresh(t) \/ Describe(t) \/ SaveUsage(t)
  \/ ClearDescriptions \/ Restart \/ Tick

\* Threads run, the loop goes round, timers fire; the provider, or the start of the
\* thread, may fail each time.
Fairness ==
  /\ \A t \in Thread : WF_vars(Work(t))
  /\ WF_vars(\E t \in Thread : Refresh(t))

Spec == Init /\ [][Next]_vars
FairSpec == Spec /\ Fairness

-----------------------------------------------------------------------------
(* Properties.                                                             *)

\* However listings and starts of threads fail, callers fill the list meanwhile and the
\* process restarts: the mark of a refresh under way never stays behind, so that one is
\* begun, or tried to begin, again and again (1425: "fills the cache, never raises").
RefreshGoesOn == []<>(\E t \in Thread : at[t] \in {"refresh", "unstarted"})

\* "a warm entry is never more stale than an in-process one" (1458), but for the one
\* TTL a save may add (1546).  Fails: each save stamps what has long expired anew.
WarmNoStaler == Fresh(desc) => now - desc.asof <= 2 * TTL
=============================================================================
