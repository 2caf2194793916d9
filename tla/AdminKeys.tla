------------------------------- MODULE AdminKeys -------------------------------
(***************************************************************************)
(* sql-handler admin_keys.py: the file of minted API keys.  A replica      *)
(* keeps the contents under the file's stat signature and reads the file   *)
(* again when that has changed; a mint and a revoke load, change and       *)
(* replace it under a lock of their process.  Threads of a replica, and    *)
(* replicas that share the file, interleave.                               *)
(***************************************************************************)
EXTENDS Naturals, FiniteSets

CONSTANTS Thread,      \* each runs one request
          Replica, ReplicaOf, Key, None,
          Want,        \* what may be requested: a function and its key
          Minted,      \* keys in the file from the start
          MaxHarm      \* bound: of the file vanishing, breaking and a replica restarting, how many may be

\* What is assumed of the constants.
Parameters ==
  /\ Want \subseteq [op: {"add_key", "remove_key", "match_presentation"}, key: Key]
  /\ Minted \subseteq Key
  /\ ReplicaOf \in [Thread -> Replica]
  /\ None \notin Thread
  /\ MaxHarm \in Nat

VARIABLES
  pc,      \* thread -> what it does next
  want,    \* thread -> its request
  sig,     \* thread -> the signature it has taken, 0 for none
  have,    \* thread -> the keys it has loaded
  said,    \* thread -> its answer
  rmw,     \* replica -> the thread in _rmw_lock, or None
  cache,   \* replica -> _cache; no path is known to it when it is None
  stat,    \* replica -> _stat, 0 for None
  keys,    \* the keys in the file
  look,    \* the file as it looks: "absent", "good" or "broken"
  version, \* its signature: no two writes leave the same one
  harm,    \* what has happened to it, or to a replica
  crossed, \* history: writers of two replicas have been at work at one time
  could    \* history: thread -> the answers that were true while it ran

vars == <<pc, want, sig, have, said, rmw, cache, stat, keys, look, version, harm, crossed, could>>
disk == <<keys, look, version>>
ghosts == <<harm, crossed>>

Harms == {"vanish", "break", "restart"}
Writes(t) == want[t].op \in {"add_key", "remove_key"}
Steps == {"start", "stat", "cached", "read", "swap", "decide", "replace", "restat", "over"}

TypeOK ==
  /\ pc \in [Thread -> Steps] /\ want \in [Thread -> Want]
  /\ sig \in [Thread -> Nat] /\ have \in [Thread -> SUBSET Key]
  /\ said \in [Thread -> BOOLEAN]
  /\ rmw \in [Replica -> Thread \union {None}]
  /\ cache \in [Replica -> {None} \union SUBSET Key]
  /\ stat \in [Replica -> Nat] /\ keys \subseteq Key
  /\ look \in {"absent", "good", "broken", "misshapen"} /\ version \in Nat \ {0}
  /\ harm \subseteq Harms /\ crossed \in BOOLEAN
  /\ could \in [Thread -> SUBSET BOOLEAN]

\* A key to be minted is fresh: nobody else mints it, and the file does not hold it.
Init ==
  /\ pc = [t \in Thread |-> "start"] /\ want \in [Thread -> Want]
  /\ sig = [t \in Thread |-> 0] /\ have = [t \in Thread |-> {}]
  /\ said = [t \in Thread |-> FALSE]
  /\ rmw = [r \in Replica |-> None]
  /\ cache = [r \in Replica |-> None] /\ stat = [r \in Replica |-> 0]
  /\ keys = Minted /\ look = "good" /\ version = 1
  /\ \A t \in Thread : want[t].op = "add_key" =>
       want[t].key \notin keys /\ \A u \in Thread \ {t} : want[u].op = "add_key" => want[u].key # want[t].key
  /\ harm = {} /\ crossed = FALSE
  /\ could = [t \in Thread |-> {}]

-----------------------------------------------------------------------------
(* Helpers.                                                                *)

Go(t, to) == pc' = [pc EXCEPT ![t] = to]
Home(t) == ReplicaOf[t]
Active(r) == {t \in Thread : Home(t) = r /\ Writes(t) /\ pc[t] \notin {"start", "over"}}
Running(t) == pc[t] \notin {"start", "over"}

\* What a running match may answer, now that the file holds ks too.
Could(ks) == could' = [t \in Thread |-> IF Running(t) /\ ~Writes(t)
                                        THEN could[t] \union {want[t].key \in ks} ELSE could[t]]
\* A load is over.
Loaded(t, ks) == have' = [have EXCEPT ![t] = ks] /\ Go(t, "decide")

-----------------------------------------------------------------------------
(* A request.                                                              *)

\* Seeded bug: the compound operations are not serialised.
BeginUnserialised(t) ==
  /\ pc[t] = "start"
  /\ Go(t, "stat")
  /\ could' = [could EXCEPT ![t] = IF Writes(t) THEN {} ELSE {want[t].key \in keys}]
  /\ UNCHANGED <<want, sig, have, said, rmw, cache, stat, disk, ghosts>>

Begin(t) ==
  /\ pc[t] = "start"
  /\ Writes(t) => rmw[Home(t)] = None
  /\ rmw' = IF Writes(t) THEN [rmw EXCEPT ![Home(t)] = t] ELSE rmw
  /\ crossed' = (crossed \/ (Writes(t) /\ \E r \in Replica \ {Home(t)} : Active(r) # {}))
  /\ Go(t, "stat")
  /\ could' = [could EXCEPT ![t] = IF Writes(t) THEN {} ELSE {want[t].key \in keys}]
  /\ UNCHANGED <<want, sig, have, said, cache, stat, disk, harm>>

\* _load takes the signature; a file that has vanished is what it was.
Stat(t) ==
  /\ pc[t] = "stat"
  /\ IF look = "absent"
     THEN /\ Loaded(t, IF cache[Home(t)] # None /\ stat[Home(t)] # 0 THEN cache[Home(t)] ELSE {})
          /\ UNCHANGED sig
     ELSE sig' = [sig EXCEPT ![t] = version] /\ Go(t, "cached") /\ UNCHANGED have
  /\ UNCHANGED <<want, said, rmw, cache, stat, disk, ghosts, could>>

Cached(t) ==
  /\ pc[t] = "cached"
  /\ IF cache[Home(t)] # None /\ stat[Home(t)] = sig[t]
     THEN Loaded(t, cache[Home(t)])
     ELSE Go(t, "read") /\ UNCHANGED have
  /\ UNCHANGED <<want, sig, said, rmw, cache, stat, disk, ghosts, could>>

\* A file that cannot be read, or is gone by now, is what it was, or else empty; one
\* without a list of keys is empty.
Read(t) ==
  /\ pc[t] = "read"
  /\ IF look \in {"good", "misshapen"}
     THEN have' = [have EXCEPT ![t] = IF look = "good" THEN keys ELSE {}] /\ Go(t, "swap")
     ELSE Loaded(t, IF cache[Home(t)] # None THEN cache[Home(t)] ELSE {})
  /\ UNCHANGED <<want, sig, said, rmw, cache, stat, disk, ghosts, could>>

\* Seeded bug: what was read is cached under the signature the file has now.
SwapLate(t) ==
  /\ pc[t] = "swap"
  /\ cache' = [cache EXCEPT ![Home(t)] = have[t]]
  /\ stat' = [stat EXCEPT ![Home(t)] = version]
  /\ Go(t, "decide")
  /\ UNCHANGED <<want, sig, have, said, rmw, disk, ghosts, could>>

Swap(t) ==
  /\ pc[t] = "swap"
  /\ cache' = [cache EXCEPT ![Home(t)] = have[t]]
  /\ stat' = [stat EXCEPT ![Home(t)] = sig[t]]
  /\ Go(t, "decide")
  /\ UNCHANGED <<want, sig, have, said, rmw, disk, ghosts, could>>

\* The request is over.
Answer(t, yes) ==
  /\ said' = [said EXCEPT ![t] = yes]
  /\ Go(t, "over")
  /\ rmw' = IF rmw[Home(t)] = t THEN [rmw EXCEPT ![Home(t)] = None] ELSE rmw

AddKey(t) ==     \* a fingerprint that is there already is refused
  /\ want[t].op = "add_key"
  /\ IF want[t].key \in have[t] THEN Answer(t, FALSE) /\ UNCHANGED have
     ELSE have' = [have EXCEPT ![t] = @ \union {want[t].key}] /\ Go(t, "replace") /\ UNCHANGED <<said, rmw>>
RemoveKey(t) ==
  /\ want[t].op = "remove_key"
  /\ IF want[t].key \notin have[t] THEN Answer(t, FALSE) /\ UNCHANGED have
     ELSE have' = [have EXCEPT ![t] = @ \ {want[t].key}] /\ Go(t, "replace") /\ UNCHANGED <<said, rmw>>
MatchPresentation(t) ==
  /\ want[t].op = "match_presentation"
  /\ Answer(t, want[t].key \in have[t])
  /\ UNCHANGED have

Decide(t) ==
  /\ pc[t] = "decide"
  /\ AddKey(t) \/ RemoveKey(t) \/ MatchPresentation(t)
  /\ UNCHANGED <<want, sig, cache, stat, disk, ghosts, could>>

\* _write: the file is replaced, or the write raises and leaves it ...
Replace(t) ==
  /\ pc[t] = "replace"
  /\ \/ /\ keys' = have[t] /\ look' = "good" /\ version' = version + 1
        /\ Could(have[t])
        /\ Go(t, "restat") /\ UNCHANGED <<said, rmw>>
     \/ Answer(t, FALSE) /\ UNCHANGED <<disk, could>>
  /\ UNCHANGED <<want, sig, have, cache, stat, ghosts>>

\* ... and its contents are cached under the signature the file has by now.
Restat(t) ==
  /\ pc[t] = "restat"
  /\ cache' = [cache EXCEPT ![Home(t)] = have[t]]
  /\ stat' = [stat EXCEPT ![Home(t)] = IF look = "absent" THEN 0 ELSE version]
  /\ Answer(t, TRUE)
  /\ UNCHANGED <<want, sig, have, disk, ghosts, could>>

-----------------------------------------------------------------------------
(* The world.                                                              *)

\* The mount hiccups, or comes back; the file is broken by hand.
Harm(how) ==
  /\ Cardinality(harm) < MaxHarm
  /\ harm' = harm \union {how}
  /\ \/ how = "vanish" /\ look = "good" /\ look' = "absent" /\ UNCHANGED <<version, keys>>
     \/ how = "break" /\ look = "good" /\ look' \in {"broken", "misshapen"} /\ version' = version + 1 /\ UNCHANGED keys
  /\ UNCHANGED <<pc, want, sig, have, said, rmw, cache, stat, crossed, could>>

Return ==
  /\ look = "absent"
  /\ look' = "good"
  /\ UNCHANGED <<pc, want, sig, have, said, rmw, cache, stat, keys, version, ghosts, could>>

Restart(r) ==
  /\ Cardinality(harm) < MaxHarm /\ (cache[r] # None \/ \E t \in Thread : Home(t) = r /\ Running(t))
  /\ pc' = [t \in Thread |-> IF Home(t) = r /\ Running(t) THEN "over" ELSE pc[t]]
  /\ cache' = [cache EXCEPT ![r] = None] /\ stat' = [stat EXCEPT ![r] = 0]
  /\ rmw' = [rmw EXCEPT ![r] = None]
  /\ harm' = harm \union {"restart"}
  /\ UNCHANGED <<want, sig, have, said, disk, crossed>>
  /\ could' = [t \in Thread |-> IF Home(t) = r /\ Running(t) /\ ~Writes(t) THEN BOOLEAN ELSE could[t]]

Step(t) == \/ Begin(t) \/ Stat(t) \/ Cached(t) \/ Read(t) \/ Swap(t)
           \/ Decide(t) \/ Replace(t) \/ Restat(t)

Next == \/ \E t \in Thread : Step(t)
        \/ \E how \in {"vanish", "break"} : Harm(how)
        \/ Return
        \/ \E r \in Replica : Restart(r)

Spec == Init /\ [][Next]_vars

-----------------------------------------------------------------------------
(* Properties.                                                             *)

Succeeded(op, key) == \E t \in Thread : said[t] /\ want[t].op = op /\ want[t].key = key

\* All that has been minted or revoked went through one replica, and no match did: the
\* swap of a slow one would put back what it read before.
Alone ==
  \A t, u \in Thread : Writes(t) /\ pc[t] # "start" /\ pc[u] # "start" =>
    (Home(t) = Home(u) <=> Writes(u))

\* Replicas have taken turns at writing, and the file has always been there.
TurnsTaken == ~crossed /\ harm \subseteq {"restart"}

\* admin_keys.py:239-241: no mint brings a revoked key back (on replicas that take turns
\* at a file that stays; on one that answers no match meanwhile, though the file vanishes,
\* breaks or the replica restarts), and both of two mints land.
KeysAsSaid ==
  \A key \in Key :
    /\ Succeeded("remove_key", key) /\ (Alone \/ TurnsTaken) => key \notin keys
    /\ Succeeded("add_key", key) /\ key \notin keys /\ TurnsTaken =>
         \E t \in Thread : want[t].op = "remove_key" /\ want[t].key = key

\* The same words without a condition ("must not resurrect the revoked entry"): false of
\* threads of one replica.  A match that read the file before a revoke swaps what it read
\* into the cache after it; while the mount is gone a mint loads that, and writes it.
RevokedStaysOut == \A key \in Key : Succeeded("remove_key", key) => key \notin keys

\* A presented key is answered from the file as it was at some moment of the request,
\* on every replica, whatever its cache holds: a revoke that has been answered holds.
MatchesAreCurrent ==
  TurnsTaken => \A t \in Thread :
    want[t].op = "match_presentation" /\ pc[t] = "over" => said[t] \in could[t]
=============================================================================
