-------------------------------- MODULE MCStores --------------------------------
(***************************************************************************)
(* The small stores, each in behaviours of its own, since no step of one   *)
(* looks at another: the files of saved queries and of minted keys that    *)
(* replicas of the sql-handler share, prometheus-mcp's names, the entries  *)
(* of previews, the registry of the web UI; and, in a specification of its *)
(* own, the lease of a table: pods that restart, or processes of one host. *)
(***************************************************************************)
EXTENDS Stores, Functions, TLC

CONSTANTS x, xx, y, q1, q2, Limits, i1, i2, i3,
          s1, s2, s3, t1, t2, t3, ra, rb, n1, n2, alice, bob, ka, kb,
          w1, w2, w3, w4, w5, a1, a2, a3, b1, hostA, hostB, pid1, pid2, pid3

VARIABLE part

MCReplica == {ra, rb}
MCThread == {t1, t2, t3}
MCThreadOf == (t1 :> ra) @@ (t2 :> ra) @@ (t3 :> rb)
MCOneReplica == [t \in MCThread |-> ra]

MCSaver == {s1, s2, s3}
MCSaverOf == (s1 :> ra) @@ (s2 :> rb) @@ (s3 :> rb)
MCTitle == {n1, n2}
MCOwner == {alice, bob}
MCAsks == <<[op |-> "save", name |-> n1, by |-> alice], [op |-> "save", name |-> n1, by |-> None],
            [op |-> "save", name |-> n2, by |-> bob], [op |-> "delete", name |-> n1, by |-> bob],
            [op |-> "look", name |-> n1, by |-> bob]>>
MCAsk == Range(MCAsks)

MCFingerprint == {ka, kb}
MCMinted == {ka}
MCWants == <<[op |-> "add_key", key |-> kb], [op |-> "remove_key", key |-> ka],
             [op |-> "remove_key", key |-> kb], [op |-> "match_presentation", key |-> ka]>>
MCWant == Range(MCWants)

\* a does not come after b in s.
InOrder(s, a, b) == \E i, j \in DOMAIN s : i <= j /\ s[i] = a /\ s[j] = b

\* Two spellings of one name, and a name of its own.
MCName == {x, xx, y}
MCClean == x :> xx @@ xx :> xx @@ y :> y
MCQuery == {q1, q2}

\* A small preview, a page of a larger one, and the export of more rows than there are.
MCPreview(n, limit, cap) == [n |-> n, limit |-> limit, cap |-> cap]
MCPreviews == {MCPreview(1, None, None), MCPreview(4, 2, None), MCPreview(4, 4, 4)} \union
              {MCPreview(4, limit, None) : limit \in Limits}

MCPage == {t1, t2}
MCId == {i1, i2, i3}

\* Pods: host A runs a1, a2 and a3, in any order; a2 and a3 have the same pid.
MCRuns == w1 :> a1 @@ w2 :> a1 @@ w3 :> a2 @@ w4 :> a3 @@ w5 :> b1
MCHostOf == a1 :> hostA @@ a2 :> hostA @@ a3 :> hostA @@ b1 :> hostB
MCPidOf == a1 :> pid1 @@ a2 :> pid2 @@ a3 :> pid2 @@ b1 :> pid1

\* Processes of one host with pids of their own.
HostRuns == w1 :> a1 @@ w2 :> a2 @@ w3 :> a3
HostHostOf == a1 :> hostA @@ a2 :> hostA @@ a3 :> hostA
HostPidOf == a1 :> pid1 @@ a2 :> pid2 @@ a3 :> pid3

ASSUME Fits == Parameters /\ S!Parameters /\ K!Parameters /\ P!Parameters /\ W!Parameters /\ L!Parameters

\* A store that is not the run's: nobody calls it.
NoSaves ==
  /\ at = [c \in MCSaver |-> "over"] /\ ask = [c \in MCSaver |-> [op |-> "look", name |-> n1, by |-> None]]
  /\ base = [c \in MCSaver |-> [n \in MCTitle |-> None]] /\ done = {}
  /\ inside = [r \in MCReplica |-> None] /\ flock = None
  /\ state = "absent" /\ store = [n \in MCTitle |-> None]
  /\ aside = {} /\ given = {} /\ unsure = {}
NoKeys ==
  /\ pc = [t \in MCThread |-> "over"]
  /\ want = [t \in MCThread |-> [op |-> "match_presentation", key |-> ka]]
  /\ sig = [t \in MCThread |-> 0] /\ have = [t \in MCThread |-> {}] /\ said = [t \in MCThread |-> FALSE]
  /\ rmw = [r \in MCReplica |-> None] /\ cache = [r \in MCReplica |-> None] /\ stat = [r \in MCReplica |-> 0]
  /\ keys = {} /\ look = "good" /\ version = 1 /\ harm = {} /\ crossed = FALSE
  /\ could = [t \in MCThread |-> BOOLEAN]

NoNames == memory = Fresh /\ cached = None /\ path = FALSE /\ file = None
NoLeases == L!Init /\ \A p \in Process : up[p] = "new"

\* Of two callers on one replica, which are alike, each pair of requests comes once.
MCInit ==
  /\ P!Init /\ W!Init /\ NoLeases
  /\ \/ part = "saved" /\ S!Init /\ InOrder(MCAsks, ask[s2], ask[s3]) /\ NoKeys /\ NoNames
     \/ part = "keys" /\ K!Init /\ InOrder(MCWants, want[t1], want[t2]) /\ NoSaves /\ NoNames
     \/ part = "names" /\ Init /\ NoSaves /\ NoKeys
     \/ part \in {"previews", "web"} /\ NoSaves /\ NoKeys /\ NoNames

SavedNext == part = "saved" /\ S!Next /\ UNCHANGED <<part, keepers, vars, views, webs, leases>>
KeysNext == part = "keys" /\ K!Next /\ UNCHANGED <<part, savers, vars, views, webs, leases>>
NamesNext == part = "names" /\ Next /\ UNCHANGED <<part, savers, keepers, views, webs, leases>>
PreviewsNext == part = "previews" /\ P!Next /\ UNCHANGED <<part, savers, keepers, vars, webs, leases>>
WebNext == part = "web" /\ W!Next /\ UNCHANGED <<part, savers, keepers, vars, views, leases>>
MCNext == SavedNext \/ KeysNext \/ NamesNext \/ PreviewsNext \/ WebNext

MCSpec == MCInit /\ [][MCNext]_<<part, savers, keepers, vars, views, webs, leases>> /\ S!Fairness

LeaseInit == part = "lease" /\ L!Init /\ NoSaves /\ NoKeys /\ NoNames /\ P!Init /\ W!Init
LeaseNext == L!Next /\ UNCHANGED <<part, savers, keepers, vars, views, webs>>
LeaseSpec == LeaseInit /\ [][LeaseNext]_<<part, savers, keepers, vars, views, webs, leases>> /\ L!Fairness

-----------------------------------------------------------------------------

\* Every call of the saved queries ends (SavedQueries).
EveryCallEnds == part = "saved" => S!EveryCallEnds

\* Every write of the table settles (WriteLease).
WriteSettles == L!WriteSettles
=================================================================================
