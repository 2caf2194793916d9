--------------------------------- MODULE Stores ---------------------------------
(***************************************************************************)
(* The small stores: prometheus-mcp's names, the files of saved queries    *)
(* and of minted keys that replicas of the sql-handler share, the entries  *)
(* of previews, the registry of the web UI, and the lease file of a table  *)
(* that is written.  No step of one looks at another, so each is           *)
(* instantiated here with variables of its own.                            *)
(***************************************************************************)
EXTENDS SavedNames

CONSTANTS Replica, Thread, ThreadOf,
          Saver, SaverOf, Title, Owner, Ask, MaxEntries,
          Fingerprint, Minted, Want, MaxHarm,
          Previews, Canon, TableRows, FirstRows, MaxRows,
          Page, Id, MaxJobs,
          Write, Process, Host, Pid, Runs, HostOf, PidOf, Pods, MaxAttempts

VARIABLES at, ask, base, done, inside, flock, state, store, aside, given, unsure,
          pc, want, sig, have, said, rmw, cache, stat, keys, look, version, harm, crossed, could,
          atP, askP, rows, l1, l2,
          atW, op, id, todo, jobs, ended, query,
          up, atL, tries, lease, full, held, ino

S == INSTANCE SavedQueries WITH Call <- Saver, ReplicaOf <- SaverOf, Name <- Title
K == INSTANCE AdminKeys WITH ReplicaOf <- ThreadOf, Key <- Fingerprint
P == INSTANCE PreviewRows WITH at <- atP, ask <- askP, ReplicaOf <- ThreadOf, Ask <- Previews
W == INSTANCE WebJobs WITH at <- atW, Thread <- Page
L == INSTANCE WriteLease WITH at <- atL, file <- lease

savers == <<at, ask, base, done, inside, flock, state, store, aside, given, unsure>>
keepers == <<pc, want, sig, have, said, rmw, cache, stat, keys, look, version, harm, crossed, could>>
views == <<atP, askP, rows, l1, l2>>
webs == <<atW, op, id, todo, jobs, ended, query>>
leases == <<up, atL, tries, lease, full, held, ino>>

-----------------------------------------------------------------------------
(* Properties.                                                             *)

\* The stores keep their types.
StoresTyped == TypeOK /\ S!TypeOK /\ K!TypeOK /\ P!TypeOK /\ W!TypeOK /\ L!TypeOK

\* No saved query is lost (SavedQueries).
EntriesKept == S!EntriesKept

\* Minted keys stay and revoked ones stay out (AdminKeys).
KeysAsSaid == K!KeysAsSaid

\* A revoked key stays out, whatever happens (AdminKeys).
RevokedStaysOut == K!RevokedStaysOut

\* A presented key is answered from the file (AdminKeys).
MatchesAreCurrent == K!MatchesAreCurrent

\* A preview has the rows it is due (PreviewRows).
AnswerIsDue == P!AnswerIsDue

\* A running query of the web UI is in reach, and there are not too many (WebJobs).
RunningInHand == W!RunningInHand

\* Two writes of one table are never at work at once (WriteLease).
Exclusive == L!Exclusive

\* A live writer's lease goes only by its own release (WriteLease).
NeverDisplaced == L!NeverDisplaced
=============================================================================
