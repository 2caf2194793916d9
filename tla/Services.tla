-------------------------------- MODULE Services --------------------------------
(***************************************************************************)
(* What one process keeps in memory: the sql-handler's query jobs, its     *)
(* policy and its list of tables, and the pages that searxng-mcp fetches.  *)
(* No step of one looks at another, so each is instantiated here with      *)
(* variables of its own.                                                   *)
(***************************************************************************)
EXTENDS QueryJob

CONSTANTS None, Asker, Unrestricted, Closed, MaxEdits, Caller, Refresher, Timer, TTL, MaxTime,
          Visitor, Url

VARIABLES atP, sig, haveP, ans, policy, stat, file, version, could, loaded,
          now, atL, haveL, packed, tables, desc, refreshing, pending, disk,
          url, pc, task, atF, html, outcome, inflight, store, verdict, note, heard

P == INSTANCE PolicyStore WITH Thread <- Asker, at <- atP, have <- haveP
L == INSTANCE WarmCache WITH at <- atL, have <- haveL
F == INSTANCE Fetcher WITH Call <- Visitor, at <- atF, policy <- verdict

policies == <<atP, sig, haveP, ans, policy, stat, file, version, could, loaded>>
lists == <<now, atL, haveL, packed, tables, desc, refreshing, pending, disk>>
pages == <<url, pc, task, atF, html, outcome, inflight, store, verdict, note, heard>>

-----------------------------------------------------------------------------
(* Properties.                                                             *)

\* The policy store, the list and the fetcher keep their types.
ServicesTyped == TypeOK /\ P!TypeOK /\ L!TypeOK /\ F!TypeOK

\* A policy is one the file had, or was in force when it had none (PolicyStore).
AnswersAreDue == P!AnswersAreDue

\* The newest policy stays (PolicyStore); fails.
NewestKept == P!NewestKept

\* A restart serves nothing older than the process would (WarmCache); fails.
WarmNoStaler == L!WarmNoStaler

\* Whoever waits for a page is answered (Fetcher).
StayersAnswered == F!StayersAnswered

\* A failure is not kept for those who ask again (Fetcher).
FailuresAreRetried == F!FailuresAreRetried

\* A fetch tells nothing of another (Fetcher); fails.
NotesAreOwn == F!NotesAreOwn
=============================================================================
