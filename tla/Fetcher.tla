-------------------------------- MODULE Fetcher --------------------------------
(***************************************************************************)
(* searxng-mcp fetcher.py: fetch_and_parse.  Calls for one URL share one   *)
(* task, which climbs a ladder of ways to fetch (plain, impersonated,      *)
(* headless browser), and a cache of its outcomes.  One fetcher serves all *)
(* calls of the event loop, and what a rung finds out on the way is kept   *)
(* in attributes of the fetcher until the task ends.  A URL here is one    *)
(* with its mode: what calls must have in common to share.                 *)
(***************************************************************************)
EXTENDS Naturals, FiniteSets

CONSTANTS Call, Url, None

Parameters == None \notin Call \union Url

VARIABLES
  url,      \* call -> the URL it asks for
  pc,       \* call -> "new", "waits", "answered" or "left"
  task,     \* call -> the task it waits for, named for the call that began it
  at,       \* task -> what it does next
  html,     \* task -> has a rung brought a document?
  outcome,  \* task -> its outcome, None until it ends or when it raises
  inflight, \* URL -> its task in _inflight, or None
  store,    \* URL -> the outcome in _store, or None
  policy,   \* last_policy_error: the URL whose target was refused, or None
  note,     \* tls_note and browser_note: the task they tell of, or None
  heard     \* history: URL -> tasks whose failure a call for it has been answered with

vars == <<url, pc, task, at, html, outcome, inflight, store, policy, note, heard>>
calls == <<url, pc, task, heard>>
cache == <<inflight, store>>
shared == <<policy, note>>

Task == Call
Steps == {"none", "limit", "browser", "plain", "plainEnds", "impersonated", "extract", "render",
          "noted", "publish", "over"}
Outcome == [text: BOOLEAN, policy: Url \union {None}, note: Task \union {None}]

TypeOK ==
  /\ url \in [Call -> Url]
  /\ pc \in [Call -> {"new", "waits", "answered", "left"}]
  /\ task \in [Call -> Task \union {None}] /\ at \in [Task -> Steps]
  /\ html \in [Task -> BOOLEAN] /\ outcome \in [Task -> Outcome \union {None}]
  /\ inflight \in [Url -> Task \union {None}] /\ store \in [Url -> Outcome \union {None}]
  /\ policy \in Url \union {None} /\ note \in Task \union {None}
  /\ heard \in [Url -> SUBSET Task]

Init ==
  /\ url \in [Call -> Url]
  /\ pc = [c \in Call |-> "new"] /\ task = [c \in Call |-> None]
  /\ at = [f \in Task |-> "none"] /\ html = [f \in Task |-> FALSE]
  /\ outcome = [f \in Task |-> None]
  /\ inflight = [u \in Url |-> None] /\ store = [u \in Url |-> None]
  /\ policy = None /\ note = None
  /\ heard = [u \in Url |-> {}]

Go(f, to) == at' = [at EXCEPT ![f] = to]
\* A task without an outcome has raised, and so does what its waiters are answered.
Failed(o) == o = None \/ (~o.text /\ o.policy = None)

\* The answer puts the note of a page, or of a failure, back on the fetcher.
Mirrored(o) == IF o = None \/ o.policy # None THEN note ELSE o.note

-----------------------------------------------------------------------------
(* The calls: FetchResultCache.run, whose lock is never waited for.        *)

\* A hit.
Hit(c) ==
  /\ pc[c] = "new" /\ store[url[c]] # None
  /\ pc' = [pc EXCEPT ![c] = "answered"] /\ note' = Mirrored(store[url[c]])
  /\ UNCHANGED <<url, task, heard, at, html, outcome, cache, policy>>

\* A miss joins the task of its URL or begins one.
Join(c) ==
  /\ pc[c] = "new" /\ store[url[c]] = None
  /\ pc' = [pc EXCEPT ![c] = "waits"]
  /\ IF inflight[url[c]] # None
       THEN task' = [task EXCEPT ![c] = inflight[url[c]]] /\ UNCHANGED <<at, inflight>>
       ELSE /\ task' = [task EXCEPT ![c] = c] /\ Go(c, "limit")
            /\ inflight' = [inflight EXCEPT ![url[c]] = c]
  /\ UNCHANGED <<url, heard, html, outcome, store, shared>>

\* Seeded bug: waiters wake before the callback has run.
WakeEarly(c) ==
  /\ pc[c] = "waits" /\ at[task[c]] \in {"publish", "over"}
  /\ pc' = [pc EXCEPT ![c] = "answered"] /\ note' = Mirrored(outcome[task[c]])
  /\ heard' = IF Failed(outcome[task[c]]) THEN [heard EXCEPT ![url[c]] = @ \union {task[c]}] ELSE heard
  /\ UNCHANGED <<url, task, at, html, outcome, cache, policy>>

\* A waiter wakes when its task is over, with the callback's work done.
Wake(c) ==
  /\ pc[c] = "waits" /\ at[task[c]] = "over"
  /\ pc' = [pc EXCEPT ![c] = "answered"] /\ note' = Mirrored(outcome[task[c]])
  /\ heard' = IF Failed(outcome[task[c]]) THEN [heard EXCEPT ![url[c]] = @ \union {task[c]}] ELSE heard
  /\ UNCHANGED <<url, task, at, html, outcome, cache, policy>>

\* Seeded bug: without the shield the task goes with its caller.
LeaveWithTask(c) ==
  /\ pc[c] = "waits"
  /\ pc' = [pc EXCEPT ![c] = "left"] /\ Go(task[c], "none")
  /\ UNCHANGED <<url, task, heard, html, outcome, cache, shared>>

\* A caller goes away: the task, shielded, goes on.
Leave(c) ==
  /\ pc[c] = "waits"
  /\ pc' = [pc EXCEPT ![c] = "left"]
  /\ UNCHANGED <<url, task, heard, at, html, outcome, cache, shared>>

-----------------------------------------------------------------------------
(* The task: _fetch_outcome.                                               *)

Rest == <<calls, outcome, cache>>

\* The outcome gathers what the attributes say by now.
Ended(text) == [text |-> text, policy |-> IF text THEN None ELSE policy, note |-> note]
End(f, text) == outcome' = [outcome EXCEPT ![f] = Ended(text)] /\ Go(f, "publish")

\* The limiter lets it pass; the attributes are reset; a call that asked for the
\* browser, or for a screenshot, begins there.
Begin(f) ==
  /\ at[f] = "limit" /\ policy' = None /\ note' = None
  /\ Go(f, "browser") \/ Go(f, "plain")
  /\ UNCHANGED <<html, Rest>>

\* The page has text, or the ladder is climbed from the start.
Browser(f) ==
  /\ at[f] = "browser"
  /\ \/ End(f, TRUE) /\ UNCHANGED note
     \/ Go(f, "plain") /\ note' \in {note, f} /\ UNCHANGED outcome
  /\ UNCHANGED <<html, policy, calls, cache>>

\* What a rung leaves behind: a document takes the verdict back, and may come with a
\* note (without verification); a refusal is kept; other failures leave it as it is.
Rung(f) ==
  \/ html' = [html EXCEPT ![f] = TRUE] /\ policy' = None /\ note' \in {note, f}
  \/ policy' = url[f] /\ UNCHANGED <<html, note>>
  \/ UNCHANGED <<html, shared>>

\* _get_html; the client is closed before its caller goes on.
Plain(f) == at[f] = "plain" /\ Rung(f) /\ Go(f, "plainEnds") /\ UNCHANGED Rest

\* Without a document the next rung, unless a refusal is noted.
PlainEnds(f) ==
  /\ at[f] = "plainEnds"
  /\ Go(f, IF ~html[f] /\ policy = None THEN "impersonated" ELSE "extract")
  /\ UNCHANGED <<html, shared, Rest>>

\* _get_html_impersonated, on a thread of its own.
Impersonated(f) == at[f] = "impersonated" /\ Rung(f) /\ Go(f, "extract") /\ UNCHANGED Rest

\* Text is extracted, or none is.  Without text, or with little of it, the browser may
\* be next, unless a refusal is noted.  (A call's mode may rule a rung out: left open.)
Extract(f) ==
  /\ at[f] = "extract"
  /\ \E text \in {FALSE, html[f]} :
       \/ End(f, text) /\ UNCHANGED html
       \/ policy = None /\ Go(f, "render") /\ html' = [html EXCEPT ![f] = text] /\ UNCHANGED outcome
  /\ UNCHANGED <<shared, calls, cache>>

\* The page is rendered and its text may be the better one; or the note says why not
\* and, once the client has been told, what there was before is the outcome.
Render(f) ==
  /\ \/ at[f] = "render" /\ \E text \in {TRUE, html[f]} : End(f, text) /\ UNCHANGED note
     \/ at[f] = "render" /\ note' = f /\ Go(f, "noted") /\ UNCHANGED outcome
     \/ at[f] = "noted" /\ End(f, html[f]) /\ UNCHANGED note
  /\ UNCHANGED <<html, policy, calls, cache>>

\* What a rung does not catch ends the task, and so does the end of the loop.
Raise(f) ==
  /\ at[f] \notin {"none", "publish", "over"} /\ Go(f, "publish")
  /\ UNCHANGED <<html, outcome, shared, calls, cache>>

\* _publish, the first of the task's callbacks: text and refusals are kept.
Publish(f) ==
  /\ at[f] = "publish" /\ Go(f, "over")
  /\ inflight' = [inflight EXCEPT ![url[f]] = None]
  /\ store' = IF Failed(outcome[f]) THEN store ELSE [store EXCEPT ![url[f]] = outcome[f]]
  /\ UNCHANGED <<html, outcome, shared, calls>>

\* An entry expires, or gives way to the sixty-fifth.
Expire(u) ==
  /\ store[u] # None /\ store' = [store EXCEPT ![u] = None]
  /\ UNCHANGED <<calls, at, html, outcome, inflight, shared>>

Work(f) == Begin(f) \/ Browser(f) \/ Plain(f) \/ PlainEnds(f) \/ Impersonated(f)
           \/ Extract(f) \/ Render(f) \/ Raise(f) \/ Publish(f)

Next ==
  \/ \E c \in Call : Hit(c) \/ Join(c) \/ Wake(c) \/ Leave(c)
  \/ \E f \in Task : Work(f)
  \/ \E u \in Url : Expire(u)

\* The event loop runs its tasks and wakes waiters; requests have time limits.
Fairness == /\ \A f \in Task : WF_vars(Work(f))
            /\ \A c \in Call : WF_vars(Wake(c))

Spec == Init /\ [][Next]_vars
FairSpec == Spec /\ Fairness

-----------------------------------------------------------------------------
(* Properties.                                                             *)

\* Whoever stays is answered, though the call that began the task has left (294-297).
StayersAnswered == \A c \in Call : pc[c] = "waits" ~> pc[c] \in {"answered", "left"}

\* A failure is told to those who wait for it and to nobody else (261-262): it is not kept,
\* and whoever calls again on hearing of it finds no task that has failed.
FailuresAreRetried ==
  \A u \in Url : (store[u] # None => ~Failed(store[u])) /\ inflight[u] \notin heard[u]

\* "never leak another fetch's notes" (248-249).  Fails: fetches of two URLs share them.
NotesAreOwn ==
  \A f \in Task : outcome[f] # None =>
    outcome[f].policy \in {None, url[f]} /\ outcome[f].note \in {None, f}
=============================================================================
