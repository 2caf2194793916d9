----------------------------- MODULE EzappDeploy -----------------------------
(***************************************************************************)
(* ezapp-deploy (server.py): the tools that upload and delete charts       *)
(* (ChartMuseum) and apply and delete EzAppConfigs (Kubernetes), the       *)
(* ownership ledger in a ConfigMap that gates them, the chunked upload     *)
(* sessions and the staged manifests they may start from.  One process,    *)
(* one event loop: calls interleave wherever one awaits a subprocess.      *)
(* Charts and EzAppConfigs are objects; others put and remove objects too. *)
(***************************************************************************)
EXTENDS FiniteSets, Naturals

CONSTANTS Call, Chart, App,
          Handle,       \* upload handles
          Manifest,     \* manifest ids, each staged once (token_hex)
          AppOf,        \* manifest id -> the EzAppConfig it describes
          None,
          MaxSessions,  \* UPLOAD_SESSION_MAX
          MaxStaged,    \* MANIFEST_STAGING_MAX
          MaxBusy       \* bound: calls, sessions and staged manifests at one time

Object == Chart \union App

ASSUME Parts == Chart \intersect App = {}
ASSUME Ids == AppOf \in [Manifest -> App] /\ None \notin Manifest \union Object \union {"ours", "theirs"}
ASSUME Bounds == MaxSessions \in Nat /\ MaxStaged \in Nat /\ MaxBusy \in Nat

VARIABLES
  store,    \* object -> whose it is as it stands: "ours", "theirs", or None
  ending,   \* EzAppConfigs in teardown (a deletionTimestamp, a finalizer at work)
  ledger,   \* the objects the ConfigMap names; an absent one names none
  at,       \* call -> what it does next
  job,      \* call -> its operation, or None
  copy,     \* call -> the ledger as it loaded it
  session,  \* handle -> its upload: unfinished, whole or spoilt; or None
  old,      \* handles and manifest ids past their TTL
  staged,   \* manifests in _staged_manifests
  taken,    \* manifests that have been staged: an id is not drawn twice
  ours,     \* history: the objects this server has ever put
  came,     \* history: calls at their request whose object others have put since
  later     \* history: call -> entries of the ledger that changed after it loaded

vars == <<store, ending, ledger, at, job, copy, session, old, staged, taken, ours, came, later>>
world == <<store, ending>>
book == <<ledger, copy, later>>
calls == <<at, job, came>>
uploads == <<session, old, staged, taken>>

Ops == {"upload", "delete_chart", "apply", "delete_app"}
Job == [op: Ops, obj: Object, force: BOOLEAN, from: Manifest \union {None}]
Steps == {"idle", "look", "ask", "act", "load", "save"}

TypeOK ==
  /\ store \in [Object -> {"ours", "theirs", None}]
  /\ ending \subseteq App /\ ledger \subseteq Object /\ ours \subseteq Object
  /\ at \in [Call -> Steps] /\ copy \in [Call -> SUBSET Object]
  /\ later \in [Call -> SUBSET Object] /\ came \subseteq Call
  /\ \A c \in Call : (at[c] = "idle" /\ job[c] = None) \/ (at[c] # "idle" /\ job[c] \in Job)
  /\ session \in [Handle -> {"unfinished", "whole", "spoilt", None}]
  /\ old \subseteq Handle \union Manifest
  /\ staged \subseteq taken /\ taken \subseteq Manifest
  /\ Cardinality({h \in Handle : session[h] # None}) <= MaxSessions
  /\ Cardinality(staged) <= MaxStaged

\* A ledger may be older than the process, and the cluster than both.
Init ==
  /\ store \in [Object -> {"ours", "theirs", None}]
  /\ ledger \in SUBSET Object
  /\ ours = ledger \union {o \in Object : store[o] = "ours"}
  /\ ending = {}
  /\ at = [c \in Call |-> "idle"] /\ job = [c \in Call |-> None]
  /\ copy = [c \in Call |-> {}]
  /\ session = [h \in Handle |-> None] /\ old = {}
  /\ staged = {} /\ taken = {}
  /\ came = {} /\ later = [c \in Call |-> {}]

-----------------------------------------------------------------------------
(* Helpers.                                                                *)

Go(c, to) == at' = [at EXCEPT ![c] = to]
Over(c) == Go(c, "idle") /\ job' = [job EXCEPT ![c] = None] /\ came' = came \ {c}
Obj(c) == job[c].obj
Op(c) == job[c].op
Open == {h \in Handle : session[h] # None}
Removes(c) == Op(c) \in {"delete_chart", "delete_app"}
Busy == Cardinality({c \in Call : at[c] # "idle"}) + Cardinality(Open) + Cardinality(staged)

\* Seeded bug: force is taken for the right to overwrite.
FirstStepForced(j) == CASE j.op = "apply" -> "look"
                        [] j.op = "upload" -> "act"
                        [] OTHER -> "ask"

\* A delete and a forced upload look into the ledger first, an apply at the
\* cluster; an upload without force leaves the look to ChartMuseum.
FirstStep(j) == CASE j.op = "apply" -> "look"
                  [] j.op = "upload" /\ ~j.force -> "act"
                  [] OTHER -> "ask"

Start(c, j) ==
  /\ at[c] = "idle"
  /\ job' = [job EXCEPT ![c] = j]
  /\ Go(c, FirstStep(j))
  /\ UNCHANGED <<came, book, world, ours>>

-----------------------------------------------------------------------------
(* The tools.                                                              *)

Invoke(c, op, o, force) ==
  /\ Busy < MaxBusy
  /\ Start(c, [op |-> op, obj |-> o, force |-> force, from |-> None])
  /\ UNCHANGED uploads

UploadChart(c, o, force) == o \in Chart /\ Invoke(c, "upload", o, force)   \* POST /upload too
DeleteChart(c, o) == o \in Chart /\ Invoke(c, "delete_chart", o, FALSE)
ApplyText(c, o) == o \in App /\ Invoke(c, "apply", o, FALSE)
DeleteApp(c, o) == o \in App /\ Invoke(c, "delete_app", o, FALSE)
Tool(c, o) == DeleteChart(c, o) \/ ApplyText(c, o) \/ DeleteApp(c, o)

\* kubectl get: an EzAppConfig that is there, and not in teardown, needs an entry.
Look(c) ==
  /\ at[c] = "look"
  /\ \/ store[Obj(c)] = None /\ Go(c, "act") /\ UNCHANGED <<job, came>>
     \/ store[Obj(c)] # None /\ Obj(c) \notin ending /\ Go(c, "ask") /\ UNCHANGED <<job, came>>
     \/ store[Obj(c)] # None /\ Obj(c) \in ending /\ Over(c)
     \/ Over(c)    \* kubectl fails
  /\ UNCHANGED <<book, world, uploads, ours>>

\* has_chart, has_ezappconfig: without an entry, or an answer, the tool refuses.
Ask(c) ==
  /\ at[c] = "ask"
  /\ \/ Obj(c) \in ledger /\ Go(c, "act") /\ UNCHANGED <<job, came>>
     \/ Over(c)
  /\ UNCHANGED <<book, world, uploads, ours>>

\* What the request does to the object, wherever its answer goes.
Put(c) == /\ store' = [store EXCEPT ![Obj(c)] = "ours"]
          /\ ours' = ours \union {Obj(c)} /\ UNCHANGED ending
PutChart(c) == Op(c) = "upload" /\ Put(c)
PutApp(c) == Op(c) = "apply" /\ Put(c)
DropChart(c) == /\ Op(c) = "delete_chart"
                /\ store' = [store EXCEPT ![Obj(c)] = None] /\ UNCHANGED <<ending, ours>>
\* --wait=false: the finalizer has yet to do its work.
DropApp(c) == /\ Op(c) = "delete_app"
              /\ ending' = IF store[Obj(c)] = None THEN ending ELSE ending \union {Obj(c)}
              /\ UNCHANGED <<store, ours>>
Effect(c) == PutChart(c) \/ PutApp(c) \/ DropChart(c) \/ DropApp(c)

\* ChartMuseum answers 409 to an upload without force of what it has.
Conflict(c) == Op(c) = "upload" /\ ~job[c].force /\ store[Obj(c)] # None

\* curl or kubectl: answered; failed or timed out, having done its work or not.  A
\* delete of what is gone (404, NotFound) is answered well too.
Act(c) ==
  /\ at[c] = "act"
  /\ \/ Conflict(c) /\ Over(c) /\ UNCHANGED <<world, ours>>
     \/ ~Conflict(c) /\ Effect(c) /\ Go(c, "load") /\ came' = came \ {c} /\ UNCHANGED job
     \/ ~Conflict(c) /\ Effect(c) /\ Over(c)
     \/ Over(c) /\ UNCHANGED <<world, ours>>
  /\ UNCHANGED <<book, uploads>>

\* Seeded bug: a read that fails is taken for a ledger that is not there.
LoadFailsEmpty(c) ==
  /\ at[c] = "load"
  /\ copy' \in {[copy EXCEPT ![c] = ledger], [copy EXCEPT ![c] = {}]}
  /\ Go(c, "save")
  /\ UNCHANGED <<ledger, later, job, came, world, uploads, ours>>

\* record_ and forget_: the whole ledger is loaded ...
Load(c) ==
  /\ at[c] = "load"
  /\ \/ copy' = [copy EXCEPT ![c] = ledger] /\ Go(c, "save") /\ UNCHANGED <<job, came>>
     \/ Over(c) /\ UNCHANGED copy
  /\ UNCHANGED <<ledger, later, world, uploads, ours>>

\* Who has loaded the ledger, and has yet to save it, misses this change of it.
Changes(new) ==
  /\ ledger' = new
  /\ later' = [c \in Call |-> IF at'[c] = "save" THEN later[c] \union (ledger \ new) \union (new \ ledger)
                                                 ELSE {}]

\* ... changed, and merge-patched as it is; a patch that fails may have got through.
Save(c) ==
  /\ at[c] = "save"
  /\ Over(c)
  /\ \/ Changes(IF Removes(c) THEN copy[c] \ {Obj(c)} ELSE copy[c] \union {Obj(c)})
     \/ Changes(ledger)
  /\ copy' = [copy EXCEPT ![c] = {}]
  /\ UNCHANGED <<world, uploads, ours>>

-----------------------------------------------------------------------------
(* Chunked uploads and staged manifests.                                   *)

\* _sweep_upload_sessions: what has expired goes.
Sweep == /\ session' = [h \in Handle |-> IF h \in old THEN None ELSE session[h]]
         /\ old' = old \ Handle

BeginUpload(h) ==
  /\ session[h] = None /\ Busy < MaxBusy
  /\ \/ Cardinality(Open \ old) >= MaxSessions /\ Sweep
     \/ /\ Cardinality(Open \ old) < MaxSessions
        /\ session' = [g \in Handle |-> IF g = h THEN "unfinished" ELSE IF g \in old THEN None ELSE session[g]]
        /\ old' = old \ Handle
  /\ UNCHANGED <<calls, book, world, ours, staged, taken>>

\* The next chunk, and no other, is taken: as it was meant or damaged, and nothing
\* keeps a client from sending one more than there are.
Chunk(h) ==
  /\ \/ session[h] = None /\ Sweep
     \/ session[h] # None /\ h \in old /\ session' = [session EXCEPT ![h] = None] /\ old' = old \ {h}
     \/ /\ session[h] # None /\ h \notin old
        /\ session' \in {[session EXCEPT ![h] = s] :
                            s \in IF session[h] = "unfinished" THEN {"whole", "spoilt"} ELSE {"spoilt"}}
        /\ UNCHANGED old
  /\ UNCHANGED <<calls, book, world, ours, staged, taken>>

\* The session goes, whatever comes of it; its bytes, if they are the declared ones
\* (size and sha256), take upload_chart's way.  The TTL is not looked at.
Commit(h, c, o, force) ==
  /\ IF session[h] = None THEN Sweep
                          ELSE session' = [session EXCEPT ![h] = None] /\ old' = old \ {h}
  /\ IF session[h] = "whole"
     THEN Start(c, [op |-> "upload", obj |-> o, force |-> force, from |-> None])
     ELSE UNCHANGED <<calls, book, world, ours>>
  /\ UNCHANGED <<staged, taken>>

\* POST /manifest, after a sweep.
Stage(m) ==
  /\ m \notin taken /\ Busy < MaxBusy
  /\ LET left == staged \ old IN
       IF Cardinality(left) >= MaxStaged
       THEN staged' = left /\ UNCHANGED taken
       ELSE staged' = left \union {m} /\ taken' = taken \union {m}
  /\ old' = old \ Manifest
  /\ UNCHANGED <<calls, book, world, ours, session>>

\* Seeded bug: the staged manifest is looked up and stays.
ApplyStagedKept(m, c) ==
  /\ m \in staged /\ m \notin old
  /\ Start(c, [op |-> "apply", obj |-> AppOf[m], force |-> FALSE, from |-> m])
  /\ UNCHANGED uploads

\* apply_ezappconfig(manifest_id): single use, even if it has expired.
ApplyStaged(m, c) ==
  /\ staged' = IF m \in staged THEN staged \ {m} ELSE staged \ old
  /\ old' = IF m \in staged THEN old \ {m} ELSE old \ Manifest
  /\ IF m \in staged \ old
     THEN Start(c, [op |-> "apply", obj |-> AppOf[m], force |-> FALSE, from |-> m])
     ELSE UNCHANGED <<calls, book, world, ours>>
  /\ UNCHANGED <<session, taken>>

-----------------------------------------------------------------------------
(* The world.                                                              *)

\* Fifteen minutes have passed since the begin, or the staging.
Age(x) ==
  /\ x \in Open \union staged
  /\ old' = old \union {x}
  /\ UNCHANGED <<calls, book, world, ours, session, staged, taken>>

\* The finalizer of a deleted EzAppConfig is through.
Finalize(o) ==
  /\ o \in ending
  /\ ending' = ending \ {o} /\ store' = [store EXCEPT ![o] = None]
  /\ UNCHANGED <<calls, book, ours, uploads>>

\* Someone else puts an object, over this server's too, or takes one away.
Others(o) ==
  /\ o \notin ending
  /\ \/ /\ store' = [store EXCEPT ![o] = "theirs"]
        /\ came' = came \union {c \in Call : at[c] = "act" /\ Obj(c) = o}
     \/ store' = [store EXCEPT ![o] = None] /\ UNCHANGED came
  /\ UNCHANGED <<ending, at, job, book, ours, uploads>>

\* The ConfigMap is deleted; a new one has no entries.
LedgerLost ==
  /\ ledger # {}
  /\ UNCHANGED <<copy, calls, world, ours, uploads>>
  /\ Changes({})

\* The pod is replaced: what it held in memory is gone.
Restart ==
  /\ at' = [c \in Call |-> "idle"] /\ job' = [c \in Call |-> None]
  /\ session' = [h \in Handle |-> None] /\ old' = {} /\ staged' = {}
  /\ copy' = [c \in Call |-> {}]
  /\ came' = {} /\ later' = [c \in Call |-> {}]
  /\ UNCHANGED <<ledger, taken, world, ours>>

Step(c) == Look(c) \/ Ask(c) \/ Act(c) \/ Load(c) \/ Save(c)

Next ==
  \/ \E c \in Call :
       \/ Step(c)
       \/ \E o \in Object : Tool(c, o) \/ \E force \in BOOLEAN : UploadChart(c, o, force)
       \/ \E h \in Handle, o \in Chart, force \in BOOLEAN : Commit(h, c, o, force)
       \/ \E m \in Manifest : ApplyStaged(m, c)
  \/ \E h \in Handle : BeginUpload(h) \/ Chunk(h)
  \/ \E m \in Manifest : Stage(m)
  \/ \E x \in Handle \union Manifest : Age(x)
  \/ \E o \in App : Finalize(o)
  \/ \E o \in Object : Others(o)
  \/ LedgerLost
  \/ Restart

Spec == Init /\ [][Next]_vars

-----------------------------------------------------------------------------
(* Properties.                                                             *)

Requests(c) == at[c] = "act" /\ at'[c] # "act"

\* "this server only overwrites what it deployed first" (1387, 1343-1345, 1595-1598),
\* as far as it goes, whatever calls interleave, time out or lose of the ledger: a
\* request replaces or deletes what somebody else has put only if this server once put
\* an object of that name, which its entry outlives, or if that one came after an apply
\* had looked and found none.
OthersUntouched ==
  [][\A c \in Call : Requests(c) /\ store[Obj(c)] = "theirs" /\ world' # world =>
       Obj(c) \in ours \/ (Op(c) = "apply" /\ c \in came)]_vars

Saves(c) == at[c] = "save" /\ at'[c] # "save"

\* An update of the ledger (823-845) loads all of it and writes all of it.  It drops or
\* brings back an entry that is not its own only if another update, or the loss of the
\* ConfigMap, changed that one after the load: never by a read that failed.
UpdatesKeepOthers ==
  [][\A c \in Call : Saves(c) =>
       \A o \in (ledger \ ledger') \union (ledger' \ ledger) : o = Obj(c) \/ o \in later[c]]_vars

\* A staged manifest is applied at most once, by two calls that race for it too
\* (1394: "Staged manifests are single-use").
StagedOnce ==
  \A c \in Call : at[c] # "idle" /\ job[c].from # None =>
    /\ job[c].from \notin staged
    /\ \A d \in Call \ {c} : at[d] # "idle" => job[d].from # job[c].from

\* "Recorded in the ownership ledger (this server can now delete it)" (1349), in these
\* words: no update but a delete of that object drops its entry.
RecordedStays ==
  [][\A c \in Call : Saves(c) => \A o \in ledger \ ledger' : o = Obj(c) /\ Removes(c)]_vars
=============================================================================
