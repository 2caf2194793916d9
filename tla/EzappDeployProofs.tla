--------------------------- MODULE EzappDeployProofs ---------------------------
(***************************************************************************)
(* Proofs about EzappDeploy, for any calls, objects, handles, manifests    *)
(* and bounds: what others put is replaced only where this server has put  *)
(* one before, or where it came after the look; an update of the ledger    *)
(* does not touch entries that stood still; a staged manifest is applied   *)
(* once.                                                                   *)
(***************************************************************************)
EXTENDS EzappDeploy, FiniteSetTheorems, TLAPS

-----------------------------------------------------------------------------
(* Invariants.                                                             *)

\* The ledger names what this server has put at some time.
WorldInv ==
  /\ store \in [Object -> {"ours", "theirs", None}]
  /\ ending \subseteq App /\ ledger \subseteq ours /\ ours \subseteq Object

\* A chart's tools have charts for objects, an EzAppConfig's EzAppConfigs.
Fits(j) == /\ j.op \in {"apply", "delete_app"} => j.obj \in App
           /\ j.op \in {"upload", "delete_chart"} => j.obj \in Chart

\* A request about to be sent is for what was found in the ledger, or found absent,
\* or it is an upload that ChartMuseum refuses where there is something.
Entitled(c) ==
  \/ Obj(c) \in ours
  \/ Op(c) = "apply" /\ (store[Obj(c)] = "theirs" => c \in came)
  \/ Op(c) = "upload" /\ ~job[c].force

CallInv(c) ==
  \/ at[c] = "idle" /\ job[c] = None
  \/ /\ at[c] # "idle" /\ job[c] \in Job /\ Fits(job[c])
     /\ at[c] = "look" => Op(c) = "apply"
     /\ at[c] = "act" => Entitled(c)
     /\ at[c] \in {"load", "save"} /\ ~Removes(c) => Obj(c) \in ours

CallsInv ==
  /\ at \in [Call -> Steps] /\ job \in [Call -> Job \union {None}]
  /\ copy \in [Call -> SUBSET Object] /\ \A c \in Call : copy[c] \subseteq ours
  /\ came \subseteq Call /\ later \in [Call -> SUBSET Object]
  /\ \A c \in Call : CallInv(c)

Apart(S, T) == (S \ T) \union (T \ S)

\* A copy about to be written back differs from the ledger only where that has changed
\* since.
CopyInv == \A c \in Call : at[c] = "save" => Apart(ledger, copy[c]) \subseteq later[c]

UploadsInv ==
  /\ session \in [Handle -> {"unfinished", "whole", "spoilt", None}]
  /\ old \subseteq Handle \union Manifest
  /\ staged \subseteq taken /\ taken \subseteq Manifest
  /\ IsFiniteSet(Open) /\ Cardinality(Open) <= MaxSessions
  /\ IsFiniteSet(staged) /\ Cardinality(staged) <= MaxStaged

\* A manifest at work has been staged before.
OnceInv ==
  /\ StagedOnce
  /\ \A c \in Call : at[c] # "idle" /\ job[c].from # None => job[c].from \in taken

-----------------------------------------------------------------------------
(* How calls start.                                                        *)

\* The tools start with a look; but for an upload without force.
LEMMA FirstStepLooks ==
  ASSUME NEW j \in Job
  PROVE  /\ FirstStep(j) \in {"look", "ask", "act"}
         /\ FirstStep(j) = "look" => j.op = "apply"
         /\ FirstStep(j) = "act" => j.op = "upload" /\ ~j.force
  <1>1. j.op \in Ops /\ j.force \in BOOLEAN
    BY DEF Job
  <1> QED
    BY <1>1 DEF FirstStep, Ops

\* Whatever starts a call gives it an operation of this form.
GoodJob(j) == j \in Job /\ Fits(j)

\* A tool, a commit and an application of a staged manifest start a call like that.
LEMMA InvokeIsGood ==
  ASSUME NEW c, NEW o \in Object, NEW force \in BOOLEAN, NEW op \in Ops, Invoke(c, op, o, force),
         op \in {"apply", "delete_app"} => o \in App, op \in {"upload", "delete_chart"} => o \in Chart
  PROVE  /\ UNCHANGED uploads
         /\ \E j : GoodJob(j) /\ j.from = None /\ Start(c, j)
  <1> DEFINE j == [op |-> op, obj |-> o, force |-> force, from |-> None]
  <1>1. j \in Job
    BY DEF Job
  <1>2. GoodJob(j) /\ j.from = None
    BY <1>1 DEF GoodJob, Fits
  <1>3. UNCHANGED uploads /\ Start(c, j)
    BY DEF Invoke
  <1> HIDE DEF j
  <1> QED
    BY <1>2, <1>3

LEMMA ToolIsGood ==
  ASSUME NEW c, NEW o \in Object, Tool(c, o) \/ \E force \in BOOLEAN : UploadChart(c, o, force)
  PROVE  /\ UNCHANGED uploads
         /\ \E j : GoodJob(j) /\ j.from = None /\ Start(c, j)
  BY InvokeIsGood DEF Tool, UploadChart, DeleteChart, ApplyText, DeleteApp, Ops

LEMMA CommitIsGood ==
  ASSUME NEW h \in Handle, NEW c, NEW o \in Chart, NEW force \in BOOLEAN, Commit(h, c, o, force)
  PROVE  \/ UNCHANGED <<calls, book, world, ours>>
         \/ \E j : GoodJob(j) /\ j.from = None /\ Start(c, j)
  <1> DEFINE j == [op |-> "upload", obj |-> o, force |-> force, from |-> None]
  <1>1. j \in Job
    BY DEF Job, Ops, Object
  <1>2. GoodJob(j) /\ j.from = None
    BY <1>1 DEF GoodJob, Fits
  <1>3. UNCHANGED <<calls, book, world, ours>> \/ Start(c, j)
    BY DEF Commit
  <1> HIDE DEF j
  <1> QED
    BY <1>2, <1>3

LEMMA ApplyStagedIsGood ==
  ASSUME NEW m \in Manifest, NEW c, ApplyStaged(m, c)
  PROVE  \/ UNCHANGED <<calls, book, world, ours>>
         \/ m \in staged /\ \E j : GoodJob(j) /\ j.from = m /\ Start(c, j)
  <1> DEFINE j == [op |-> "apply", obj |-> AppOf[m], force |-> FALSE, from |-> m]
  <1>1. AppOf[m] \in App
    BY Ids
  <1>2. j \in Job
    BY <1>1 DEF Job, Ops, Object
  <1>3. GoodJob(j) /\ j.from = m
    BY <1>1, <1>2 DEF GoodJob, Fits
  <1>4. UNCHANGED <<calls, book, world, ours>> \/ (m \in staged /\ Start(c, j))
    BY DEF ApplyStaged
  <1> HIDE DEF j
  <1> QED
    BY <1>3, <1>4

-----------------------------------------------------------------------------
(* The calls, the ledger and the objects.                                  *)

LEMMA InitHolds == Init => WorldInv /\ CallsInv /\ CopyInv
  BY Ids DEF Init, WorldInv, CallsInv, CallInv, CopyInv, Steps

\* A call that does not move stays as it is, unless an object changes hands under it
\* and that is not put down.
LEMMA StaysPut ==
  ASSUME NEW d \in Call, CallInv(d), at'[d] = at[d], job'[d] = job[d], ours \subseteq ours',
         d \in came => d \in came',
         at[d] = "act" /\ store'[Obj(d)] = "theirs" => store[Obj(d)] = "theirs" \/ d \in came' \/ Obj(d) \in ours'
  PROVE  CallInv(d)'
  <1>1. CASE at[d] = "idle"
    BY <1>1 DEF CallInv
  <1>2. CASE at[d] # "idle"
    <2>1. Obj(d)' = Obj(d) /\ Op(d)' = Op(d) /\ Removes(d)' = Removes(d)
      BY DEF Obj, Op, Removes
    <2>2. at[d] = "act" => Entitled(d)'
      <3> SUFFICES ASSUME at[d] = "act" PROVE Entitled(d)'
        OBVIOUS
      <3>1. Entitled(d)
        BY <1>2 DEF CallInv
      <3> QED
        BY <2>1, <3>1 DEF Entitled
    <2> QED
      BY <1>2, <2>1, <2>2 DEF CallInv
  <1> QED
    BY <1>1, <1>2

LEMMA CallsElsewhere ==
  ASSUME CallsInv, UNCHANGED <<calls, book, world, ours>>
  PROVE  CallsInv'
  BY DEF CallsInv, CallInv, Entitled, Obj, Op, Removes, calls, book, world

\* One call moves; the others stay.
LEMMA OneMoves ==
  ASSUME CallsInv, NEW c \in Call, NEW to \in Steps, NEW j \in Job \union {None},
         at' = [at EXCEPT ![c] = to], job' = [job EXCEPT ![c] = j], ours \subseteq ours',
         copy' \in [Call -> SUBSET Object], \A d \in Call : copy'[d] \subseteq ours',
         later' \in [Call -> SUBSET Object], came' \in {came, came \ {c}},
         \A o \in Object : store'[o] = "theirs" => store[o] = "theirs",
         CallInv(c)'
  PROVE  CallsInv'
  <1>1. ASSUME NEW d \in Call \ {c} PROVE CallInv(d)'
    <2>1. at'[d] = at[d] /\ job'[d] = job[d] /\ CallInv(d)
      BY DEF CallsInv
    <2>2. at[d] = "act" => Obj(d) \in Object
      BY <2>1 DEF CallInv, Job, Obj
    <2> QED
      BY <2>1, <2>2, StaysPut
  <1>2. \A d \in Call : CallInv(d)'
    BY <1>1
  <1>3. at' \in [Call -> Steps] /\ job' \in [Call -> Job \union {None}] /\ came' \subseteq Call
    BY DEF CallsInv
  <1> QED
    BY <1>2, <1>3 DEF CallsInv

LEMMA StartKeepsCalls ==
  ASSUME CallsInv, NEW c \in Call, NEW j, GoodJob(j), Start(c, j)
  PROVE  CallsInv'
  <1>1. /\ at' = [at EXCEPT ![c] = FirstStep(j)] /\ job' = [job EXCEPT ![c] = j]
        /\ copy' = copy /\ later' = later /\ came' = came /\ ours' = ours /\ store' = store
    BY DEF Start, Go, book, world
  <1>2. /\ FirstStep(j) \in {"look", "ask", "act"}
        /\ FirstStep(j) = "look" => j.op = "apply"
        /\ FirstStep(j) = "act" => j.op = "upload" /\ ~j.force
    BY FirstStepLooks DEF GoodJob
  <1>3. at'[c] = FirstStep(j) /\ job'[c] = j
    BY <1>1 DEF CallsInv
  <1>4. CallInv(c)'
    BY <1>2, <1>3 DEF CallInv, GoodJob, Entitled, Obj, Op
  <1>5. FirstStep(j) \in Steps /\ j \in Job
    BY <1>2 DEF Steps, GoodJob
  <1> QED
    BY <1>1, <1>4, <1>5, OneMoves DEF CallsInv

LEMMA IsOver ==
  ASSUME CallsInv, NEW c \in Call, Over(c), ours \subseteq ours',
         copy' \in [Call -> SUBSET Object], \A d \in Call : copy'[d] \subseteq ours',
         later' \in [Call -> SUBSET Object], \A o \in Object : store'[o] = "theirs" => store[o] = "theirs"
  PROVE  CallsInv'
  <1>1. at' = [at EXCEPT ![c] = "idle"] /\ job' = [job EXCEPT ![c] = None] /\ came' = came \ {c}
    BY DEF Over, Go
  <1>2. CallInv(c)'
    BY <1>1 DEF CallInv, CallsInv
  <1> QED
    BY <1>1, <1>2, OneMoves DEF Steps

\* A call goes on with its job.
LEMMA GoesOn ==
  ASSUME CallsInv, NEW c \in Call, at[c] # "idle", NEW to \in Steps \ {"idle", "look"}, Go(c, to),
         UNCHANGED job, ours \subseteq ours', came' \in {came, came \ {c}},
         copy' \in [Call -> SUBSET Object], \A d \in Call : copy'[d] \subseteq ours', UNCHANGED later,
         \A o \in Object : store'[o] = "theirs" => store[o] = "theirs",
         to = "act" => Entitled(c)', to \in {"load", "save"} /\ ~Removes(c) => Obj(c) \in ours'
  PROVE  CallsInv'
  <1>1. at' = [at EXCEPT ![c] = to] /\ job' = [job EXCEPT ![c] = job[c]] /\ job[c] \in Job \union {None}
    BY DEF Go, CallsInv
  <1>2. at'[c] = to /\ job'[c] = job[c]
    BY DEF Go, CallsInv
  <1>3. job[c] \in Job /\ Fits(job[c])
    BY DEF CallsInv, CallInv
  <1>4. CallInv(c)'
    BY <1>2, <1>3 DEF CallInv, Obj, Op, Removes
  <1> QED
    BY <1>1, <1>4, OneMoves DEF CallsInv

\* What a request does, if it gets through.
LEMMA EffectSeen ==
  ASSUME WorldInv, CallsInv, NEW c \in Call, at[c] = "act", Effect(c)
  PROVE  /\ WorldInv' \/ ledger' # ledger
         /\ ours \subseteq ours' /\ \A o \in Object : store'[o] = "theirs" => store[o] = "theirs"
         /\ ~Removes(c) => Obj(c) \in ours'
  <1>1. job[c] \in Job /\ Fits(job[c])
    BY DEF CallsInv, CallInv
  <1>2. Obj(c) \in Object /\ (Op(c) = "delete_app" => Obj(c) \in App)
    BY <1>1 DEF Fits, Op, Obj, Job
  <1>3. /\ \/ store' = store \/ store' = [store EXCEPT ![Obj(c)] = "ours"]
           \/ store' = [store EXCEPT ![Obj(c)] = None]
        /\ ending' = ending \/ (ending' = ending \union {Obj(c)} /\ Op(c) = "delete_app")
        /\ ours' = ours \/ ours' = ours \union {Obj(c)}
        /\ Removes(c) \/ ours' = ours \union {Obj(c)}
    BY DEF Effect, PutChart, PutApp, Put, DropChart, DropApp, Removes
  <1>4. store' \in [Object -> {"ours", "theirs", None}]
    BY <1>3 DEF WorldInv
  <1>5. \A o \in Object : store'[o] = "theirs" => store[o] = "theirs"
    BY <1>3, Ids DEF WorldInv
  <1> QED
    BY <1>2, <1>3, <1>4, <1>5 DEF WorldInv

LEMMA CallsStep ==
  ASSUME WorldInv, CallsInv, [Next]_vars
  PROVE  CallsInv'
  <1>1. ASSUME NEW c \in Call, Look(c) PROVE CallsInv'
    <2>1. CASE store[Obj(c)] = None /\ Go(c, "act") /\ UNCHANGED <<job, came>>
      <3>1. job'[c] = job[c] /\ store' = store /\ Op(c) = "apply"
        BY <1>1, <2>1 DEF Look, world, CallsInv, CallInv
      <3>2. Entitled(c)'
        BY <2>1, <3>1, Ids DEF Entitled, Obj, Op
      <3> QED
        BY <1>1, <2>1, <3>2, GoesOn DEF Look, Steps, CallsInv, book, world
    <2>2. CASE Go(c, "ask") /\ UNCHANGED <<job, came>>
      BY <1>1, <2>2, GoesOn DEF Look, Steps, CallsInv, book, world
    <2>3. CASE Over(c)
      BY <1>1, <2>3, IsOver DEF Look, CallsInv, book, world
    <2> QED
      BY <1>1, <2>1, <2>2, <2>3 DEF Look
  <1>2. ASSUME NEW c \in Call, Ask(c) PROVE CallsInv'
    <2>1. CASE Obj(c) \in ledger /\ Go(c, "act") /\ UNCHANGED <<job, came>>
      <3>1. Entitled(c)'
        BY <1>2, <2>1 DEF Ask, Entitled, Obj, WorldInv
      <3> QED
        BY <1>2, <2>1, <3>1, GoesOn DEF Ask, Steps, CallsInv, book, world
    <2>2. CASE Over(c)
      BY <1>2, <2>2, IsOver DEF Ask, CallsInv, book, world
    <2> QED
      BY <1>2, <2>1, <2>2 DEF Ask
  <1>3. ASSUME NEW c \in Call, Act(c) PROVE CallsInv'
    <2>1. CASE Over(c) /\ UNCHANGED <<world, ours>>
      BY <1>3, <2>1, IsOver DEF Act, CallsInv, book, world
    <2>2. CASE Effect(c) /\ Go(c, "load") /\ came' = came \ {c} /\ UNCHANGED job
      <3>1. /\ ours \subseteq ours' /\ \A o \in Object : store'[o] = "theirs" => store[o] = "theirs"
            /\ ~Removes(c) => Obj(c) \in ours'
        BY <1>3, <2>2, EffectSeen DEF Act
      <3>2. copy' \in [Call -> SUBSET Object] /\ (\A d \in Call : copy'[d] \subseteq ours') /\ UNCHANGED later
        BY <1>3, <3>1 DEF Act, CallsInv, book
      <3> QED
        BY <1>3, <2>2, <3>1, <3>2, GoesOn DEF Act, Steps
    <2>3. CASE Effect(c) /\ Over(c)
      <3>1. ours \subseteq ours' /\ \A o \in Object : store'[o] = "theirs" => store[o] = "theirs"
        BY <1>3, <2>3, EffectSeen DEF Act
      <3>2. /\ copy' \in [Call -> SUBSET Object] /\ \A d \in Call : copy'[d] \subseteq ours'
            /\ later' \in [Call -> SUBSET Object]
        BY <1>3, <3>1 DEF Act, CallsInv, book
      <3> QED
        BY <2>3, <3>1, <3>2, IsOver
    <2> QED
      BY <1>3, <2>1, <2>2, <2>3 DEF Act
  <1>4. ASSUME NEW c \in Call, Load(c) PROVE CallsInv'
    <2>1. CASE copy' = [copy EXCEPT ![c] = ledger] /\ Go(c, "save") /\ UNCHANGED <<job, came>>
      <3>1. ~Removes(c) => Obj(c) \in ours
        BY <1>4 DEF Load, CallsInv, CallInv
      <3>2. /\ copy' \in [Call -> SUBSET Object] /\ (\A d \in Call : copy'[d] \subseteq ours)
            /\ ours' = ours /\ later' = later /\ store' = store
        BY <1>4, <2>1 DEF CallsInv, WorldInv, Load, world
      <3> QED
        BY <1>4, <2>1, <3>1, <3>2, GoesOn DEF Load, Steps
    <2>2. CASE Over(c) /\ UNCHANGED copy
      BY <1>4, <2>2, IsOver DEF Load, CallsInv, world
    <2> QED
      BY <1>4, <2>1, <2>2 DEF Load
  <1>5. ASSUME NEW c \in Call, Save(c) PROVE CallsInv'
    <2>1. \E new \in SUBSET Object : Changes(new)
      <3>1. Obj(c) \in Object
        BY <1>5 DEF Save, CallsInv, CallInv, Obj, Job
      <3> QED
        BY <1>5, <3>1 DEF Save, WorldInv, CallsInv
    <2>2. later' \in [Call -> SUBSET Object]
      BY <2>1 DEF Changes, CallsInv, WorldInv
    <2>3. copy' \in [Call -> SUBSET Object] /\ (\A d \in Call : copy'[d] \subseteq ours) /\ ours' = ours /\ store' = store
      BY <1>5 DEF Save, CallsInv, world
    <2> QED
      BY <1>5, <2>2, <2>3, IsOver DEF Save
  <1>6. ASSUME NEW c \in Call, NEW o \in Object, Tool(c, o) \/ \E force \in BOOLEAN : UploadChart(c, o, force)
        PROVE  CallsInv'
    BY <1>6, ToolIsGood, StartKeepsCalls
  <1>7. ASSUME NEW c \in Call, NEW h \in Handle, NEW o \in Chart, NEW force \in BOOLEAN, Commit(h, c, o, force)
        PROVE  CallsInv'
    BY <1>7, CommitIsGood, StartKeepsCalls, CallsElsewhere
  <1>8. ASSUME NEW c \in Call, NEW m \in Manifest, ApplyStaged(m, c) PROVE CallsInv'
    BY <1>8, ApplyStagedIsGood, StartKeepsCalls, CallsElsewhere
  <1>9. ASSUME NEW h \in Handle, BeginUpload(h) \/ Chunk(h) PROVE CallsInv'
    BY <1>9, CallsElsewhere DEF BeginUpload, Chunk
  <1>10. ASSUME NEW m, Stage(m) \/ Age(m) PROVE CallsInv'
    BY <1>10, CallsElsewhere DEF Stage, Age
  <1>11. ASSUME NEW o \in App, Finalize(o) PROVE CallsInv'
    <2>1. /\ UNCHANGED <<at, job, came, copy, later, ours>>
          /\ \A d \in Object : store'[d] = "theirs" => store[d] = "theirs"
      BY <1>11, Ids DEF Finalize, calls, book, WorldInv, Object
    <2>2. \A d \in Call : at[d] = "act" => Obj(d) \in Object
      BY DEF CallsInv, CallInv, Job, Obj
    <2> QED
      BY <2>1, <2>2, StaysPut DEF CallsInv
  <1>12. ASSUME NEW o \in Object, Others(o) PROVE CallsInv'
    <2>1. UNCHANGED <<at, job, copy, later, ours>> /\ came \subseteq came' /\ came' \subseteq Call
      BY <1>12 DEF Others, book, CallsInv
    <2>2. ASSUME NEW d \in Call, at[d] = "act", store'[Obj(d)] = "theirs"
          PROVE  store[Obj(d)] = "theirs" \/ d \in came'
      <3>1. CASE Obj(d) = o
        BY <1>12, <2>2, <3>1, Ids DEF Others, WorldInv
      <3>2. CASE Obj(d) # o
        BY <1>12, <2>2, <3>2, Ids DEF Others, WorldInv, CallsInv, CallInv, Job, Obj
      <3> QED
        BY <3>1, <3>2
    <2> QED
      BY <2>1, <2>2, StaysPut DEF CallsInv
  <1>13. CASE LedgerLost
    <2>1. UNCHANGED <<at, job, came, copy, ours, store>> /\ later' \in [Call -> SUBSET Object]
      BY <1>13 DEF LedgerLost, Changes, CallsInv, WorldInv, calls, world
    <2> QED
      BY <2>1, StaysPut DEF CallsInv
  <1>14. CASE Restart
    BY <1>14 DEF Restart, CallsInv, CallInv, Steps, world
  <1>15. CASE UNCHANGED vars
    BY <1>15, CallsElsewhere DEF vars, calls, book, world
  <1> QED
    BY <1>1, <1>2, <1>3, <1>4, <1>5, <1>6, <1>7, <1>8, <1>9, <1>10, <1>11, <1>12, <1>13, <1>14, <1>15 DEF Next, Step

LEMMA WorldElsewhere == ASSUME WorldInv, UNCHANGED <<ledger, world, ours>> PROVE WorldInv'
  BY DEF WorldInv, world

LEMMA WorldStep ==
  ASSUME WorldInv, CallsInv, [Next]_vars
  PROVE  WorldInv'
  <1>1. ASSUME NEW c \in Call, Look(c) \/ Ask(c) \/ Load(c) PROVE WorldInv'
    BY <1>1, WorldElsewhere DEF Look, Ask, Load, book
  <1>2. ASSUME NEW c \in Call, Act(c) PROVE WorldInv'
    <2>1. CASE UNCHANGED <<world, ours>>
      BY <1>2, <2>1, WorldElsewhere DEF Act, book
    <2>2. CASE Effect(c)
      BY <1>2, <2>2, EffectSeen DEF Act, book
    <2> QED
      BY <1>2, <2>1, <2>2 DEF Act
  <1>3. ASSUME NEW c \in Call, Save(c) PROVE WorldInv'
    <2>1. /\ UNCHANGED <<world, ours>>
          /\ \/ ledger' = ledger \/ ledger' = copy[c] \ {Obj(c)}
             \/ ledger' = copy[c] \union {Obj(c)} /\ ~Removes(c)
      BY <1>3 DEF Save, Changes
    <2>2. copy[c] \subseteq ours /\ (~Removes(c) => Obj(c) \in ours)
      BY <1>3 DEF Save, CallsInv, CallInv
    <2> QED
      BY <2>1, <2>2 DEF WorldInv, world
  <1>4. ASSUME NEW c \in Call, NEW j, Start(c, j) PROVE WorldInv'
    BY <1>4, WorldElsewhere DEF Start, book
  <1>5. ASSUME UNCHANGED <<calls, book, world, ours>> PROVE WorldInv'
    BY <1>5, WorldElsewhere DEF book
  <1>6. ASSUME NEW c \in Call, NEW o \in Object, Tool(c, o) \/ \E force \in BOOLEAN : UploadChart(c, o, force)
        PROVE  WorldInv'
    BY <1>4, <1>6, ToolIsGood
  <1>7. ASSUME NEW c \in Call, NEW h \in Handle, NEW o \in Chart, NEW force \in BOOLEAN, Commit(h, c, o, force)
        PROVE  WorldInv'
    BY <1>4, <1>5, <1>7, CommitIsGood
  <1>8. ASSUME NEW c \in Call, NEW m \in Manifest, ApplyStaged(m, c) PROVE WorldInv'
    BY <1>4, <1>5, <1>8, ApplyStagedIsGood
  <1>9. ASSUME NEW h \in Handle, BeginUpload(h) \/ Chunk(h) PROVE WorldInv'
    BY <1>5, <1>9 DEF BeginUpload, Chunk
  <1>10. ASSUME NEW m, Stage(m) \/ Age(m) PROVE WorldInv'
    BY <1>5, <1>10 DEF Stage, Age
  <1>11. ASSUME NEW o \in App, Finalize(o) PROVE WorldInv'
    BY <1>11 DEF Finalize, WorldInv, book
  <1>12. ASSUME NEW o \in Object, Others(o) PROVE WorldInv'
    BY <1>12 DEF Others, WorldInv, book
  <1>13. CASE LedgerLost
    BY <1>13 DEF LedgerLost, Changes, WorldInv, world
  <1>14. CASE Restart \/ UNCHANGED vars
    BY <1>14, WorldElsewhere DEF Restart, vars, world
  <1> QED
    BY <1>1, <1>2, <1>3, <1>6, <1>7, <1>8, <1>9, <1>10, <1>11, <1>12, <1>13, <1>14 DEF Next, Step

\* What an update writes back differs from the ledger only where another has changed
\* it, and another's change is noted against every copy.
LEMMA CopyStep ==
  ASSUME CallsInv, CopyInv, [Next]_vars
  PROVE  CopyInv'
  <1>1. ASSUME NEW c \in Call, NEW to \in Steps \ {"save"}, at' = [at EXCEPT ![c] = to],
               UNCHANGED <<ledger, later>>, \A d \in Call \ {c} : copy'[d] = copy[d]
        PROVE  CopyInv'
    BY <1>1 DEF CopyInv, CallsInv
  <1>2. ASSUME UNCHANGED <<at, ledger, copy, later>> PROVE CopyInv'
    BY <1>2 DEF CopyInv
  <1>3. ASSUME NEW new, Changes(new), \A d \in Call : at'[d] = "save" => at[d] = "save" /\ copy'[d] = copy[d]
        PROVE  CopyInv'
    <2> SUFFICES ASSUME NEW d \in Call, at'[d] = "save" PROVE Apart(new, copy[d]) \subseteq later'[d]
      BY <1>3 DEF CopyInv, Changes
    <2>1. later'[d] = later[d] \union Apart(ledger, new) /\ Apart(ledger, copy[d]) \subseteq later[d]
      BY <1>3 DEF Changes, CopyInv, Apart
    <2> QED
      BY <2>1 DEF Apart
  <1>4. ASSUME NEW c \in Call, Look(c) \/ Ask(c) \/ Act(c) PROVE CopyInv'
    <2>1. \E to \in Steps \ {"save"} : at' = [at EXCEPT ![c] = to]
      BY <1>4 DEF Look, Ask, Act, Over, Go, Steps
    <2>2. UNCHANGED book
      BY <1>4 DEF Look, Ask, Act
    <2> QED
      BY <1>1, <2>1, <2>2 DEF book
  <1>5. ASSUME NEW c \in Call, Load(c) PROVE CopyInv'
    <2>1. CASE copy' = [copy EXCEPT ![c] = ledger] /\ Go(c, "save")
      <3>1. UNCHANGED <<ledger, later>> /\ at' = [at EXCEPT ![c] = "save"] /\ copy'[c] = ledger
        BY <1>5, <2>1 DEF Load, Go, CallsInv
      <3>2. ASSUME NEW d \in Call, at'[d] = "save" PROVE Apart(ledger, copy'[d]) \subseteq later[d]
        <4>1. CASE d = c
          BY <3>1, <4>1 DEF Apart
        <4>2. CASE d # c
          BY <2>1, <3>1, <3>2, <4>2 DEF CopyInv, CallsInv
        <4> QED
          BY <4>1, <4>2
      <3> QED
        BY <3>1, <3>2 DEF CopyInv
    <2>2. CASE Over(c) /\ UNCHANGED copy
      BY <1>1, <1>5, <2>2 DEF Load, Over, Go, Steps
    <2> QED
      BY <1>5, <2>1, <2>2 DEF Load
  <1>6. ASSUME NEW c \in Call, Save(c) PROVE CopyInv'
    <2>1. at' = [at EXCEPT ![c] = "idle"] /\ copy' = [copy EXCEPT ![c] = {}] /\ \E new : Changes(new)
      BY <1>6 DEF Save, Over, Go
    <2>2. \A d \in Call : at'[d] = "save" => at[d] = "save" /\ copy'[d] = copy[d]
      BY <2>1 DEF CallsInv
    <2> QED
      BY <1>3, <2>1, <2>2
  <1>7. ASSUME NEW c \in Call, NEW j, GoodJob(j), Start(c, j) PROVE CopyInv'
    <2>1. FirstStep(j) \in Steps \ {"save"}
      BY <1>7, FirstStepLooks DEF GoodJob, Steps
    <2> QED
      BY <1>1, <1>7, <2>1 DEF Start, Go, book
  <1>8. ASSUME NEW c \in Call, NEW o \in Object, Tool(c, o) \/ \E force \in BOOLEAN : UploadChart(c, o, force)
        PROVE  CopyInv'
    BY <1>7, <1>8, ToolIsGood
  <1>9. ASSUME NEW c \in Call, NEW h \in Handle, NEW o \in Chart, NEW force \in BOOLEAN, Commit(h, c, o, force)
        PROVE  CopyInv'
    BY <1>2, <1>7, <1>9, CommitIsGood DEF calls, book
  <1>10. ASSUME NEW c \in Call, NEW m \in Manifest, ApplyStaged(m, c) PROVE CopyInv'
    BY <1>2, <1>7, <1>10, ApplyStagedIsGood DEF calls, book
  <1>11. ASSUME NEW h \in Handle, BeginUpload(h) \/ Chunk(h) PROVE CopyInv'
    BY <1>2, <1>11 DEF BeginUpload, Chunk, calls, book
  <1>12. ASSUME NEW m, Stage(m) \/ Age(m) PROVE CopyInv'
    BY <1>2, <1>12 DEF Stage, Age, calls, book
  <1>13. ASSUME NEW o, Finalize(o) \/ Others(o) PROVE CopyInv'
    BY <1>2, <1>13 DEF Finalize, Others, calls, book
  <1>14. CASE LedgerLost
    BY <1>3, <1>14 DEF LedgerLost, calls
  <1>15. CASE Restart
    BY <1>15 DEF Restart, CopyInv
  <1>16. CASE UNCHANGED vars
    BY <1>2, <1>16 DEF vars
  <1> QED
    BY <1>4, <1>5, <1>6, <1>8, <1>9, <1>10, <1>11, <1>12, <1>13, <1>14, <1>15, <1>16 DEF Next, Step

LEMMA Guarded == Spec => [](WorldInv /\ CallsInv /\ CopyInv)
  BY InitHolds, WorldStep, CallsStep, CopyStep, PTL DEF Spec

\* Only its own request takes a call from "act", but for a restart, and only its own
\* save from "save".
LEMMA Moves ==
  ASSUME CallsInv, NEW c \in Call, [Next]_vars, at'[c] # at[c]
  PROVE  Step(c) \/ at[c] = "idle" \/ Restart
  <1>1. ASSUME NEW d \in Call, Step(d), d # c PROVE FALSE
    <2>1. \E to : at' = [at EXCEPT ![d] = to]
      BY <1>1 DEF Step, Look, Ask, Act, Load, Save, Over, Go
    <2> QED
      BY <1>1, <2>1 DEF CallsInv
  <1>2. ASSUME NEW d \in Call, NEW j, Start(d, j) PROVE at[c] = "idle"
    BY <1>2 DEF Start, Go, CallsInv
  <1>3. ASSUME UNCHANGED <<calls, book, world, ours>> PROVE FALSE
    BY <1>3 DEF calls
  <1>4. ASSUME NEW d \in Call, NEW o \in Object, Tool(d, o) \/ \E force \in BOOLEAN : UploadChart(d, o, force)
        PROVE  at[c] = "idle"
    BY <1>2, <1>4, ToolIsGood
  <1>5. ASSUME NEW d \in Call, NEW h \in Handle, NEW o \in Chart, NEW force \in BOOLEAN, Commit(h, d, o, force)
        PROVE  at[c] = "idle"
    BY <1>2, <1>3, <1>5, CommitIsGood
  <1>6. ASSUME NEW d \in Call, NEW m \in Manifest, ApplyStaged(m, d) PROVE at[c] = "idle"
    BY <1>2, <1>3, <1>6, ApplyStagedIsGood
  <1>7. ASSUME NEW h \in Handle, BeginUpload(h) \/ Chunk(h) PROVE FALSE
    BY <1>7 DEF BeginUpload, Chunk, calls
  <1>8. ASSUME NEW m, Stage(m) \/ Age(m) \/ Finalize(m) \/ Others(m) PROVE FALSE
    BY <1>8 DEF Stage, Age, Finalize, Others, calls
  <1>9. ~LedgerLost /\ ~UNCHANGED vars
    BY DEF LedgerLost, vars, calls
  <1> QED
    BY <1>1, <1>4, <1>5, <1>6, <1>7, <1>8, <1>9 DEF Next

\* A request replaces or deletes what others have put only where this server has put
\* an object of that name before, or where that one came after an apply's look, for any
\* calls, objects, restarts and lost writes of the ledger (1387, 1343-1345, 1595-1598).
THEOREM OthersSafe == Spec => OthersUntouched
  <1>1. ASSUME WorldInv, CallsInv, [Next]_vars, NEW c \in Call, Requests(c), store[Obj(c)] = "theirs", world' # world
        PROVE  Obj(c) \in ours \/ (Op(c) = "apply" /\ c \in came)
    <2>1. at[c] = "act" /\ ~Restart
      BY <1>1 DEF Requests, Restart
    <2>2. Act(c)
      BY <1>1, <2>1, Moves DEF Requests, Step, Look, Ask, Load, Save
    <2>3. ~Conflict(c)
      BY <1>1, <2>2 DEF Act
    <2>4. Entitled(c)
      BY <1>1, <2>1 DEF CallsInv, CallInv
    <2>5. "theirs" # None
      BY Ids
    <2> QED
      BY <1>1, <2>3, <2>4, <2>5 DEF Entitled, Conflict
  <1>2. WorldInv /\ CallsInv /\ [Next]_vars =>
          [\A c \in Call : Requests(c) /\ store[Obj(c)] = "theirs" /\ world' # world =>
             Obj(c) \in ours \/ (Op(c) = "apply" /\ c \in came)]_vars
    BY <1>1
  <1> QED
    BY <1>2, Guarded, PTL DEF Spec, OthersUntouched

\* An update drops or brings back another's entry only if that changed between its load
\* and its save, for any number of updates that interleave and any that fail (823-845).
THEOREM UpdatesSafe == Spec => UpdatesKeepOthers
  <1>1. ASSUME CallsInv, CopyInv, [Next]_vars, NEW c \in Call, Saves(c),
               NEW o \in (ledger \ ledger') \union (ledger' \ ledger)
        PROVE  o = Obj(c) \/ o \in later[c]
    <2>1. at[c] = "save" /\ ~Restart
      BY <1>1 DEF Saves, Restart
    <2>2. Save(c)
      BY <1>1, <2>1, Moves DEF Saves, Step, Look, Ask, Act, Load
    <2>3. Apart(ledger, copy[c]) \subseteq later[c]
      BY <1>1, <2>1 DEF CopyInv
    <2>4. ledger' = ledger \/ ledger' = copy[c] \ {Obj(c)} \/ ledger' = copy[c] \union {Obj(c)}
      BY <2>2 DEF Save, Changes
    <2> QED
      BY <2>3, <2>4 DEF Apart
  <1>2. CallsInv /\ CopyInv /\ [Next]_vars =>
          [\A c \in Call : Saves(c) =>
             \A o \in (ledger \ ledger') \union (ledger' \ ledger) : o = Obj(c) \/ o \in later[c]]_vars
    BY <1>1
  <1> QED
    BY <1>2, Guarded, PTL DEF Spec, UpdatesKeepOthers

-----------------------------------------------------------------------------
(* Sessions and staged manifests.                                          *)

LEMMA UploadsInit == Init => UploadsInv
  <1> SUFFICES ASSUME Init PROVE UploadsInv
    OBVIOUS
  <1>1. Open = {} /\ staged = {}
    BY DEF Init, Open
  <1> QED
    BY <1>1, FS_EmptySet, Bounds DEF Init, UploadsInv

LEMMA UploadsElsewhere == ASSUME UploadsInv, UNCHANGED uploads PROVE UploadsInv'
  BY DEF UploadsInv, uploads, Open

\* Fewer are within the bound, and one more where there was room.
LEMMA WithinBound ==
  ASSUME NEW S, NEW T, NEW N \in Nat, IsFiniteSet(S), Cardinality(S) <= N,
         NEW x, T \subseteq S \/ \E R : R \subseteq S /\ ~(Cardinality(R) >= N) /\ T \subseteq R \union {x}
  PROVE  IsFiniteSet(T) /\ Cardinality(T) <= N
  <1>1. CASE T \subseteq S
    BY <1>1, FS_Subset, FS_CardinalityType
  <1>2. ASSUME NEW R, R \subseteq S, ~(Cardinality(R) >= N), T \subseteq R \union {x}
        PROVE  IsFiniteSet(T) /\ Cardinality(T) <= N
    <2>1. IsFiniteSet(R) /\ Cardinality(R) \in Nat
      BY <1>2, FS_Subset, FS_CardinalityType
    <2>2. IsFiniteSet(R \union {x}) /\ Cardinality(R \union {x}) \in {Cardinality(R), Cardinality(R) + 1}
      BY <2>1, FS_AddElement
    <2>3. IsFiniteSet(T) /\ Cardinality(T) <= Cardinality(R \union {x}) /\ Cardinality(T) \in Nat
      BY <1>2, <2>2, FS_Subset, FS_CardinalityType
    <2> QED
      BY <1>2, <2>1, <2>2, <2>3
  <1> QED
    BY <1>1, <1>2

\* A step that opens no session, and stages nothing, keeps to the bounds.
LEMMA FewerUploads ==
  ASSUME UploadsInv, session' \in [Handle -> {"unfinished", "whole", "spoilt", None}], Open' \subseteq Open,
         old' \subseteq old, staged' \subseteq staged, UNCHANGED taken
  PROVE  UploadsInv'
  <1>1. IsFiniteSet(Open') /\ Cardinality(Open') <= MaxSessions
    BY WithinBound, Bounds DEF UploadsInv
  <1>2. IsFiniteSet(staged') /\ Cardinality(staged') <= MaxStaged
    BY WithinBound, Bounds DEF UploadsInv
  <1> QED
    BY <1>1, <1>2 DEF UploadsInv

LEMMA UploadsStep ==
  ASSUME UploadsInv, [Next]_vars
  PROVE  UploadsInv'
  <1>1. ASSUME NEW c \in Call, Step(c) PROVE UploadsInv'
    BY <1>1, UploadsElsewhere DEF Step, Look, Ask, Act, Load, Save
  <1>2. ASSUME NEW c \in Call, NEW o \in Object, Tool(c, o) \/ \E force \in BOOLEAN : UploadChart(c, o, force)
        PROVE  UploadsInv'
    BY <1>2, ToolIsGood, UploadsElsewhere
  <1>3. ASSUME NEW h \in Handle, session' = [session EXCEPT ![h] = None] \/ Sweep,
               old' \subseteq old, UNCHANGED <<staged, taken>>
        PROVE  UploadsInv'
    BY <1>3, FewerUploads DEF Sweep, UploadsInv, Open
  <1>4. ASSUME NEW c \in Call, NEW h \in Handle, NEW o \in Chart, NEW force \in BOOLEAN, Commit(h, c, o, force)
        PROVE  UploadsInv'
    BY <1>3, <1>4 DEF Commit, Sweep
  <1>5. ASSUME NEW h \in Handle, Chunk(h) PROVE UploadsInv'
    <2>1. CASE session[h] = None \/ h \in old
      BY <1>3, <1>5, <2>1 DEF Chunk, Sweep
    <2>2. CASE session[h] # None /\ h \notin old
      <3>1. /\ \E s \in {"whole", "spoilt"} : session' = [session EXCEPT ![h] = s]
            /\ UNCHANGED <<old, staged, taken>>
        BY <1>5, <2>2 DEF Chunk
      <3> QED
        BY <2>2, <3>1, FewerUploads DEF UploadsInv, Open
    <2> QED
      BY <2>1, <2>2
  <1>6. ASSUME NEW h \in Handle, BeginUpload(h) PROVE UploadsInv'
    <2>1. CASE Sweep
      BY <1>3, <1>6, <2>1 DEF BeginUpload, Sweep
    <2>2. CASE ~Sweep
      <3>1. /\ ~(Cardinality(Open \ old) >= MaxSessions)
            /\ session' = [g \in Handle |-> IF g = h THEN "unfinished" ELSE IF g \in old THEN None ELSE session[g]]
            /\ old' = old \ Handle /\ UNCHANGED <<staged, taken>>
        <4>1. Cardinality(Open \ old) \in Nat
          BY FS_Subset, FS_CardinalityType DEF UploadsInv
        <4> QED
          BY <1>6, <2>2, <4>1, Bounds DEF BeginUpload
      <3>2. Open' \subseteq (Open \ old) \union {h}
        BY <3>1 DEF Open
      <3>3. IsFiniteSet(Open') /\ Cardinality(Open') <= MaxSessions
        BY <3>1, <3>2, WithinBound, Bounds DEF UploadsInv
      <3> QED
        BY <3>1, <3>3 DEF UploadsInv
    <2> QED
      BY <2>1, <2>2
  <1>7. ASSUME NEW m \in Manifest, Stage(m) PROVE UploadsInv'
    <2>1. /\ \/ staged' = staged \ old /\ UNCHANGED taken
             \/ /\ ~(Cardinality(staged \ old) >= MaxStaged)
                /\ staged' = (staged \ old) \union {m} /\ taken' = taken \union {m}
          /\ old' = old \ Manifest /\ UNCHANGED session
      BY <1>7 DEF Stage
    <2>2. IsFiniteSet(staged') /\ Cardinality(staged') <= MaxStaged
      <3>1. \/ staged' \subseteq staged
            \/ \E R : R \subseteq staged /\ ~(Cardinality(R) >= MaxStaged) /\ staged' \subseteq R \union {m}
        BY <2>1
      <3> QED
        BY <3>1, WithinBound, Bounds DEF UploadsInv
    <2> QED
      BY <2>1, <2>2 DEF UploadsInv, Open
  <1>8. ASSUME NEW c \in Call, NEW m \in Manifest, ApplyStaged(m, c) PROVE UploadsInv'
    BY <1>8, FewerUploads DEF ApplyStaged, UploadsInv, Open
  <1>9. ASSUME NEW x \in Handle \union Manifest, Age(x) PROVE UploadsInv'
    BY <1>9 DEF Age, UploadsInv, Open
  <1>10. ASSUME NEW o, Finalize(o) \/ Others(o) PROVE UploadsInv'
    BY <1>10, UploadsElsewhere DEF Finalize, Others
  <1>11. CASE LedgerLost
    BY <1>11, UploadsElsewhere DEF LedgerLost
  <1>12. CASE Restart
    BY <1>12, FewerUploads DEF Restart, UploadsInv, Open
  <1>13. CASE UNCHANGED vars
    BY <1>13, UploadsElsewhere DEF vars, uploads
  <1> QED
    BY <1>1, <1>2, <1>4, <1>5, <1>6, <1>7, <1>8, <1>9, <1>10, <1>11, <1>12, <1>13 DEF Next

LEMMA Uploads == Spec => []UploadsInv
  BY UploadsInit, UploadsStep, PTL DEF Spec

\* The variables keep their types; sessions and staged manifests keep to their bounds.
THEOREM TypeCorrect == Spec => []TypeOK
  <1>1. WorldInv /\ CallsInv /\ UploadsInv => TypeOK
    <2> SUFFICES ASSUME WorldInv, CallsInv, UploadsInv PROVE TypeOK
      OBVIOUS
    <2>1. /\ store \in [Object -> {"ours", "theirs", None}] /\ ending \subseteq App
          /\ ledger \subseteq Object /\ ours \subseteq Object
      BY DEF WorldInv
    <2>2. /\ at \in [Call -> Steps] /\ copy \in [Call -> SUBSET Object]
          /\ later \in [Call -> SUBSET Object] /\ came \subseteq Call
          /\ \A c \in Call : (at[c] = "idle" /\ job[c] = None) \/ (at[c] # "idle" /\ job[c] \in Job)
      BY DEF CallsInv, CallInv
    <2>3. /\ session \in [Handle -> {"unfinished", "whole", "spoilt", None}]
          /\ old \subseteq Handle \union Manifest
          /\ staged \subseteq taken /\ taken \subseteq Manifest
          /\ Cardinality({h \in Handle : session[h] # None}) <= MaxSessions
          /\ Cardinality(staged) <= MaxStaged
      BY DEF UploadsInv, Open
    <2> QED
      BY <2>1, <2>2, <2>3 DEF TypeOK
  <1> QED
    BY <1>1, Guarded, Uploads, PTL

-----------------------------------------------------------------------------
(* A staged manifest is applied once.                                      *)

\* A step after which no call has a manifest it had not before, and none of those
\* taken is staged again.
LEMMA NoneAnew ==
  ASSUME OnceInv, taken \subseteq taken', \A m \in staged' : m \in staged \/ m \notin taken,
         \A d \in Call : \/ at'[d] = "idle" \/ job'[d].from = None
                         \/ at[d] # "idle" /\ job'[d] = job[d]
  PROVE  OnceInv'
  BY DEF OnceInv, StagedOnce

LEMMA CallGoesOn ==
  ASSUME CallsInv, NEW c \in Call, Step(c)
  PROVE  \A d \in Call : at'[d] = "idle" \/ (at[d] # "idle" /\ job'[d] = job[d])
                         \/ (at'[d] = at[d] /\ job'[d] = job[d])
  <1>1. at[c] # "idle"
    BY DEF Step, Look, Ask, Act, Load, Save
  <1>2. Over(c) \/ (UNCHANGED job /\ \E to \in Steps : Go(c, to))
    BY DEF Step, Look, Ask, Act, Load, Save, Steps
  <1>3. CASE Over(c)
    BY <1>3 DEF Over, Go, CallsInv
  <1>4. CASE UNCHANGED job /\ \E to \in Steps : Go(c, to)
    BY <1>1, <1>4 DEF Go, CallsInv
  <1> QED
    BY <1>2, <1>3, <1>4

\* A call that starts without a manifest.
LEMMA StartsAlone ==
  ASSUME OnceInv, CallsInv, NEW c \in Call, NEW j, j.from = None, Start(c, j),
         taken \subseteq taken', staged' \subseteq staged
  PROVE  OnceInv'
  <1>1. /\ \A d \in Call \ {c} : at'[d] = at[d] /\ job'[d] = job[d]
        /\ job'[c] = j
    BY DEF Start, Go, CallsInv
  <1>2. \A d \in Call : \/ at'[d] = "idle" \/ job'[d].from = None
                        \/ at[d] # "idle" /\ job'[d] = job[d]
    BY <1>1
  <1> QED
    BY <1>2, NoneAnew

LEMMA OnceStep ==
  ASSUME CallsInv, UploadsInv, OnceInv, [Next]_vars
  PROVE  OnceInv'
  <1>1. ASSUME taken \subseteq taken', \A m \in staged' : m \in staged \/ m \notin taken,
               UNCHANGED <<at, job>>
        PROVE  OnceInv'
    BY <1>1, NoneAnew
  <1>2. ASSUME NEW c \in Call, Step(c) PROVE OnceInv'
    <2>1. UNCHANGED <<staged, taken>>
      BY <1>2 DEF Step, Look, Ask, Act, Load, Save, uploads
    <2>2. \A d \in Call : \/ at'[d] = "idle" \/ job'[d].from = None
                          \/ at[d] # "idle" /\ job'[d] = job[d]
      BY <1>2, CallGoesOn
    <2> QED
      BY <2>1, <2>2, NoneAnew
  <1>3. ASSUME NEW c \in Call, NEW o \in Object, Tool(c, o) \/ \E force \in BOOLEAN : UploadChart(c, o, force)
        PROVE  OnceInv'
    BY <1>3, ToolIsGood, StartsAlone DEF uploads
  <1>4. ASSUME NEW c \in Call, NEW h \in Handle, NEW o \in Chart, NEW force \in BOOLEAN, Commit(h, c, o, force)
        PROVE  OnceInv'
    <2>1. UNCHANGED <<staged, taken>>
      BY <1>4 DEF Commit
    <2> QED
      BY <1>1, <1>4, <2>1, CommitIsGood, StartsAlone DEF calls
  <1>5. ASSUME NEW c \in Call, NEW m \in Manifest, ApplyStaged(m, c) PROVE OnceInv'
    <2>1. CASE UNCHANGED <<calls, book, world, ours>>
      BY <1>1, <1>5, <2>1 DEF ApplyStaged, calls
    <2>2. ASSUME m \in staged, NEW j, j.from = m, Start(c, j) PROVE OnceInv'
      <3> USE <2>2
      <3>1. staged' = staged \ {m} /\ UNCHANGED taken /\ m \in taken /\ m # None
        BY <1>5, Ids DEF ApplyStaged, UploadsInv
      <3>2. /\ \A d \in Call \ {c} : at'[d] = at[d] /\ job'[d] = job[d]
            /\ job'[c] = j
        BY DEF Start, Go, CallsInv
      <3>3. \A d \in Call \ {c} : at[d] # "idle" => job[d].from # m
        BY <3>1 DEF OnceInv, StagedOnce
      <3>4. ASSUME NEW a \in Call, at'[a] # "idle", job'[a].from # None
            PROVE  /\ job'[a].from \notin staged' /\ job'[a].from \in taken'
                   /\ \A d \in Call \ {a} : at'[d] # "idle" => job'[d].from # job'[a].from
        <4>1. CASE a = c
          BY <3>1, <3>2, <3>3, <4>1
        <4>2. CASE a # c
          <5>1. at'[a] = at[a] /\ job'[a] = job[a] /\ job[a].from # m
            BY <3>2, <3>3, <3>4, <4>2
          <5> QED
            BY <3>1, <3>2, <3>4, <5>1 DEF OnceInv, StagedOnce
        <4> QED
          BY <4>1, <4>2
      <3> QED
        BY <3>4 DEF OnceInv, StagedOnce
    <2> QED
      BY <1>5, <2>1, <2>2, ApplyStagedIsGood
  <1>6. ASSUME NEW h \in Handle, BeginUpload(h) \/ Chunk(h) PROVE OnceInv'
    BY <1>1, <1>6 DEF BeginUpload, Chunk, calls
  <1>7. ASSUME NEW m \in Manifest, Stage(m) PROVE OnceInv'
    <2>1. UNCHANGED <<at, job>> /\ taken \subseteq taken' /\ staged' \subseteq staged \union {m} /\ m \notin taken
      BY <1>7 DEF Stage, calls
    <2> QED
      BY <1>1, <2>1
  <1>8. ASSUME NEW x, Age(x) \/ Finalize(x) \/ Others(x) \/ LedgerLost PROVE OnceInv'
    <2>1. UNCHANGED <<at, job, staged, taken>>
      BY <1>8 DEF Age, Finalize, Others, LedgerLost, uploads, calls
    <2> QED
      BY <1>1, <2>1
  <1>9. CASE Restart
    BY <1>9, NoneAnew DEF Restart
  <1>10. CASE UNCHANGED vars
    BY <1>1, <1>10 DEF vars
  <1> QED
    BY <1>2, <1>3, <1>4, <1>5, <1>6, <1>7, <1>8, <1>9, <1>10 DEF Next

\* Two calls that race for a staged manifest do not both get it, and no later call
\* does (1394: "Staged manifests are single-use").
THEOREM SingleUse == Spec => []StagedOnce
  <1>1. Init => OnceInv
    BY DEF Init, OnceInv, StagedOnce
  <1>2. CallsInv /\ UploadsInv /\ OnceInv /\ [Next]_vars => OnceInv'
    BY OnceStep
  <1>3. OnceInv => StagedOnce
    BY DEF OnceInv
  <1> QED
    BY <1>1, <1>2, <1>3, Guarded, Uploads, PTL DEF Spec
=============================================================================
