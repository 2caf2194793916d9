---------------------------- MODULE ApplyGateProofs ----------------------------
(***************************************************************************)
(* Proofs about ApplyGate, for any calls, requests, manifests and kills:   *)
(* under the mode "deny" what is applied has passed a plan, and whatever   *)
(* the volume takes of a line, the trail links up but for the three causes *)
(* that the code knows, and leaves no change out but what it tells of.     *)
(***************************************************************************)
EXTENDS ApplyGate, SequenceTheorems, TLAPS

-----------------------------------------------------------------------------
(* Invariants.                                                             *)

\* Who is about to write a line has something to say.
HasLine == \A c \in Call : at[c] \in {"sha", "line"} => say[c] \in Outcomes

TypeInv == TypeOK /\ HasLine

\* Where a call has been, by what it does next.
Waiting == \A c \in Call : at[c] = "gate" =>
  k[c] = 0 /\ \A j \in Nat : <<c, j>> \notin served
Buried == \A c \in gone : at[c] \in {"over", "dead"}

\* A plan of this process, for this namespace and manifest, passed document by document.
Planned(n, m) == \E p \in Call \ gone :
  /\ IsPlan(p) /\ req[p].ns = n /\ req[p].man = m
  /\ \A i \in 1..Len(DocsOf[m]) : <<p, i>> \in served

\* What the session holds has passed; what a call has not seen fail has been served;
\* an apply past its gate, with documents to serve or served, has been planned.
PlansPassed == \A n \in Namespace : plan[n] # None => Planned(n, plan[n])
GoodIsServed == \A c \in Call : good[c] => \A i \in 1..k[c] : <<c, i>> \in served
MayServe(c) == at[c] \in {"doc", "sha", "line"} /\ k[c] < Len(Docs(c))
ApplyIsPlanned == \A c \in Call \ gone :
  /\ req[c].tool = "apply_manifest"
  /\ MayServe(c) \/ \E j \in Nat : <<c, j>> \in served
  => Planned(req[c].ns, req[c].man)

PlanInv == Waiting /\ Buried /\ PlansPassed /\ GoodIsServed /\ ApplyIsPlanned

\* Inside the lock the hash is that of the last line, as far as it could be read.
LinkIsLast == lock # None => Follows(trail, prev, Len(trail))

\* What a call is about to tell of a document is so.
SaysWhatIs == \A c \in Call :
  say[c] \in {"applied", "deleted", "dry-run"} => <<c, k[c]>> \in served

TrailInv == Waiting /\ LinkIsLast /\ TrailVerifies /\ SaysWhatIs /\ TrailIsFaithful

-----------------------------------------------------------------------------
(* Lemmas.                                                                 *)

LEMMA DocsAreSeq ==
  ASSUME TypeInv, NEW c \in Call
  PROVE  Docs(c) \in Seq(Doc) /\ Len(Docs(c)) \in Nat /\ req[c] \in Request
  BY Documents, Requests DEF TypeInv, TypeOK, Docs

LEMMA DoneIsOutcome ==
  ASSUME TypeInv, NEW c \in Call
  PROVE  Done(c) \in Outcomes /\ Done(c) # None
  <1>1. req[c].tool \in Tools
    BY DocsAreSeq, Requests
  <1>2. Done(c) \in {"dry-run", "applied", "deleted", "planned"}
    BY <1>1 DEF Done, Tools
  <1> QED
    BY <1>2, NoneIsNoMember DEF Outcomes

LEMMA RefusedIs == ASSUME NEW long PROVE Refused(long) \in {"refused", "refused-long"}
  BY DEF Refused

\* What a call puts into the file when it is at its line.
LineOf(c, line) ==
  /\ line \in Line
  /\ line.prev = prev /\ line.call = c /\ line.k = k[c] /\ line.outcome = say[c]

LEMMA NewLineIs ==
  ASSUME TypeInv, NEW c \in Call, at[c] = "line", NEW form \in {"whole", "cut"}, NEW long \in BOOLEAN
  PROVE  /\ LineOf(c, NewLine(c, form)) /\ NewLine(c, form).form = form
         /\ LineOf(c, [NewLine(c, form) EXCEPT !.long = long])
         /\ [NewLine(c, form) EXCEPT !.long = long].form = form
  <1>1. prev \in Link /\ k[c] \in Nat /\ say[c] \in Outcomes /\ (say[c] = "refused-long") \in BOOLEAN
    BY DEF TypeInv, TypeOK, HasLine
  <1>2. {} \in SUBSET (Call \X Nat)
    OBVIOUS
  <1> QED
    BY ONLY <1>1, <1>2 DEF NewLine, LineOf, Line

LEMMA GenesisTyped == Genesis \in Link
  BY DEF Genesis, Link

\* What a line that is appended does to the trail: it stands last, or it is part of the
\* cut line that stood there.
Stands(line) == trail' = Append(trail, line)
Merges(line) ==
  /\ Len(trail) \in 1..Len(trail) /\ Last.form = "cut"
  /\ trail' \in Seq(Line) /\ Len(trail') = Len(trail)
  /\ \A j \in 1..Len(trail) : j # Len(trail) => trail'[j] = trail[j]
  /\ trail'[Len(trail)].outcome = Last.outcome /\ trail'[Len(trail)].call = Last.call
  /\ trail'[Len(trail)].k = Last.k /\ trail'[Len(trail)].form # "whole"
  /\ trail'[Len(trail)].others = Last.others \union {<<line.call, line.k>>}

LEMMA AppendedIs ==
  ASSUME TypeInv, NEW line \in Line, trail' = Appended(line)
  PROVE  trail' \in Seq(Line) /\ (Stands(line) \/ Merges(line))
  <1>1. trail \in Seq(Line)
    BY DEF TypeInv, TypeOK
  <1>2. CASE trail # <<>> /\ Last.form = "cut"
    <2> DEFINE old == trail[Len(trail)]
               new == Joined(old, line)
               long == old.long \/ line.long
               others == old.others \union {<<line.call, line.k>>}
               form == IF line.form = "cut" THEN "cut" ELSE "spoilt"
    <2>1. Len(trail) \in 1..Len(trail) /\ old \in Line
      BY <1>1, <1>2
    <2>2. /\ new \in Line /\ new.outcome = old.outcome /\ new.call = old.call /\ new.k = old.k
          /\ new.form # "whole" /\ new.others = others
      <3>1. /\ long \in BOOLEAN /\ others \in SUBSET (Call \X Nat)
            /\ form \in {"cut", "spoilt"}
        BY ONLY <2>1, line \in Line DEF Line
      <3>2. new = [old EXCEPT !.long = long, !.others = others, !.form = form]
        BY DEF Joined
      <3> HIDE DEF long, others, form, new
      <3> QED
        BY ONLY <2>1, <3>1, <3>2 DEF Line
    <2>3. trail' = [trail EXCEPT ![Len(trail)] = new]
      BY <1>2 DEF Appended, Last
    <2> HIDE DEF new
    <2>4. /\ trail' \in Seq(Line) /\ Len(trail') = Len(trail) /\ trail'[Len(trail)] = new
          /\ \A j \in 1..Len(trail) : j # Len(trail) => trail'[j] = trail[j]
      BY ONLY <1>1, <2>1, <2>2, <2>3
    <2>5. Merges(line)
      BY <1>2, <2>1, <2>2, <2>4 DEF Merges, Last
    <2> QED
      BY <2>4, <2>5
  <1>3. CASE ~(trail # <<>> /\ Last.form = "cut")
    <2>1. trail' = Append(trail, line)
      BY <1>3 DEF Appended
    <2> QED
      BY ONLY <1>1, <2>1, AppendProperties DEF Stands
  <1> QED
    BY <1>2, <1>3

\* A step of a document, whichever the tool.
LEMMA DocumentServes == ASSUME NEW c, Document(c) PROVE Serve(c)
  BY DEF Document, PlanDocument, ApplyDocument, DeleteObject, LookAtObject

-----------------------------------------------------------------------------
(* Types.                                                                  *)

LEMMA TypeInit == Init => TypeInv
  <1> SUFFICES ASSUME Init PROVE TypeInv
    OBVIOUS
  <1>1. \A c \in Call : 0 <= Len(Docs(c))
    BY Documents, Requests DEF Init, Docs
  <1>2. <<>> \in Seq(Line)
    OBVIOUS
  <1> QED
    BY <1>1, <1>2, GenesisTyped, NoneIsNoMember DEF Init, TypeInv, TypeOK, HasLine, Steps

LEMMA TypeStep == TypeInv /\ [Next]_vars => TypeInv'
  <1> SUFFICES ASSUME TypeInv, [Next]_vars PROVE TypeInv'
    OBVIOUS
  <1> USE DEF TypeInv, Go
  <1>1. ASSUME NEW c \in Call, Gate(c) PROVE TypeInv'
    <2>1. Len(Docs(c)) \in Nat /\ \A d \in Call : Docs(d)' = Docs(d)
      BY <1>1, DocsAreSeq DEF Gate, Docs
    <2>2. HasLine'
      BY <1>1, RefusedIs DEF Gate, TypeOK, HasLine, Outcomes
    <2>3. at' \in [Call -> Steps] /\ \A d \in Call : (at'[d] = "line") <=> (lock' = d)
      BY <1>1 DEF Gate, TypeOK, Steps
    <2>6. \/ UNCHANGED <<k, good, say>>
          \/ /\ k' = [k EXCEPT ![c] = Len(Docs(c))]
             /\ good' = [good EXCEPT ![c] = FALSE] /\ say' = [say EXCEPT ![c] = Refused(req[c].wide)]
      BY <1>1 DEF Gate
    <2>4. k' \in [Call -> Nat] /\ good' \in [Call -> BOOLEAN] /\ say' \in [Call -> Outcomes \union {None}]
      BY ZenonT(40), <2>1, <2>6, RefusedIs DEF TypeOK, Outcomes
    <2>5. \A d \in Call : k'[d] <= Len(Docs(d))'
      <3>1. \A d \in Call : k[d] <= Len(Docs(d)) /\ k \in [Call -> Nat]
        BY DEF TypeOK
      <3> QED
        BY ONLY <2>1, <2>6, <3>1
    <2> QED
      BY <1>1, <2>2, <2>3, <2>4, <2>5 DEF Gate, TypeOK
  <1>2. ASSUME NEW c \in Call, Serve(c) PROVE TypeInv'
    <2>1. Len(Docs(c)) \in Nat /\ \A d \in Call : Docs(d)' = Docs(d)
      BY <1>2, DocsAreSeq DEF Serve, Docs
    <2>2. \E o \in Outcomes : say' = [say EXCEPT ![c] = o]
      BY <1>2, DoneIsOutcome, RefusedIs DEF Serve, Outcomes
    <2>7. k[c] \in Nat /\ <<c, k[c] + 1>> \in Call \X Nat
      BY DEF TypeOK
    <2>8. good' \in [Call -> BOOLEAN]
      BY <1>2 DEF Serve, TypeOK
    <2>9. served' \in {served, served \union {<<c, k[c] + 1>>}}
      BY <1>2 DEF Serve
    <2>3. served' \subseteq Call \X Nat
      BY <2>7, <2>9 DEF TypeOK
    <2>4. k' = [k EXCEPT ![c] = @ + 1] /\ at' = [at EXCEPT ![c] = "sha"] /\ k[c] < Len(Docs(c)) /\ at[c] = "doc"
      BY <1>2 DEF Serve
    <2>5. HasLine'
      BY <2>2, <2>4 DEF TypeOK, HasLine
    <2>6. /\ \A d \in Call : k'[d] <= Len(Docs(d))'
          /\ \A d \in Call : (at'[d] = "line") <=> (lock' = d)
      BY <1>2, <2>1, <2>4 DEF Serve, TypeOK
    <2>10. at' \in [Call -> Steps] /\ k' \in [Call -> Nat] /\ say' \in [Call -> Outcomes \union {None}]
      BY <2>2, <2>4 DEF TypeOK, Steps
    <2> QED
      BY <1>2, <2>3, <2>8, <2>5, <2>6, <2>10 DEF Serve, TypeOK
  <1>3. ASSUME NEW c \in Call, Finish(c) PROVE TypeInv'
    <2>1. req[c] \in Request /\ req[c].ns \in Namespace /\ req[c].man \in Manifest
      BY DocsAreSeq, Requests
    <2>2. \A d \in Call : Docs(d)' = Docs(d)
      BY <1>3 DEF Finish, Docs
    <2> QED
      BY <1>3, <2>1, <2>2 DEF Finish, audit, TypeOK, HasLine, Steps
  <1>4. ASSUME NEW c \in Call, ReadSha(c) PROVE TypeInv'
    <2>1. \A d \in Call : Docs(d)' = Docs(d)
      BY <1>4 DEF ReadSha, Docs
    <2>2. Len(trail) \in Nat
      BY DEF TypeOK
    <2>3. LastHash \in Link /\ [line |-> 0, of |-> "nothing"] \in Link
      BY ONLY <2>2, GenesisTyped DEF LastHash, Link
    <2>4. prev' \in Link
      BY <1>4, <2>3 DEF ReadSha
    <2> QED
      BY <1>4, <2>1, <2>4, NoneIsNoMember DEF ReadSha, TypeOK, HasLine, Steps
  <1>5. ASSUME NEW c \in Call, at[c] = "line", Leave(c), UNCHANGED <<req, k, good, plan, served, gone>>,
               trail' \in Seq(Line), warned' \subseteq Call \X Nat
        PROVE  TypeInv'
    <2>1. \A d \in Call : Docs(d)' = Docs(d)
      BY <1>5 DEF Docs
    <2>2. HasLine'
      BY <1>5 DEF Leave, TypeOK, HasLine
    <2> QED
      BY <1>5, <2>1, <2>2, GenesisTyped, NoneIsNoMember DEF Leave, TypeOK, Steps
  <1>6. ASSUME NEW c \in Call, WriteLine(c) PROVE TypeInv'
    <2>1. trail' \in Seq(Line)
      BY <1>6, NewLineIs, AppendedIs DEF WriteLine, LineOf
    <2> QED
      BY <1>5, <1>6, <2>1 DEF WriteLine, TypeOK
  <1>7. ASSUME NEW c \in Call, LineFails(c) PROVE TypeInv'
    <2>1. warned' \subseteq Call \X Nat
      BY <1>7 DEF LineFails, TypeOK
    <2>2. trail' \in Seq(Line)
      BY ZenonT(40), <1>7, NewLineIs, AppendedIs DEF LineFails, LineOf, TypeOK
    <2> QED
      BY <1>5, <1>7, <2>1, <2>2 DEF LineFails
  <1>8. CASE Restart
    <2>1. \A d \in Call : Docs(d)' = Docs(d)
      BY <1>8 DEF Restart, Docs
    <2> QED
      BY <1>8, <2>1, GenesisTyped, NoneIsNoMember DEF Restart, TypeOK, HasLine, Steps
  <1>9. CASE UNCHANGED vars
    BY <1>9 DEF vars, TypeOK, HasLine, Docs
  <1> QED
    BY <1>1, <1>2, <1>3, <1>4, <1>6, <1>7, <1>8, <1>9, DocumentServes DEF Next, Step

LEMMA Types == Spec => []TypeInv
  BY TypeInit, TypeStep, PTL DEF Spec

\* The variables keep their types; the holder of the audit lock, and nobody else, is
\* at its line.
THEOREM TypeCorrect == Spec => []TypeOK
  BY Types, PTL DEF TypeInv
-----------------------------------------------------------------------------
(* What is applied has passed a plan.                                      *)

\* A call at its gate has served nothing; a killed call does nothing.
LEMMA WaitingStep == TypeInv /\ Waiting /\ [Next]_vars => Waiting'
  <1> SUFFICES ASSUME TypeInv, Waiting, [Next]_vars PROVE Waiting'
    OBVIOUS
  <1> USE DEF TypeInv, TypeOK, Waiting, Go
  <1>1. ASSUME NEW c \in Call, Gate(c) PROVE Waiting'
    BY <1>1 DEF Gate
  <1>2. ASSUME NEW c \in Call, Serve(c) PROVE Waiting'
    <2>1. /\ at' = [at EXCEPT ![c] = "sha"] /\ at[c] = "doc" /\ k' = [k EXCEPT ![c] = @ + 1]
          /\ served' \subseteq served \union {<<c, k[c] + 1>>}
      BY <1>2 DEF Serve
    <2> QED
      BY <2>1
  <1>3. ASSUME NEW c \in Call, Finish(c) \/ ReadSha(c) PROVE Waiting'
    BY <1>3 DEF Finish, ReadSha
  <1>4. ASSUME NEW c \in Call, WriteLine(c) \/ LineFails(c) PROVE Waiting'
    BY <1>4 DEF WriteLine, LineFails, Leave
  <1>5. CASE Restart
    BY <1>5 DEF Restart
  <1>6. CASE UNCHANGED vars
    BY <1>6 DEF vars
  <1> QED
    BY <1>1, <1>2, <1>3, <1>4, <1>5, <1>6, DocumentServes DEF Next, Step

LEMMA BuriedStep == TypeInv /\ Buried /\ [Next]_vars => Buried'
  <1> SUFFICES ASSUME TypeInv, Buried, [Next]_vars PROVE Buried'
    OBVIOUS
  <1> USE DEF TypeInv, TypeOK, Buried, Go
  <1>1. ASSUME NEW c \in Call, Gate(c) \/ Serve(c) \/ Finish(c) \/ ReadSha(c) PROVE Buried'
    BY <1>1 DEF Gate, Serve, Finish, ReadSha
  <1>2. ASSUME NEW c \in Call, WriteLine(c) \/ LineFails(c) PROVE Buried'
    BY <1>2 DEF WriteLine, LineFails, Leave
  <1>3. CASE Restart
    BY <1>3 DEF Restart
  <1>4. CASE UNCHANGED vars
    BY <1>4 DEF vars
  <1> QED
    BY <1>1, <1>2, <1>3, <1>4, DocumentServes DEF Next, Step

\* A plan that passed remains one while its process lives.
LEMMA PlannedStays ==
  ASSUME NEW n, NEW m, Planned(n, m), served \subseteq served', UNCHANGED <<req, gone>>
  PROVE  Planned(n, m)'
  BY DEF Planned, IsPlan

\* A step that records no plan, takes no call past its gate and serves nothing new
\* but for c, which may serve it.
LEMMA PlansElsewhere ==
  ASSUME TypeInv, PlansPassed, ApplyIsPlanned, UNCHANGED <<req, gone, plan>>, NEW c \in Call,
         served' \in {served, served \union {<<c, k[c] + 1>>}},
         served' = served \/ MayServe(c),
         \A d \in Call : MayServe(d)' => MayServe(d)
  PROVE  PlansPassed' /\ ApplyIsPlanned'
  <1>1. \A n, m : Planned(n, m) => Planned(n, m)'
    BY PlannedStays
  <1>2. PlansPassed'
    BY <1>1 DEF PlansPassed
  <1>3. ASSUME NEW d \in Call \ gone, req[d].tool = "apply_manifest",
               MayServe(d)' \/ \E j \in Nat : <<d, j>> \in served'
        PROVE  Planned(req[d].ns, req[d].man)
    <2>1. MayServe(d) \/ \E j \in Nat : <<d, j>> \in served
      BY <1>3
    <2> QED
      BY <1>3, <2>1 DEF ApplyIsPlanned
  <1>4. ASSUME NEW d \in Call \ gone, req[d].tool = "apply_manifest",
               MayServe(d)' \/ \E j \in Nat : <<d, j>> \in served'
        PROVE  Planned(req[d].ns, req[d].man)'
    BY <1>3, <1>4, PlannedStays
  <1> QED
    BY <1>2, <1>4 DEF ApplyIsPlanned

LEMMA GoodStep == TypeInv /\ GoodIsServed /\ [Next]_vars => GoodIsServed'
  <1> SUFFICES ASSUME TypeInv, GoodIsServed, [Next]_vars PROVE GoodIsServed'
    OBVIOUS
  <1> USE DEF TypeInv, TypeOK, GoodIsServed
  <1>1. ASSUME NEW c \in Call, Gate(c) PROVE GoodIsServed'
    BY <1>1 DEF Gate
  <1>2. ASSUME NEW c \in Call, Serve(c) PROVE GoodIsServed'
    <2>1. /\ k' = [k EXCEPT ![c] = @ + 1] /\ served \subseteq served'
          /\ \/ good' = [good EXCEPT ![c] = FALSE]
             \/ good' = good /\ <<c, k[c] + 1>> \in served'
      BY <1>2 DEF Serve
    <2> SUFFICES ASSUME NEW d \in Call, good'[d], NEW i \in 1..k'[d] PROVE <<d, i>> \in served'
      BY DEF GoodIsServed
    <2>2. CASE d # c
      BY <2>1, <2>2
    <2>3. CASE d = c
      <3>1. good[c] /\ <<c, k[c] + 1>> \in served' /\ (i \in 1..k[c] \/ i = k[c] + 1)
        BY <2>1, <2>3
      <3> QED
        BY <2>1, <2>3, <3>1
    <2> QED
      BY <2>2, <2>3
  <1>3. ASSUME NEW c \in Call, Finish(c) \/ ReadSha(c) \/ WriteLine(c) \/ LineFails(c) PROVE GoodIsServed'
    BY <1>3 DEF Finish, ReadSha, WriteLine, LineFails
  <1>4. CASE Restart \/ UNCHANGED vars
    BY <1>4 DEF Restart, vars
  <1> QED
    BY <1>1, <1>2, <1>3, <1>4, DocumentServes DEF Next, Step

LEMMA PlanInit == Init => PlanInv
  BY DEF Init, PlanInv, Waiting, Buried, PlansPassed, GoodIsServed, ApplyIsPlanned, MayServe

LEMMA PlanStep ==
  ASSUME Mode = "deny", TypeInv, PlanInv, [Next]_vars
  PROVE  PlanInv'
  <1>1. Waiting' /\ Buried' /\ GoodIsServed'
    BY WaitingStep, BuriedStep, GoodStep DEF PlanInv
  <1> SUFFICES PlansPassed' /\ ApplyIsPlanned'
    BY <1>1 DEF PlanInv
  <1> USE DEF PlanInv, Go
  <1>2. ASSUME NEW c \in Call, Gate(c) PROVE PlansPassed' /\ ApplyIsPlanned'
    <2>1. UNCHANGED <<req, gone, plan, served>> /\ at[c] = "gate"
      BY <1>2 DEF Gate
    <2>2. CASE ~Passes(req[c])
      <3>1. \A d \in Call : MayServe(d)' => MayServe(d)
        <4>1. k' = [k EXCEPT ![c] = Len(Docs(c))] /\ at' = [at EXCEPT ![c] = "sha"]
          BY <1>2, <2>2 DEF Gate
        <4>2. Len(Docs(c)) \in Nat /\ \A d \in Call : Docs(d)' = Docs(d)
          BY <2>1, DocsAreSeq DEF Docs
        <4> QED
          BY <4>1, <4>2 DEF MayServe, TypeInv, TypeOK
      <3> QED
        BY <2>1, <3>1, PlansElsewhere
    <2>3. CASE Passes(req[c])
      <3>1. at' = [at EXCEPT ![c] = "doc"] /\ k' = k
        BY <1>2, <2>1, <2>3 DEF Gate, Passes
      <3>2. \A n, m : Planned(n, m) => Planned(n, m)'
        BY <2>1, PlannedStays
      <3>3. PlansPassed'
        BY <2>1, <3>2 DEF PlansPassed
      <3>4. ASSUME req[c].tool = "apply_manifest" PROVE Planned(req[c].ns, req[c].man)
        <4>1. req[c].ns \in Namespace /\ req[c].man \in Manifest /\ req[c].man # None
          BY DocsAreSeq, Requests, NoneIsNoMember
        <4>2. ApplyPasses(req[c])
          BY <2>3, <3>4 DEF Passes
        <4>3. plan[req[c].ns] = req[c].man
          BY <4>2 DEF ApplyPasses, Bound
        <4> QED
          BY <4>1, <4>3 DEF PlansPassed
      <3>5. ASSUME NEW d \in Call \ gone, req[d].tool = "apply_manifest",
                   MayServe(d)' \/ \E j \in Nat : <<d, j>> \in served'
            PROVE  Planned(req[d].ns, req[d].man)'
        <4>1. Planned(req[d].ns, req[d].man)
          <5>1. CASE d = c
            BY <3>4, <3>5, <5>1
          <5>2. CASE d # c
            <6>1. Docs(d)' = Docs(d)
              BY <2>1 DEF Docs
            <6>2. MayServe(d)' => MayServe(d)
              BY <3>1, <5>2, <6>1 DEF MayServe, TypeInv, TypeOK
            <6> QED
              BY <2>1, <3>5, <6>2 DEF ApplyIsPlanned
          <5> QED
            BY <5>1, <5>2
        <4> QED
          BY <2>1, <4>1, PlannedStays
      <3> QED
        BY <2>1, <3>3, <3>5 DEF ApplyIsPlanned
    <2> QED
      BY <2>2, <2>3
  <1>3. ASSUME NEW c \in Call, Serve(c) PROVE PlansPassed' /\ ApplyIsPlanned'
    <2>1. /\ UNCHANGED <<req, gone, plan>> /\ k' = [k EXCEPT ![c] = @ + 1]
          /\ at[c] = "doc" /\ at' = [at EXCEPT ![c] = "sha"]
          /\ served' \in {served, served \union {<<c, k[c] + 1>>}}
      BY <1>3 DEF Serve
    <2>2. MayServe(c)
      BY <1>3 DEF Serve, MayServe
    <2>3. \A d \in Call : Docs(d)' = Docs(d) /\ Len(Docs(d)) \in Nat
      BY <2>1, DocsAreSeq DEF Docs
    <2>4. \A d \in Call : MayServe(d)' => MayServe(d)
      BY <2>1, <2>2, <2>3 DEF MayServe, TypeInv, TypeOK
    <2> QED
      BY <2>1, <2>2, <2>4, PlansElsewhere
  <1>4. ASSUME NEW c \in Call, Finish(c) PROVE PlansPassed' /\ ApplyIsPlanned'
    <2>1. /\ UNCHANGED <<req, gone, served, k, good>> /\ at[c] = "doc" /\ k[c] = Len(Docs(c))
          /\ at' = [at EXCEPT ![c] = "over"]
      BY <1>4 DEF Finish, audit
    <2>2. \A n, m : Planned(n, m) => Planned(n, m)'
      BY <2>1, PlannedStays
    <2>3. ApplyIsPlanned'
      <3>1. \A d \in Call : MayServe(d)' => MayServe(d)
        BY <2>1 DEF MayServe, Docs, TypeInv, TypeOK
      <3>2. ASSUME NEW d \in Call \ gone, req[d].tool = "apply_manifest",
                   MayServe(d)' \/ \E j \in Nat : <<d, j>> \in served'
            PROVE  Planned(req[d].ns, req[d].man)'
        <4>1. Planned(req[d].ns, req[d].man)
          BY <2>1, <3>1, <3>2 DEF ApplyIsPlanned
        <4> QED
          BY <2>1, <4>1, PlannedStays
      <3> QED
        BY <2>1, <3>2 DEF ApplyIsPlanned
    <2>4. PlansPassed'
      <3>1. CASE plan' = plan
        BY <2>2, <3>1 DEF PlansPassed
      <3>2. CASE IsPlan(c) /\ good[c] /\ plan' = [plan EXCEPT ![req[c].ns] = req[c].man]
        <4>1. Planned(req[c].ns, req[c].man)
          <5>1. c \notin gone
            BY <2>1 DEF Buried
          <5>2. \A i \in 1..Len(DocsOf[req[c].man]) : <<c, i>> \in served
            BY <2>1, <3>2 DEF GoodIsServed, Docs
          <5> QED
            BY <3>2, <5>1, <5>2 DEF Planned
        <4>2. Planned(req[c].ns, req[c].man)'
          BY <2>1, <4>1, PlannedStays
        <4> SUFFICES ASSUME NEW n \in Namespace, plan'[n] # None PROVE Planned(n, plan[n])'
          BY DEF PlansPassed
        <4>3. CASE n = req[c].ns
          <5>1. plan'[n] = req[c].man
            BY <3>2, <4>3 DEF TypeInv, TypeOK
          <5> QED
            BY <2>1, <4>2, <4>3, <5>1 DEF Planned, IsPlan
        <4>4. CASE n # req[c].ns
          <5>1. plan'[n] = plan[n]
            BY <3>2, <4>4 DEF TypeInv, TypeOK
          <5>2. Planned(n, plan[n])
            BY <5>1 DEF PlansPassed
          <5> QED
            BY <2>1, <5>1, <5>2 DEF Planned, IsPlan
        <4> QED
          BY <4>3, <4>4
      <3> QED
        BY <1>4, <3>1, <3>2 DEF Finish
    <2> QED
      BY <2>3, <2>4
  <1>5. ASSUME NEW c \in Call, ReadSha(c) PROVE PlansPassed' /\ ApplyIsPlanned'
    <2>1. UNCHANGED <<req, gone, plan, served, k>> /\ at[c] = "sha" /\ at' = [at EXCEPT ![c] = "line"]
      BY <1>5 DEF ReadSha
    <2>2. \A d \in Call : MayServe(d)' => MayServe(d)
      BY <2>1 DEF MayServe, Docs, TypeInv, TypeOK
    <2> QED
      BY <2>1, <2>2, PlansElsewhere
  <1>6. ASSUME NEW c \in Call, WriteLine(c) \/ LineFails(c) PROVE PlansPassed' /\ ApplyIsPlanned'
    <2>1. UNCHANGED <<req, gone, plan, served, k>> /\ at[c] = "line" /\ at' = [at EXCEPT ![c] = "doc"]
      BY <1>6 DEF WriteLine, LineFails, Leave
    <2>2. \A d \in Call : MayServe(d)' => MayServe(d)
      BY <2>1 DEF MayServe, Docs, TypeInv, TypeOK
    <2> QED
      BY <2>1, <2>2, PlansElsewhere
  <1>7. CASE Restart
    <2>1. \A n \in Namespace : plan'[n] = None
      BY <1>7 DEF Restart
    <2>2. \A d \in Call \ gone' : at'[d] = "gate" /\ \A j \in Nat : <<d, j>> \notin served'
      BY <1>7 DEF Restart, Waiting
    <2>3. \A d \in Call \ gone' : ~MayServe(d)'
      BY <2>2 DEF MayServe
    <2> QED
      BY <2>1, <2>2, <2>3 DEF PlansPassed, ApplyIsPlanned
  <1>8. CASE UNCHANGED vars
    BY <1>8 DEF vars, PlansPassed, ApplyIsPlanned, Planned, MayServe, IsPlan, Docs
  <1> QED
    BY <1>2, <1>3, <1>4, <1>5, <1>6, <1>7, <1>8, DocumentServes DEF Next, Step

\* Under APPLYGATE_UNPLANNED_APPLY=deny what a living call has applied passed, as a
\* whole, in a plan of its process for its namespace (_check_plan_binding).
THEOREM PlannedFirst == ASSUME Mode = "deny" PROVE Spec => []AppliedWasDryRun
  <1>1. PlanInv /\ TypeInv /\ [Next]_vars => PlanInv'
    BY PlanStep
  <1>2. PlanInv => AppliedWasDryRun
    <2> SUFFICES ASSUME PlanInv, NEW c \in Call \ gone, NEW j \in 1..k[c],
                        req[c].tool = "apply_manifest", <<c, j>> \in served
                 PROVE  \E p \in Call \ gone :
                          /\ IsPlan(p) /\ req[p].ns = req[c].ns /\ req[p].man = req[c].man
                          /\ \A i \in 1..Len(Docs(c)) : <<p, i>> \in served
      BY DEF AppliedWasDryRun
    <2>1. j \in Nat
      OBVIOUS
    <2>2. Planned(req[c].ns, req[c].man)
      BY <2>1 DEF PlanInv, ApplyIsPlanned
    <2> QED
      BY <2>2 DEF Planned, Docs
  <1> QED
    BY <1>1, <1>2, PlanInit, Types, PTL DEF Spec

-----------------------------------------------------------------------------
(* The trail.                                                              *)

\* One line more.
LEMMA OneLineMore ==
  ASSUME trail \in Seq(Line), NEW line
  PROVE  /\ Len(trail) \in Nat /\ Len(Append(trail, line)) = Len(trail) + 1
         /\ \A j \in 1..Len(trail) : Append(trail, line)[j] = trail[j]
         /\ Append(trail, line)[Len(trail) + 1] = line
  OBVIOUS

\* The trail keeps what it tells and what it lost, and so does stderr.
LEMMA ToldStays ==
  ASSUME TypeInv, NEW line, Stands(line) \/ Merges(line) \/ trail' = trail, warned \subseteq warned',
         NEW c, NEW i, Told(c, i) \/ Lost(c, i)
  PROVE  Told(c, i)' \/ Lost(c, i)'
  <1>1. CASE Stands(line) \/ trail' = trail
    <2>1. trail \in Seq(Line)
      BY DEF TypeInv, TypeOK
    <2>2. \A j \in 1..Len(trail) : j \in 1..Len(trail') /\ trail'[j] = trail[j]
      BY <1>1, <2>1, OneLineMore DEF Stands
    <2> QED
      BY <2>2 DEF Told, Lost
  <1>2. CASE Merges(line)
    <2>1. \A j \in 1..Len(trail) :
             /\ j \in 1..Len(trail') /\ trail[j].others \subseteq trail'[j].others
             /\ trail[j].form = "whole" => trail'[j] = trail[j]
      BY <1>2 DEF Merges, Last
    <2> QED
      BY <2>1 DEF Told, Lost
  <1> QED
    BY <1>1, <1>2

\* What says nothing new to the file leaves its links alone.
LEMMA LinksElsewhere ==
  ASSUME LinkIsLast, TrailVerifies, UNCHANGED trail, lock' = None \/ UNCHANGED <<lock, prev>>
  PROVE  LinkIsLast' /\ TrailVerifies'
  BY DEF LinkIsLast, TrailVerifies, Follows

\* A line put into the file under the lock keeps the links.
LEMMA LinksGrow ==
  ASSUME TypeInv, LinkIsLast, TrailVerifies, NEW line \in Line, line.prev = prev, lock # None,
         trail' = Appended(line)
  PROVE  TrailVerifies'
  <1>1. trail \in Seq(Line) /\ Len(trail) \in Nat
    BY DEF TypeInv, TypeOK
  <1>2. Stands(line) \/ Merges(line)
    BY AppendedIs
  <1>3. ASSUME NEW j \in 1..Len(trail), trail'[j].form = "whole", trail'[j] = trail[j],
               \A i \in 1..(j - 1) : trail'[i] = trail[i]
        PROVE  Follows(trail', trail'[j].prev, j - 1)
    <2>1. Follows(trail, trail[j].prev, j - 1)
      BY <1>3 DEF TrailVerifies
    <2>2. j - 1 > 0 => j - 1 \in 1..(j - 1)
      BY <1>1
    <2> QED
      BY <1>3, <2>1, <2>2 DEF Follows
  <1>4. CASE Stands(line)
    <2>1. /\ Len(trail') = Len(trail) + 1 /\ \A j \in 1..Len(trail) : trail'[j] = trail[j]
          /\ trail'[Len(trail) + 1] = line
      BY <1>1, <1>4, OneLineMore DEF Stands
    <2>2. Follows(trail, line.prev, Len(trail))
      BY DEF LinkIsLast
    <2>3. Len(trail) > 0 => Len(trail) \in 1..Len(trail)
      BY <1>1
    <2>4. Follows(trail', line.prev, Len(trail))
      <3>1. Len(trail)' = Len(trail) + 1 /\ prev = line.prev
        BY <2>1
      <3>2. Len(trail) > 0 => trail'[Len(trail)] = trail[Len(trail)]
        BY <2>1, <2>3
      <3> QED
        BY ONLY <2>2, <3>2 DEF Follows
    <2> QED
      BY ONLY <1>1, <1>3, <2>1, <2>4 DEF TrailVerifies
  <1>5. CASE Merges(line)
    <2>1. /\ Len(trail') = Len(trail) /\ trail'[Len(trail)].form # "whole"
          /\ \A j \in 1..Len(trail) : j # Len(trail) => trail'[j] = trail[j]
      BY <1>5 DEF Merges
    <2> SUFFICES ASSUME NEW j \in 1..Len(trail'), trail'[j].form = "whole"
                 PROVE  Follows(trail', trail'[j].prev, j - 1)
      BY DEF TrailVerifies
    <2>2. j \in 1..Len(trail) /\ trail'[j] = trail[j]
      BY <2>1
    <2>3. \A i \in 1..(j - 1) : i \in 1..Len(trail) /\ i # Len(trail)
      BY <1>1, <2>2
    <2> QED
      BY <1>3, <2>1, <2>2, <2>3
  <1> QED
    BY <1>2, <1>4, <1>5

LEMMA LinksStep ==
  ASSUME TypeInv, LinkIsLast, TrailVerifies, [Next]_vars
  PROVE  LinkIsLast' /\ TrailVerifies'
  <1>1. ASSUME NEW c \in Call, Gate(c) \/ Serve(c) \/ Finish(c)
        PROVE  LinkIsLast' /\ TrailVerifies'
    <2>1. UNCHANGED <<trail, lock, prev>>
      BY <1>1 DEF Gate, Serve, Finish, audit
    <2> QED
      BY <2>1, LinksElsewhere
  <1>2. ASSUME NEW c \in Call, ReadSha(c) PROVE LinkIsLast' /\ TrailVerifies'
    <2>1. trail \in Seq(Line) /\ UNCHANGED trail
      BY <1>2 DEF ReadSha, TypeInv, TypeOK
    <2>2. Len(trail) = 0 <=> trail = <<>>
      BY <2>1
    <2>3. Len(trail) \in Nat
      BY <2>1
    <2>4. Follows(trail, LastHash, Len(trail))
      BY ONLY <2>2, <2>3 DEF LastHash, Genesis, Last, Follows
    <2>5. Follows(trail, [line |-> 0, of |-> "nothing"], Len(trail))
      BY DEF Follows
    <2>6. Follows(trail, prev', Len(trail))
      BY <1>2, <2>4, <2>5 DEF ReadSha
    <2> QED
      BY <2>1, <2>6 DEF LinkIsLast, TrailVerifies, Follows
  <1>3. ASSUME NEW c \in Call, WriteLine(c) \/ LineFails(c) PROVE LinkIsLast' /\ TrailVerifies'
    <2>1. lock # None /\ at[c] = "line" /\ lock' = None
      BY <1>3, NoneIsNoMember DEF WriteLine, LineFails, Leave, TypeInv, TypeOK
    <2>2. trail' = trail \/ \E line : LineOf(c, line) /\ trail' = Appended(line)
      BY <1>3, <2>1, NewLineIs DEF WriteLine, LineFails
    <2>3. CASE trail' = trail
      BY <2>1, <2>3, LinksElsewhere
    <2>4. CASE \E line : LineOf(c, line) /\ trail' = Appended(line)
      BY <2>1, <2>4, LinksGrow DEF LineOf, LinkIsLast
    <2> QED
      BY <2>2, <2>3, <2>4
  <1>4. CASE Restart \/ UNCHANGED vars
    BY <1>4, LinksElsewhere DEF Restart, vars
  <1> QED
    BY <1>1, <1>2, <1>3, <1>4, DocumentServes DEF Next, Step

\* A line speaks of what is so; and it is there for all but the last change.
LEMMA FaithStep ==
  ASSUME TypeInv, Waiting, SaysWhatIs, TrailIsFaithful, [Next]_vars
  PROVE  SaysWhatIs' /\ TrailIsFaithful'
  <1> USE DEF Go
  <1> DEFINE Tells(c) == \A i \in 1..k[c] : Changed(c, i) /\ ~Told(c, i) /\ ~Lost(c, i) =>
                           i = k[c] /\ at[c] \in {"sha", "line", "dead"}
             Lines == \A j \in 1..Len(trail) : trail[j].outcome \in {"applied", "deleted", "dry-run"} =>
                        <<trail[j].call, trail[j].k>> \in served
             Goal == SaysWhatIs' /\ TrailIsFaithful'
  <1> SUFFICES Goal
    OBVIOUS
  <1>a. Lines /\ \A c \in Call : Tells(c)
    BY DEF TrailIsFaithful
  <1>b. ASSUME SaysWhatIs', Lines', \A c \in Call : Tells(c)' PROVE Goal
    BY <1>b DEF TrailIsFaithful
  <1> HIDE DEF Goal
  <1>c. ASSUME UNCHANGED <<trail, warned>> PROVE \A c, i : Told(c, i)' = Told(c, i) /\ Lost(c, i)' = Lost(c, i)
    BY <1>c DEF Told, Lost
  <1>1. ASSUME NEW c \in Call, Gate(c) PROVE Goal
    <2>1. UNCHANGED <<req, served, trail, warned>> /\ at[c] = "gate"
      BY <1>1 DEF Gate
    <2>2. SaysWhatIs'
      <3>1. \/ UNCHANGED <<k, say>>
            \/ /\ k' = [k EXCEPT ![c] = Len(Docs(c))]
               /\ say' = [say EXCEPT ![c] = Refused(req[c].wide)]
        BY <1>1 DEF Gate
      <3> QED
        BY <2>1, <3>1, RefusedIs DEF SaysWhatIs, TypeInv, TypeOK
    <2>3. Lines'
      BY <1>a, <2>1
    <2>4. ASSUME NEW d \in Call PROVE Tells(d)'
      <3>1. CASE d = c
        <4>1. \A i \in Nat : ~Changed(c, i)'
          BY <2>1 DEF Waiting, Changed
        <4>2. \A i \in 1..k'[c] : i \in Nat
          OBVIOUS
        <4> QED
          BY <3>1, <4>1, <4>2
      <3>2. CASE d # c
        <4>1. k'[d] = k[d] /\ at'[d] = at[d]
          BY <1>1, <3>2 DEF Gate, TypeInv, TypeOK
        <4> QED
          BY <1>a, <1>c, <2>1, <4>1 DEF Changed, Dry
      <3> QED
        BY <3>1, <3>2
    <2> QED
      BY <1>b, <2>2, <2>3, <2>4
  <1>2. ASSUME NEW c \in Call, Serve(c) PROVE Goal
    <2>1. /\ UNCHANGED <<req, trail, warned>> /\ at[c] = "doc" /\ at' = [at EXCEPT ![c] = "sha"]
          /\ k' = [k EXCEPT ![c] = @ + 1] /\ k[c] \in Nat
          /\ served' \in {served, served \union {<<c, k[c] + 1>>}}
      BY <1>2 DEF Serve, TypeInv, TypeOK
    <2>2. SaysWhatIs'
      <3>1. \/ say' = [say EXCEPT ![c] = Refused(Doing(c) \in Wide)] \/ say' = [say EXCEPT ![c] = "failed"]
            \/ say' = [say EXCEPT ![c] = Done(c)] /\ <<c, k[c] + 1>> \in served'
        BY <1>2 DEF Serve
      <3> SUFFICES ASSUME NEW d \in Call, say'[d] \in {"applied", "deleted", "dry-run"}
                   PROVE  <<d, k'[d]>> \in served'
        BY DEF SaysWhatIs
      <3>2. CASE d = c
        BY <2>1, <3>1, <3>2, RefusedIs DEF TypeInv, TypeOK
      <3>3. CASE d # c
        BY <2>1, <3>1, <3>3 DEF TypeInv, TypeOK, SaysWhatIs
      <3> QED
        BY <3>2, <3>3
    <2>3. Lines'
      BY <1>a, <2>1
    <2>4. ASSUME NEW d \in Call PROVE Tells(d)'
      <3>1. CASE d = c
        <4>1. k'[c] = k[c] + 1 /\ at'[c] = "sha"
          BY <2>1 DEF TypeInv, TypeOK
        <4>2. ASSUME NEW i \in 1..k[c] PROVE ~(Changed(c, i)' /\ ~Told(c, i)' /\ ~Lost(c, i)')
          <5>1. Changed(c, i)' => Changed(c, i)
            BY <2>1 DEF Changed, Dry
          <5>2. Changed(c, i) => Told(c, i) \/ Lost(c, i)
            BY <1>a, <2>1
          <5> QED
            BY <1>c, <2>1, <5>1, <5>2
        <4>3. \A i \in 1..k'[c] : i \in 1..k[c] \/ i = k'[c]
          BY <2>1, <4>1
        <4> QED
          BY <3>1, <4>1, <4>2, <4>3
      <3>2. CASE d # c
        <4>1. k'[d] = k[d] /\ at'[d] = at[d]
          BY <2>1, <3>2 DEF TypeInv, TypeOK
        <4>2. \A i : Changed(d, i)' = Changed(d, i)
          BY <2>1, <3>2 DEF Changed, Dry
        <4> QED
          BY <1>a, <1>c, <2>1, <4>1, <4>2
      <3> QED
        BY <3>1, <3>2
    <2> QED
      BY <1>b, <2>2, <2>3, <2>4
  <1>3. ASSUME NEW c \in Call, Finish(c) PROVE Goal
    <2>1. /\ UNCHANGED <<req, k, served, say, trail, warned>>
          /\ at[c] = "doc" /\ at' = [at EXCEPT ![c] = "over"]
      BY <1>3 DEF Finish, audit
    <2>2. ASSUME NEW d \in Call PROVE Tells(d)'
      <3>1. at'[d] = at[d] \/ at[d] = "doc"
        BY <2>1 DEF TypeInv, TypeOK
      <3> QED
        BY <1>a, <1>c, <2>1, <3>1 DEF Changed, Dry
    <2>3. SaysWhatIs' /\ Lines'
      BY <1>a, <2>1 DEF SaysWhatIs
    <2> QED
      BY <1>b, <2>2, <2>3
  <1>4. ASSUME NEW c \in Call, ReadSha(c) PROVE Goal
    <2>1. /\ UNCHANGED <<req, k, served, say, trail, warned>>
          /\ at[c] = "sha" /\ at' = [at EXCEPT ![c] = "line"]
      BY <1>4 DEF ReadSha
    <2>2. ASSUME NEW d \in Call PROVE Tells(d)'
      <3>1. at'[d] = at[d] \/ (at'[d] = "line" /\ at[d] = "sha")
        BY <2>1 DEF TypeInv, TypeOK
      <3> QED
        BY <1>a, <1>c, <2>1, <3>1 DEF Changed, Dry
    <2>3. SaysWhatIs' /\ Lines'
      BY <1>a, <2>1 DEF SaysWhatIs
    <2> QED
      BY <1>b, <2>2, <2>3
  <1>d. ASSUME NEW c \in Call, at[c] = "line", Leave(c), UNCHANGED <<req, k, served>>,
               Told(c, k[c])' \/ Lost(c, k[c])', Lines',
               \A d, i : Told(d, i) \/ Lost(d, i) => Told(d, i)' \/ Lost(d, i)'
        PROVE  Goal
    <2>1. SaysWhatIs'
      BY <1>d, NoneIsNoMember DEF Leave, SaysWhatIs, TypeInv, TypeOK, Outcomes
    <2>2. ASSUME NEW d \in Call PROVE Tells(d)'
      <3>1. \A i : Changed(d, i)' = Changed(d, i)
        BY <1>d DEF Changed, Dry
      <3>2. CASE d = c
        <4>1. \A i \in 1..k[c] : Changed(c, i) => i = k[c] \/ Told(c, i) \/ Lost(c, i)
          BY <1>a, <1>d
        <4> QED
          BY <1>d, <3>1, <3>2, <4>1
      <3>3. CASE d # c
        <4>1. at'[d] = at[d]
          BY <1>d, <3>3 DEF Leave, TypeInv, TypeOK
        <4> QED
          BY <1>a, <1>d, <3>1, <4>1
      <3> QED
        BY <3>2, <3>3
    <2> QED
      BY <1>b, <1>d, <2>1, <2>2
  <1>5. ASSUME NEW c \in Call, at[c] = "line", Leave(c), UNCHANGED <<req, k, served>>,
               warned \subseteq warned', NEW line, LineOf(c, line), trail' = Appended(line),
               line.form = "whole" \/ <<c, k[c]>> \in warned'
        PROVE  Goal
    <2>2. trail \in Seq(Line) /\ (Stands(line) \/ Merges(line))
      BY <1>5, AppendedIs DEF LineOf, TypeInv, TypeOK
    <2>3. line.call = c /\ line.k = k[c] /\ line.outcome = say[c]
      BY <1>5 DEF LineOf
    <2>4. \A d, i : Told(d, i) \/ Lost(d, i) => Told(d, i)' \/ Lost(d, i)'
      BY <1>5, <2>2, ToldStays
    <2>5. CASE Stands(line)
      <3>1. /\ Len(trail') = Len(trail) + 1 /\ Len(trail) \in Nat
            /\ \A j \in 1..Len(trail) : trail'[j] = trail[j]
            /\ trail'[Len(trail) + 1] = line
        BY <2>2, <2>5, OneLineMore DEF Stands
      <3>2. Told(c, k[c])'
        <4>1. Len(trail) + 1 \in 1..Len(trail')
          BY <3>1
        <4>2. CASE line.form = "whole"
          BY <1>5, <2>3, <2>5, <3>1, <4>1, <4>2 DEF Told
        <4>3. CASE line.form # "whole"
          BY <1>5, <4>3 DEF Told
        <4> QED
          BY <4>2, <4>3
      <3>3. Lines'
        <4> SUFFICES ASSUME NEW j \in 1..Len(trail'), trail'[j].outcome \in {"applied", "deleted", "dry-run"}
                     PROVE  <<trail'[j].call, trail'[j].k>> \in served'
          OBVIOUS
        <4>1. CASE j \in 1..Len(trail)
          BY <1>5, <1>a, <3>1, <4>1
        <4>2. CASE j = Len(trail) + 1
          BY <1>5, <2>3, <2>5, <3>1, <4>2 DEF SaysWhatIs
        <4> QED
          BY <3>1, <4>1, <4>2
      <3> QED
        BY <1>5, <1>d, <2>4, <3>2, <3>3
    <2>6. CASE Merges(line)
      <3>1. Lost(c, k[c])'
        BY <1>5, <2>3, <2>6 DEF Merges, Lost
      <3>2. Lines'
        <4> SUFFICES ASSUME NEW j \in 1..Len(trail'), trail'[j].outcome \in {"applied", "deleted", "dry-run"}
                     PROVE  <<trail'[j].call, trail'[j].k>> \in served'
          OBVIOUS
        <4>1. /\ j \in 1..Len(trail) /\ trail'[j].outcome = trail[j].outcome
              /\ trail'[j].call = trail[j].call /\ trail'[j].k = trail[j].k
          BY <2>6 DEF Merges, Last
        <4> QED
          BY <1>5, <1>a, <4>1
      <3> QED
        BY <1>5, <1>d, <2>4, <3>1, <3>2
    <2> QED
      BY <2>2, <2>5, <2>6
  <1>6. ASSUME NEW c \in Call, WriteLine(c) PROVE Goal
    <2>1. /\ UNCHANGED <<req, k, served, warned>> /\ at[c] = "line" /\ Leave(c)
          /\ trail' = Appended(NewLine(c, "whole"))
      BY <1>6 DEF WriteLine
    <2>2. LineOf(c, NewLine(c, "whole")) /\ NewLine(c, "whole").form = "whole"
      BY <2>1, NewLineIs
    <2> QED
      BY <1>5, <2>1, <2>2
  <1>7. ASSUME NEW c \in Call, LineFails(c) PROVE Goal
    <2>1. /\ UNCHANGED <<req, k, served>> /\ at[c] = "line" /\ Leave(c)
          /\ warned' = warned \union {<<c, k[c]>>}
      BY <1>7 DEF LineFails
    <2>2. trail' = trail \/ \E line : LineOf(c, line) /\ trail' = Appended(line)
      BY <1>7, <2>1, NewLineIs DEF LineFails
    <2>3. CASE trail' = trail
      <3>1. Told(c, k[c])' /\ Lines'
        BY <1>a, <2>1, <2>3 DEF Told
      <3>2. \A d, i : Told(d, i) \/ Lost(d, i) => Told(d, i)' \/ Lost(d, i)'
        BY <2>1, <2>3, ToldStays
      <3> QED
        BY <1>d, <2>1, <3>1, <3>2
    <2>4. CASE \E line : LineOf(c, line) /\ trail' = Appended(line)
      BY <1>5, <2>1, <2>4
    <2> QED
      BY <2>2, <2>3, <2>4
  <1>8. CASE Restart
    <2>1. UNCHANGED <<req, k, served, trail, warned>>
      BY <1>8 DEF Restart
    <2>2. SaysWhatIs' /\ Lines'
      BY <1>8, <1>a, <2>1, NoneIsNoMember DEF Restart, SaysWhatIs
    <2>3. ASSUME NEW d \in Call PROVE Tells(d)'
      <3>1. at'[d] = "dead" \/ at'[d] = at[d]
        BY <1>8 DEF Restart, TypeInv, TypeOK
      <3> QED
        BY <1>a, <1>c, <2>1, <3>1 DEF Changed, Dry
    <2> QED
      BY <1>b, <2>2, <2>3
  <1>9. CASE UNCHANGED vars
    <2>1. ASSUME NEW d \in Call PROVE Tells(d)'
      BY <1>9, <1>a, <1>c DEF vars, Changed, Dry
    <2>2. SaysWhatIs' /\ Lines'
      BY <1>9, <1>a DEF vars, SaysWhatIs
    <2> QED
      BY <1>b, <2>1, <2>2
  <1> QED
    BY <1>1, <1>2, <1>3, <1>4, <1>6, <1>7, <1>8, <1>9, DocumentServes DEF Next, Step

LEMMA TrailInit == Init => TrailInv
  BY NoneIsNoMember DEF Init, TrailInv, Waiting, LinkIsLast, TrailVerifies, SaysWhatIs, TrailIsFaithful

LEMMA Trail == Spec => []TrailInv
  <1>1. TypeInv /\ TrailInv /\ [Next]_vars => TrailInv'
    BY WaitingStep, LinksStep, FaithStep DEF TrailInv
  <1> QED
    BY <1>1, TrailInit, Types, PTL DEF Spec

\* Whatever the volume takes of a line and whoever writes it: a whole line holds the
\* hash of the one before, unless that is longer than the 64 KiB that are read or the
\* file could not be read (_last_audit_line_sha).
THEOREM ChainVerifies == Spec => []TrailVerifies
  BY Trail, PTL DEF TrailInv

\* No line claims what the API server has not done; a call whose process is killed
\* leaves at most its last change out, and only what is appended to a cut line is lost
\* besides (_audit after each document).
THEOREM TrailMissesNothing == Spec => []TrailIsFaithful
  BY Trail, PTL DEF TrailInv
=============================================================================
