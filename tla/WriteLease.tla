----------------------------- MODULE WriteLease -----------------------------
(***************************************************************************)
(* One scratch table's single-writer discipline (sqlhandler/writes.py):    *)
(* the in-process lock of the table, and the lease file beside it, created *)
(* with O_EXCL on the shared volume, that a dead holder's successor may    *)
(* break.                                                                  *)
(*                                                                         *)
(* A write is one call of engine._write_delta_scratch (or _iceberg_): one  *)
(* WriteLease object, so it stands for its own token.  One action per      *)
(* system call on the lease file.                                          *)
(***************************************************************************)
EXTENDS Naturals

CONSTANTS Write, Process, Host, Pid,
          None,
          Runs,          \* write -> the process it runs in
          HostOf, PidOf, \* process -> where it runs, and its number there
          Pods,          \* is every host a pod, with one process at a time?
          MaxAttempts    \* WriteLease.MAX_ACQUIRE_ATTEMPTS

\* What is assumed of the constants.
Parameters ==
  /\ Runs \in [Write -> Process] /\ None \notin Write
  /\ HostOf \in [Process -> Host] /\ PidOf \in [Process -> Pid]
  /\ MaxAttempts \in Nat \ {0}

VARIABLES
  up,      \* process -> "new", "up" or "down"
  at,      \* write -> what it does next
  tries,   \* write -> creates that found a lease
  file,    \* the write whose lease file is at the path, or None
  full,    \* writes that put their payload into the file they created
  held,    \* write -> the holder it read in the file
  ino      \* write -> the file it took the inode of

vars == <<up, at, tries, file, full, held, ino>>

Breaking == {"read", "judge", "stat", "recheck", "restat", "unlink"}
Holding == {"write", "release", "drop"}
Inside == {"create", "fill"} \union Breaking \union Holding
Over == {"done", "refused", "dead"}

TypeOK ==
  /\ up \in [Process -> {"new", "up", "down"}]
  /\ at \in [Write -> {"new"} \union Inside \union Over]
  /\ tries \in [Write -> 0..MaxAttempts]
  /\ file \in Write \union {None}
  /\ full \in SUBSET Write
  /\ held \in [Write -> Write \union {None}]
  /\ ino \in [Write -> Write \union {None}]
  /\ \A w \in Write : at[w] \in Breaking \ {"read"} => held[w] # None

Init ==
  /\ up \in [Process -> {"new", "up"}]
  /\ \A p, q \in Process : p # q /\ up[p] = "up" /\ up[q] = "up" =>
       HostOf[p] # HostOf[q] \/ (~Pods /\ PidOf[p] # PidOf[q])
  /\ at = [w \in Write |-> "new"]
  /\ tries = [w \in Write |-> 0]
  /\ file = None /\ full = {}
  /\ held = [w \in Write |-> None] /\ ino = [w \in Write |-> None]

-----------------------------------------------------------------------------
(* Helpers.                                                                *)

Go(w, to) == at' = [at EXCEPT ![w] = to]
File(f) == file' = f

\* _read_holder: an absent file, and one with no payload yet, have no holder.
Holder == IF file \in full THEN file ELSE None

\* os.kill(pid, 0): some process has the holder's number on this host.
Answers(p) == \E q \in Process : up[q] = "up" /\ HostOf[q] = HostOf[p] /\ PidOf[q] = PidOf[p]

\* Seeded bug: the holder's age alone makes a lease stale.
HolderIsAliveNever(w, h) == FALSE

\* A process of another host is taken to be alive.
HolderIsAlive(w, h) == HostOf[Runs[h]] = HostOf[Runs[w]] => Answers(Runs[h])

-----------------------------------------------------------------------------
(* acquire().                                                              *)

\* single_writer_lock: a write waits for the process's other one.
Enter(w) ==
  /\ at[w] = "new" /\ up[Runs[w]] = "up"
  /\ \A v \in Write : at[v] \in Inside => Runs[v] # Runs[w]
  /\ Go(w, "create")
  /\ UNCHANGED <<up, tries, file, full, held, ino>>

\* Seeded bug: the create does not ask for a new file.
CreateShared(w) ==
  /\ at[w] = "create"
  /\ File(w) /\ Go(w, "fill")
  /\ UNCHANGED <<up, tries, full, held, ino>>

\* O_CREAT | O_EXCL: the file is there, still without a payload.
Create(w) ==
  /\ at[w] = "create"
  /\ IF file = None THEN File(w) /\ Go(w, "fill")
                    ELSE Go(w, "read") /\ UNCHANGED file
  /\ UNCHANGED <<up, tries, full, held, ino>>

Fill(w) ==
  /\ at[w] = "fill"
  /\ full' = full \union {w}
  /\ Go(w, "write")
  /\ UNCHANGED <<up, tries, file, held, ino>>

\* The volume is full: the write is refused and its empty file stays.
FillFails(w) ==
  /\ at[w] = "fill"
  /\ Go(w, "refused")
  /\ UNCHANGED <<up, tries, file, full, held, ino>>

\* _break_stale: no readable holder means a conflict.
Read(w) ==
  /\ at[w] = "read"
  /\ held' = [held EXCEPT ![w] = Holder]
  /\ Go(w, IF Holder = None THEN "refused" ELSE "judge")
  /\ UNCHANGED <<up, tries, file, full, ino>>

\* Seeded bug: a conflict is waited out.
JudgeWaits(w) ==
  /\ at[w] = "judge"
  /\ ~HolderIsAlive(w, held[w]) /\ Go(w, "stat")
  /\ UNCHANGED <<up, tries, file, full, held, ino>>

\* Any lease may be older than its TTL; only a dead holder's is stale.
Judge(w) ==
  /\ at[w] = "judge"
  /\ \/ Go(w, "refused")
     \/ ~HolderIsAlive(w, held[w]) /\ Go(w, "stat")
  /\ UNCHANGED <<up, tries, file, full, held, ino>>

\* The lease is gone or has changed: the create is tried again, some times.
Retry(w) ==
  /\ tries' = [tries EXCEPT ![w] = @ + 1]
  /\ Go(w, IF tries[w] + 1 >= MaxAttempts THEN "refused" ELSE "create")

Stat(w) ==
  /\ at[w] = "stat"
  /\ IF file = None THEN Retry(w) /\ UNCHANGED ino
                    ELSE Go(w, "recheck") /\ ino' = [ino EXCEPT ![w] = file] /\ UNCHANGED tries
  /\ UNCHANGED <<up, file, full, held>>

Recheck(w) ==
  /\ at[w] = "recheck"
  /\ IF Holder # held[w] THEN Retry(w) ELSE Go(w, "restat") /\ UNCHANGED tries
  /\ UNCHANGED <<up, file, full, held, ino>>

\* A new file may have the inode number of one that is gone.
Restat(w) ==
  /\ at[w] = "restat"
  /\ \/ file # ino[w] /\ Retry(w)
     \/ file # None /\ Go(w, "unlink") /\ UNCHANGED tries
  /\ UNCHANGED <<up, file, full, held, ino>>

\* By path: whatever is there by now.
Unlink(w) ==
  /\ at[w] = "unlink"
  /\ File(None) /\ Retry(w)
  /\ UNCHANGED <<up, full, held, ino>>

-----------------------------------------------------------------------------
(* The write, and release() in its finally.                                *)

WriteEnds(w) ==
  /\ at[w] = "write"
  /\ Go(w, "release")
  /\ UNCHANGED <<up, tries, file, full, held, ino>>

ReleaseRead(w) ==
  /\ at[w] = "release"
  /\ Go(w, IF Holder = w THEN "drop" ELSE "done")
  /\ UNCHANGED <<up, tries, file, full, held, ino>>

\* By path again.
Release(w) ==
  /\ at[w] = "drop"
  /\ File(None) /\ Go(w, "done")
  /\ UNCHANGED <<up, tries, full, held, ino>>

-----------------------------------------------------------------------------
(* Processes.                                                              *)

Start(p) ==
  /\ up[p] = "new"
  /\ \A q \in Process : up[q] = "up" =>
       HostOf[q] # HostOf[p] \/ (~Pods /\ PidOf[q] # PidOf[p])
  /\ up' = [up EXCEPT ![p] = "up"]
  /\ UNCHANGED <<at, tries, file, full, held, ino>>

\* Its writes stop where they are; a lease file of theirs stays.
Crash(p) ==
  /\ up[p] = "up"
  /\ up' = [up EXCEPT ![p] = "down"]
  /\ at' = [w \in Write |-> IF Runs[w] = p /\ at[w] \in Inside THEN "dead" ELSE at[w]]
  /\ UNCHANGED <<tries, file, full, held, ino>>

-----------------------------------------------------------------------------
Step(w) == \/ Create(w) \/ Fill(w) \/ FillFails(w)
           \/ Read(w) \/ Judge(w) \/ Stat(w) \/ Recheck(w) \/ Restat(w) \/ Unlink(w)
           \/ WriteEnds(w) \/ ReleaseRead(w) \/ Release(w)

Next == \/ \E w \in Write : Enter(w) \/ Step(w)
        \/ \E p \in Process : Start(p) \/ Crash(p)

Spec == Init /\ [][Next]_vars

\* Threads go on, and one that waits for a lock that is free gets it.
Fairness == \A w \in Write : WF_vars(Enter(w) \/ Step(w))

-----------------------------------------------------------------------------
(* Properties.                                                             *)

\* "Catalog-less concurrent Delta writers are unsafe": never two at once,
\* through crashes, restarts and broken leases (writes.py, module docstring).
Exclusive == \A v, w \in Write : at[v] \in Holding /\ at[w] \in Holding => v = w

\* "a still-running writer is never displaced" (WriteLease): a live writer's
\* lease leaves the path only when it drops it itself.
NeverDisplaced ==
  [][\A w \in Write : file = w /\ at[w] \in Holding /\ file' # w
       => at[w] = "drop" /\ at'[w] = "done"]_vars

\* Every write comes to an end, or its process does: no conflict, refusal or
\* failure keeps the table's lock, and the create is retried a bounded number
\* of times, "so a pathological break/steal loop cannot spin".
WriteSettles ==
  \A w \in Write : up[Runs[w]] = "up" ~> at[w] \in Over \/ up[Runs[w]] = "down"
=============================================================================
