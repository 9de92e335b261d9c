---------------------------- MODULE RegistryLock ----------------------------
(***************************************************************************)
(* The sandbox registry and its lock: acquireLock, releaseLock and         *)
(* withLock of state/registry/lock.ts around a load-modify-save of         *)
(* sandboxes.json, one file-system call per step.  Every call names        *)
(* LOCK_DIR by its path, so it acts on whatever directory is there by      *)
(* then.                                                                   *)
(*                                                                         *)
(* A version stands for the inode and mtime of LOCK_DIR: mkdir, and every  *)
(* change of an entry, gives it a new one.  The recursive removals are one *)
(* step.  Without faults a lock is never 10 s old while its holder runs.   *)
(***************************************************************************)
EXTENDS Naturals

CONSTANTS Procs,             \* pids
          Versions,          \* (inode, mtime) pairs
          LOCK_MAX_RETRIES,  \* the retry budget (120 in the code)
          MaxOps,            \* bound on the updates of each process
          MaxFaults,         \* bound on crashes and failing writes
          MaxSlow            \* bound on live locks that reach 10 s

ASSUME BudgetAssumption ==
  /\ LOCK_MAX_RETRIES \in Nat \ {0}
  /\ MaxOps \in Nat
  /\ MaxFaults \in Nat
  /\ MaxSlow \in Nat

Nobody == "nobody"
NoVersion == "unversioned"
ASSUME NamesAssumption == Nobody \notin Procs /\ NoVersion \notin Versions

VARIABLES dir,       \* LOCK_DIR
          registry,  \* sandboxes.json: how many updates of each process it holds
          pc,
          attempt,
          snap,      \* what the acquisition loop read of an existing lock
          local,     \* the registry that a process loaded
          saved,     \* updates each process was told are on disk
          faults, slow

vars == <<dir, registry, pc, attempt, snap, local, saved, faults, slow>>

(* LOCK_DIR: the pid in its owner file, `gone' when that process has ended *)
(* since, its temporary owner files, and whether its mtime is 10 s back.   *)
Dir == [version : Versions \cup {NoVersion}, owner : Procs \cup {Nobody},
        gone : BOOLEAN, tmps : SUBSET Procs, old : BOOLEAN]
NoDir == [version |-> NoVersion, owner |-> Nobody, gone |-> FALSE,
          tmps |-> {}, old |-> FALSE]

Snapshot == [version : Versions \cup {NoVersion}, owner : Procs \cup {Nobody},
             old : BOOLEAN]
NoSnapshot == [version |-> NoVersion, owner |-> Nobody, old |-> FALSE]

Working == {"load", "save", "unlock", "remove"}
Claiming == {"tmp", "rename"}
Undoing == {"undo_tmp", "undo_owner", "undo_dir"}
PCs == Working \cup Claiming \cup Undoing \cup
       {"off", "mkdir", "stat", "owner", "judge", "restat", "reread", "break"}

Init ==
  /\ dir = NoDir
  /\ registry = [p \in Procs |-> 0]
  /\ pc = [p \in Procs |-> "off"]
  /\ attempt = [p \in Procs |-> 0]
  /\ snap = [p \in Procs |-> NoSnapshot]
  /\ local = [p \in Procs |-> [q \in Procs |-> 0]]
  /\ saved = [p \in Procs |-> 0]
  /\ faults = 0
  /\ slow = 0

---------------------------------------------------------------------------
(* Small steps shared by the actions.                                      *)

Goto(p, label) == pc' = [pc EXCEPT ![p] = label]

Fault == faults < MaxFaults /\ faults' = faults + 1

\* A new mtime is one that nobody has seen.
FreshVersions ==
  {v \in Versions \ {dir.version} : \A p \in Procs : snap[p].version # v}

\* LOCK_DIR with changed entries.
Touch(d) == \E v \in FreshVersions : dir' = [d EXCEPT !.version = v, !.old = FALSE]

\* The process of pid p is over, and with it the authority of its owner file.
Ended(d, p) == [d EXCEPT !.gone = @ \/ d.owner = p]

\* The end of the command that wanted the lock.
End(p) ==
  /\ Goto(p, "off")
  /\ attempt' = [attempt EXCEPT ![p] = 0]
  /\ snap' = [snap EXCEPT ![p] = NoSnapshot]
  /\ local' = [local EXCEPT ![p] = [q \in Procs |-> 0]]

\* Mutant: one attempt too many.
RetryOnceMore(p) ==
  IF attempt[p] < LOCK_MAX_RETRIES
  THEN /\ attempt' = [attempt EXCEPT ![p] = @ + 1]
       /\ snap' = [snap EXCEPT ![p] = NoSnapshot]
       /\ Goto(p, "mkdir")
       /\ UNCHANGED <<dir, local>>
  ELSE End(p) /\ dir' = Ended(dir, p)

\* The next turn of the loop, or "Failed to acquire lock".
Retry(p) ==
  IF attempt[p] + 1 < LOCK_MAX_RETRIES
  THEN /\ attempt' = [attempt EXCEPT ![p] = @ + 1]
       /\ snap' = [snap EXCEPT ![p] = NoSnapshot]
       /\ Goto(p, "mkdir")
       /\ UNCHANGED <<dir, local>>
  ELSE End(p) /\ dir' = Ended(dir, p)

---------------------------------------------------------------------------
(* acquireLock.                                                            *)

\* A command updates the registry.
Start(p) ==
  /\ pc[p] = "off"
  /\ saved[p] < MaxOps
  /\ Goto(p, "mkdir")
  /\ UNCHANGED <<dir, registry, attempt, snap, local, saved, faults, slow>>

MkDir(p) ==
  /\ pc[p] = "mkdir"
  /\ IF dir = NoDir
     THEN Touch(NoDir) /\ Goto(p, "tmp")
     ELSE Goto(p, "stat") /\ UNCHANGED dir
  /\ UNCHANGED <<registry, attempt, snap, local, saved, faults, slow>>

StatLock(p) ==
  /\ pc[p] = "stat"
  /\ IF dir = NoDir
     THEN Retry(p)
     ELSE /\ snap' = [snap EXCEPT ![p] = [version |-> dir.version,
                        owner |-> Nobody, old |-> dir.old]]
          /\ Goto(p, "owner")
          /\ UNCHANGED <<dir, attempt, local>>
  /\ UNCHANGED <<registry, saved, faults, slow>>

ReadOwner(p) ==
  /\ pc[p] = "owner"
  /\ snap' = [snap EXCEPT ![p].owner = dir.owner]
  /\ Goto(p, "judge")
  /\ UNCHANGED <<dir, registry, attempt, local, saved, faults, slow>>

\* Mutants: a lock without an owner file is stale at once; its age is ignored.
classifyImpatiently(s) == s.owner = Nobody \/ s.old
classifyByOwner(s) ==
  s.owner # Nobody /\ (pc[s.owner] = "off" \/ (dir.owner = s.owner /\ dir.gone))

\* "break": nobody runs under the recorded pid, or a later process does, or
\* the lock is older than an update could take.
classifyExistingLock(s) ==
  \/ s.old
  \/ s.owner # Nobody /\ (pc[s.owner] = "off" \/ (dir.owner = s.owner /\ dir.gone))

Judge(p) ==
  /\ pc[p] = "judge"
  /\ IF classifyExistingLock(snap[p])
     THEN Goto(p, "restat") /\ UNCHANGED <<dir, attempt, snap, local>>
     ELSE Retry(p)
  /\ UNCHANGED <<registry, saved, faults, slow>>

\* Mutant: only the owner is compared.
RestatNothing(p) ==
  /\ pc[p] = "restat"
  /\ Goto(p, IF snap[p].owner = Nobody THEN "break" ELSE "reread")
  /\ UNCHANGED <<dir, registry, attempt, snap, local, saved, faults, slow>>

\* stillSameLock: inode and mtime ...
RestatLock(p) ==
  /\ pc[p] = "restat"
  /\ IF dir.version = snap[p].version
     THEN /\ Goto(p, IF snap[p].owner = Nobody THEN "break" ELSE "reread")
          /\ UNCHANGED <<dir, attempt, snap, local>>
     ELSE Retry(p)
  /\ UNCHANGED <<registry, saved, faults, slow>>

\* ... and the owner, when it was readable.
RereadOwner(p) ==
  /\ pc[p] = "reread"
  /\ IF dir.owner = snap[p].owner
     THEN Goto(p, "break") /\ UNCHANGED <<dir, attempt, snap, local>>
     ELSE Retry(p)
  /\ UNCHANGED <<registry, saved, faults, slow>>

\* rmSync(LOCK_DIR, recursive, force)
BreakLock(p) ==
  /\ pc[p] = "break"
  /\ dir' = NoDir
  /\ IF attempt[p] + 1 < LOCK_MAX_RETRIES
     THEN /\ attempt' = [attempt EXCEPT ![p] = @ + 1]
          /\ snap' = [snap EXCEPT ![p] = NoSnapshot]
          /\ Goto(p, "mkdir")
          /\ UNCHANGED local
     ELSE End(p)
  /\ UNCHANGED <<registry, saved, faults, slow>>

\* writeFileSync(ownerTmp)
WriteOwnerTmp(p) ==
  /\ pc[p] = "tmp"
  /\ dir # NoDir
  /\ Touch([dir EXCEPT !.tmps = @ \cup {p}])
  /\ Goto(p, "rename")
  /\ UNCHANGED <<registry, attempt, snap, local, saved, faults, slow>>

\* renameSync(ownerTmp, LOCK_OWNER)
RenameOwner(p) ==
  /\ pc[p] = "rename"
  /\ p \in dir.tmps
  /\ Touch([dir EXCEPT !.tmps = @ \ {p}, !.owner = p, !.gone = FALSE])
  /\ Goto(p, "load")
  /\ UNCHANGED <<registry, attempt, snap, local, saved, faults, slow>>

\* Either of them fails: the directory is gone, or the disk refuses.
OwnerFails(p) ==
  /\ pc[p] \in {"tmp", "rename"}
  /\ \/ /\ IF pc[p] = "tmp" THEN dir = NoDir ELSE p \notin dir.tmps
        /\ UNCHANGED faults
     \/ Fault
  /\ Goto(p, "undo_tmp")
  /\ UNCHANGED <<dir, registry, attempt, snap, local, saved, slow>>

\* The best-effort clean-up before the error is thrown.
UndoTmp(p) ==
  /\ pc[p] = "undo_tmp"
  /\ IF p \in dir.tmps
     THEN Touch([dir EXCEPT !.tmps = @ \ {p}]) ELSE UNCHANGED dir
  /\ Goto(p, "undo_owner")
  /\ UNCHANGED <<registry, attempt, snap, local, saved, faults, slow>>

UndoOwner(p) ==
  /\ pc[p] = "undo_owner"
  /\ IF dir.owner # Nobody
     THEN Touch([dir EXCEPT !.owner = Nobody, !.gone = FALSE]) ELSE UNCHANGED dir
  /\ Goto(p, "undo_dir")
  /\ UNCHANGED <<registry, attempt, snap, local, saved, faults, slow>>

\* rmdirSync removes only an empty directory.
UndoDir(p) ==
  /\ pc[p] = "undo_dir"
  /\ dir' = IF dir.owner = Nobody /\ dir.tmps = {} THEN NoDir ELSE Ended(dir, p)
  /\ End(p)
  /\ UNCHANGED <<registry, saved, faults, slow>>

---------------------------------------------------------------------------
(* withLock(() => { load; modify; save }) and releaseLock.                 *)

Load(p) ==
  /\ pc[p] = "load"
  /\ local' = [local EXCEPT ![p] = registry]
  /\ Goto(p, "save")
  /\ UNCHANGED <<dir, registry, attempt, snap, saved, faults, slow>>

Save(p) ==
  /\ pc[p] = "save"
  /\ registry' = [local[p] EXCEPT ![p] = @ + 1]
  /\ saved' = [saved EXCEPT ![p] = @ + 1]
  /\ Goto(p, "unlock")
  /\ UNCHANGED <<dir, attempt, snap, local, faults, slow>>

\* The update throws: `finally' still releases.
UpdateFails(p) ==
  /\ pc[p] \in {"load", "save"}
  /\ Fault
  /\ Goto(p, "unlock")
  /\ UNCHANGED <<dir, registry, attempt, snap, local, saved, slow>>

\* unlinkSync(LOCK_OWNER)
UnlinkOwner(p) ==
  /\ pc[p] = "unlock"
  /\ IF dir.owner # Nobody
     THEN Touch([dir EXCEPT !.owner = Nobody, !.gone = FALSE]) ELSE UNCHANGED dir
  /\ Goto(p, "remove")
  /\ UNCHANGED <<registry, attempt, snap, local, saved, faults, slow>>

\* rmSync(LOCK_DIR, recursive, force)
RemoveDir(p) ==
  /\ pc[p] = "remove"
  /\ dir' = NoDir
  /\ End(p)
  /\ UNCHANGED <<registry, saved, faults, slow>>

---------------------------------------------------------------------------

Crash(p) ==
  /\ pc[p] # "off"
  /\ Fault
  /\ dir' = Ended(dir, p)
  /\ End(p)
  /\ UNCHANGED <<registry, saved, slow>>

\* Processes that made LOCK_DIR and have not given it back.
Claimants == {p \in Procs : pc[p] \in Working \cup Claiming \cup Undoing}

\* Time passes: LOCK_STALE_MS after its last change LOCK_DIR is still there.
Age ==
  /\ dir # NoDir
  /\ ~dir.old
  /\ IF Claimants # {} THEN slow < MaxSlow /\ slow' = slow + 1 ELSE UNCHANGED slow
  /\ dir' = [dir EXCEPT !.old = TRUE]
  /\ UNCHANGED <<registry, pc, attempt, snap, local, saved, faults>>

Proceed(p) ==
  \/ MkDir(p)       \/ StatLock(p)      \/ ReadOwner(p)   \/ Judge(p)
  \/ RestatLock(p)  \/ RereadOwner(p)   \/ BreakLock(p)
  \/ WriteOwnerTmp(p) \/ RenameOwner(p) \/ OwnerFails(p)
  \/ UndoTmp(p)     \/ UndoOwner(p)     \/ UndoDir(p)
  \/ Load(p)        \/ Save(p)          \/ UnlinkOwner(p) \/ RemoveDir(p)

Next ==
  \/ \E p \in Procs : Start(p) \/ Proceed(p) \/ UpdateFails(p) \/ Crash(p)
  \/ Age

Spec == Init /\ [][Next]_vars

---------------------------------------------------------------------------
(* Properties.                                                             *)

\* Every variable has its type.
TypeOK ==
  /\ dir \in Dir
  /\ registry \in [Procs -> 0..MaxOps]
  /\ pc \in [Procs -> PCs]
  /\ attempt \in [Procs -> 0..LOCK_MAX_RETRIES - 1]
  /\ snap \in [Procs -> Snapshot]
  /\ local \in [Procs -> [Procs -> 0..MaxOps]]
  /\ saved \in [Procs -> 0..MaxOps]
  /\ faults \in 0..MaxFaults
  /\ slow \in 0..MaxSlow

\* No command has died or failed so far, and no holder has stalled for 10 s.
Undisturbed == faults = 0 /\ slow = 0

\* No update that save() returned from is overwritten by a command that had
\* loaded the registry before it: sandboxes.json holds every one of them.
NoLostUpdate == Undisturbed => registry = saved

\* While a command updates the registry, the owner file names it: a waiter
\* can tell the lock is held, and a release removes only the caller's lock.
OwnerFileNamesHolder ==
  Undisturbed => \A p \in Procs : pc[p] \in {"load", "save", "unlock"} => dir.owner = p

\* Scheduling: a command takes its next step, is tried again, and time passes.
Fairness ==
  /\ \A p \in Procs : WF_vars(Start(p)) /\ WF_vars(Proceed(p))
  /\ WF_vars(Age)
FairSpec == Spec /\ Fairness

\* A lock left behind by a crash, at whatever point of the protocol, never
\* wedges the registry: unless commands go on for ever clearing away each
\* other's lock after a failed owner write, every command that keeps trying
\* gets its update in.
EveryUpdateGetsThrough ==
  <>[](\A p \in Procs : pc[p] \notin Undoing) => <>(\A p \in Procs : saved[p] = MaxOps)
============================================================================
