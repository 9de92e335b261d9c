---------------------------- MODULE OnboardLock ----------------------------
(***************************************************************************)
(* The onboard lock file: acquireOnboardLock, unlinkIfInodeMatches and     *)
(* releaseOnboardLock of state/onboard-session.ts, one system call per     *)
(* step.  Processes are identified by their pid.  A pid may be used again  *)
(* after its process is gone, and the file system may give a new file the  *)
(* inode number of a file that is neither linked nor open.                 *)
(***************************************************************************)
EXTENDS Naturals

CONSTANTS Procs,         \* pids
          Inodes,        \* inode numbers
          ReuseInodes,   \* may a new file get the number of a deleted one?
          MAX_ATTEMPTS,  \* the retry budget (5 in the code)
          MaxFaults,     \* bound on crashes and failing writes
          MaxSlow        \* bound on lock files left half-written for 30 s

ASSUME BudgetAssumption ==
  /\ MAX_ATTEMPTS \in Nat \ {0}
  /\ MaxFaults \in Nat
  /\ MaxSlow \in Nat
ASSUME ReuseAssumption == ReuseInodes \in BOOLEAN

NoFile == "absent"
Nobody == "nobody"
ASSUME NamesAssumption == NoFile \notin Inodes /\ Nobody \notin Procs

VARIABLES path,     \* the inode LOCK_FILE names, or NoFile
          content,  \* of each inode: Malformed, or who wrote it
          old,      \* inodes whose mtime is more than 30 s back
          pc,
          attempt,  \* failed attempts of the current acquisition
          snap,     \* readLockFileSnapshot
          fd,       \* the open lock file of each process: heldLockFd
          faults, slow

vars == <<path, content, old, pc, attempt, snap, fd, faults, slow>>

(* The payload: a pid and a start time.  `gone' says that the process that *)
(* wrote it has ended, so that a live process of this pid is another one.  *)
Content == [pid : Procs \cup {Nobody}, gone : BOOLEAN]
Malformed == [pid |-> Nobody, gone |-> FALSE]
Snapshot == [inode : Inodes \cup {NoFile}, info : Content, old : BOOLEAN]

PCs == {"off", "open", "read", "judge", "stat", "unlink", "write", "held",
        "remove", "refused", "exhausted"}

NoSnapshot == [inode |-> NoFile, info |-> Malformed, old |-> FALSE]

Init ==
  /\ path = NoFile
  /\ content = [i \in Inodes |-> Malformed]
  /\ old = {}
  /\ pc = [p \in Procs |-> "off"]
  /\ attempt = [p \in Procs |-> 0]
  /\ snap = [p \in Procs |-> NoSnapshot]
  /\ fd = [p \in Procs |-> NoFile]
  /\ faults = 0
  /\ slow = 0

Goto(p, label) == pc' = [pc EXCEPT ![p] = label]

\* Mutant: one attempt too many.
RetryOnceMore(p) ==
  /\ attempt' = [attempt EXCEPT ![p] = @ + 1]
  /\ snap' = [snap EXCEPT ![p] = NoSnapshot]
  /\ Goto(p, IF attempt[p] + 1 <= MAX_ATTEMPTS THEN "open" ELSE "exhausted")

\* The next turn of the loop, or acquired: false, stale: true.
Retry(p) ==
  /\ attempt' = [attempt EXCEPT ![p] = @ + 1]
  /\ snap' = [snap EXCEPT ![p] = NoSnapshot]
  /\ Goto(p, IF attempt[p] + 1 < MAX_ATTEMPTS THEN "open" ELSE "exhausted")

\* The process ends; what it wrote is now a payload of nobody.
Exit(p) ==
  /\ Goto(p, "off")
  /\ fd' = [fd EXCEPT ![p] = NoFile]
  /\ attempt' = [attempt EXCEPT ![p] = 0]
  /\ snap' = [snap EXCEPT ![p] = NoSnapshot]
  /\ content' = [i \in Inodes |->
       [content[i] EXCEPT !.gone = @ \/ content[i].pid = p]]

\* Numbers a new file may get.  Without reuse it is enough to avoid the
\* numbers somebody remembers.
FreshInodes ==
  {i \in Inodes \ {path} :
     \A p \in Procs : fd[p] # i /\ (ReuseInodes \/ snap[p].inode # i)}

---------------------------------------------------------------------------
(* acquireOnboardLock.                                                     *)

Start(p) ==
  /\ pc[p] = "off"
  /\ Goto(p, "open")
  /\ UNCHANGED <<path, content, old, attempt, snap, fd, faults, slow>>

\* openSync(LOCK_FILE, "wx")
Create(p) ==
  /\ pc[p] = "open"
  /\ path = NoFile
  /\ \E i \in FreshInodes :
       /\ path' = i
       /\ content' = [content EXCEPT ![i] = Malformed]
       /\ old' = old \ {i}
       /\ fd' = [fd EXCEPT ![p] = i]
  /\ Goto(p, "write")
  /\ UNCHANGED <<attempt, snap, faults, slow>>

\* EEXIST
Exists(p) ==
  /\ pc[p] = "open"
  /\ path # NoFile
  /\ Goto(p, "read")
  /\ UNCHANGED <<path, content, old, attempt, snap, fd, faults, slow>>

readLockFileSnapshot(p) ==
  /\ pc[p] = "read"
  /\ IF path = NoFile
     THEN Retry(p)
     ELSE /\ snap' = [snap EXCEPT ![p] = [inode |-> path,
                        info |-> content[path], old |-> path \in old]]
          /\ Goto(p, "judge")
          /\ UNCHANGED attempt
  /\ UNCHANGED <<path, content, old, fd, faults, slow>>

\* Is the recorded holder still running?  A live process of that pid that
\* started after the payload was written is another one, unless it is p.
lockHolderStillMatches(p, lock) ==
  /\ pc[lock.pid] # "off"
  /\ lock.pid = p \/ ~lock.gone

\* Mutants: a malformed lock is stale at once; it never is.
JudgeImpatient(p) ==
  LET info == snap[p].info
  IN  /\ pc[p] = "judge"
      /\ Goto(p, IF info # Malformed /\ lockHolderStillMatches(p, info)
                 THEN "refused" ELSE "stat")
      /\ UNCHANGED <<path, content, old, attempt, snap, fd, faults, slow>>

JudgeTimid(p) ==
  LET info == snap[p].info
  IN  /\ pc[p] = "judge"
      /\ IF info = Malformed
         THEN Retry(p)
         ELSE /\ Goto(p, IF lockHolderStillMatches(p, info) THEN "refused" ELSE "stat")
              /\ UNCHANGED <<attempt, snap>>
      /\ UNCHANGED <<path, content, old, fd, faults, slow>>

Judge(p) ==
  LET info == snap[p].info
  IN  /\ pc[p] = "judge"
      /\ IF info = Malformed
         THEN IF snap[p].old THEN Goto(p, "stat") /\ UNCHANGED <<attempt, snap>>
                             ELSE Retry(p)
         ELSE /\ Goto(p, IF lockHolderStillMatches(p, info) THEN "refused" ELSE "stat")
              /\ UNCHANGED <<attempt, snap>>
      /\ UNCHANGED <<path, content, old, fd, faults, slow>>

\* Mutant: no comparison of inodes.
StatNothing(p) ==
  /\ pc[p] = "stat"
  /\ Goto(p, "unlink")
  /\ UNCHANGED <<path, content, old, attempt, snap, fd, faults, slow>>

\* unlinkIfInodeMatches: statSync ...
StatStale(p) ==
  /\ pc[p] = "stat"
  /\ IF path = snap[p].inode
     THEN Goto(p, "unlink") /\ UNCHANGED <<attempt, snap>> ELSE Retry(p)
  /\ UNCHANGED <<path, content, old, fd, faults, slow>>

\* ... and unlinkSync, of whatever LOCK_FILE names by then.
UnlinkStale(p) ==
  /\ pc[p] = "unlink"
  /\ path' = NoFile
  /\ Retry(p)
  /\ UNCHANGED <<content, old, fd, faults, slow>>

\* writeSync(fd, payload)
WritePayload(p) ==
  /\ pc[p] = "write"
  /\ content' = [content EXCEPT ![fd[p]] = [pid |-> p, gone |-> FALSE]]
  /\ old' = old \ {fd[p]}
  /\ Goto(p, "held")
  /\ UNCHANGED <<path, attempt, snap, fd, faults, slow>>

\* A failing write closes, unlinks LOCK_FILE unconditionally and throws.
WriteFails(p) ==
  /\ pc[p] = "write"
  /\ faults < MaxFaults
  /\ faults' = faults + 1
  /\ path' = NoFile
  /\ Exit(p)
  /\ UNCHANGED <<old, slow>>

\* acquired: false; the caller exits.
Refused(p) ==
  /\ pc[p] \in {"refused", "exhausted"}
  /\ Exit(p)
  /\ UNCHANGED <<path, old, faults, slow>>

---------------------------------------------------------------------------
(* releaseOnboardLock.                                                     *)

\* fstat(heldLockFd).ino against stat(LOCK_FILE).ino ...
StatHeld(p) ==
  /\ pc[p] = "held"
  /\ IF path = fd[p]
     THEN Goto(p, "remove") /\ UNCHANGED <<fd, content, attempt, snap>>
     ELSE Exit(p)
  /\ UNCHANGED <<path, old, faults, slow>>

\* ... then unlinkSync and closeSync.
RemoveHeld(p) ==
  /\ pc[p] = "remove"
  /\ path' = NoFile
  /\ Exit(p)
  /\ UNCHANGED <<old, faults, slow>>

---------------------------------------------------------------------------

Crash(p) ==
  /\ pc[p] # "off"
  /\ faults < MaxFaults
  /\ faults' = faults + 1
  /\ Exit(p)
  /\ UNCHANGED <<path, old, slow>>

\* Time passes: 30 s after its creation a lock file is still empty.
Age(i) ==
  /\ path = i
  /\ content[i] = Malformed
  /\ i \notin old
  /\ IF \E p \in Procs : fd[p] = i
     THEN slow < MaxSlow /\ slow' = slow + 1 ELSE UNCHANGED slow
  /\ old' = old \cup {i}
  /\ UNCHANGED <<path, content, pc, attempt, snap, fd, faults>>

Proceed(p) ==
  \/ Create(p) \/ Exists(p) \/ readLockFileSnapshot(p) \/ Judge(p)
  \/ StatStale(p) \/ UnlinkStale(p) \/ WritePayload(p)
  \/ Refused(p) \/ StatHeld(p) \/ RemoveHeld(p)

Next ==
  \/ \E p \in Procs : Start(p) \/ Proceed(p) \/ WriteFails(p) \/ Crash(p)
  \/ \E i \in Inodes : Age(i)

Spec == Init /\ [][Next]_vars

---------------------------------------------------------------------------
(* Properties.                                                             *)

\* Every variable has its type.
TypeOK ==
  /\ path \in Inodes \cup {NoFile}
  /\ content \in [Inodes -> Content]
  /\ old \subseteq Inodes
  /\ pc \in [Procs -> PCs]
  /\ attempt \in [Procs -> 0..MAX_ATTEMPTS]
  /\ snap \in [Procs -> Snapshot]
  /\ fd \in [Procs -> Inodes \cup {NoFile}]
  /\ faults \in Nat
  /\ slow \in Nat

Holders == {p \in Procs : pc[p] \in {"held", "remove"}}

\* No process has died or failed to write so far, and no write took 30 s.
Undisturbed == faults = 0 /\ slow = 0

\* At most one process runs onboarding at a time, until a process dies in the
\* protocol (see the comment of unlinkIfInodeMatches for what happens then).
MutualExclusion == Undisturbed => \A p, q \in Holders : p = q

\* The lock file that a holder created is the one LOCK_FILE names: nobody
\* removes it, and a release never unlinks anybody else's file.
HolderKeepsFile == Undisturbed => \A p \in Holders : path = fd[p]

\* Scheduling: live processes take their next step, onboarding is tried
\* again, and time passes.
Fairness ==
  /\ \A p \in Procs : WF_vars(Start(p)) /\ WF_vars(Proceed(p))
  /\ \A i \in Inodes : WF_vars(Age(i))
FairSpec == Spec /\ Fairness

\* Crash debris never blocks onboarding for good: as long as processes keep
\* trying, the lock is taken again and again (issue #2765 in the code).
DebrisNeverBlocks == []<>(Holders # {})

---------------------------------------------------------------------------
(* The inductive invariant behind MutualExclusion when nothing fails.      *)

Owners == {p \in Procs : pc[p] \in {"write", "held", "remove"}}

\* Exactly the owners have the lock file open, and it is the linked one.
OwnersHaveFile == \A p \in Procs : p \in Owners <=> fd[p] # NoFile
OwnerIsLinked == \A p \in Owners : path = fd[p]
SingleOwner == \A p, q \in Owners : p = q

\* A linked lock file belongs to an owner, and its content says so.
LinkedIsOwned ==
  path # NoFile =>
    \E p \in Owners :
      content[path] = IF pc[p] = "write" THEN Malformed
                                        ELSE [pid |-> p, gone |-> FALSE]

\* Nothing is ever 30 s old; who judges a lock that is still linked judges a
\* live one, and who found a stale one finds it gone.
NothingOld == old = {} /\ \A p \in Procs : ~snap[p].old
JudgesLive ==
  \A p \in Procs :
    pc[p] = "judge" /\ path = snap[p].inode /\ snap[p].info # Malformed =>
      /\ ~snap[p].info.gone
      /\ snap[p].info.pid \in Holders
StaleIsGone ==
  \A p \in Procs :
    /\ pc[p] = "judge" => snap[p].inode # NoFile
    /\ pc[p] = "stat" => snap[p].inode \notin {path, NoFile}
    /\ pc[p] # "unlink"

\* Only a process that gave up has used its attempts.
BudgetKept == \A p \in Procs : pc[p] # "exhausted" => attempt[p] < MAX_ATTEMPTS

LockInv ==
  /\ TypeOK
  /\ BudgetKept
  /\ OwnersHaveFile /\ OwnerIsLinked /\ SingleOwner
  /\ LinkedIsOwned
  /\ NothingOld
  /\ JudgesLive
  /\ StaleIsGone
============================================================================
