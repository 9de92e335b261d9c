------------------------- MODULE RegistryLockProofs -------------------------
(***************************************************************************)
(* The registry lock for any number of processes, any retry budget and any *)
(* number of updates.  The types hold whatever fails.  That no update is   *)
(* lost, and that the owner file names the holder, hold until somebody     *)
(* crashes inside the protocol, a write fails or an update takes 10 s;     *)
(* with two processes that break a crashed one's lock they do not.         *)
(***************************************************************************)
EXTENDS RegistryLock, TLAPS

---------------------------------------------------------------------------
(* The inductive invariants.                                               *)

\* A registry holds no update that was not reported, and a process that is
\* yet to save has one left.
Counted ==
  /\ \A q \in Procs : registry[q] <= saved[q]
  /\ \A p, q \in Procs : local[p][q] <= saved[q]
  /\ \A p \in Procs : pc[p] \notin {"off", "unlock", "remove"} \cup Undoing
                        => saved[p] < MaxOps

Types == TypeOK /\ Counted

Critical == {"load", "save", "unlock"}

\* One process at a time is between its mkdir and the removal of LOCK_DIR, and
\* LOCK_DIR exists just then.
SingleClaimant == \A p, q \in Claimants : p = q
DirIsClaimed == (dir = NoDir) <=> (Claimants = {})
DirIsVersioned == dir # NoDir => dir.version # NoVersion

\* The entries of LOCK_DIR are those its claimant has made so far.
Entries ==
  \A p \in Procs :
    /\ pc[p] = "tmp" => dir.tmps = {} /\ dir.owner = Nobody
    /\ pc[p] = "rename" => dir.tmps = {p} /\ dir.owner = Nobody
    /\ pc[p] \in Critical => dir.tmps = {} /\ dir.owner = p
    /\ pc[p] = "remove" => dir.tmps = {} /\ dir.owner = Nobody

\* Nothing is 10 s old, no owner has ended, and nobody is where only a fault or
\* a matching stale lock leads.
NothingStale ==
  /\ ~dir.old /\ ~dir.gone
  /\ \A p \in Procs : /\ ~snap[p].old
                      /\ pc[p] \notin Undoing \cup {"reread", "break"}

\* Who has read a version and an owner that are both still current has read the
\* record of a process that runs; who judged a lock stale will find it changed.
Looking == {"owner", "judge", "restat"}
SnapshotsTrue ==
  \A p \in Procs :
    /\ pc[p] \in Looking => snap[p].version # NoVersion
    /\ pc[p] = "judge" /\ snap[p].owner # Nobody /\ snap[p].version = dir.version
         => snap[p].owner = dir.owner
    /\ pc[p] = "restat" => snap[p].version # dir.version

\* What a process is about to save is based on what is on disk.
LoadedIsCurrent == \A p \in Procs : pc[p] = "save" => local[p] = registry

\* The registry holds what save() returned from.
NothingLost == registry = saved

RegistryInv ==
  /\ Types
  /\ SingleClaimant /\ DirIsClaimed /\ DirIsVersioned /\ Entries
  /\ NothingStale /\ SnapshotsTrue
  /\ LoadedIsCurrent /\ NothingLost

---------------------------------------------------------------------------
(* Types.                                                                  *)

\* The record of an absent directory, and the empty snapshot, are of the types.
LEMMA DefaultTypes == NoDir \in Dir /\ NoSnapshot \in Snapshot
BY DEF NoDir, Dir, NoSnapshot, Snapshot

\* Marking the owner as ended leaves a directory, and is no change to a
\* directory that p does not own.
LEMMA EndedType ==
  ASSUME NEW d \in Dir, NEW p \in Procs
  PROVE  /\ Ended(d, p) \in Dir
         /\ d.owner # p => Ended(d, p) = d
BY DEF Dir, Ended

\* A change of the entries gives a directory with a new version.
LEMMA TouchType ==
  ASSUME NEW d \in Dir, Touch(d)
  PROVE  /\ dir' \in Dir
         /\ dir'.version \in FreshVersions
         /\ dir'.owner = d.owner /\ dir'.gone = d.gone /\ dir'.tmps = d.tmps
         /\ dir'.old = FALSE
<1>1. PICK v \in FreshVersions : dir' = [d EXCEPT !.version = v, !.old = FALSE]
  BY DEF Touch
<1>2. v \in Versions
  BY DEF FreshVersions
<1> QED
  BY <1>1, <1>2 DEF Dir

\* Each way to change the entries is of the type.
LEMMA EntryTypes ==
  ASSUME NEW d \in Dir, NEW p \in Procs
  PROVE  /\ [d EXCEPT !.tmps = @ \cup {p}] \in Dir
         /\ [d EXCEPT !.tmps = @ \ {p}] \in Dir
         /\ [d EXCEPT !.tmps = @ \ {p}, !.owner = p, !.gone = FALSE] \in Dir
         /\ [d EXCEPT !.owner = Nobody, !.gone = FALSE] \in Dir
BY DEF Dir

\* Init has the types.
LEMMA TypesInit == Init => Types
<1> SUFFICES ASSUME Init PROVE Types
  OBVIOUS
<1> USE BudgetAssumption, DefaultTypes DEF Init
<1>1. TypeOK
  BY DEF TypeOK, PCs
<1>2. Counted
  BY DEF Counted
<1> QED
  BY <1>1, <1>2 DEF Types

\* The variables of a process that is led to a label before its save, and of
\* one whose command ends.
Control == /\ pc' \in [Procs -> PCs]
           /\ attempt' \in [Procs -> 0..LOCK_MAX_RETRIES - 1]
           /\ snap' \in [Procs -> Snapshot]
           /\ local' \in [Procs -> [Procs -> 0..MaxOps]]
           /\ \A p, q \in Procs : local'[p][q] <= saved[q]
           /\ \A p \in Procs : pc'[p] \notin {"off", "unlock", "remove"} \cup Undoing
                                => saved[p] < MaxOps

\* A process moves on.
LEMMA GotoControl ==
  ASSUME Types, NEW p \in Procs, NEW label \in PCs, Goto(p, label),
         pc[p] \in {"off", "unlock", "remove"} \cup Undoing
           => label \in {"off", "unlock", "remove"} \cup Undoing,
         attempt' = attempt, snap' = snap, local' = local
  PROVE  Control
BY DEF Types, TypeOK, Counted, Goto, Control

\* A command ends.
LEMMA EndControl ==
  ASSUME Types, NEW p \in Procs, End(p)
  PROVE  Control
<1> USE BudgetAssumption, DefaultTypes DEF Types, TypeOK, Counted, End, Goto
<1>1. pc' \in [Procs -> PCs] /\ snap' \in [Procs -> Snapshot]
  BY DEF PCs
<1>2. attempt' \in [Procs -> 0..LOCK_MAX_RETRIES - 1]
  OBVIOUS
<1>3. [q \in Procs |-> 0] \in [Procs -> 0..MaxOps]
  OBVIOUS
<1>4. local' \in [Procs -> [Procs -> 0..MaxOps]]
  BY <1>3
<1>5. \A r, q \in Procs : local'[r][q] <= saved[q]
  OBVIOUS
<1>6. \A r \in Procs : pc'[r] \notin {"off", "unlock", "remove"} \cup Undoing
                       => saved[r] < MaxOps
  OBVIOUS
<1> QED
  BY <1>1, <1>2, <1>4, <1>5, <1>6 DEF Control

\* The loop is tried again.
LEMMA AgainControl ==
  ASSUME Types, NEW p \in Procs,
         pc[p] \notin {"off", "unlock", "remove"} \cup Undoing,
         attempt[p] + 1 < LOCK_MAX_RETRIES,
         attempt' = [attempt EXCEPT ![p] = @ + 1],
         snap' = [snap EXCEPT ![p] = NoSnapshot],
         Goto(p, "mkdir"), local' = local
  PROVE  Control
<1> USE BudgetAssumption, DefaultTypes DEF Types, TypeOK, Counted, Goto
<1>1. pc' \in [Procs -> PCs] /\ snap' \in [Procs -> Snapshot]
  BY DEF PCs
<1>2. attempt[p] + 1 \in 0..LOCK_MAX_RETRIES - 1
  OBVIOUS
<1>3. attempt' \in [Procs -> 0..LOCK_MAX_RETRIES - 1]
  BY <1>2
<1> QED
  BY <1>1, <1>3 DEF Control

\* The next turn of the loop, or the end of the command.
LEMMA RetryControl ==
  ASSUME Types, NEW p \in Procs, Retry(p),
         pc[p] \notin {"off", "unlock", "remove"} \cup Undoing
  PROVE  Control /\ dir' \in Dir
<1>1. CASE attempt[p] + 1 < LOCK_MAX_RETRIES
  BY <1>1, AgainControl DEF Retry, Types, TypeOK
<1>2. CASE ~(attempt[p] + 1 < LOCK_MAX_RETRIES)
  BY <1>2, EndControl, EndedType DEF Retry, Types, TypeOK
<1> QED
  BY <1>1, <1>2

\* Every step keeps the types and the count of the updates.
LEMMA TypesStep == Types /\ [Next]_vars => Types'
<1> SUFFICES ASSUME Types, [Next]_vars PROVE Types'
  OBVIOUS
<1> USE BudgetAssumption, NamesAssumption, DefaultTypes
<1>t. dir \in Dir /\ snap \in [Procs -> Snapshot] /\ registry \in [Procs -> 0..MaxOps]
  BY DEF Types, TypeOK
<1>f. /\ faults' = faults \/ Fault => faults' \in 0..MaxFaults
      /\ slow' = slow => slow' \in 0..MaxSlow
  BY DEF Fault, Types, TypeOK
<1>k. ASSUME Control, dir' \in Dir, registry' = registry, saved' = saved,
             faults' = faults \/ Fault, slow' = slow
      PROVE  Types'
  <2>1. TypeOK'
    BY <1>k, <1>f DEF Types, TypeOK, Control
  <2>2. Counted'
    BY <1>k DEF Types, Counted, Control
  <2> QED
    BY <2>1, <2>2 DEF Types
<1>1. ASSUME NEW p \in Procs, Start(p) PROVE Types'
  BY <1>1 DEF Start, Types, TypeOK, Counted, Goto, PCs
<1>2. ASSUME NEW p \in Procs, MkDir(p) PROVE Types'
  <2>1. \E label \in {"tmp", "stat"} : Goto(p, label)
    BY <1>2 DEF MkDir
  <2>2. Control
    BY <1>2, <2>1, GotoControl DEF MkDir, PCs, Claiming, Undoing
  <2>3. dir' \in Dir
    BY <1>2, <1>t, TouchType DEF MkDir
  <2> QED
    BY <1>2, <1>k, <2>2, <2>3 DEF MkDir
<1>3. ASSUME NEW p \in Procs, StatLock(p) PROVE Types'
  <2>1. CASE dir = NoDir
    BY <1>3, <1>k, <2>1, RetryControl DEF StatLock, Undoing
  <2>2. CASE dir # NoDir
    <3>1. [version |-> dir.version, owner |-> Nobody, old |-> dir.old] \in Snapshot
      BY <1>t DEF Dir, Snapshot
    <3>2. snap' \in [Procs -> Snapshot]
      BY <1>3, <1>t, <2>2, <3>1 DEF StatLock
    <3>3. Control
      BY <1>3, <2>2, <3>2 DEF StatLock, Types, TypeOK, Counted, Goto, Control, PCs, Undoing
    <3> QED
      BY <1>3, <1>k, <1>t, <2>2, <3>3 DEF StatLock
  <2> QED
    BY <2>1, <2>2
<1>4. ASSUME NEW p \in Procs, ReadOwner(p) PROVE Types'
  <2>1. [snap[p] EXCEPT !.owner = dir.owner] \in Snapshot
    BY <1>t DEF Dir, Snapshot
  <2>2. snap' \in [Procs -> Snapshot]
    BY <1>4, <1>t, <2>1 DEF ReadOwner
  <2>3. Control
    BY <1>4, <2>2 DEF ReadOwner, Types, TypeOK, Counted, Goto, Control, PCs, Undoing
  <2> QED
    BY <1>4, <1>k, <1>t, <2>3 DEF ReadOwner
<1>5. ASSUME NEW p \in Procs, Judge(p) PROVE Types'
  <2>1. CASE classifyExistingLock(snap[p])
    BY <1>5, <1>k, <1>t, <2>1, GotoControl DEF Judge, PCs, Undoing
  <2>2. CASE ~classifyExistingLock(snap[p])
    BY <1>5, <1>k, <2>2, RetryControl DEF Judge, Undoing
  <2> QED
    BY <2>1, <2>2
<1>6. ASSUME NEW p \in Procs, RestatLock(p) PROVE Types'
  <2>1. CASE dir.version = snap[p].version
    <3>1. \E label \in {"break", "reread"} : Goto(p, label)
      BY <1>6, <2>1 DEF RestatLock
    <3> QED
      BY <1>6, <1>k, <1>t, <2>1, <3>1, GotoControl DEF RestatLock, PCs, Undoing
  <2>2. CASE dir.version # snap[p].version
    BY <1>6, <1>k, <2>2, RetryControl DEF RestatLock, Undoing
  <2> QED
    BY <2>1, <2>2
<1>7. ASSUME NEW p \in Procs, RereadOwner(p) PROVE Types'
  <2>1. CASE dir.owner = snap[p].owner
    BY <1>7, <1>k, <1>t, <2>1, GotoControl DEF RereadOwner, PCs, Undoing
  <2>2. CASE dir.owner # snap[p].owner
    BY <1>7, <1>k, <2>2, RetryControl DEF RereadOwner, Undoing
  <2> QED
    BY <2>1, <2>2
<1>8. ASSUME NEW p \in Procs, BreakLock(p) PROVE Types'
  <2>1. Control
    <3>1. CASE attempt[p] + 1 < LOCK_MAX_RETRIES
      BY <1>8, <3>1, AgainControl DEF BreakLock, Undoing
    <3>2. CASE ~(attempt[p] + 1 < LOCK_MAX_RETRIES)
      BY <1>8, <3>2, EndControl DEF BreakLock
    <3> QED
      BY <3>1, <3>2
  <2> QED
    BY <1>8, <1>k, <2>1 DEF BreakLock
<1>9. ASSUME NEW p \in Procs, WriteOwnerTmp(p) PROVE Types'
  BY <1>9, <1>k, <1>t, TouchType, EntryTypes, GotoControl
     DEF WriteOwnerTmp, PCs, Claiming, Undoing
<1>10. ASSUME NEW p \in Procs, RenameOwner(p) PROVE Types'
  BY <1>10, <1>k, <1>t, TouchType, EntryTypes, GotoControl
     DEF RenameOwner, PCs, Working, Undoing
<1>11. ASSUME NEW p \in Procs, OwnerFails(p) PROVE Types'
  BY <1>11, <1>k, <1>t, GotoControl DEF OwnerFails, PCs, Undoing
<1>12. ASSUME NEW p \in Procs, UndoTmp(p) PROVE Types'
  BY <1>12, <1>k, <1>t, TouchType, EntryTypes, GotoControl DEF UndoTmp, PCs, Undoing
<1>13. ASSUME NEW p \in Procs, UndoOwner(p) PROVE Types'
  BY <1>13, <1>k, <1>t, TouchType, EntryTypes, GotoControl DEF UndoOwner, PCs, Undoing
<1>14. ASSUME NEW p \in Procs, UndoDir(p) PROVE Types'
  BY <1>14, <1>k, <1>t, EndedType, EndControl DEF UndoDir
<1>15. ASSUME NEW p \in Procs, Load(p) PROVE Types'
  <2>1. local' \in [Procs -> [Procs -> 0..MaxOps]]
    BY <1>15, <1>t DEF Load, Types, TypeOK
  <2>2. \A r, q \in Procs : local'[r][q] <= saved[q]
    BY <1>15 DEF Load, Types, TypeOK, Counted
  <2>3. Control
    BY <1>15, <2>1, <2>2
       DEF Load, Types, TypeOK, Counted, Goto, Control, PCs, Working, Undoing
  <2> QED
    BY <1>15, <1>k, <1>t, <2>3 DEF Load
<1>16. ASSUME NEW p \in Procs, Save(p) PROVE Types'
  <2>1. saved[p] < MaxOps /\ local[p][p] <= saved[p]
    BY <1>16 DEF Save, Types, Counted, Undoing
  <2>2. local[p] \in [Procs -> 0..MaxOps] /\ saved \in [Procs -> 0..MaxOps]
    BY DEF Types, TypeOK
  <2>3. local[p][p] + 1 \in 0..MaxOps /\ saved[p] + 1 \in 0..MaxOps
    BY <2>1, <2>2
  <2>4. registry' \in [Procs -> 0..MaxOps] /\ saved' \in [Procs -> 0..MaxOps]
    BY <1>16, <2>2, <2>3 DEF Save
  <2>5. TypeOK'
    BY <1>16, <2>4 DEF Save, Types, TypeOK, Goto, PCs, Working
  <2>6. \A q \in Procs : saved[q] <= saved'[q]
    BY <1>16, <2>2 DEF Save
  <2>7. \A q \in Procs : registry'[q] <= saved'[q]
    BY <1>16, <2>2 DEF Save, Types, Counted
  <2>8. \A r, q \in Procs : local'[r][q] <= saved'[q]
    <3> SUFFICES ASSUME NEW r \in Procs, NEW q \in Procs PROVE local'[r][q] <= saved'[q]
      OBVIOUS
    <3>1. local[r][q] \in Nat /\ saved[q] \in Nat /\ saved'[q] \in Nat
      BY <2>2, <2>4 DEF Types, TypeOK
    <3>2. local[r][q] <= saved[q] /\ local' = local
      BY <1>16 DEF Save, Types, Counted
    <3> QED
      BY <2>6, <3>1, <3>2
  <2>9. \A r \in Procs : pc'[r] \notin {"off", "unlock", "remove"} \cup Undoing
                         => saved'[r] < MaxOps
    BY <1>16, <2>2 DEF Save, Types, TypeOK, Counted, Goto
  <2> QED
    BY <2>5, <2>7, <2>8, <2>9 DEF Types, Counted
<1>17. ASSUME NEW p \in Procs, UpdateFails(p) PROVE Types'
  BY <1>17, <1>k, <1>t, GotoControl DEF UpdateFails, PCs, Working, Undoing
<1>18. ASSUME NEW p \in Procs, UnlinkOwner(p) PROVE Types'
  BY <1>18, <1>k, <1>t, TouchType, EntryTypes, GotoControl DEF UnlinkOwner, PCs, Working
<1>19. ASSUME NEW p \in Procs, RemoveDir(p) PROVE Types'
  BY <1>19, <1>k, EndControl DEF RemoveDir
<1>20. ASSUME NEW p \in Procs, Crash(p) PROVE Types'
  BY <1>20, <1>k, <1>t, EndControl, EndedType DEF Crash
<1>21. CASE Age
  <2>1. slow' \in 0..MaxSlow
    BY <1>21, <1>f DEF Age, Types, TypeOK
  <2>2. dir' \in Dir
    BY <1>21, <1>t DEF Age, Dir
  <2> QED
    BY <1>21, <2>1, <2>2 DEF Age, Types, TypeOK, Counted
<1>22. CASE UNCHANGED vars
  BY <1>22 DEF vars, Types, TypeOK, Counted
<1> QED
  BY <1>1, <1>2, <1>3, <1>4, <1>5, <1>6, <1>7, <1>8, <1>9, <1>10, <1>11, <1>12, <1>13,
     <1>14, <1>15, <1>16, <1>17, <1>18, <1>19, <1>20, <1>21, <1>22 DEF Next, Proceed

\* Every variable keeps its type, whatever crashes, fails or takes too long: in
\* particular no process goes over its retry budget (acquireLock), and no
\* registry holds an update that save() did not write.
THEOREM RegistryTypesCorrect == Spec => []TypeOK
<1>1. Types => TypeOK
  BY DEF Types
<1> QED
  BY TypesInit, TypesStep, <1>1, PTL DEF Spec

---------------------------------------------------------------------------
(* Mutual exclusion, when nothing fails.                                   *)

\* What concerns the holder, and what concerns those who wait.
Held == /\ SingleClaimant /\ DirIsClaimed /\ DirIsVersioned /\ Entries
        /\ LoadedIsCurrent /\ NothingLost
Seen == NothingStale /\ SnapshotsTrue

\* The invariant holds before anybody starts.
LEMMA RegistryInit == Init => Held /\ Seen
<1> SUFFICES ASSUME Init PROVE Held /\ Seen
  OBVIOUS
<1>1. Claimants = {}
  BY DEF Init, Claimants, Working, Claiming, Undoing
<1>2. SingleClaimant /\ DirIsClaimed /\ DirIsVersioned
  BY <1>1 DEF Init, SingleClaimant, DirIsClaimed, DirIsVersioned
<1>3. Entries /\ LoadedIsCurrent /\ NothingLost
  BY DEF Init, Entries, LoadedIsCurrent, NothingLost, Critical
<1>4. Seen
  BY DEF Init, Seen, NothingStale, SnapshotsTrue, NoDir, NoSnapshot, Looking, Undoing
<1> QED
  BY <1>2, <1>3, <1>4 DEF Held

\* An owner file names a process that is under the lock.
LEMMA OwnerClaims ==
  ASSUME RegistryInv, dir.owner # Nobody
  PROVE  dir.owner \in Procs /\ pc[dir.owner] \in Critical
<1>1. dir # NoDir
  BY DEF NoDir
<1>2. PICK c \in Procs : pc[c] \in Working \cup Claiming
  BY <1>1 DEF RegistryInv, DirIsClaimed, Claimants, NothingStale
<1> QED
  BY <1>2 DEF RegistryInv, Entries, Working, Claiming, Critical

\* A process that waits, and goes on waiting or gives up, takes nothing from
\* the holder.
LEMMA Bystander ==
  ASSUME RegistryInv, NEW p \in Procs, p \notin Claimants, NEW label,
         label \notin Working \cup Claiming \cup Undoing, Goto(p, label),
         dir' = dir, registry' = registry, saved' = saved,
         \A q \in Procs \ {p} : local'[q] = local[q]
  PROVE  Held' /\ Claimants' = Claimants
<1> USE DEF RegistryInv
<1>0. pc \in [Procs -> PCs]
  BY DEF Types, TypeOK
<1>1. Claimants' = Claimants
  BY <1>0 DEF Claimants, Goto
<1>2. SingleClaimant' /\ DirIsClaimed' /\ DirIsVersioned'
  BY <1>1 DEF SingleClaimant, DirIsClaimed, DirIsVersioned
<1>3. label \notin {"tmp", "rename", "remove", "save"} \cup Critical
  BY DEF Working, Claiming, Critical
<1>4. Entries'
  BY <1>0, <1>3 DEF Entries, Goto
<1>5. LoadedIsCurrent' /\ NothingLost'
  BY <1>0, <1>3 DEF LoadedIsCurrent, NothingLost, Goto
<1> QED
  BY <1>1, <1>2, <1>4, <1>5 DEF Held

\* The same for what the others have read.
LEMMA BystanderSeen ==
  ASSUME RegistryInv, NEW p \in Procs, NEW label, Goto(p, label),
         label \notin Undoing \cup {"reread", "break"} \cup Looking,
         dir' = dir, snap' \in {snap, [snap EXCEPT ![p] = NoSnapshot]}
  PROVE  Seen'
<1> USE DEF RegistryInv
<1>0. pc \in [Procs -> PCs] /\ snap \in [Procs -> Snapshot]
  BY DEF Types, TypeOK
<1>1. NothingStale'
  BY <1>0 DEF NothingStale, Goto, NoSnapshot
<1>2. SnapshotsTrue'
  BY <1>0 DEF SnapshotsTrue, Goto, Looking
<1> QED
  BY <1>1, <1>2 DEF Seen

\* Another turn of the loop, or giving up, is harmless.
LEMMA RetryHarmless ==
  ASSUME RegistryInv, NEW p \in Procs, p \notin Claimants, Retry(p),
         registry' = registry, saved' = saved
  PROVE  Held' /\ Seen'
<1> USE DEF RegistryInv
<1>1. dir.owner # p
  <2> SUFFICES ASSUME dir.owner = p PROVE FALSE
    OBVIOUS
  <2>1. pc[p] \in Critical
    BY OwnerClaims, NamesAssumption
  <2> QED
    BY <2>1 DEF Claimants, Critical, Working
<1>2. dir' = dir
  BY <1>1, EndedType DEF Retry, Types, TypeOK
<1>3. PICK label \in {"mkdir", "off"} : Goto(p, label)
  BY DEF Retry, End
<1>4. snap' = [snap EXCEPT ![p] = NoSnapshot]
  BY DEF Retry, End
<1>5. \A q \in Procs \ {p} : local'[q] = local[q]
  BY DEF Retry, End, Types, TypeOK
<1>6. Held'
  BY <1>2, <1>3, <1>5, Bystander DEF Working, Claiming, Undoing
<1>7. Seen'
  BY <1>2, <1>3, <1>4, BystanderSeen DEF Looking, Undoing
<1> QED
  BY <1>6, <1>7

\* A step that changes entries of LOCK_DIR leaves what the others have read
\* behind: no snapshot has the new version.
LEMMA TouchSeen ==
  ASSUME RegistryInv, NEW p \in Procs, NEW label, Goto(p, label), snap' = snap,
         label \notin Undoing \cup {"reread", "break"} \cup Looking,
         NEW d \in Dir, Touch(d), ~d.gone
  PROVE  Seen' /\ DirIsVersioned' /\ dir' # NoDir
<1> USE DEF RegistryInv
<1>0. pc \in [Procs -> PCs] /\ snap \in [Procs -> Snapshot]
  BY DEF Types, TypeOK
<1>1. dir'.version \in FreshVersions /\ ~dir'.gone /\ ~dir'.old
  BY TouchType
<1>2. dir'.version \in Versions /\ \A q \in Procs : snap[q].version # dir'.version
  BY <1>1 DEF FreshVersions
<1>3. NothingStale'
  BY <1>0, <1>1 DEF NothingStale, Goto
<1>4. SnapshotsTrue'
  BY <1>0, <1>2 DEF SnapshotsTrue, Goto, Looking
<1>5. DirIsVersioned' /\ dir' # NoDir
  BY <1>2, NamesAssumption DEF DirIsVersioned, NoDir
<1> QED
  BY <1>3, <1>4, <1>5 DEF Seen

\* The claimant moves on and stays the only one.
LEMMA ClaimantMoves ==
  ASSUME RegistryInv, NEW p \in Claimants, NEW label, Goto(p, label),
         label \in Working \cup Claiming, dir' # NoDir
  PROVE  /\ Claimants' = {p} /\ SingleClaimant' /\ DirIsClaimed'
         /\ \A q \in Procs \ {p} : pc'[q] \notin Working \cup Claiming \cup Undoing
<1> USE DEF RegistryInv
<1>0. pc \in [Procs -> PCs] /\ p \in Procs
  BY DEF Types, TypeOK, Claimants
<1>1. \A q \in Procs \ {p} : pc'[q] \notin Working \cup Claiming \cup Undoing
  BY <1>0 DEF SingleClaimant, Claimants, Goto
<1>2. Claimants' = {p}
  BY <1>0, <1>1 DEF Claimants, Goto
<1>3. SingleClaimant' /\ DirIsClaimed'
  BY <1>2 DEF SingleClaimant, DirIsClaimed
<1> QED
  BY <1>1, <1>2, <1>3

\* A fault and a slow update are counted for good.
LEMMA DisturbanceCounts == TypeOK /\ [Next]_vars /\ Undisturbed' => Undisturbed
<1> SUFFICES ASSUME TypeOK, [Next]_vars PROVE faults' \in {faults, faults + 1}
                                             /\ slow' \in {slow, slow + 1}
  BY BudgetAssumption DEF TypeOK, Undisturbed
<1>1. ASSUME NEW p \in Procs, Start(p) \/ Proceed(p)
      PROVE  faults' \in {faults, faults + 1} /\ slow' = slow
  BY <1>1 DEF Start, Proceed, MkDir, StatLock, ReadOwner, Judge, RestatLock, RereadOwner,
              BreakLock, WriteOwnerTmp, RenameOwner, OwnerFails, UndoTmp, UndoOwner, UndoDir,
              Load, Save, UnlinkOwner, RemoveDir, Fault
<1>2. ASSUME NEW p \in Procs, UpdateFails(p) \/ Crash(p)
      PROVE  faults' = faults + 1 /\ slow' = slow
  BY <1>2 DEF UpdateFails, Crash, Fault
<1>3. CASE Age
  BY <1>3 DEF Age
<1>4. CASE UNCHANGED vars
  BY <1>4 DEF vars
<1> QED
  BY <1>1, <1>2, <1>3, <1>4 DEF Next

\* Every step that is not a fault keeps the rest of the invariant.
LEMMA RegistryStep == RegistryInv /\ [Next]_vars /\ Undisturbed' => Held' /\ Seen'
<1> SUFFICES ASSUME RegistryInv, [Next]_vars, Undisturbed' PROVE Held' /\ Seen'
  OBVIOUS
<1> USE NamesAssumption DEF RegistryInv
<1>t. /\ dir \in Dir /\ pc \in [Procs -> PCs] /\ snap \in [Procs -> Snapshot]
      /\ registry \in [Procs -> 0..MaxOps] /\ saved \in [Procs -> 0..MaxOps]
      /\ local \in [Procs -> [Procs -> 0..MaxOps]]
  BY DEF Types, TypeOK
<1>f. ~Fault
  BY BudgetAssumption DEF Undisturbed, Fault, Types, TypeOK
<1>c. \A p \in Procs : pc[p] \in {"off", "mkdir", "stat", "owner", "judge", "restat"}
                       => p \notin Claimants
  BY DEF Claimants, Working, Claiming, Undoing
<1>d. \A p \in Procs : pc[p] \in Working \cup Claiming => p \in Claimants /\ dir # NoDir
  BY DEF Claimants, DirIsClaimed
<1>1. ASSUME NEW p \in Procs, Start(p) PROVE Held' /\ Seen'
  <2>1. Held'
    BY <1>1, <1>c, Bystander DEF Start, Working, Claiming, Undoing
  <2>2. Seen'
    BY <1>1, BystanderSeen DEF Start, Looking, Undoing
  <2> QED
    BY <2>1, <2>2
<1>2. ASSUME NEW p \in Procs, MkDir(p) PROVE Held' /\ Seen'
  <2>1. CASE dir # NoDir
    <3>1. Held'
      BY <1>2, <1>c, <2>1, Bystander DEF MkDir, Working, Claiming, Undoing
    <3>2. Seen'
      BY <1>2, <2>1, BystanderSeen DEF MkDir, Looking, Undoing
    <3> QED
      BY <3>1, <3>2
  <2>2. CASE dir = NoDir
    <3>1. Touch(NoDir) /\ Goto(p, "tmp") /\ UNCHANGED <<registry, snap, local, saved>>
      BY <1>2, <2>2 DEF MkDir
    <3>2. NoDir \in Dir /\ ~NoDir.gone /\ NoDir.owner = Nobody /\ NoDir.tmps = {}
      BY DefaultTypes DEF NoDir
    <3>3. Seen' /\ DirIsVersioned' /\ dir' # NoDir
      BY <3>1, <3>2, TouchSeen DEF Looking, Undoing
    <3>4. Claimants = {}
      BY <2>2 DEF DirIsClaimed
    <3>5. \A q \in Procs \ {p} : pc'[q] \notin Working \cup Claiming \cup Undoing
      BY <1>t, <3>1, <3>4 DEF Claimants, Goto
    <3>6. Claimants' = {p}
      BY <1>t, <3>1, <3>5 DEF Claimants, Goto, Claiming
    <3>7. SingleClaimant' /\ DirIsClaimed'
      BY <3>3, <3>6 DEF SingleClaimant, DirIsClaimed
    <3>8. dir'.owner = Nobody /\ dir'.tmps = {}
      BY <3>1, <3>2, TouchType
    <3>9. Entries'
      BY <1>t, <3>1, <3>5, <3>8 DEF Entries, Goto, Working, Claiming, Critical
    <3>10. LoadedIsCurrent' /\ NothingLost'
      BY <1>t, <3>1 DEF LoadedIsCurrent, NothingLost, Goto
    <3> QED
      BY <3>3, <3>7, <3>9, <3>10 DEF Held
  <2> QED
    BY <2>1, <2>2
<1>3. ASSUME NEW p \in Procs, StatLock(p) PROVE Held' /\ Seen'
  <2>1. CASE dir = NoDir
    BY <1>3, <1>c, <2>1, RetryHarmless DEF StatLock
  <2>2. CASE dir # NoDir
    <3> DEFINE seen == [version |-> dir.version, owner |-> Nobody, old |-> dir.old]
    <3>1. /\ snap' = [snap EXCEPT ![p] = seen] /\ Goto(p, "owner") /\ pc[p] = "stat"
          /\ UNCHANGED <<dir, registry, saved, local>>
      BY <1>3, <2>2 DEF StatLock
    <3>2. Held'
      BY <1>c, <3>1, Bystander DEF Working, Claiming, Undoing
    <3>3. seen.version # NoVersion /\ ~seen.old
      BY <2>2 DEF DirIsVersioned, NothingStale
    <3> HIDE DEF seen
    <3>4. NothingStale'
      BY <1>t, <3>1, <3>3 DEF NothingStale, Goto, Undoing
    <3>5. SnapshotsTrue'
      BY <1>t, <3>1, <3>3 DEF SnapshotsTrue, Goto, Looking
    <3> QED
      BY <3>2, <3>4, <3>5 DEF Seen
  <2> QED
    BY <2>1, <2>2
<1>4. ASSUME NEW p \in Procs, ReadOwner(p) PROVE Held' /\ Seen'
  <2> DEFINE seen == [snap[p] EXCEPT !.owner = dir.owner]
  <2>1. /\ snap' = [snap EXCEPT ![p] = seen] /\ Goto(p, "judge") /\ pc[p] = "owner"
        /\ UNCHANGED <<dir, registry, saved, local>>
    BY <1>4, <1>t DEF ReadOwner
  <2>2. Held'
    BY <1>c, <2>1, Bystander DEF Working, Claiming, Undoing
  <2>3. seen.version # NoVersion /\ ~seen.old /\ seen.owner = dir.owner
    BY <1>t, <2>1 DEF SnapshotsTrue, NothingStale, Looking, Snapshot
  <2> HIDE DEF seen
  <2>4. NothingStale'
    BY <1>t, <2>1, <2>3 DEF NothingStale, Goto, Undoing
  <2>5. SnapshotsTrue'
    BY <1>t, <2>1, <2>3 DEF SnapshotsTrue, Goto, Looking
  <2> QED
    BY <2>2, <2>4, <2>5 DEF Seen
<1>5. ASSUME NEW p \in Procs, Judge(p) PROVE Held' /\ Seen'
  <2>1. CASE classifyExistingLock(snap[p])
    <3>1. /\ Goto(p, "restat") /\ pc[p] = "judge"
          /\ UNCHANGED <<dir, registry, saved, local, snap>>
      BY <1>5, <2>1 DEF Judge
    <3>2. Held'
      BY <1>c, <3>1, Bystander DEF Working, Claiming, Undoing
    <3>3. snap[p].version # dir.version
      <4> SUFFICES ASSUME snap[p].version = dir.version PROVE FALSE
        OBVIOUS
      <4>1. /\ snap[p].owner # Nobody
            /\ pc[snap[p].owner] = "off" \/ (dir.owner = snap[p].owner /\ dir.gone)
        BY <2>1 DEF classifyExistingLock, NothingStale
      <4>2. snap[p].owner = dir.owner
        BY <3>1, <4>1 DEF SnapshotsTrue
      <4>3. pc[dir.owner] \in Critical /\ ~dir.gone
        BY <4>1, <4>2, OwnerClaims DEF NothingStale
      <4> QED
        BY <4>1, <4>2, <4>3 DEF Critical
    <3>4. NothingStale'
      BY <1>t, <3>1 DEF NothingStale, Goto, Undoing
    <3>5. SnapshotsTrue'
      BY <1>t, <3>1, <3>3 DEF SnapshotsTrue, Goto, Looking
    <3> QED
      BY <3>2, <3>4, <3>5 DEF Seen
  <2>2. CASE ~classifyExistingLock(snap[p])
    BY <1>5, <1>c, <2>2, RetryHarmless DEF Judge
  <2> QED
    BY <2>1, <2>2
<1>6. ASSUME NEW p \in Procs, RestatLock(p) PROVE Held' /\ Seen'
  <2>1. dir.version # snap[p].version
    BY <1>6 DEF RestatLock, SnapshotsTrue
  <2> QED
    BY <1>6, <1>c, <2>1, RetryHarmless DEF RestatLock
<1>7. ASSUME NEW p \in Procs, RereadOwner(p) \/ BreakLock(p) PROVE FALSE
  BY <1>7 DEF RereadOwner, BreakLock, NothingStale
<1>8. ASSUME NEW p \in Procs, UndoTmp(p) \/ UndoOwner(p) \/ UndoDir(p) PROVE FALSE
  BY <1>8 DEF UndoTmp, UndoOwner, UndoDir, NothingStale, Undoing
<1>9. ASSUME NEW p \in Procs, UpdateFails(p) \/ Crash(p) PROVE FALSE
  BY <1>9, <1>f DEF UpdateFails, Crash
<1>10. ASSUME NEW p \in Procs, OwnerFails(p) PROVE FALSE
  <2>1. pc[p] = "tmp" => dir # NoDir
    BY <1>d DEF Claiming
  <2>2. pc[p] = "rename" => p \in dir.tmps
    BY DEF Entries
  <2> QED
    BY <1>10, <1>f, <2>1, <2>2 DEF OwnerFails
<1>11. ASSUME NEW p \in Procs, WriteOwnerTmp(p) PROVE Held' /\ Seen'
  <2> DEFINE d == [dir EXCEPT !.tmps = @ \cup {p}]
  <2>1. /\ Touch(d) /\ Goto(p, "rename") /\ pc[p] = "tmp"
        /\ UNCHANGED <<registry, snap, local, saved>>
    BY <1>11 DEF WriteOwnerTmp
  <2>2. dir.tmps = {} /\ dir.owner = Nobody /\ ~dir.gone
    BY <2>1 DEF Entries, NothingStale
  <2>3. d \in Dir /\ ~d.gone /\ d.owner = Nobody /\ d.tmps = {p}
    BY <1>t, <2>2, EntryTypes DEF Dir
  <2> HIDE DEF d
  <2>4. Seen' /\ DirIsVersioned' /\ dir' # NoDir
    BY <2>1, <2>3, TouchSeen DEF Looking, Undoing
  <2>5. /\ SingleClaimant' /\ DirIsClaimed'
        /\ \A q \in Procs \ {p} : pc'[q] \notin Working \cup Claiming \cup Undoing
    BY <1>d, <2>1, <2>4, ClaimantMoves DEF Claiming
  <2>6. dir'.owner = Nobody /\ dir'.tmps = {p}
    BY <2>1, <2>3, TouchType
  <2>7. Entries'
    BY <1>t, <2>1, <2>5, <2>6 DEF Entries, Goto, Working, Claiming, Critical
  <2>8. LoadedIsCurrent' /\ NothingLost'
    BY <1>t, <2>1 DEF LoadedIsCurrent, NothingLost, Goto
  <2> QED
    BY <2>4, <2>5, <2>7, <2>8 DEF Held
<1>12. ASSUME NEW p \in Procs, RenameOwner(p) PROVE Held' /\ Seen'
  <2> DEFINE d == [dir EXCEPT !.tmps = @ \ {p}, !.owner = p, !.gone = FALSE]
  <2>1. /\ Touch(d) /\ Goto(p, "load") /\ pc[p] = "rename"
        /\ UNCHANGED <<registry, snap, local, saved>>
    BY <1>12 DEF RenameOwner
  <2>2. dir.tmps = {p}
    BY <2>1 DEF Entries
  <2>3. d \in Dir /\ ~d.gone /\ d.owner = p /\ d.tmps = {}
    <3>1. d \in Dir
      BY <1>t, EntryTypes
    <3>2. ~d.gone /\ d.owner = p /\ d.tmps = dir.tmps \ {p}
      BY <1>t DEF Dir
    <3> QED
      BY <2>2, <3>1, <3>2
  <2> HIDE DEF d
  <2>4. Seen' /\ DirIsVersioned' /\ dir' # NoDir
    BY <2>1, <2>3, TouchSeen DEF Looking, Undoing
  <2>5. /\ SingleClaimant' /\ DirIsClaimed'
        /\ \A q \in Procs \ {p} : pc'[q] \notin Working \cup Claiming \cup Undoing
    BY <1>d, <2>1, <2>4, ClaimantMoves DEF Claiming, Working
  <2>6. dir'.owner = p /\ dir'.tmps = {}
    BY <2>1, <2>3, TouchType
  <2>7. Entries'
    BY <1>t, <2>1, <2>5, <2>6 DEF Entries, Goto, Working, Claiming, Critical
  <2>8. LoadedIsCurrent' /\ NothingLost'
    BY <1>t, <2>1 DEF LoadedIsCurrent, NothingLost, Goto
  <2> QED
    BY <2>4, <2>5, <2>7, <2>8 DEF Held
<1>13. ASSUME NEW p \in Procs, Load(p) \/ Save(p) PROVE Held' /\ Seen'
  <2>1. PICK label \in {"save", "unlock"} : Goto(p, label)
    BY <1>13 DEF Load, Save
  <2>2. UNCHANGED <<dir, snap>> /\ pc[p] \in {"load", "save"}
    BY <1>13 DEF Load, Save
  <2>3. Seen'
    BY <2>1, <2>2, BystanderSeen DEF Looking, Undoing
  <2>4. p \in Claimants /\ dir # NoDir
    BY <1>d, <2>2 DEF Working
  <2>5. /\ SingleClaimant' /\ DirIsClaimed'
        /\ \A q \in Procs \ {p} : pc'[q] \notin Working \cup Claiming \cup Undoing
    BY <2>1, <2>2, <2>4, ClaimantMoves DEF Working
  <2>6. dir.tmps = {} /\ dir.owner = p
    BY <2>2 DEF Entries, Critical
  <2>7. Entries' /\ DirIsVersioned'
    BY <1>t, <2>1, <2>2, <2>5, <2>6
       DEF Entries, Goto, Working, Claiming, Critical, DirIsVersioned
  <2>8. LoadedIsCurrent'
    <3> SUFFICES ASSUME NEW q \in Procs, pc'[q] = "save" PROVE local'[q] = registry'
      BY DEF LoadedIsCurrent
    <3>1. q = p
      BY <2>5 DEF Working
    <3>2. Load(p)
      BY <1>13, <1>t, <3>1 DEF Save, Goto
    <3> QED
      BY <1>t, <3>1, <3>2 DEF Load
  <2>9. NothingLost'
    <3>1. CASE Load(p)
      BY <3>1 DEF Load, NothingLost
    <3>2. CASE Save(p)
      <4>1. local[p] = saved
        BY <3>2 DEF Save, LoadedIsCurrent, NothingLost
      <4> QED
        BY <3>2, <4>1 DEF Save, NothingLost
    <3> QED
      BY <1>13, <3>1, <3>2
  <2> QED
    BY <2>3, <2>5, <2>7, <2>8, <2>9 DEF Held
<1>14. ASSUME NEW p \in Procs, UnlinkOwner(p) PROVE Held' /\ Seen'
  <2> DEFINE d == [dir EXCEPT !.owner = Nobody, !.gone = FALSE]
  <2>0. pc[p] = "unlock" /\ dir.owner = p /\ dir.tmps = {}
    BY <1>14 DEF UnlinkOwner, Entries, Critical
  <2>1. Touch(d) /\ Goto(p, "remove") /\ UNCHANGED <<registry, snap, local, saved>>
    BY <1>14, <2>0 DEF UnlinkOwner
  <2>3. d \in Dir /\ ~d.gone /\ d.owner = Nobody /\ d.tmps = {}
    BY <1>t, <2>0, EntryTypes DEF Dir
  <2> HIDE DEF d
  <2>4. Seen' /\ DirIsVersioned' /\ dir' # NoDir
    BY <2>1, <2>3, TouchSeen DEF Looking, Undoing
  <2>5. /\ SingleClaimant' /\ DirIsClaimed'
        /\ \A q \in Procs \ {p} : pc'[q] \notin Working \cup Claiming \cup Undoing
    BY <1>d, <2>0, <2>1, <2>4, ClaimantMoves DEF Working
  <2>6. dir'.owner = Nobody /\ dir'.tmps = {}
    BY <2>1, <2>3, TouchType
  <2>7. Entries'
    BY <1>t, <2>1, <2>5, <2>6 DEF Entries, Goto, Working, Claiming, Critical
  <2>8. LoadedIsCurrent' /\ NothingLost'
    BY <1>t, <2>1 DEF LoadedIsCurrent, NothingLost, Goto
  <2> QED
    BY <2>4, <2>5, <2>7, <2>8 DEF Held
<1>15. ASSUME NEW p \in Procs, RemoveDir(p) PROVE Held' /\ Seen'
  <2>1. /\ pc[p] = "remove" /\ dir' = NoDir /\ Goto(p, "off")
        /\ snap' = [snap EXCEPT ![p] = NoSnapshot]
        /\ \A q \in Procs \ {p} : local'[q] = local[q]
        /\ UNCHANGED <<registry, saved>>
    BY <1>15, <1>t DEF RemoveDir, End
  <2>2. \A q \in Procs : pc'[q] \notin Working \cup Claiming \cup Undoing
    BY <1>t, <1>d, <2>1 DEF SingleClaimant, Claimants, Goto, Working, Claiming, Undoing
  <2>3. Claimants' = {}
    BY <2>2 DEF Claimants
  <2>4. SingleClaimant' /\ DirIsClaimed' /\ DirIsVersioned'
    BY <2>1, <2>3 DEF SingleClaimant, DirIsClaimed, DirIsVersioned
  <2>5. Entries' /\ LoadedIsCurrent' /\ NothingLost'
    BY <2>1, <2>2
       DEF Entries, LoadedIsCurrent, NothingLost, Working, Claiming, Critical
  <2>6. NothingStale'
    BY <1>t, <2>1 DEF NothingStale, Goto, Undoing, NoDir, NoSnapshot
  <2>7. SnapshotsTrue'
    BY <1>t, <2>1 DEF SnapshotsTrue, Goto, Looking, NoDir
  <2> QED
    BY <2>4, <2>5, <2>6, <2>7 DEF Held, Seen
<1>16. CASE Age
  <2>1. Claimants # {}
    BY <1>16 DEF Age, DirIsClaimed
  <2> QED
    BY <1>16, <2>1, BudgetAssumption DEF Age, Undisturbed, Types, TypeOK
<1>17. CASE UNCHANGED vars
  <2>1. Claimants' = Claimants
    BY <1>17 DEF vars, Claimants
  <2>2. Held'
    BY <1>17, <2>1 DEF vars, Held, SingleClaimant, DirIsClaimed, DirIsVersioned, Entries,
                       LoadedIsCurrent, NothingLost
  <2>3. Seen'
    BY <1>17 DEF vars, Seen, NothingStale, SnapshotsTrue
  <2> QED
    BY <2>2, <2>3
<1> QED
  BY <1>1, <1>2, <1>3, <1>4, <1>5, <1>6, <1>7, <1>8, <1>9, <1>10, <1>11, <1>12, <1>13,
     <1>14, <1>15, <1>16, <1>17 DEF Next, Proceed

\* RegistryInv holds in every state until a fault, whatever the bounds on faults.
THEOREM RegistryInvCorrect == Spec => [](Undisturbed => RegistryInv)
<1> DEFINE Inv == Types /\ (Undisturbed => RegistryInv)
<1>1. Init => Inv
  BY TypesInit, RegistryInit DEF RegistryInv, Held, Seen
<1>2. Inv /\ [Next]_vars => Inv'
  <2> SUFFICES ASSUME Inv, [Next]_vars PROVE Inv'
    OBVIOUS
  <2>1. Types'
    BY TypesStep
  <2>2. ASSUME Undisturbed' PROVE RegistryInv'
    <3>1. RegistryInv
      BY <2>2, DisturbanceCounts DEF Types
    <3> QED
      BY <2>1, <2>2, <3>1, RegistryStep DEF RegistryInv, Held, Seen
  <2> QED
    BY <2>1, <2>2
<1> QED
  BY <1>1, <1>2, PTL DEF Spec

\* sandboxes.json holds every update that save() returned from: until a fault, a
\* command that loaded the registry before another's save never writes over it
\* (withLock).
THEOREM NoLostUpdateCorrect == Spec => []NoLostUpdate
<1>1. (Undisturbed => RegistryInv) => NoLostUpdate
  BY DEF RegistryInv, NothingLost, NoLostUpdate
<1> QED
  BY <1>1, RegistryInvCorrect, PTL

\* While a command updates the registry the owner file names it, so a waiter
\* can tell the lock is held and releaseLock removes only the caller's lock;
\* until a fault.
THEOREM OwnerFileNamesHolderCorrect == Spec => []OwnerFileNamesHolder
<1>1. (Undisturbed => RegistryInv) => OwnerFileNamesHolder
  BY DEF RegistryInv, Entries, Critical, OwnerFileNamesHolder
<1> QED
  BY <1>1, RegistryInvCorrect, PTL
============================================================================
