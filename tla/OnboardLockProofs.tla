------------------------- MODULE OnboardLockProofs -------------------------
(***************************************************************************)
(* Mutual exclusion of the onboard lock, for any number of processes and   *)
(* any retry budget, until a process crashes inside the protocol or a      *)
(* write takes 30 s or fails, if no remembered inode number comes back.    *)
(* With inode numbers that come back mutual exclusion fails; so it does    *)
(* after a crash: two processes that clean up after the crashed one may    *)
(* both pass the inode check before either unlinks.  The types and the     *)
(* retry budget hold whatever fails.                                       *)
(***************************************************************************)
EXTENDS OnboardLock, TLAPS

\* The invariant holds before anybody starts.
LEMMA LockInit == Init => LockInv
<1> SUFFICES ASSUME Init PROVE LockInv
  OBVIOUS
<1>1. TypeOK
  BY BudgetAssumption DEF Init, TypeOK, PCs, Content, Malformed, Snapshot, NoSnapshot
<1>2. BudgetKept
  BY BudgetAssumption DEF Init, BudgetKept
<1>3. OwnersHaveFile /\ OwnerIsLinked /\ SingleOwner /\ LinkedIsOwned
  BY DEF Init, OwnersHaveFile, OwnerIsLinked, SingleOwner, LinkedIsOwned, Owners
<1>4. NothingOld /\ JudgesLive /\ StaleIsGone
  BY DEF Init, NothingOld, JudgesLive, StaleIsGone, NoSnapshot
<1> QED
  BY <1>1, <1>2, <1>3, <1>4 DEF LockInv

\* Marking a payload's writer as gone leaves a payload.
LEMMA GoneIsContent ==
  ASSUME NEW c \in Content, NEW p \in Procs
  PROVE  [c EXCEPT !.gone = @ \/ c.pid = p] \in Content
BY DEF Content

\* The default values are a payload and a snapshot.
LEMMA DefaultTypes == Malformed \in Content /\ NoSnapshot \in Snapshot
BY DEF Malformed, Content, NoSnapshot, Snapshot

\* What readLockFileSnapshot builds is a snapshot.
LEMMA SnapshotType ==
  ASSUME NEW i \in Inodes, NEW c \in Content, NEW b \in BOOLEAN
  PROVE  [inode |-> i, info |-> c, old |-> b] \in Snapshot
BY DEF Snapshot

\* Every step keeps the types and the retry budget.
LEMMA LockTypes == TypeOK /\ BudgetKept /\ [Next]_vars => TypeOK' /\ BudgetKept'
<1> SUFFICES ASSUME TypeOK, BudgetKept, [Next]_vars PROVE TypeOK' /\ BudgetKept'
  OBVIOUS
<1> USE NamesAssumption, DefaultTypes DEF TypeOK, BudgetKept, Goto
<1>m. MAX_ATTEMPTS \in Nat /\ 0 < MAX_ATTEMPTS
  BY BudgetAssumption
<1> DEFINE Control == /\ pc' \in [Procs -> PCs]
                      /\ attempt' \in [Procs -> 0..MAX_ATTEMPTS]
                      /\ BudgetKept'
<1>a. ASSUME NEW p \in Procs, NEW label \in PCs, label # "exhausted",
             pc[p] # "exhausted", Goto(p, label), attempt' = attempt
      PROVE  Control
  BY <1>a
<1>b. ASSUME NEW p \in Procs, pc[p] # "exhausted", Retry(p)
      PROVE  Control /\ snap' \in [Procs -> Snapshot]
  <2>0. attempt[p] \in 0..MAX_ATTEMPTS /\ attempt[p] < MAX_ATTEMPTS
    BY <1>b
  <2>1. attempt[p] + 1 \in 0..MAX_ATTEMPTS
    BY <1>m, <2>0
  <2>2. attempt' \in [Procs -> 0..MAX_ATTEMPTS]
    BY <1>b, <2>1 DEF Retry
  <2>3. pc' \in [Procs -> PCs]
    BY <1>b DEF Retry, PCs
  <2>4. BudgetKept'
    BY <1>b, <2>1 DEF Retry
  <2>5. snap' \in [Procs -> Snapshot]
    BY <1>b DEF Retry
  <2> QED
    BY <2>2, <2>3, <2>4, <2>5
<1>c. ASSUME NEW p \in Procs, Exit(p)
      PROVE  /\ Control
             /\ snap' \in [Procs -> Snapshot]
             /\ fd' \in [Procs -> Inodes \cup {NoFile}]
             /\ content' \in [Inodes -> Content]
  <2>1. Control
    BY <1>c, <1>m DEF Exit, PCs
  <2>2. snap' \in [Procs -> Snapshot] /\ fd' \in [Procs -> Inodes \cup {NoFile}]
    BY <1>c DEF Exit
  <2>3. \A i \in Inodes :
          [content[i] EXCEPT !.gone = @ \/ content[i].pid = p] \in Content
    BY GoneIsContent
  <2>4. content' \in [Inodes -> Content]
    BY <1>c, <2>3 DEF Exit
  <2> QED
    BY <2>1, <2>2, <2>4
<1> HIDE DEF Control
<1>d. Control => /\ pc' \in [Procs -> PCs]
                 /\ attempt' \in [Procs -> 0..MAX_ATTEMPTS]
                 /\ BudgetKept'
  BY DEF Control
<1>1. ASSUME NEW p \in Procs, Start(p) PROVE TypeOK' /\ BudgetKept'
  <2>1. Control
    BY <1>1, <1>a DEF Start, PCs
  <2> QED
    BY <1>1, <1>d, <2>1 DEF Start
<1>2. ASSUME NEW p \in Procs, Create(p) PROVE TypeOK' /\ BudgetKept'
  <2>1. Control
    BY <1>2, <1>a DEF Create, PCs
  <2>2. PICK i \in Inodes :
          /\ path' = i
          /\ content' = [content EXCEPT ![i] = Malformed]
          /\ old' = old \ {i}
          /\ fd' = [fd EXCEPT ![p] = i]
    BY <1>2 DEF Create, FreshInodes
  <2> QED
    BY <1>2, <1>d, <2>1, <2>2 DEF Create
<1>3. ASSUME NEW p \in Procs, Exists(p) PROVE TypeOK' /\ BudgetKept'
  <2>1. Control
    BY <1>3, <1>a DEF Exists, PCs
  <2> QED
    BY <1>3, <1>d, <2>1 DEF Exists
<1>4. ASSUME NEW p \in Procs, readLockFileSnapshot(p) PROVE TypeOK' /\ BudgetKept'
  <2>1. CASE path = NoFile
    BY <1>4, <1>b, <1>d, <2>1 DEF readLockFileSnapshot
  <2>2. CASE path # NoFile
    <3>1. Control
      BY <1>4, <2>2, <1>a DEF readLockFileSnapshot, PCs
    <3>2. [inode |-> path, info |-> content[path], old |-> path \in old] \in Snapshot
      <4>1. (path \in old) \in BOOLEAN
        OBVIOUS
      <4>2. path \in Inodes /\ content[path] \in Content
        BY <2>2
      <4> QED
        BY <4>1, <4>2, SnapshotType
    <3>3. snap' \in [Procs -> Snapshot]
      BY <1>4, <2>2, <3>2 DEF readLockFileSnapshot
    <3> QED
      BY <1>4, <1>d, <3>1, <3>3 DEF readLockFileSnapshot
  <2> QED
    BY <2>1, <2>2
<1>5. ASSUME NEW p \in Procs, Judge(p) PROVE TypeOK' /\ BudgetKept'
  <2>1. Control /\ snap' \in [Procs -> Snapshot]
    <3>1. CASE Retry(p)
      BY <1>5, <1>b, <3>1 DEF Judge
    <3>2. CASE UNCHANGED <<attempt, snap>> /\ \E label \in {"stat", "refused"} : Goto(p, label)
      <4>1. PICK label \in {"stat", "refused"} : Goto(p, label)
        BY <3>2
      <4>2. label \in PCs /\ label # "exhausted" /\ pc[p] # "exhausted"
        BY <1>5 DEF Judge, PCs
      <4>3. Control
        BY <1>a, <3>2, <4>1, <4>2
      <4> QED
        BY <3>2, <4>3
    <3>3. CASE snap[p].info = Malformed
      BY <1>5, <3>1, <3>2, <3>3 DEF Judge
    <3>4. CASE snap[p].info # Malformed
      BY <1>5, <3>2, <3>4, Zenon DEF Judge
    <3> QED
      BY <3>3, <3>4
  <2> QED
    BY <1>5, <1>d, <2>1 DEF Judge
<1>6. ASSUME NEW p \in Procs, StatStale(p) PROVE TypeOK' /\ BudgetKept'
  <2>1. CASE path = snap[p].inode
    <3>1. Control
      BY <1>6, <1>a, <2>1 DEF StatStale, PCs
    <3> QED
      BY <1>6, <1>d, <2>1, <3>1 DEF StatStale
  <2>2. CASE path # snap[p].inode
    BY <1>6, <1>b, <1>d, <2>2 DEF StatStale
  <2> QED
    BY <2>1, <2>2
<1>7. ASSUME NEW p \in Procs, UnlinkStale(p) PROVE TypeOK' /\ BudgetKept'
  BY <1>7, <1>b, <1>d DEF UnlinkStale
<1>8. ASSUME NEW p \in Procs, WritePayload(p) PROVE TypeOK' /\ BudgetKept'
  <2>1. Control
    BY <1>8, <1>a DEF WritePayload, PCs
  <2>2. [pid |-> p, gone |-> FALSE] \in Content
    BY DEF Content
  <2> QED
    BY <1>8, <1>d, <2>1, <2>2 DEF WritePayload
<1>9. ASSUME NEW p \in Procs, WriteFails(p) PROVE TypeOK' /\ BudgetKept'
  BY <1>9, <1>c, <1>d DEF WriteFails
<1>10. ASSUME NEW p \in Procs, Refused(p) PROVE TypeOK' /\ BudgetKept'
  BY <1>10, <1>c, <1>d DEF Refused
<1>11. ASSUME NEW p \in Procs, StatHeld(p) PROVE TypeOK' /\ BudgetKept'
  <2>1. CASE path = fd[p]
    <3>1. Control
      BY <1>11, <1>a, <2>1 DEF StatHeld, PCs
    <3> QED
      BY <1>11, <1>d, <2>1, <3>1 DEF StatHeld
  <2>2. CASE path # fd[p]
    BY <1>11, <1>c, <1>d, <2>2 DEF StatHeld
  <2> QED
    BY <2>1, <2>2
<1>12. ASSUME NEW p \in Procs, RemoveHeld(p) PROVE TypeOK' /\ BudgetKept'
  BY <1>12, <1>c, <1>d DEF RemoveHeld
<1>13. ASSUME NEW p \in Procs, Crash(p) PROVE TypeOK' /\ BudgetKept'
  BY <1>13, <1>c, <1>d DEF Crash
<1>14. ASSUME NEW i \in Inodes, Age(i) PROVE TypeOK' /\ BudgetKept'
  BY <1>14 DEF Age
<1>15. CASE UNCHANGED vars
  BY <1>15 DEF vars
<1> QED
  BY <1>1, <1>2, <1>3, <1>4, <1>5, <1>6, <1>7, <1>8, <1>9, <1>10, <1>11,
     <1>12, <1>13, <1>14, <1>15 DEF Next, Proceed

\* Every variable keeps its type, and no process goes over its retry budget,
\* whatever crashes, fails or is recycled (acquireOnboardLock).
THEOREM LockTypesCorrect == Spec => []TypeOK
<1>1. Init => TypeOK /\ BudgetKept
  BY LockInit DEF LockInv
<1> QED
  BY <1>1, LockTypes, PTL DEF Spec

\* What the file system and the processes remember about the lock, without
\* the types.
Owned == OwnersHaveFile /\ OwnerIsLinked /\ SingleOwner /\ LinkedIsOwned
Judged == NothingOld /\ JudgesLive /\ StaleIsGone

\* A process that leaves the protocol without owning the file disturbs nobody.
LEMMA LeavingIsHarmless ==
  ASSUME LockInv, NEW p \in Procs, p \notin Owners, Exit(p),
         path' = path, old' = old
  PROVE  Owned' /\ Judged'
<1> USE NamesAssumption DEF LockInv, TypeOK, Exit, Goto, Owned, Judged, Owners
<1>1. OwnersHaveFile' /\ OwnerIsLinked' /\ SingleOwner'
  BY DEF OwnersHaveFile, OwnerIsLinked, SingleOwner
<1>2. LinkedIsOwned'
  <2>1. SUFFICES ASSUME path # NoFile PROVE LinkedIsOwned'
    BY DEF LinkedIsOwned
  <2>2. PICK q \in Owners :
          content[path] = IF pc[q] = "write" THEN Malformed
                                            ELSE [pid |-> q, gone |-> FALSE]
    BY <2>1 DEF LinkedIsOwned
  <2>3. q # p /\ q \in Owners' /\ pc'[q] = pc[q]
    OBVIOUS
  <2>4. content[path].pid # p
    BY <2>2, <2>3 DEF Malformed
  <2>5. content[path] \in Content
    BY <2>1
  <2>6. content'[path] = [content[path] EXCEPT !.gone = @ \/ content[path].pid = p]
    BY <2>1
  <2>7. content'[path] = content[path]
    BY <2>4, <2>5, <2>6 DEF Content
  <2> QED
    BY <2>2, <2>3, <2>7 DEF LinkedIsOwned
<1>3. NothingOld'
  BY DEF NothingOld, NoSnapshot
<1>4. JudgesLive'
  BY DEF JudgesLive, Holders, NoSnapshot
<1>5. StaleIsGone'
  BY DEF StaleIsGone, NoSnapshot
<1> QED
  BY <1>1, <1>2, <1>3, <1>4, <1>5

\* The owner removes its own file and leaves.
LEMMA OwnerLeaves ==
  ASSUME LockInv, NEW p \in Owners, Exit(p), path' = NoFile, old' = old
  PROVE  Owned' /\ Judged'
<1> USE NamesAssumption DEF LockInv, TypeOK, Exit, Goto, Owned, Judged, Owners
<1>1. OwnersHaveFile' /\ OwnerIsLinked' /\ SingleOwner'
  BY DEF OwnersHaveFile, OwnerIsLinked, SingleOwner
<1>2. LinkedIsOwned'
  BY DEF LinkedIsOwned
<1>3. NothingOld'
  BY DEF NothingOld, NoSnapshot
<1>4. JudgesLive'
  BY DEF JudgesLive, StaleIsGone, NoSnapshot
<1>5. StaleIsGone'
  BY DEF StaleIsGone, NoSnapshot
<1> QED
  BY <1>1, <1>2, <1>3, <1>4, <1>5

\* A fault and a slow write are counted for good.
LEMMA DisturbanceCounts == TypeOK /\ [Next]_vars /\ Undisturbed' => Undisturbed
<1> SUFFICES ASSUME TypeOK, [Next]_vars PROVE faults' \in {faults, faults + 1}
                                             /\ slow' \in {slow, slow + 1}
  BY DEF TypeOK, Undisturbed
<1>1. ASSUME NEW p \in Procs, Start(p) \/ Proceed(p)
      PROVE  faults' = faults /\ slow' = slow
  BY <1>1 DEF Start, Proceed, Create, Exists, readLockFileSnapshot, Judge, StatStale,
              UnlinkStale, WritePayload, Refused, StatHeld, RemoveHeld
<1>2. ASSUME NEW p \in Procs, WriteFails(p) \/ Crash(p)
      PROVE  faults' = faults + 1 /\ slow' = slow
  BY <1>2 DEF WriteFails, Crash
<1>3. ASSUME NEW i \in Inodes, Age(i) PROVE faults' = faults /\ slow' \in {slow, slow + 1}
  BY <1>3 DEF Age
<1>4. CASE UNCHANGED vars
  BY <1>4 DEF vars
<1> QED
  BY <1>1, <1>2, <1>3, <1>4 DEF Next

\* Every step that is not a fault keeps the rest of the invariant.
LEMMA LockStep ==
  ~ReuseInodes /\ LockInv /\ [Next]_vars /\ Undisturbed' => Owned' /\ Judged'
<1> SUFFICES ASSUME ~ReuseInodes, LockInv, [Next]_vars, Undisturbed' PROVE Owned' /\ Judged'
  OBVIOUS
<1> USE NamesAssumption
    DEF LockInv, TypeOK, OwnersHaveFile, OwnerIsLinked, SingleOwner,
        LinkedIsOwned, Owned, Owners, Goto
<1>a. ASSUME NEW p \in Procs, Retry(p), pc[p] \in {"read", "judge", "stat"},
             UNCHANGED <<path, content, old, fd>>
      PROVE  Owned' /\ Judged'
  <2>1. Owned'
    BY <1>a DEF Retry
  <2>2. NothingOld'
    BY <1>a DEF Retry, NothingOld, NoSnapshot
  <2>3. JudgesLive'
    BY <1>a DEF Retry, JudgesLive, Holders
  <2>4. StaleIsGone'
    BY <1>a DEF Retry, StaleIsGone
  <2> QED
    BY <2>1, <2>2, <2>3, <2>4 DEF Judged
<1>1. ASSUME NEW p \in Procs, Start(p) PROVE Owned' /\ Judged'
  <2>1. Owned'
    BY <1>1 DEF Start
  <2>2. Judged'
    BY <1>1 DEF Start, Judged, NothingOld, JudgesLive, StaleIsGone, Holders
  <2> QED
    BY <2>1, <2>2
<1>2. ASSUME NEW p \in Procs, Create(p) PROVE Owned' /\ Judged'
  <2>1. PICK i \in FreshInodes :
          /\ path' = i
          /\ content' = [content EXCEPT ![i] = Malformed]
          /\ old' = old \ {i}
          /\ fd' = [fd EXCEPT ![p] = i]
    BY <1>2 DEF Create
  <2>2. i \in Inodes /\ \A q \in Procs : snap[q].inode # i
    BY DEF FreshInodes
  <2>3. Owners = {}
    BY <1>2 DEF Create
  <2>4. Owned'
    BY <1>2, <2>1, <2>2, <2>3 DEF Create
  <2>5. NothingOld'
    BY <1>2, <2>1 DEF Create, NothingOld
  <2>6. JudgesLive'
    BY <1>2, <2>1, <2>2 DEF Create, JudgesLive
  <2>7. StaleIsGone'
    BY <1>2, <2>1, <2>2 DEF Create, StaleIsGone
  <2> QED
    BY <2>4, <2>5, <2>6, <2>7 DEF Judged
<1>3. ASSUME NEW p \in Procs, Exists(p) PROVE Owned' /\ Judged'
  <2>1. Owned'
    BY <1>3 DEF Exists
  <2>2. Judged'
    BY <1>3 DEF Exists, Judged, NothingOld, JudgesLive, StaleIsGone, Holders
  <2> QED
    BY <2>1, <2>2
<1>4. ASSUME NEW p \in Procs, readLockFileSnapshot(p) PROVE Owned' /\ Judged'
  <2>1. CASE path = NoFile
    BY <1>a, <1>4, <2>1 DEF readLockFileSnapshot
  <2>2. CASE path # NoFile
    <3> DEFINE seen == [inode |-> path, info |-> content[path], old |-> path \in old]
    <3>a. /\ snap' = [snap EXCEPT ![p] = seen]
          /\ pc[p] = "read" /\ pc' = [pc EXCEPT ![p] = "judge"]
          /\ UNCHANGED <<path, content, old, fd>>
      BY <1>4, <2>2 DEF readLockFileSnapshot
    <3>b. seen.inode = path /\ seen.info = content[path]
      OBVIOUS
    <3>c. ~seen.old
      BY DEF NothingOld
    <3> HIDE DEF seen
    <3>1. Owned'
      BY <3>a
    <3>2. NothingOld'
      BY <3>a, <3>c DEF NothingOld
    <3>d. content[path] # Malformed =>
            ~content[path].gone /\ content[path].pid \in Holders
      <4>1. PICK q \in Owners :
              content[path] = IF pc[q] = "write" THEN Malformed
                                                ELSE [pid |-> q, gone |-> FALSE]
        BY <2>2
      <4>2. pc[q] # "write" => q \in Holders
        BY DEF Holders
      <4> QED
        BY <4>1, <4>2
    <3>3. JudgesLive'
      BY <3>a, <3>b, <3>d DEF JudgesLive, Holders
    <3>4. StaleIsGone'
      BY <2>2, <3>a, <3>b DEF StaleIsGone
    <3> QED
      BY <3>1, <3>2, <3>3, <3>4 DEF Judged
  <2> QED
    BY <2>1, <2>2
<1>5. ASSUME NEW p \in Procs, Judge(p) PROVE Owned' /\ Judged'
  <2>1. CASE snap[p].info = Malformed
    BY <1>a, <1>5, <2>1 DEF Judge, NothingOld
  <2>2. CASE snap[p].info # Malformed
    <3>a. /\ UNCHANGED <<path, content, old, fd>>
          /\ \E label \in {"refused", "stat"} : pc' = [pc EXCEPT ![p] = label]
          /\ pc[p] = "judge"
      BY <1>5, <2>2 DEF Judge
    <3>o. Owners' = Owners /\ \A q \in Owners : pc'[q] = pc[q]
      BY <3>a
    <3>1. Owned'
      BY <3>a, <3>o
    <3>2. NothingOld' /\ JudgesLive'
      BY <1>5, <2>2 DEF Judge, NothingOld, JudgesLive, Holders
    <3>3. path = snap[p].inode => lockHolderStillMatches(p, snap[p].info)
      BY <1>5, <2>2 DEF Judge, JudgesLive, Holders, lockHolderStillMatches
    <3>4. StaleIsGone'
      BY <1>5, <2>2, <3>3 DEF Judge, StaleIsGone
    <3> QED
      BY <3>1, <3>2, <3>4 DEF Judged
  <2> QED
    BY <2>1, <2>2
<1>6. ASSUME NEW p \in Procs, StatStale(p) PROVE Owned' /\ Judged'
  <2>1. path # snap[p].inode
    BY <1>6 DEF StatStale, StaleIsGone
  <2> QED
    BY <1>a, <1>6, <2>1 DEF StatStale
<1>7. ASSUME NEW p \in Procs, UnlinkStale(p) PROVE FALSE
  BY <1>7 DEF UnlinkStale, StaleIsGone
<1>8. ASSUME NEW p \in Procs, WritePayload(p) PROVE Owned' /\ Judged'
  <2>1. Owned'
    BY <1>8 DEF WritePayload
  <2>2. NothingOld' /\ StaleIsGone'
    BY <1>8 DEF WritePayload, NothingOld, StaleIsGone
  <2>3. JudgesLive'
    BY <1>8 DEF WritePayload, JudgesLive, Holders
  <2> QED
    BY <2>1, <2>2, <2>3 DEF Judged
<1>9. ASSUME NEW p \in Procs, WriteFails(p) \/ Crash(p) PROVE FALSE
  BY <1>9 DEF WriteFails, Crash, Undisturbed
<1>10. ASSUME NEW p \in Procs, Refused(p) PROVE Owned' /\ Judged'
  BY <1>10, LeavingIsHarmless DEF Refused
<1>11. ASSUME NEW p \in Procs, StatHeld(p) PROVE Owned' /\ Judged'
  <2>1. path = fd[p]
    BY <1>11 DEF StatHeld
  <2>2. Owned'
    BY <1>11, <2>1 DEF StatHeld
  <2>3. Judged'
    BY <1>11, <2>1 DEF StatHeld, Judged, NothingOld, JudgesLive, StaleIsGone, Holders
  <2> QED
    BY <2>2, <2>3
<1>12. ASSUME NEW p \in Procs, RemoveHeld(p) PROVE Owned' /\ Judged'
  BY <1>12, OwnerLeaves DEF RemoveHeld
<1>13. ASSUME NEW i \in Inodes, Age(i) PROVE FALSE
  <2>1. \E p \in Procs : fd[p] = i
    BY <1>13 DEF Age
  <2> QED
    BY <1>13, <2>1 DEF Age, Undisturbed
<1>14. CASE UNCHANGED vars
  BY <1>14 DEF vars, Judged, NothingOld, JudgesLive, StaleIsGone, Holders
<1> QED
  BY <1>1, <1>2, <1>3, <1>4, <1>5, <1>6, <1>7, <1>8, <1>9, <1>10, <1>11,
     <1>12, <1>13, <1>14 DEF Next, Proceed

\* LockInv holds in every state until a fault, whatever the bounds on faults.
THEOREM LockInvCorrect == ASSUME ~ReuseInodes PROVE Spec => [](Undisturbed => LockInv)
<1> DEFINE Inv == TypeOK /\ BudgetKept /\ (Undisturbed => LockInv)
<1>1. Init => Inv
  BY LockInit DEF LockInv
<1>2. Inv /\ [Next]_vars => Inv'
  <2> SUFFICES ASSUME Inv, [Next]_vars PROVE Inv'
    OBVIOUS
  <2>1. (TypeOK /\ BudgetKept)'
    BY LockTypes
  <2>2. ASSUME Undisturbed' PROVE LockInv'
    <3>1. LockInv
      BY <2>2, DisturbanceCounts
    <3> QED
      BY <2>1, <2>2, <3>1, LockStep DEF LockInv, Owned, Judged
  <2> QED
    BY <2>1, <2>2
<1> QED
  BY <1>1, <1>2, PTL DEF Spec

\* At most one process runs onboarding at a time, until a process dies in the
\* protocol, a write fails or takes 30 s (acquireOnboardLock).
THEOREM MutualExclusionCorrect == ASSUME ~ReuseInodes PROVE Spec => []MutualExclusion
<1>1. (Undisturbed => LockInv) => MutualExclusion
  BY DEF LockInv, SingleOwner, MutualExclusion, Holders, Owners
<1> QED
  BY <1>1, LockInvCorrect, PTL

\* Until then a holder's lock file stays linked until its own release unlinks
\* it, and that release unlinks no other file (releaseOnboardLock).
THEOREM HolderKeepsFileCorrect == ASSUME ~ReuseInodes PROVE Spec => []HolderKeepsFile
<1>1. (Undisturbed => LockInv) => HolderKeepsFile
  BY DEF LockInv, OwnerIsLinked, HolderKeepsFile, Holders, Owners
<1> QED
  BY <1>1, LockInvCorrect, PTL
============================================================================
