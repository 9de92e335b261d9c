----------------------- MODULE BaselineExclusionProofs -----------------------
(***************************************************************************)
(* Theorems about BaselineExclusion, for any contents of the entry and any *)
(* number of faults and changes.  ExcludedStaysOut is kept because each    *)
(* write of the record is preceded by a look at the live policy, and what  *)
(* that look has shown still holds when the record is written, unless the  *)
(* policy was changed behind the record's back.                            *)
(***************************************************************************)
EXTENDS BaselineExclusion, TLAPS

Labels ==
  {"idle", "shown", "reconcile", "finalize", "roll_back", "decide", "record",
   "forget", "begin", "push", "settle", "settle_commit", "settle_clear"}

\* Nobody but the commands has changed the live policy.
Untouched == window = NoWindow /\ ~drifted

\* The journal a command works on is its own.
OwnJournal ==
  /\ pc = "decide" /\ Pending => op = "exclude" /\ journal.op = "exclude"
  /\ pc \in {"push", "settle", "settle_commit", "settle_clear"} => Pending /\ journal.op = op
  /\ pc \in {"finalize", "roll_back"} => Pending
  /\ pc = "begin" => shown # Absent /\ (op = "restore" => excluded # Absent)

\* What the last look has shown, at the steps that write the record by it.
Looked ==
  /\ pc = "finalize" /\ Untouched => live = journal.target
  /\ pc = "record" /\ Untouched => live = Absent
  /\ pc = "settle_commit" /\ op = "exclude" /\ Untouched => live = Absent
  /\ pc \in {"roll_back", "settle_clear"} /\ Untouched => excluded = Absent \/ live = Absent

\* The command remembers whether there was an exclusion when it began.
Remembers ==
  pc \in {"begin", "push", "settle"} /\ op = "exclude" /\ ~again => excluded = Absent

\* What a window puts back agrees with the record of the time it was opened.
WindowSound ==
  window # NoWindow /\ ~drifted /\ window.excluded # Absent /\ window.journal = NoJournal
    => window.live = Absent

IndInv == TypeOK /\ OwnJournal /\ Looked /\ Remembers /\ WindowSound /\ ExcludedStaysOut

-----------------------------------------------------------------------------
(* Types.                                                                  *)

\* A pending transition is a journal, with its source and target.
LEMMA PendingJournal ==
  ASSUME TypeOK, Pending
  PROVE  /\ journal \in Journal
         /\ journal.digest \in Digests
         /\ \/ journal.op = "exclude" /\ journal.target = Absent
            \/ journal.op = "restore" /\ journal.target \in Digests
<1>1. journal \in Journal
  BY DEF TypeOK, Pending
<1> QED
  BY <1>1 DEF Journal

\* Every step keeps the types.
LEMMA NextTyped == TypeOK /\ OwnJournal /\ [Next]_vars => TypeOK'
<1> SUFFICES ASSUME TypeOK, OwnJournal, [Next]_vars PROVE TypeOK'
  OBVIOUS
<1> USE BoundsAssumption
<1>1. ASSUME NEW o \in {"exclude", "restore"}, Start(o) PROVE TypeOK'
  BY <1>1 DEF TypeOK, Start, Goto, world, record
<1>2. CASE Confirm \/ Reconcile \/ DecideRestore \/ Settle
  BY <1>2 DEF TypeOK, Confirm, Reconcile, DecideRestore, Settle, Goto, Reads, world, record, command
<1>3. CASE DecideExclude
  BY <1>3 DEF TypeOK, DecideExclude, Goto, world, record
<1>4. CASE Finalize \/ SettleRecord
  <2>1. Pending
    BY <1>4 DEF OwnJournal, Finalize, SettleRecord
  <2>2. journal.digest \in Entry
    BY <2>1, PendingJournal DEF Entry
  <2> QED
    BY <1>4, <2>2 DEF TypeOK, Finalize, SettleRecord, Registers, End, Goto, Reads, world, record,
       command, Entry
<1>5. CASE RollBack \/ Record
  BY <1>5 DEF TypeOK, RollBack, Record, Registers, End, Goto, world, command, Entry
<1>6. CASE Begin
  <2>1. shown \in Digests /\ (op = "restore" => excluded \in Digests)
    BY <1>6 DEF TypeOK, OwnJournal, Begin, Entry
  <2>2. journal' \in Journal
    BY <1>6, <2>1 DEF TypeOK, Begin, Registers, Journal
  <2> QED
    BY <1>6, <2>2 DEF TypeOK, Begin, Registers, Goto, world, command
<1>7. CASE Push \/ KilledInPush
  <2>1. Pending
    BY <1>7 DEF OwnJournal, Push, KilledInPush
  <2>2. journal.target \in Entry
    BY <2>1, PendingJournal DEF Entry
  <2>3. live' \in Entry /\ pushed' \in BOOLEAN /\ faults' \in 0..MaxFaults
    <3>1. CASE Push
      <4>1. live' \in {live, journal.target} /\ pushed' \in {TRUE, FALSE}
        BY <3>1 DEF Push
      <4>2. faults' \in 0..MaxFaults
        BY <3>1 DEF TypeOK, Push, Fault
      <4> QED
        BY <2>2, <4>1, <4>2 DEF TypeOK
    <3>2. CASE KilledInPush
      BY <2>2, <3>2 DEF TypeOK, KilledInPush, Fault, command
    <3> QED
      BY <1>7, <3>1, <3>2
  <2> QED
    BY <1>7, <2>3 DEF TypeOK, Push, KilledInPush, record, command
<1>8. CASE Fails
  BY <1>8 DEF TypeOK, Fails, Refuse, Fault, Reads, world, record, command
<1>9. CASE Release \/ ChangeLive
  <2>1. changes' \in 0..MaxChanges /\ base' \in Entry /\ live' \in Entry
    BY <1>9 DEF TypeOK, Release, ChangeLive, Change
  <2>2. drifted' \in BOOLEAN
    BY <1>9 DEF TypeOK, Release, ChangeLive
  <2> QED
    BY <1>9, <2>1, <2>2 DEF TypeOK, Release, ChangeLive, record, command
<1>10. CASE OpenWindow \/ CloseWindow \/ Rebuild
  <2>1. window' \in Window \cup {NoWindow}
    BY <1>10 DEF TypeOK, OpenWindow, CloseWindow, Rebuild, Window
  <2>2. live' \in Entry
    <3>1. window # NoWindow => window.live \in Entry
      BY DEF TypeOK, Window
    <3> QED
      BY <1>10, <3>1 DEF TypeOK, OpenWindow, CloseWindow, Rebuild, Entry
  <2>3. changes' \in 0..MaxChanges
    BY <1>10 DEF TypeOK, OpenWindow, CloseWindow, Rebuild, Change
  <2>4. drifted' \in BOOLEAN
    <3>1. CASE OpenWindow \/ Rebuild
      BY <3>1 DEF TypeOK, OpenWindow, Rebuild
    <3>2. CASE CloseWindow
      BY <3>2, Zenon DEF TypeOK, CloseWindow
    <3> QED
      BY <1>10, <3>1, <3>2
  <2> QED
    BY <1>10, <2>1, <2>2, <2>3, <2>4 DEF TypeOK, OpenWindow, CloseWindow, Rebuild, record, command
<1>11. CASE UNCHANGED vars
  BY <1>11 DEF TypeOK, vars, world, record, command
<1> QED
  BY <1>1, <1>2, <1>3, <1>4, <1>5, <1>6, <1>7, <1>8, <1>9, <1>10, <1>11 DEF Next, CommandStep

-----------------------------------------------------------------------------
(* The invariant.                                                          *)

\* Where a command goes, its journal is its own.
LEMMA NextOwnJournal == TypeOK /\ OwnJournal /\ [Next]_vars => OwnJournal'
<1> SUFFICES ASSUME TypeOK, OwnJournal, [Next]_vars PROVE OwnJournal'
  OBVIOUS
<1> USE DEF OwnJournal, Pending
<1>1. ASSUME NEW o, Start(o) PROVE OwnJournal'
  BY <1>1 DEF Start, Goto, record
<1>2. CASE Confirm \/ Settle
  BY <1>2 DEF Confirm, Settle, Goto, Reads, record, command
<1>3. CASE Reconcile
  BY <1>3 DEF Reconcile, Goto, Reads, record, command
<1>4. CASE DecideExclude
  BY <1>4 DEF DecideExclude, Goto, record
<1>5. CASE DecideRestore
  BY <1>5 DEF DecideRestore, Goto, Reads, record, command
<1>6. CASE Finalize \/ RollBack
  BY <1>6 DEF Finalize, RollBack, Registers, End, Goto, Reads, record, command
<1>7. CASE Record \/ SettleRecord
  BY <1>7 DEF Record, SettleRecord, Registers, End, Goto, Reads
<1>8. CASE Begin
  <2>1. journal' # NoJournal /\ journal'.op = op /\ pc' = "push" /\ op' = op
    BY <1>8 DEF TypeOK, Begin, Registers, Goto, NoJournal, command
  <2> QED
    BY <2>1
<1>9. CASE Push \/ KilledInPush
  BY <1>9 DEF Push, KilledInPush, record, command
<1>10. CASE Fails
  BY <1>10 DEF Fails, Refuse
<1>11. CASE Release \/ ChangeLive \/ OpenWindow \/ CloseWindow \/ Rebuild
  BY <1>11 DEF Release, ChangeLive, OpenWindow, CloseWindow, Rebuild, record, command
<1>12. CASE UNCHANGED vars
  BY <1>12 DEF vars, record, command
<1> QED
  BY <1>1, <1>2, <1>3, <1>4, <1>5, <1>6, <1>7, <1>8, <1>9, <1>10, <1>11, <1>12
  DEF Next, CommandStep

\* A command that has looked knows the live policy until it has written.
LEMMA NextLooked == IndInv /\ [Next]_vars => Looked'
<1> SUFFICES ASSUME IndInv, [Next]_vars PROVE Looked'
  OBVIOUS
<1> USE DEF IndInv, Looked, Untouched
<1>1. ASSUME NEW o, Start(o) PROVE Looked'
  BY <1>1 DEF Start, Goto
<1>2. CASE Confirm
  BY <1>2 DEF Confirm, Goto
<1>3. CASE Reconcile
  <2>1. Pending => journal.op \in {"exclude", "restore"}
    BY PendingJournal
  <2> QED
    BY <1>3, <2>1 DEF Reconcile, Goto, Reads, world, record, command, AtTarget, AtSource
<1>4. CASE DecideExclude
  BY <1>4 DEF DecideExclude, Goto, world, record
<1>5. CASE DecideRestore
  BY <1>5 DEF DecideRestore, Goto
<1>6. CASE Finalize \/ RollBack
  BY <1>6 DEF Finalize, RollBack, End, Goto
<1>7. CASE Record \/ SettleRecord
  BY <1>7 DEF Record, SettleRecord, End, Goto
<1>8. CASE Begin \/ Push \/ KilledInPush
  BY <1>8 DEF Begin, Push, KilledInPush, Goto
<1>9. CASE Settle
  <2>1. Pending /\ journal.op = op
    BY <1>9 DEF OwnJournal, Settle
  <2>2. (journal.op = "exclude" /\ journal.target = Absent) \/ journal.op = "restore"
    BY <2>1, PendingJournal
  <2> QED
    BY <1>9, <2>1, <2>2
    DEF Settle, Goto, Reads, world, record, command, AtTarget, AtSource, Remembers
<1>10. CASE Fails
  BY <1>10 DEF Fails, Refuse
<1>11. CASE Release \/ ChangeLive
  BY <1>11 DEF Release, ChangeLive, record, command
<1>12. CASE OpenWindow \/ CloseWindow \/ Rebuild
  BY <1>12 DEF OpenWindow, CloseWindow, Rebuild
<1>13. CASE UNCHANGED vars
  BY <1>13 DEF vars, world, record, command
<1> QED
  BY <1>1, <1>2, <1>3, <1>4, <1>5, <1>6, <1>7, <1>8, <1>9, <1>10, <1>11, <1>12, <1>13
  DEF Next, CommandStep

\* The record does not change between the decision and the push.
LEMMA NextRemembers == IndInv /\ [Next]_vars => Remembers'
<1> SUFFICES ASSUME IndInv, [Next]_vars PROVE Remembers'
  OBVIOUS
<1> USE DEF IndInv, Remembers
<1>1. ASSUME NEW o, Start(o) PROVE Remembers'
  BY <1>1 DEF Start, Goto
<1>2. CASE Confirm \/ Reconcile \/ Settle
  BY <1>2 DEF Confirm, Reconcile, Settle, Goto
<1>3. CASE DecideExclude
  BY <1>3 DEF DecideExclude, Goto, record
<1>4. CASE DecideRestore
  BY <1>4 DEF DecideRestore, Goto, Reads, command
<1>5. CASE Finalize \/ RollBack \/ Record \/ SettleRecord
  BY <1>5 DEF Finalize, RollBack, Record, SettleRecord, End, Goto
<1>6. CASE Begin
  BY <1>6 DEF Begin, Registers, Goto, command
<1>7. CASE Push \/ KilledInPush
  BY <1>7 DEF Push, KilledInPush, record
<1>8. CASE Fails
  BY <1>8 DEF Fails, Refuse
<1>9. CASE Release \/ ChangeLive \/ OpenWindow \/ CloseWindow \/ Rebuild
  BY <1>9 DEF Release, ChangeLive, OpenWindow, CloseWindow, Rebuild, record, command
<1>10. CASE UNCHANGED vars
  BY <1>10 DEF vars, record, command
<1> QED
  BY <1>1, <1>2, <1>3, <1>4, <1>5, <1>6, <1>7, <1>8, <1>9, <1>10 DEF Next, CommandStep

\* An open window is not the closed one.
LEMMA OpenIsNotClosed == ASSUME TypeOK, OpenWindow PROVE window' # NoWindow
<1>1. window'.journal.op # "closed"
  BY DEF TypeOK, OpenWindow, Journal, NoJournal
<1> QED
  BY <1>1 DEF NoWindow, NoJournal

\* A window remembers a policy that agrees with the record of its opening.
LEMMA NextWindowSound == IndInv /\ [Next]_vars => WindowSound'
<1> SUFFICES ASSUME IndInv, [Next]_vars PROVE WindowSound'
  OBVIOUS
<1> USE DEF IndInv, WindowSound
<1>1. CASE OpenWindow
  BY <1>1 DEF OpenWindow, ExcludedStaysOut, Pending
<1>2. CASE CloseWindow \/ Rebuild
  BY <1>2 DEF CloseWindow, Rebuild
<1>3. CASE ChangeLive
  BY <1>3 DEF ChangeLive
<1>4. CASE UNCHANGED <<window, drifted>>
  BY <1>4
<1> QED
  BY <1>1, <1>2, <1>3, <1>4
  DEF Next, CommandStep, Start, Confirm, Reconcile, DecideExclude, DecideRestore, Finalize,
      RollBack, Record, SettleRecord, Begin, Push, KilledInPush, Settle, Fails, Refuse, Reads,
      Registers, Release, vars, world

\* No step puts an excluded entry into force, or an entry in force on record.
LEMMA NextStaysOut == IndInv /\ [Next]_vars => ExcludedStaysOut'
<1> SUFFICES ASSUME IndInv, [Next]_vars PROVE ExcludedStaysOut'
  OBVIOUS
<1> USE DEF IndInv, ExcludedStaysOut, Pending
<1>1. CASE Finalize
  <2>1. journal # NoJournal
    BY <1>1 DEF OwnJournal, Finalize
  <2>2. journal.op = "exclude" => journal.target = Absent
    BY <2>1, PendingJournal
  <2> QED
    BY <1>1, <2>1, <2>2 DEF Finalize, Registers, Reads, world, record, Looked, Untouched
<1>2. CASE RollBack
  BY <1>2 DEF RollBack, Registers, world, Looked, Untouched
<1>3. CASE Record
  BY <1>3 DEF Record, Registers, world, Looked, Untouched
<1>4. CASE SettleRecord
  BY <1>4 DEF SettleRecord, Registers, Reads, world, record, Looked, Untouched
<1>5. CASE Begin
  <2>1. journal' # NoJournal
    BY <1>5 DEF TypeOK, Begin, Registers, NoJournal
  <2> QED
    BY <2>1
<1>6. CASE Push \/ KilledInPush
  BY <1>6 DEF OwnJournal, Push, KilledInPush, record
<1>7. CASE OpenWindow
  BY <1>7, OpenIsNotClosed
<1>8. CASE CloseWindow
  BY <1>8 DEF CloseWindow, WindowSound, record
<1>9. CASE Rebuild
  BY <1>9 DEF Rebuild, record
<1>10. CASE ChangeLive
  BY <1>10 DEF ChangeLive
<1>11. CASE UNCHANGED <<live, excluded, journal, window, drifted>>
  BY <1>11
<1> QED
  BY <1>1, <1>2, <1>3, <1>4, <1>5, <1>6, <1>7, <1>8, <1>9, <1>10, <1>11
  DEF Next, CommandStep, Start, Confirm, Reconcile, DecideExclude, DecideRestore, Settle,
      Fails, Refuse, Reads, Release, vars, world, record

-----------------------------------------------------------------------------
(* The theorems.                                                           *)

\* The invariant holds throughout: what a command has seen of the live policy is
\* still true when it writes the registry by it.
THEOREM Invariant == Spec => []IndInv
<1>1. Init => IndInv
  <2> SUFFICES ASSUME Init PROVE IndInv
    OBVIOUS
  <2>1. TypeOK
    <3>1. faults \in 0..MaxFaults /\ changes \in 0..MaxChanges
      BY BoundsAssumption DEF Init
    <3>2. /\ base \in Entry /\ live \in Entry /\ excluded \in Entry /\ shown \in Entry
          /\ journal \in Journal \cup {NoJournal} /\ window \in Window \cup {NoWindow}
          /\ again \in BOOLEAN /\ pushed \in BOOLEAN /\ drifted \in BOOLEAN
      BY DEF Init, Entry
    <3> QED
      BY <3>1, <3>2 DEF Init, TypeOK
  <2> QED
    BY <2>1
    DEF Init, IndInv, OwnJournal, Looked, Remembers, WindowSound, ExcludedStaysOut, Pending
<1>2. IndInv /\ [Next]_vars => IndInv'
  BY NextTyped, NextOwnJournal, NextLooked, NextRemembers, NextWindowSound, NextStaysOut
  DEF IndInv
<1> QED
  BY <1>1, <1>2, PTL DEF Spec

\* Every variable keeps its type; in particular a journal is never without the
\* digests that the repair compares.
THEOREM TypeCorrect == Spec => []TypeOK
<1>1. IndInv => TypeOK
  BY DEF IndInv
<1> QED
  BY <1>1, Invariant, PTL

\* An exclusion on record is one in force, whatever fails or is killed between the
\* registry and OpenShell.
THEOREM StaysOut == Spec => []ExcludedStaysOut
<1>1. IndInv => ExcludedStaysOut
  BY DEF IndInv
<1> QED
  BY <1>1, Invariant, PTL
=============================================================================
