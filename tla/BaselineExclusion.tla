------------------------- MODULE BaselineExclusion -------------------------
(***************************************************************************)
(* `policy exclude' and `policy restore' of one baseline entry of one      *)
(* sandbox (policy/index.ts), with the journal that the registry keeps of  *)
(* them (state/registry.ts).  Two systems have to agree: the live policy   *)
(* of OpenShell and the exclusion recorded in the registry.  A command     *)
(* writes the journal, pushes the policy, reads it back and commits; the   *)
(* next one takes up what a killed one left.                               *)
(*                                                                         *)
(* Commands hold the sandbox mutation lock, so there is one at a time.     *)
(* Meanwhile the release may change its baseline, others the live policy,  *)
(* and a shields window replaces the live policy and puts it back.         *)
(***************************************************************************)
EXTENDS Naturals

CONSTANTS Digests,     \* contents of the entry
          MaxFaults,   \* failed calls, refusals and kills
          MaxChanges   \* releases, foreign changes and shields windows

Absent == "absent"   \* the entry is not there

ASSUME DigestsAssumption == Absent \notin Digests

ASSUME BoundsAssumption == MaxFaults \in Nat /\ MaxChanges \in Nat

VARIABLES base,       \* the entry in the baseline of the release
          live,       \* the entry in the live policy
          excluded,   \* the recorded exclusion: the digest approved
          journal,    \* the pending transition
          pc, op,
          shown,      \* the digest disclosed before the acknowledgement
          again,      \* an exclusion was recorded before
          pushed,     \* the push reported success
          window,     \* what a shields window will put back
          drifted,    \* someone else changed the live policy
          faults, changes

world == <<base, live, window, drifted, changes>>
record == <<excluded, journal>>
command == <<op, shown, again, pushed>>
vars == <<world, record, pc, command, faults>>

Entry == Digests \cup {Absent}

\* A restore without a target is no transition: only the record is cleared.
Journal == [op : {"exclude"}, digest : Digests, target : {Absent}]
             \cup [op : {"restore"}, digest : Digests, target : Digests]
NoJournal == [op |-> "none", digest |-> Absent, target |-> Absent]

\* The policy that was live when a window was opened, and the record then.
Window == [live : Entry, excluded : Entry, journal : Journal \cup {NoJournal}]
NoWindow == [live |-> Absent, excluded |-> Absent, journal |-> [NoJournal EXCEPT !.op = "closed"]]

Init ==
  /\ base \in Digests /\ live = base
  /\ excluded = Absent /\ journal = NoJournal
  /\ pc = "idle" /\ op = "exclude" /\ shown = Absent /\ again = FALSE /\ pushed = FALSE
  /\ window = NoWindow /\ drifted = FALSE
  /\ faults = 0 /\ changes = 0

Pending == journal # NoJournal

AtTarget == live = journal.target
AtSource == live = IF journal.op = "exclude" THEN journal.digest ELSE Absent

---------------------------------------------------------------------------
(* Forms of a step.                                                        *)

Fault == faults < MaxFaults /\ faults' = faults + 1

Goto(label) == pc' = label /\ UNCHANGED faults
End == Goto("idle")

\* A step that reads, and changes nothing.
Reads == UNCHANGED <<world, record, command>>

\* A call fails, or the command refuses, without effect.
Refuse == Fault /\ pc' = "idle" /\ Reads

\* registryTransitionStep around one change of the row, which may fail.
Registers(exclusion, transition) ==
  /\ excluded' = exclusion /\ journal' = transition
  /\ UNCHANGED <<world, command>>

---------------------------------------------------------------------------
(* excludeSandboxBaseline and restoreSandboxBaseline: disclose and ask.    *)

Start(o) ==
  /\ pc = "idle"
  /\ IF o = "exclude" THEN base # Absent ELSE excluded # Absent \/ Pending
  /\ op' = o /\ shown' = base /\ again' = FALSE /\ pushed' = FALSE
  /\ Goto("shown")
  /\ UNCHANGED <<world, record>>

\* restoreBaselineEntryOnGateway looks whether the baseline is still the one
\* that was shown, before it touches the journal.
Confirm ==
  /\ pc = "shown"
  /\ Goto(IF op = "restore" /\ base # shown THEN "idle" ELSE "reconcile")
  /\ Reads

---------------------------------------------------------------------------
(* reconcileBaselineExclusionTransition.                                   *)

\* Mutant: only a transition that arrived is taken up.
ReconcileArrived ==
  /\ pc = "reconcile"
  /\ Goto(CASE ~Pending -> "decide"
            [] Pending /\ AtTarget -> "finalize"
            [] OTHER -> "idle")
  /\ Reads

\* Finalised only at the exact target, rolled back only at the exact source.
\* An exclusion that began with the record and the policy apart is resumed.
Reconcile ==
  /\ pc = "reconcile"
  /\ LET onRecord == journal.op = "restore" => excluded = journal.digest
     IN  Goto(CASE ~Pending -> "decide"
                [] Pending /\ onRecord /\ AtTarget -> "finalize"
                [] Pending /\ onRecord /\ ~AtTarget /\ AtSource ->
                     IF journal.op = "exclude" /\ excluded # Absent
                     THEN IF op = "exclude" THEN "decide" ELSE "idle"
                     ELSE "roll_back"
                [] OTHER -> "idle")
  /\ Reads

\* restoreTransitionCanFinalize
CanFinalize ==
  journal.op = "restore" => excluded = journal.digest /\ base = journal.target

\* commitBaselineExclusionTransition; a command that wanted just this is done.
Finalize ==
  /\ pc = "finalize"
  /\ IF CanFinalize
     THEN /\ Registers(IF journal.op = "exclude" THEN journal.digest ELSE Absent, NoJournal)
          /\ Goto(IF journal.op = op THEN "idle" ELSE "decide")
     ELSE End /\ Reads

\* clearBaselineExclusionTransition
RollBack ==
  /\ pc = "roll_back"
  /\ Registers(excluded, NoJournal)
  /\ Goto(IF journal.op # op THEN "idle" ELSE "decide")

---------------------------------------------------------------------------
(* excludeBaselineEntryOnGateway and restoreBaselineEntryOnGateway.        *)

\* Whoever finds nothing to push only brings the record up to date.
DecideExclude ==
  /\ pc = "decide" /\ op = "exclude"
  /\ again' = (excluded # Absent)
  /\ Goto(CASE live = Absent -> IF Pending THEN "settle_commit" ELSE "record"
            [] live # Absent /\ live = shown -> IF Pending THEN "push" ELSE "begin"
            [] OTHER -> "idle")
  /\ UNCHANGED <<world, record, op, shown, pushed>>

\* Mutant: an entry the release has dropped is restored like any other.
DecideRestoreDropped ==
  /\ pc = "decide" /\ op = "restore"
  /\ Goto(CASE excluded = Absent -> "idle"
            [] excluded # Absent /\ live = Absent -> "begin"
            [] excluded # Absent /\ live # Absent /\ live = shown -> "forget"
            [] OTHER -> "idle")
  /\ Reads

DecideRestore ==
  /\ pc = "decide" /\ op = "restore"
  /\ Goto(CASE excluded = Absent -> "idle"
            [] excluded # Absent /\ (shown = Absent \/ live = shown) -> "forget"
            [] excluded # Absent /\ shown # Absent /\ live = Absent -> "begin"
            [] OTHER -> "idle")
  /\ Reads

\* addBaselineExclusion and removeBaselineExclusion
Record ==
  \/ pc = "record" /\ ~Pending /\ Registers(shown, journal) /\ End
  \/ pc = "forget" /\ ~Pending /\ Registers(Absent, journal) /\ End

\* beginBaselineExclusionTransition
Begin ==
  /\ pc = "begin" /\ ~Pending
  /\ Registers(excluded,
       IF op = "exclude"
       THEN [op |-> op, digest |-> shown, target |-> Absent]
       ELSE [op |-> op, digest |-> excluded, target |-> shown])
  /\ Goto("push")

\* attemptBaselineTransitionPolicyPush: a failure does not say whether the
\* policy has been set.
Push ==
  /\ pc = "push"
  /\ \/ live' = journal.target /\ pushed' = TRUE /\ UNCHANGED faults
     \/ live' \in {live, journal.target} /\ pushed' = FALSE /\ Fault
  /\ pc' = "settle"
  /\ UNCHANGED <<base, window, drifted, changes, record, op, shown, again>>

\* Mutant: a push that reports failure is taken to have had no effect.
SettleByReport ==
  /\ pc = "settle"
  /\ Goto(IF pushed THEN "settle_commit" ELSE "settle_clear")
  /\ Reads

\* settleBaselineExclusionTransitionAfterPush: what the live policy says.
Settle ==
  /\ pc = "settle"
  /\ Goto(CASE AtTarget -> "settle_commit"
            [] ~AtTarget /\ AtSource /\ ~pushed /\ (op = "restore" \/ ~again) -> "settle_clear"
            [] OTHER -> "idle")
  /\ Reads

SettleRecord ==
  /\ \/ /\ pc = "settle_commit"
        /\ IF CanFinalize
           THEN Registers(IF op = "exclude" THEN journal.digest ELSE Absent, NoJournal)
           ELSE Reads
     \/ pc = "settle_clear" /\ Registers(excluded, NoJournal)
  /\ End

---------------------------------------------------------------------------
(* The environment.                                                        *)

\* The user declines, a registry write or a policy read fails, the key turns out
\* to be owned by an applied policy, or the process is killed.
Fails == pc \notin {"idle", "push"} /\ Refuse

KilledInPush ==
  /\ pc = "push" /\ Fault /\ pc' = "idle"
  /\ live' \in {live, journal.target}
  /\ UNCHANGED <<base, window, drifted, changes, record, command>>

Change == changes < MaxChanges /\ changes' = changes + 1

\* Another release is installed.
Release ==
  /\ Change
  /\ base' \in Entry \ {base}
  /\ UNCHANGED <<live, window, drifted, record, pc, command, faults>>

\* Someone else sets the policy.
ChangeLive ==
  /\ Change
  /\ live' \in Entry \ {live} /\ drifted' = TRUE
  /\ UNCHANGED <<base, window, record, pc, command, faults>>

\* shields down: the permissive policy has the entry in some form, or not.
OpenWindow ==
  /\ Change /\ pc = "idle" /\ window = NoWindow
  /\ window' = [live |-> live, excluded |-> excluded, journal |-> journal]
  /\ live' \in Entry
  /\ UNCHANGED <<base, drifted, record, pc, command, faults>>

\* shields up, or the restore: the policy of before the window, whatever has
\* been excluded or restored in it.
CloseWindow ==
  /\ pc = "idle" /\ window # NoWindow
  /\ live' = window.live /\ window' = NoWindow
  /\ drifted' = (drifted \/ window.excluded # excluded \/ window.journal # journal)
  /\ UNCHANGED <<base, changes, record, pc, command, faults>>

\* A rebuild refuses while a transition is pending, and replays an exclusion
\* only while the baseline is the one that was approved.
Rebuild ==
  /\ pc = "idle" /\ window = NoWindow /\ ~Pending
  /\ excluded \in {Absent, base}
  /\ live' = (IF excluded = Absent THEN base ELSE Absent) /\ drifted' = FALSE
  /\ UNCHANGED <<base, window, changes, record, pc, command, faults>>

CommandStep ==
  \/ Confirm \/ Reconcile \/ Finalize \/ RollBack
  \/ DecideExclude \/ DecideRestore \/ Record
  \/ Begin \/ Push \/ Settle \/ SettleRecord

Next ==
  \/ Start("exclude") \/ Start("restore")
  \/ CommandStep
  \/ Fails \/ KilledInPush
  \/ Release \/ ChangeLive \/ OpenWindow \/ CloseWindow \/ Rebuild

Spec == Init /\ [][Next]_vars

\* "Re-run the same command": the one that the journal names.
Rerun == Pending /\ Start(journal.op)

\* A command goes on, and the user, whatever else he runs, reruns what he was told to.
FairSpec ==
  Spec /\ WF_vars(CommandStep) /\ SF_vars(Rerun)

---------------------------------------------------------------------------
(* Properties.                                                             *)

\* Every variable has its type.
TypeOK ==
  /\ base \in Entry /\ live \in Entry /\ excluded \in Entry /\ shown \in Entry
  /\ journal \in Journal \cup {NoJournal}
  /\ pc \in {"idle", "shown", "reconcile", "finalize", "roll_back", "decide", "record",
             "forget", "begin", "push", "settle", "settle_commit", "settle_clear"}
  /\ op \in {"exclude", "restore"}
  /\ again \in BOOLEAN /\ pushed \in BOOLEAN /\ drifted \in BOOLEAN
  /\ window \in Window \cup {NoWindow}
  /\ faults \in 0..MaxFaults /\ changes \in 0..MaxChanges

\* An exclusion on record is one in force: whatever fails or is killed between
\* the two systems, the entry is not in the live policy, unless the journal says
\* that this has to be repaired, a shields window is open, or the live policy
\* has been changed behind the record's back (a window that is closed puts back
\* the policy of before, also over an exclusion made while it was open).
ExcludedStaysOut ==
  excluded # Absent /\ ~Pending /\ window = NoWindow /\ ~drifted => live = Absent

\* What the repair cannot take up: the live entry is neither side's; or the
\* release has changed the entry that was to be restored, or excluded again,
\* or has dropped the one to be excluded.
Stuck ==
  \/ ~AtTarget /\ ~AtSource
  \/ journal.op = "restore" /\ base # journal.target
  \/ journal.op = "exclude" /\ base # journal.digest

\* A transition that was cut short does not block rebuilds for ever: running the
\* command it names again settles it, unless the entry has changed meanwhile.
RepairConverges ==
  Pending ~> (~Pending \/ Stuck)
=============================================================================
