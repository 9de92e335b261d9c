------------------------------ MODULE Recreate ------------------------------
(***************************************************************************)
(* Replacing a sandbox by one of the same name: the recreate journal       *)
(* (lib/onboard/sandbox-recreate-transaction.ts) and the commands that     *)
(* work through it.                                                        *)
(*                                                                         *)
(*   rebuild  opens the journal, deletes the source, then runs an inner    *)
(*            onboard that creates and registers the replacement;          *)
(*   resume   onboard --resume, or onboard that finds a session in         *)
(*            progress, which journals, deletes and creates;               *)
(*   fresh    onboard --fresh, or onboard that finds none: a new session,  *)
(*            hence no journal, and a journal of its own once it has to    *)
(*            replace something.                                           *)
(*                                                                         *)
(* Three things outlive a command: the registry row, the live sandbox the  *)
(* gateway knows under the name, and the journal in the session.  Every    *)
(* step below ends at a durable write or a gateway call, and the process   *)
(* may die between any two of them.  The onboard lock admits one command.  *)
(***************************************************************************)
EXTENDS Naturals

CONSTANTS
  Kinds,      \* the commands the user runs
  MaxToken,   \* how many identities, generations and row revisions exist
  MaxFaults   \* bound: deaths, failed calls and changes made by others

Tokens == 1..MaxToken

\* Seven identities can be referred to at once, and one must be free.
ASSUME TokensAssumption == MaxToken \in Nat /\ MaxToken >= 7
ASSUME KindsAssumption  == Kinds \subseteq {"rebuild", "resume", "fresh"}
ASSUME FaultsAssumption == MaxFaults \in Nat

VARIABLES
  row,      \* the registry row: generation, live identity, revision
  live,     \* the sandbox the gateway has under the name: identity, ready
  journal,  \* session.checkpoint.sandboxRecreate
  cmd,      \* the running command
  faults

vars == <<row, live, journal, cmd, faults>>

Phases == <<"planned", "deleting", "deleted", "creating", "created",
            "registry_committing", "completed">>
Rank == [p \in {Phases[i] : i \in DOMAIN Phases} |->
           CHOOSE i \in DOMAIN Phases : Phases[i] = p]

\* 0 stands for a field that is not set.
NoRow     == [gen |-> 0, id |-> 0, rev |-> 0]
NoLive    == [id |-> 0, ready |-> FALSE]
NoJournal == [intent |-> "none", src |-> 0, srcId |-> 0, gen |-> 0,
              tgtId |-> 0, phase |-> "planned", clean |-> TRUE]

\* cmd.made and cmd.taken are history, which no code reads: the sandbox this
\* command has created, and whether another has taken the name since the command
\* last looked.
Idle      == [pc |-> "idle", kind |-> "none", proof |-> FALSE, snap |-> NoRow,
              made |-> 0, taken |-> FALSE]

\* A random UUID, an OpenShell Id or the fingerprint of new row contents:
\* different from every one that something still refers to.
Fresh(used) == CHOOSE t \in Tokens : t \notin used
FreshId     == Fresh({row.id, live.id, journal.srcId, journal.tgtId, cmd.snap.id,
                      cmd.made})
FreshGen    == Fresh({row.gen, journal.gen, cmd.snap.gen})
FreshRev    == Fresh({row.rev, journal.src, cmd.snap.rev})

Init ==
  /\ row = [gen |-> 1, id |-> 1, rev |-> 1]
  /\ live = [id |-> 1, ready |-> TRUE]
  /\ journal = NoJournal
  /\ cmd = Idle
  /\ faults = 0

-----------------------------------------------------------------------------
(* The journal.                                                            *)

Reached(p) == Rank[journal.phase] >= Rank[p]

\* Mutant: an advance to the phase the journal is in counts as backward.
CanAdvanceStrictly(p) == Rank[journal.phase] < Rank[p]

\* advanceSandboxRecreateTransaction: throws when the journal is already past
\* p; asking for the phase it is in changes nothing.
CanAdvance(p) == Rank[journal.phase] <= Rank[p]
Advanced(p) ==
  IF journal.phase = p THEN journal
                       ELSE [journal EXCEPT !.phase = p, !.clean = FALSE]

\* beginSandboxRecreateTransaction without one in progress: the source row's
\* fingerprint, the live identity, and a new target generation.
Begun(kind) ==
  [intent |-> kind, src |-> row.rev, srcId |-> live.id, gen |-> FreshGen,
   tgtId |-> 0, phase |-> IF live = NoLive THEN "deleted" ELSE "planned",
   clean |-> TRUE]

\* planSandboxRecreateRecovery.
Plan ==
  CASE row.gen = journal.gen ->
         IF /\ journal.tgtId # 0 /\ row.id = journal.tgtId
            /\ live.ready /\ live.id = journal.tgtId
         THEN "accept_target" ELSE "reject"
    [] row.gen # journal.gen /\ row.rev # journal.src -> "reject"
    [] row.gen # journal.gen /\ row.rev = journal.src ->
         IF Reached("created") \/ (live # NoLive /\ Reached("deleted")) THEN "reject"
         ELSE IF live = NoLive THEN "continue_create"
         ELSE IF live.id = journal.srcId THEN "continue_delete" ELSE "reject"

-----------------------------------------------------------------------------
(* The commands.  A command that throws ends; a rebuild whose inner        *)
(* onboard throws first puts back the row it started from, when it was     *)
(* recovering a stale sandbox or had MCP servers to keep.                  *)

Faulty == faults < MaxFaults /\ faults' = faults + 1

At(pc)   == cmd.pc = pc
GoTo(pc) == cmd' = [cmd EXCEPT !.pc = pc]

Inner == cmd.kind = "rebuild"
         /\ cmd.pc \notin {"idle", "open", "retire", "edge", "delete", "confirm"}

Throw ==
  /\ cmd' = Idle
  /\ row' = IF Inner /\ cmd.snap # NoRow THEN cmd.snap ELSE row

\* resolveOnboardEntryOptions: the user runs a command.  A fresh onboard replaces
\* the session.
Start(kind) ==
  /\ At("idle")
  /\ \E keep \in BOOLEAN :
       /\ keep => kind = "rebuild"
       /\ kind = "rebuild" /\ live = NoLive => keep
       /\ cmd' = [Idle EXCEPT !.pc = "open", !.kind = kind,
                                !.snap = IF keep THEN row ELSE NoRow]
  /\ journal' = IF kind = "fresh" THEN NoJournal ELSE journal
  /\ UNCHANGED <<row, live, faults>>

\* openRebuildRecreateJournal: the plan is made before the journal is
\* checked to be this command's own.
OpenRebuild ==
  /\ At("open") /\ cmd.kind = "rebuild"
  /\ \/ /\ journal = NoJournal
        /\ journal' = Begun("rebuild") /\ GoTo("edge") /\ UNCHANGED row
     \/ /\ journal # NoJournal
        /\ IF Plan = "reject" \/ journal.intent # "rebuild"
           THEN Throw
           ELSE UNCHANGED row /\ GoTo(IF Plan = "accept_target" THEN "retire" ELSE "edge")
        /\ UNCHANGED journal
  /\ UNCHANGED <<live, faults>>

\* beginSandboxRecreateJournal in the sandbox handler.  A journal that another
\* kind of command has opened has another intent fingerprint.
OpenResume ==
  /\ At("open") /\ cmd.kind = "resume"
  /\ IF journal = NoJournal \/ journal.intent = "resume"
     THEN /\ journal' = IF journal = NoJournal THEN Begun("resume") ELSE journal
          /\ GoTo("plan") /\ UNCHANGED row
     ELSE Throw /\ UNCHANGED journal
  /\ UNCHANGED <<live, faults>>

\* openOnboardRecreateJournal: a fresh onboard journals when there is something to
\* delete, or when a pre-upgrade backup asks for a proof of its source.
OpenFresh ==
  /\ At("open") /\ cmd.kind = "fresh"
  /\ \/ IF journal = NoJournal \/ (Plan # "reject" /\ journal.intent = "fresh")
        THEN /\ journal' = IF journal = NoJournal THEN Begun("fresh") ELSE journal
             /\ GoTo("plan") /\ UNCHANGED row
        ELSE Throw /\ UNCHANGED journal
     \/ live = NoLive /\ GoTo("create") /\ UNCHANGED <<row, journal>>
  /\ UNCHANGED <<live, faults>>

\* completeAcceptedTarget: one durable write at a time.
Retire ==
  /\ At("retire")
  /\ IF Reached("completed")
     THEN journal' = NoJournal /\ cmd' = Idle
     ELSE /\ journal' = Advanced(IF Reached("registry_committing")
                                 THEN "completed" ELSE "registry_committing")
          /\ UNCHANGED cmd
  /\ UNCHANGED <<row, live, faults>>

\* createSandboxRecreateRuntime.  The proof handed to the backup selection is
\* taken from the journal as it was read, before the advance made here.
MakePlan ==
  /\ At("plan")
  /\ \/ Plan = "reject" /\ Throw /\ UNCHANGED journal
     \/ /\ Plan = "accept_target"
        /\ GoTo(IF cmd.kind = "fresh" THEN "complete" ELSE "commit")
        /\ UNCHANGED <<row, journal>>
     \/ Plan = "continue_delete" /\ GoTo("edge") /\ UNCHANGED <<row, journal>>
     \/ /\ Plan = "continue_create"
        /\ cmd' = [cmd EXCEPT !.pc = "select", !.proof = Reached("deleted")]
        /\ journal' = IF Reached("deleted") THEN journal ELSE Advanced("deleted")
        /\ UNCHANGED row
  /\ UNCHANGED <<live, faults>>

\* selectJournalBoundPreUpgradeBackup: a backup, if there is one, needs the
\* proof of its source; without the proof the selection throws, and a fresh
\* onboard abandons its journal unless that already recorded an effect.
Select ==
  /\ At("select")
  /\ \/ cmd.kind # "fresh" /\ GoTo("create") /\ UNCHANGED <<row, journal>>
     \/ /\ cmd.proof /\ row.rev = journal.src /\ live = NoLive
        /\ GoTo("create") /\ UNCHANGED <<row, journal>>
     \/ /\ ~(cmd.proof /\ row.rev = journal.src /\ live = NoLive)
        /\ Throw
        /\ journal' = IF cmd.kind = "fresh" /\ journal.clean THEN NoJournal ELSE journal
  /\ UNCHANGED <<live, faults>>

\* Mutant: whatever is live under the name is taken for the source.
EdgeByName ==
  /\ At("edge")
  /\ journal' = IF Reached("deleted") THEN journal ELSE Advanced("deleting")
  /\ GoTo(IF live = NoLive THEN "confirm" ELSE "delete")
  /\ UNCHANGED <<row, live, faults>>

\* observeSourceForDelete and markDeleting, or beginDelete: only the sandbox
\* journaled as the source may be deleted.
Edge ==
  /\ At("edge")
  /\ IF live = NoLive \/ live.id = journal.srcId
     THEN /\ journal' = IF Reached("deleted") THEN journal ELSE Advanced("deleting")
          /\ GoTo(IF live = NoLive THEN "confirm" ELSE "delete")
          /\ UNCHANGED row
     ELSE Throw /\ UNCHANGED journal
  /\ UNCHANGED <<live, faults>>

\* openshell sandbox delete, and the wait for explicit absence.
Delete ==
  /\ At("delete")
  /\ live' = NoLive
  /\ GoTo("confirm")
  /\ UNCHANGED <<row, journal, faults>>

\* The delete fails, or its outcome is not known: the command gives up.
DeleteFails ==
  /\ At("delete") /\ Faulty
  /\ live' \in {live, NoLive}
  /\ Throw
  /\ UNCHANGED journal

\* Mutant: onboard drops the row of the sandbox it has just deleted.
ConfirmAndForget ==
  /\ At("confirm")
  /\ IF live = NoLive /\ CanAdvance("deleted")
     THEN /\ journal' = Advanced("deleted")
          /\ row' = IF cmd.kind = "rebuild" THEN row ELSE NoRow
          /\ GoTo(IF cmd.kind = "rebuild" THEN "plan" ELSE "create")
     ELSE Throw /\ UNCHANGED journal
  /\ UNCHANGED <<live, faults>>

\* confirmDeleted.  onboard goes on to drop the row unless a journal still
\* needs it (removeSandboxUnlessSessionReservation); rebuild hands over to
\* the inner onboard, whose session keeps the journal.
Confirm ==
  /\ At("confirm")
  /\ IF live = NoLive /\ CanAdvance("deleted")
     THEN /\ journal' = Advanced("deleted")
          /\ row' = IF cmd.kind = "rebuild" \/ journal'.phase # "completed"
                    THEN row ELSE NoRow
          /\ GoTo(IF cmd.kind = "rebuild" THEN "plan" ELSE "create")
     ELSE Throw /\ UNCHANGED journal
  /\ UNCHANGED <<live, faults>>

\* advance("creating"), once the create plan is ready.
Creating ==
  /\ At("create")
  /\ journal' = IF journal = NoJournal THEN journal ELSE Advanced("creating")
  /\ GoTo("make")
  /\ UNCHANGED <<row, live, faults>>

Created(ready) == [id |-> FreshId, ready |-> ready]

Made(pc) == cmd' = [cmd EXCEPT !.pc = pc, !.made = FreshId, !.taken = FALSE]

\* openshell sandbox create: the name must be free.
Make ==
  /\ At("make")
  /\ IF live = NoLive
     THEN live' = Created(TRUE) /\ Made("record") /\ UNCHANGED row
     ELSE Throw /\ UNCHANGED live
  /\ UNCHANGED <<journal, faults>>

\* The create fails, with or without a sandbox, or the sandbox does not become
\* ready.  A first attempt with the GPU may be given a second one without.
MakeFails ==
  /\ At("make") /\ live = NoLive /\ Faulty
  /\ \/ live' \in {NoLive, Created(FALSE)} /\ Throw
     \/ live' = Created(FALSE) /\ Made("undo") /\ UNCHANGED row
     \/ cmd.made = 0 /\ live' = Created(FALSE) /\ Made("retry") /\ UNCHANGED row
  /\ UNCHANGED journal

\* rollbackSandboxAndExit and its twin for Hermes: the dashboard of a sandbox that
\* is ready cannot be reached.
Unreachable ==
  /\ At("record") /\ Faulty
  /\ GoTo("undo")
  /\ UNCHANGED <<row, live, journal>>

\* The command deletes, by name, what it could not finish, and exits.
Undo ==
  /\ At("undo")
  /\ live' \in {live, NoLive}
  /\ Throw
  /\ UNCHANGED <<journal, faults>>

\* cleanupNativeGpuAttemptForFallback: deleted by name and absent, it is created
\* once more.
Fallback ==
  /\ At("retry")
  /\ live' = NoLive
  /\ GoTo("make")
  /\ UNCHANGED <<row, journal, faults>>

\* Mutant: the identity of the replacement is not recorded.
RecordPhaseOnly ==
  /\ At("record")
  /\ IF journal = NoJournal \/ live.ready
     THEN /\ journal' = IF journal = NoJournal THEN journal
                        ELSE [journal EXCEPT !.phase = "created"]
          /\ GoTo("register") /\ UNCHANGED row
     ELSE Throw /\ UNCHANGED journal
  /\ UNCHANGED <<live, faults>>

\* recordCreated: the replacement must be ready, and reports its identity.
Record ==
  /\ At("record")
  /\ IF journal = NoJournal \/ live.ready
     THEN /\ journal' = IF journal = NoJournal THEN journal
                        ELSE [journal EXCEPT !.phase = "created", !.tgtId = live.id]
          /\ GoTo("register") /\ UNCHANGED row
     ELSE Throw /\ UNCHANGED journal
  /\ UNCHANGED <<live, faults>>

\* Mutant: a finalization that refuses to register does not end the run.
RegisterOrGoOn ==
  /\ At("register")
  /\ row' \in {row, [gen |-> journal.gen, id |-> journal.tgtId, rev |-> FreshRev]}
  /\ IF cmd.kind # "fresh" THEN GoTo("commit")
     ELSE IF journal = NoJournal THEN cmd' = Idle ELSE GoTo("complete")
  /\ UNCHANGED <<live, journal, faults>>

\* finalizeCreatedSandbox: state is restored, then the row is replaced by
\* one with the target's generation and identity; a run without a journal
\* registers neither.  (A finalization that refuses to register is Fail.)
Register ==
  /\ At("register")
  /\ row' = [gen |-> journal.gen, id |-> journal.tgtId, rev |-> FreshRev]
  /\ IF cmd.kind # "fresh" THEN GoTo("commit")
     ELSE IF journal = NoJournal THEN cmd' = Idle ELSE GoTo("complete")
  /\ UNCHANGED <<live, journal, faults>>

\* complete: a fresh onboard retires its own journal in one session update.
Complete ==
  /\ At("complete")
  /\ journal' = NoJournal
  /\ cmd' = Idle
  /\ UNCHANGED <<row, live, faults>>

\* The sandbox handler after createSandbox: the journal enters
\* registry_committing (the obsolete image is removed first), the row gets
\* its route and agent fields, the journal is completed and then cleared.
Commit ==
  /\ At("commit")
  /\ journal' = IF Reached("completed") THEN journal ELSE Advanced("registry_committing")
  /\ GoTo("finish")
  /\ UNCHANGED <<row, live, faults>>

Finish ==
  /\ At("finish")
  /\ row' = [row EXCEPT !.rev = FreshRev]
  /\ journal' = Advanced("completed")
  /\ GoTo("clear")
  /\ UNCHANGED <<live, faults>>

Clear ==
  /\ At("clear")
  /\ journal' = NoJournal
  /\ IF cmd.kind = "rebuild" THEN GoTo("inner") ELSE cmd' = Idle
  /\ UNCHANGED <<row, live, faults>>

\* The onboarding steps after the sandbox step, inside a rebuild.
InnerDone ==
  /\ At("inner")
  /\ cmd' = Idle
  /\ UNCHANGED <<row, live, journal, faults>>

-----------------------------------------------------------------------------
(* What goes wrong.                                                        *)

\* An observation, a call or a check fails and the command throws.
Fail == ~At("idle") /\ Faulty /\ Throw /\ UNCHANGED <<live, journal>>

\* The process is killed: nothing is put back.
Die == ~At("idle") /\ Faulty /\ cmd' = Idle /\ UNCHANGED <<row, live, journal>>

\* The sandbox is deleted by someone else, or a delete that was given up on
\* goes through after all.
Vanish == live # NoLive /\ Faulty /\ live' = NoLive /\ UNCHANGED <<row, journal, cmd>>

\* Someone else creates a sandbox of that name.  The gateway deletes by name, so
\* nothing protects one that appears between the look and the delete, or between
\* the create and the look that records its identity.
Foreign ==
  /\ live = NoLive /\ Faulty
  /\ live' = Created(TRUE)
  /\ cmd' = IF cmd.pc \in {"delete", "record", "undo", "retry"}
            THEN [cmd EXCEPT !.taken = TRUE] ELSE cmd
  /\ UNCHANGED <<row, journal>>

\* The gateway's view of readiness changes.
Flip ==
  /\ live # NoLive /\ Faulty
  /\ live' = [live EXCEPT !.ready = ~@]
  /\ UNCHANGED <<row, journal, cmd>>

\* Another command changes the row.  While a replacement runs, the sandbox's
\* lifecycle lock keeps those out.
Edit ==
  /\ At("idle") /\ Faulty
  /\ row' = [row EXCEPT !.rev = FreshRev]
  /\ UNCHANGED <<live, journal, cmd>>

Step ==
  \/ OpenRebuild \/ OpenResume \/ OpenFresh \/ Retire \/ MakePlan \/ Select
  \/ Edge \/ Delete \/ Confirm \/ Creating \/ Make \/ Undo \/ Fallback \/ Record \/ Register
  \/ Complete \/ Commit \/ Finish \/ Clear \/ InnerDone

Next ==
  \/ \E kind \in Kinds : Start(kind)
  \/ Step
  \/ DeleteFails \/ MakeFails \/ Unreachable \/ Fail \/ Die
  \/ Vanish \/ Foreign \/ Flip \/ Edit

Spec == Init /\ [][Next]_vars

\* A running command takes its next step, and the user keeps rerunning each
\* command, as the docs tell them to.
Fairness == WF_vars(Step) /\ \A kind \in Kinds \ {"fresh"} : SF_vars(Start(kind))
FairSpec == Spec /\ Fairness

-----------------------------------------------------------------------------
(* Properties.                                                             *)

\* Types, and that the journal names the replacement exactly from phase
\* "created" on, which is what recordSandboxRecreateTargetCreated promises to
\* the recovery plan.
TypeOK ==
  /\ row \in [gen : 0..MaxToken, id : 0..MaxToken, rev : 0..MaxToken]
  /\ live \in [id : 0..MaxToken, ready : BOOLEAN]
  /\ live.ready => live.id # 0
  /\ \/ journal = NoJournal
     \/ /\ journal \in [intent : Kinds, src : Tokens, srcId : 0..MaxToken, gen : Tokens,
                        tgtId : 0..MaxToken, phase : DOMAIN Rank, clean : BOOLEAN]
        /\ (journal.tgtId # 0) <=> Reached("created")
        /\ journal.tgtId # 0 => journal.tgtId # journal.srcId
  /\ cmd.kind \in Kinds \cup {"none"} /\ cmd.proof \in BOOLEAN
  /\ faults \in 0..MaxFaults

\* A command deletes the journaled source, and in its cleanup the sandbox that it
\* has itself created, but never the replacement that an earlier run of the
\* transaction registered, nor a sandbox that had the name when it looked.  The
\* gateway deletes by name: who takes the name after that look is not protected.
DeletesOnlyItsOwn ==
  [][live # NoLive /\ live' = NoLive /\ cmd' # cmd
       => /\ journal # NoJournal => row.gen # journal.gen
          /\ cmd.taken \/ live.id = (IF At("delete") THEN journal.srcId ELSE cmd.made)]_vars

\* Until the replacement exists, no step of a command changes or removes the
\* row: between the delete and the registration it is the only record of
\* what the sandbox was.
SourceRecordKept ==
  [][~At("idle") /\ journal # NoJournal /\ ~Reached("created") => row' = row]_vars

\* A journal with an effect disappears only once the registry holds the
\* replacement it names, unless a fresh onboard starts the session anew.
ClearedMeansRegistered ==
  [][journal # NoJournal /\ journal' = NoJournal
       => \/ At("idle") /\ cmd'.kind = "fresh"
          \/ journal.clean
          \/ row.gen = journal.gen /\ row.id = journal.tgtId]_vars

\* The recovery plan refuses, or a rebuild has died in "creating", or the journal
\* is a fresh onboard's: the rerun that finds its session has another intent.
Wedged ==
  \/ Plan = "reject"
  \/ journal.intent = "rebuild" /\ journal.phase = "creating"
  \/ journal.intent = "fresh"

\* Rerunning the commands settles a journal, whoever opened it, or it is in one of
\* the states that every rerun refuses until a fresh onboard drops the session.
RerunSettles ==
  \A kind \in Kinds :
    (journal.intent = kind) ~> (journal = NoJournal \/ (At("idle") /\ Wedged))

\* docs/manage-sandboxes/recover-rebuild-sandboxes.mdx: the rerun of a rebuild
\* "continues creation when the recorded OpenShell gateway explicitly reports
\* the source sandbox as absent".
RerunContinuesCreation ==
  (journal.intent = "rebuild" /\ Plan = "continue_create")
     ~> (journal = NoJournal \/ Plan # "continue_create")

\* docs/reference/commands.mdx: once a replacement is journaled, "a later
\* same-target onboarding run continues the active replacement without requiring
\* `--resume'".  A rerun that finds the session in progress is a resumed one.
RerunContinuesReplacement ==
  (journal.intent = "fresh" /\ Plan # "reject") ~> (journal = NoJournal \/ Plan = "reject")
=============================================================================
