--------------------------- MODULE RecreateProofs ---------------------------
(***************************************************************************)
(* Theorems about Recreate, for any set of commands, any number of         *)
(* identities and any number of faults.  The invariant says, for each      *)
(* place a command can be at, what it may rely on there: how far the       *)
(* journal is, whose row the registry has, and whose the live sandbox is.  *)
(***************************************************************************)
EXTENDS Recreate, TLAPS

Row == [gen : 0..MaxToken, id : 0..MaxToken, rev : 0..MaxToken]

Pcs == {"idle", "open", "retire", "plan", "select", "edge", "delete", "confirm", "create",
        "make", "undo", "retry", "record", "register", "complete", "commit", "finish", "clear",
        "inner"}

Cmd == [pc : Pcs, kind : Kinds \cup {"none"}, proof : BOOLEAN, snap : Row,
        made : 0..MaxToken, taken : BOOLEAN]

\* The places between the plan and the registration of the replacement.
Replacing == {"edge", "delete", "confirm", "select", "create", "make", "undo", "retry", "record"}

RowOK == row \in Row /\ row.rev # 0

LiveOK == live \in [id : 0..MaxToken, ready : BOOLEAN] /\ (live.ready => live.id # 0)

JournalOK ==
  \/ journal = NoJournal
  \/ /\ journal \in [intent : Kinds, src : Tokens, srcId : 0..MaxToken, gen : Tokens,
                     tgtId : 0..MaxToken, phase : DOMAIN Rank, clean : BOOLEAN]
     /\ (journal.tgtId # 0) <=> Reached("created")
     /\ journal.tgtId # 0 => journal.tgtId # journal.srcId

CmdOK == cmd \in Cmd /\ (cmd.snap # NoRow => cmd.snap.rev # 0)

FaultsOK == faults \in 0..MaxFaults

Typed == RowOK /\ LiveOK /\ JournalOK /\ CmdOK /\ FaultsOK

\* Until the replacement is registered, what a failing rebuild puts back is
\* the row that is there.
SnapIsRow ==
  cmd.pc \in {"open", "plan"} \cup Replacing => cmd.snap \in {NoRow, row}

\* Whether there is a journal, and whether it names the replacement.
JournalAt ==
  /\ At("open") /\ cmd.kind = "fresh" => journal = NoJournal
  /\ cmd.pc \in {"plan", "select", "edge", "delete", "confirm", "retire", "complete",
                 "commit", "finish", "clear"} => journal # NoJournal
  /\ cmd.pc \in {"create", "make", "undo", "retry", "record", "register"} /\ journal = NoJournal
       => cmd.kind = "fresh"
  /\ cmd.pc \in Replacing => ~Reached("created")
  /\ At("register") /\ journal # NoJournal => Reached("created")
  /\ At("inner") => journal = NoJournal

\* Before the registration the row is not the replacement's.  What is about to be
\* deleted is the source, or the sandbox made here, unless another has taken the
\* name; what is about to be recorded is not the source.
SourceAt ==
  /\ cmd.pc \in Replacing /\ journal # NoJournal => row.gen # journal.gen
  /\ At("delete") => live = NoLive \/ cmd.taken \/ live.id = journal.srcId
  /\ cmd.pc \in {"undo", "retry", "record"} => live = NoLive \/ cmd.taken \/ live.id = cmd.made
  /\ At("record") /\ journal # NoJournal => live = NoLive \/ live.id # journal.srcId

\* Past the registration the row is the replacement's.
TargetAt ==
  cmd.pc \in {"retire", "complete", "commit", "finish", "clear"}
    => row.gen = journal.gen /\ row.id = journal.tgtId /\ Reached("created")

Placed == SnapIsRow /\ JournalAt /\ SourceAt /\ TargetAt

IndInv == Typed /\ Placed

-----------------------------------------------------------------------------
(* The operators.                                                          *)

\* The order of the phases.
LEMMA RankValues ==
  /\ DOMAIN Rank = {"planned", "deleting", "deleted", "creating", "created",
                    "registry_committing", "completed"}
  /\ Rank["planned"] = 1 /\ Rank["deleting"] = 2 /\ Rank["deleted"] = 3
  /\ Rank["creating"] = 4 /\ Rank["created"] = 5
  /\ Rank["registry_committing"] = 6 /\ Rank["completed"] = 7
<1>1. DOMAIN Phases = 1..7
  BY DEF Phases
<1>2. 1..7 = {1, 2, 3, 4, 5, 6, 7}
  OBVIOUS
<1>3. /\ Phases[1] = "planned" /\ Phases[2] = "deleting" /\ Phases[3] = "deleted"
      /\ Phases[4] = "creating" /\ Phases[5] = "created"
      /\ Phases[6] = "registry_committing" /\ Phases[7] = "completed"
  BY DEF Phases
<1> QED
  BY <1>1, <1>2, <1>3 DEF Rank

\* A fresh token is none of six others.
LEMMA FreshIsNew ==
  ASSUME NEW a, NEW b, NEW c, NEW d, NEW e, NEW f
  PROVE  Fresh({a, b, c, d, e, f}) \in Tokens \ {a, b, c, d, e, f}
<1>1. {1, 2, 3, 4, 5, 6, 7} \subseteq Tokens
  BY TokensAssumption DEF Tokens
<1>2. \E t \in {1, 2, 3, 4, 5, 6, 7} : t \notin {a, b, c, d, e, f}
  BY Z3
<1>3. \E t \in Tokens : t \notin {a, b, c, d, e, f}
  BY <1>1, <1>2
<1> QED
  BY <1>3 DEF Fresh

\* Fresh identities, generations and revisions are new.
LEMMA FreshTokens ==
  /\ FreshId \in Tokens \ {row.id, live.id, journal.srcId, journal.tgtId, cmd.snap.id,
                          cmd.made}
  /\ FreshGen \in Tokens \ {row.gen, journal.gen, cmd.snap.gen}
  /\ FreshRev \in Tokens \ {row.rev, journal.src, cmd.snap.rev}
<1>1. ASSUME NEW a, NEW b, NEW c
      PROVE  Fresh({a, b, c}) \in Tokens \ {a, b, c}
  <2>1. {a, b, c} = {a, b, c, c, c, c}
    OBVIOUS
  <2> QED
    BY <2>1, FreshIsNew
<1> QED
  BY <1>1, FreshIsNew DEF FreshId, FreshGen, FreshRev

\* The records that stand for nothing have their types.
LEMMA NothingTyped == NoRow \in Row /\ Idle \in Cmd
BY TokensAssumption DEF NoRow, Row, Idle, Cmd, Pcs

\* An advance sets the phase, and leaves a journal that is typed when it does
\* not cross the phase in which the replacement gets its name.
LEMMA AdvancedFacts ==
  ASSUME JournalOK, journal # NoJournal, NEW p \in DOMAIN Rank,
         (Rank[p] >= Rank["created"]) <=> Reached("created"),
         journal' = Advanced(p)
  PROVE  /\ JournalOK' /\ journal' # NoJournal
         /\ journal'.phase = p /\ journal'.srcId = journal.srcId
         /\ journal'.gen = journal.gen /\ journal'.tgtId = journal.tgtId
<1>1. journal \in [intent : Kinds, src : Tokens, srcId : 0..MaxToken, gen : Tokens,
                   tgtId : 0..MaxToken, phase : DOMAIN Rank, clean : BOOLEAN]
  BY DEF JournalOK
<1>2. journal' = journal \/ journal' = [journal EXCEPT !.phase = p, !.clean = FALSE]
  BY DEF Advanced
<1>3. /\ journal' \in [intent : Kinds, src : Tokens, srcId : 0..MaxToken, gen : Tokens,
                       tgtId : 0..MaxToken, phase : DOMAIN Rank, clean : BOOLEAN]
      /\ journal'.srcId = journal.srcId /\ journal'.gen = journal.gen
      /\ journal'.tgtId = journal.tgtId /\ journal'.intent = journal.intent
  BY <1>1, <1>2
<1>4. journal'.phase = p
  BY <1>1 DEF Advanced
<1>5. journal'.intent # "none"
  BY <1>1, <1>3, KindsAssumption
<1>6. journal' # NoJournal
  BY <1>5 DEF NoJournal
<1>7. JournalOK'
  BY <1>3, <1>4 DEF JournalOK, Reached
<1> QED
  BY <1>3, <1>4, <1>6, <1>7

\* A new journal names the row and the live sandbox, and a generation that the
\* row does not have.
LEMMA BegunFacts ==
  ASSUME RowOK, LiveOK, NEW k \in Kinds, journal' = Begun(k)
  PROVE  /\ JournalOK' /\ journal' # NoJournal /\ ~Reached("created")'
         /\ journal'.gen # row.gen
<1>1. /\ journal' \in [intent : Kinds, src : Tokens, srcId : 0..MaxToken, gen : Tokens,
                       tgtId : 0..MaxToken, phase : DOMAIN Rank, clean : BOOLEAN]
      /\ journal'.phase \in {"planned", "deleted"} /\ journal'.tgtId = 0
      /\ journal'.gen = FreshGen /\ journal'.intent = k
  BY RankValues, FreshTokens, TokensAssumption DEF Begun, RowOK, Row, LiveOK, Tokens
<1>2. journal' # NoJournal
  BY <1>1, KindsAssumption DEF NoJournal
<1>3. ~Reached("created")'
  BY <1>1, RankValues DEF Reached
<1> QED
  BY <1>1, <1>2, <1>3, FreshTokens DEF JournalOK

\* A command that ends leaves nothing to be relied on.
LEMMA EndsPlaced ==
  ASSUME RowOK', LiveOK', JournalOK', FaultsOK', cmd' = Idle
  PROVE  IndInv'
<1>1. CmdOK'
  BY NothingTyped DEF CmdOK, Idle
<1>2. cmd'.pc = "idle"
  BY DEF Idle
<1>3. Placed'
  BY <1>2 DEF Placed, SnapIsRow, JournalAt, SourceAt, TargetAt, At, Replacing
<1> QED
  BY <1>1, <1>3 DEF IndInv, Typed

\* A command that throws ends, and the row is the one it was, or one that was
\* kept.
LEMMA ThrowPlaced ==
  ASSUME IndInv, Throw, LiveOK', JournalOK', FaultsOK'
  PROVE  IndInv'
<1>1. RowOK'
  BY DEF IndInv, Typed, RowOK, CmdOK, Cmd, Throw
<1> QED
  BY <1>1, EndsPlaced DEF Throw

\* A command that goes on is at the place it goes to, and otherwise the same.
LEMMA GoToFacts ==
  ASSUME CmdOK, NEW l \in Pcs, GoTo(l)
  PROVE  /\ CmdOK' /\ cmd'.pc = l /\ cmd'.kind = cmd.kind /\ cmd'.snap = cmd.snap
         /\ cmd'.made = cmd.made /\ cmd'.taken = cmd.taken
BY DEF CmdOK, Cmd, GoTo

\* A fault is counted up to the bound.
LEMMA FaultsCounted ==
  ASSUME FaultsOK, Faulty \/ UNCHANGED faults
  PROVE  FaultsOK'
BY FaultsAssumption DEF FaultsOK, Faulty

\* The live sandbox goes, or stays, or is a new one.
LEMMA LiveTypes ==
  ASSUME LiveOK, \/ live' = live \/ live' = NoLive
                 \/ \E b \in BOOLEAN : live' = [id |-> FreshId, ready |-> b]
  PROVE  LiveOK'
<1>1. CASE live' = live
  BY <1>1 DEF LiveOK
<1>2. CASE live' = NoLive
  BY <1>2, TokensAssumption DEF LiveOK, NoLive
<1>3. CASE \E b \in BOOLEAN : live' = [id |-> FreshId, ready |-> b]
  <2>1. FreshId \in 0..MaxToken /\ FreshId # 0
    BY FreshTokens, TokensAssumption DEF Tokens
  <2> QED
    BY <1>3, <2>1 DEF LiveOK
<1> QED
  BY <1>1, <1>2, <1>3

-----------------------------------------------------------------------------
(* One lemma for each action.                                              *)

\* A command starts with the row it found, and a fresh onboard without a journal.
LEMMA StartInv ==
  ASSUME IndInv, NEW k \in Kinds, Start(k)
  PROVE  IndInv'
<1>1. RowOK' /\ LiveOK' /\ FaultsOK' /\ JournalOK'
  BY DEF IndInv, Typed, RowOK, LiveOK, FaultsOK, JournalOK, Start, Reached
<1>2. PICK keep \in BOOLEAN :
        cmd' = [pc |-> "open", kind |-> k, proof |-> FALSE,
                snap |-> IF keep THEN row ELSE NoRow, made |-> 0, taken |-> FALSE]
  BY DEF Start, Idle
<1>3. CmdOK' /\ cmd'.pc = "open" /\ cmd'.kind = k /\ cmd'.snap \in {row, NoRow}
  BY <1>2, NothingTyped, TokensAssumption DEF IndInv, Typed, RowOK, CmdOK, Cmd, Pcs
<1>4. Placed'
  BY <1>3 DEF Placed, SnapIsRow, JournalAt, SourceAt, TargetAt, At, Replacing, Start
<1> QED
  BY <1>1, <1>3, <1>4 DEF IndInv, Typed

\* openRebuildRecreateJournal goes on to delete only before the replacement is named.
LEMMA OpenRebuildInv ==
  ASSUME IndInv, OpenRebuild
  PROVE  IndInv'
<1>1. LiveOK' /\ FaultsOK'
  BY DEF IndInv, Typed, LiveOK, FaultsOK, OpenRebuild
<1>2. CASE journal = NoJournal
  <2>1. journal' = Begun("rebuild") /\ GoTo("edge") /\ UNCHANGED <<row, live>>
    BY <1>2 DEF OpenRebuild
  <2>2. cmd.kind = "rebuild" /\ cmd.kind \in Kinds /\ At("open")
    BY DEF IndInv, Typed, CmdOK, Cmd, OpenRebuild
  <2>3. JournalOK' /\ journal' # NoJournal /\ ~Reached("created")' /\ journal'.gen # row.gen
    BY <2>1, <2>2, BegunFacts DEF IndInv, Typed
  <2>4. CmdOK' /\ cmd'.pc = "edge" /\ cmd'.snap = cmd.snap
    BY <2>1, GoToFacts DEF IndInv, Typed, Pcs
  <2>5. RowOK'
    BY <2>1 DEF IndInv, Typed, RowOK
  <2>6. Placed'
    BY <2>1, <2>2, <2>3, <2>4
    DEF IndInv, Placed, SnapIsRow, JournalAt, SourceAt, TargetAt, At, Replacing
  <2> QED
    BY <1>1, <2>3, <2>4, <2>5, <2>6 DEF IndInv, Typed
<1>3. CASE journal # NoJournal /\ Throw
  <2>1. JournalOK'
    BY <1>3 DEF IndInv, Typed, JournalOK, Reached, OpenRebuild
  <2> QED
    BY <1>1, <1>3, <2>1, ThrowPlaced
<1>4. CASE journal # NoJournal /\ Plan # "reject" /\ UNCHANGED <<row, journal>>
           /\ GoTo(IF Plan = "accept_target" THEN "retire" ELSE "edge")
  <2>1. RowOK' /\ JournalOK'
    BY <1>4 DEF IndInv, Typed, RowOK, JournalOK, Reached
  <2>2. CASE Plan = "accept_target"
    <3>1. CmdOK' /\ cmd'.pc = "retire"
      BY <1>4, <2>2, GoToFacts DEF IndInv, Typed, Pcs
    <3>2. row.gen = journal.gen /\ row.id = journal.tgtId /\ Reached("created")
      BY <1>4, <2>2 DEF IndInv, Typed, JournalOK, Plan
    <3>3. Placed'
      BY <1>4, <3>1, <3>2
      DEF Placed, SnapIsRow, JournalAt, SourceAt, TargetAt, At, Replacing, Reached
    <3> QED
      BY <1>1, <2>1, <3>1, <3>3 DEF IndInv, Typed
  <2>3. CASE Plan # "accept_target"
    <3>1. CmdOK' /\ cmd'.pc = "edge" /\ cmd'.snap = cmd.snap
      BY <1>4, <2>3, GoToFacts DEF IndInv, Typed, Pcs
    <3>2. row.gen # journal.gen /\ ~Reached("created")
      BY <1>4, <2>3 DEF Plan
    <3>3. cmd.snap \in {NoRow, row}
      BY DEF IndInv, Placed, SnapIsRow, OpenRebuild, At
    <3>4. Placed'
      BY <1>4, <3>1, <3>2, <3>3
      DEF Placed, SnapIsRow, JournalAt, SourceAt, TargetAt, At, Replacing, Reached
    <3> QED
      BY <1>1, <2>1, <3>1, <3>4 DEF IndInv, Typed
  <2> QED
    BY <2>2, <2>3
<1> QED
  BY <1>2, <1>3, <1>4 DEF OpenRebuild

\* beginSandboxRecreateJournal leaves a journal.
LEMMA OpenResumeInv ==
  ASSUME IndInv, OpenResume
  PROVE  IndInv'
<1>1. LiveOK' /\ FaultsOK'
  BY DEF IndInv, Typed, LiveOK, FaultsOK, OpenResume
<1>2. At("open") /\ cmd.kind = "resume" /\ cmd.kind \in Kinds /\ cmd.snap \in {NoRow, row}
  BY DEF IndInv, Typed, CmdOK, Cmd, Placed, SnapIsRow, Replacing, At, OpenResume
<1>3. CASE Throw /\ UNCHANGED journal
  <2>1. JournalOK'
    BY <1>3 DEF IndInv, Typed, JournalOK, Reached
  <2> QED
    BY <1>1, <1>3, <2>1, ThrowPlaced
<1>4. CASE /\ journal' = IF journal = NoJournal THEN Begun("resume") ELSE journal
           /\ GoTo("plan") /\ UNCHANGED row
  <2>1. JournalOK' /\ journal' # NoJournal
    <3>1. CASE journal = NoJournal
      BY <1>2, <1>4, <3>1, BegunFacts DEF IndInv, Typed
    <3>2. CASE journal # NoJournal
      BY <1>4, <3>2 DEF IndInv, Typed, JournalOK, Reached
    <3> QED
      BY <3>1, <3>2
  <2>2. CmdOK' /\ cmd'.pc = "plan" /\ cmd'.snap = cmd.snap
    BY <1>4, GoToFacts DEF IndInv, Typed, Pcs
  <2>3. RowOK'
    BY <1>4 DEF IndInv, Typed, RowOK
  <2>4. Placed'
    BY <1>2, <1>4, <2>1, <2>2 DEF Placed, SnapIsRow, JournalAt, SourceAt, TargetAt, At, Replacing
  <2> QED
    BY <1>1, <2>1, <2>2, <2>3, <2>4 DEF IndInv, Typed
<1> QED
  BY <1>3, <1>4 DEF OpenResume

\* A fresh onboard goes on to create without a journal only with nothing to delete.
LEMMA OpenFreshInv ==
  ASSUME IndInv, OpenFresh
  PROVE  IndInv'
<1>1. LiveOK' /\ FaultsOK'
  BY DEF IndInv, Typed, LiveOK, FaultsOK, OpenFresh
<1>2. /\ At("open") /\ cmd.kind = "fresh" /\ cmd.kind \in Kinds /\ cmd.snap \in {NoRow, row}
      /\ journal = NoJournal
  BY DEF IndInv, Typed, CmdOK, Cmd, Placed, SnapIsRow, JournalAt, Replacing, At, OpenFresh
<1>5. UNCHANGED row => RowOK'
  BY DEF IndInv, Typed, RowOK
<1>3. CASE journal' = Begun("fresh") /\ GoTo("plan") /\ UNCHANGED row
  <2>1. JournalOK' /\ journal' # NoJournal
    BY <1>2, <1>3, BegunFacts DEF IndInv, Typed
  <2>2. CmdOK' /\ cmd'.pc = "plan" /\ cmd'.snap = cmd.snap
    BY <1>3, GoToFacts DEF IndInv, Typed, Pcs
  <2>3. Placed'
    BY <1>2, <1>3, <2>1, <2>2
    DEF Placed, SnapIsRow, JournalAt, SourceAt, TargetAt, At, Replacing, OpenFresh
  <2> QED
    BY <1>1, <1>3, <1>5, <2>1, <2>2, <2>3 DEF IndInv, Typed
<1>4. CASE UNCHANGED <<row, journal>> /\ GoTo("create")
  <2>1. CmdOK' /\ cmd'.pc = "create" /\ cmd'.snap = cmd.snap /\ cmd'.kind = "fresh"
    BY <1>2, <1>4, GoToFacts DEF IndInv, Typed, Pcs
  <2>2. JournalOK' /\ ~Reached("created")'
    BY <1>2, <1>4, RankValues DEF JournalOK, NoJournal, Reached
  <2>3. Placed'
    BY <1>2, <1>4, <2>1, <2>2
    DEF Placed, SnapIsRow, JournalAt, SourceAt, TargetAt, At, Replacing, OpenFresh
  <2> QED
    BY <1>1, <1>4, <1>5, <2>1, <2>2, <2>3 DEF IndInv, Typed
<1> QED
  BY <1>2, <1>3, <1>4 DEF OpenFresh

\* completeAcceptedTarget moves a journal whose replacement is registered.
LEMMA RetireInv ==
  ASSUME IndInv, Retire
  PROVE  IndInv'
<1>1. LiveOK' /\ FaultsOK' /\ RowOK'
  BY DEF IndInv, Typed, LiveOK, FaultsOK, RowOK, Retire
<1>2. /\ At("retire") /\ journal # NoJournal /\ Reached("created")
      /\ row.gen = journal.gen /\ row.id = journal.tgtId
  BY DEF IndInv, Placed, JournalAt, TargetAt, At, Retire
<1>3. CASE journal' = NoJournal /\ cmd' = Idle
  BY <1>1, <1>3, EndsPlaced DEF JournalOK
<1>4. CASE UNCHANGED cmd /\ \E p \in {"completed", "registry_committing"} : journal' = Advanced(p)
  <2>1. PICK p \in {"completed", "registry_committing"} : journal' = Advanced(p)
    BY <1>4
  <2>2. p \in DOMAIN Rank /\ Rank[p] >= Rank["created"]
    BY RankValues
  <2>3. /\ JournalOK' /\ journal' # NoJournal /\ journal'.phase = p
        /\ journal'.gen = journal.gen /\ journal'.tgtId = journal.tgtId
    BY <1>2, <2>1, <2>2, AdvancedFacts DEF IndInv, Typed
  <2>4. Reached("created")'
    BY <2>2, <2>3 DEF Reached
  <2>5. CmdOK'
    BY <1>4 DEF IndInv, Typed, CmdOK
  <2>6. Placed'
    BY <1>2, <1>4, <2>3, <2>4
    DEF Placed, SnapIsRow, JournalAt, SourceAt, TargetAt, At, Replacing, Retire
  <2> QED
    BY <1>1, <2>3, <2>5, <2>6 DEF IndInv, Typed
<1> QED
  BY <1>3, <1>4 DEF Retire

\* createSandboxRecreateRuntime follows the plan.
LEMMA MakePlanInv ==
  ASSUME IndInv, MakePlan
  PROVE  IndInv'
<1>1. LiveOK' /\ FaultsOK'
  BY DEF IndInv, Typed, LiveOK, FaultsOK, MakePlan
<1>2. At("plan") /\ journal # NoJournal /\ cmd.snap \in {NoRow, row}
  BY DEF IndInv, Placed, SnapIsRow, JournalAt, Replacing, At, MakePlan
<1>3. UNCHANGED journal => JournalOK'
  BY DEF IndInv, Typed, JournalOK, Reached
<1>4. UNCHANGED row => RowOK'
  BY DEF IndInv, Typed, RowOK
<1>5. CASE Throw /\ UNCHANGED journal
  BY <1>1, <1>3, <1>5, ThrowPlaced
<1>6. CASE Plan = "accept_target" /\ (GoTo("commit") \/ GoTo("complete"))
           /\ UNCHANGED <<row, journal>>
  <2>1. CmdOK' /\ cmd'.pc \in {"commit", "complete"}
    BY <1>6, GoToFacts DEF IndInv, Typed, Pcs
  <2>2. row.gen = journal.gen /\ row.id = journal.tgtId /\ Reached("created")
    BY <1>2, <1>6 DEF IndInv, Typed, JournalOK, Plan
  <2>3. Placed'
    BY <1>2, <1>6, <2>1, <2>2
    DEF Placed, SnapIsRow, JournalAt, SourceAt, TargetAt, At, Replacing, Reached
  <2> QED
    BY <1>1, <1>3, <1>4, <1>6, <2>1, <2>3 DEF IndInv, Typed
<1>7. CASE Plan = "continue_delete" /\ GoTo("edge") /\ UNCHANGED <<row, journal>>
  <2>1. CmdOK' /\ cmd'.pc = "edge" /\ cmd'.snap = cmd.snap
    BY <1>7, GoToFacts DEF IndInv, Typed, Pcs
  <2>2. row.gen # journal.gen /\ ~Reached("created")
    BY <1>7 DEF Plan
  <2>3. Placed'
    BY <1>2, <1>7, <2>1, <2>2
    DEF Placed, SnapIsRow, JournalAt, SourceAt, TargetAt, At, Replacing, Reached
  <2> QED
    BY <1>1, <1>3, <1>4, <1>7, <2>1, <2>3 DEF IndInv, Typed
<1>8. CASE /\ Plan = "continue_create"
           /\ cmd' = [cmd EXCEPT !.pc = "select", !.proof = Reached("deleted")]
           /\ journal' = IF Reached("deleted") THEN journal ELSE Advanced("deleted")
           /\ UNCHANGED row
  <2>1. CmdOK' /\ cmd'.pc = "select" /\ cmd'.snap = cmd.snap
    <3>1. PICK b \in BOOLEAN : cmd' = [cmd EXCEPT !.pc = "select", !.proof = b]
      <4>1. Reached("deleted") \in BOOLEAN
        BY RankValues DEF IndInv, Typed, JournalOK, Reached, NoJournal
      <4> QED
        BY <1>8, <4>1, Zenon
    <3> QED
      BY <3>1 DEF IndInv, Typed, CmdOK, Cmd, Pcs
  <2>2. ~Reached("created") /\ row.gen # journal.gen
    BY <1>8 DEF Plan
  <2>3. JournalOK' /\ journal' # NoJournal /\ ~Reached("created")' /\ journal'.gen = journal.gen
    <3>1. CASE journal' = journal
      BY <1>2, <1>3, <2>2, <3>1 DEF Reached
    <3>2. CASE journal' = Advanced("deleted")
      <4>1. "deleted" \in DOMAIN Rank /\ ~(Rank["deleted"] >= Rank["created"])
        BY RankValues
      <4>2. /\ JournalOK' /\ journal' # NoJournal /\ journal'.phase = "deleted"
            /\ journal'.gen = journal.gen
        BY <1>2, <2>2, <3>2, <4>1, AdvancedFacts DEF IndInv, Typed
      <4> QED
        BY <4>1, <4>2 DEF Reached
    <3> QED
      BY <1>8, <3>1, <3>2
  <2>4. Placed'
    BY <1>2, <1>8, <2>1, <2>2, <2>3
    DEF Placed, SnapIsRow, JournalAt, SourceAt, TargetAt, At, Replacing
  <2> QED
    BY <1>1, <1>4, <1>8, <2>1, <2>3, <2>4 DEF IndInv, Typed
<1> QED
  BY <1>5, <1>6, <1>7, <1>8 DEF MakePlan

\* The selection of a backup ends the command or lets it create.
LEMMA SelectInv ==
  ASSUME IndInv, Select
  PROVE  IndInv'
<1>1. LiveOK' /\ FaultsOK'
  BY DEF IndInv, Typed, LiveOK, FaultsOK, Select
<1>2. /\ At("select") /\ journal # NoJournal /\ cmd.snap \in {NoRow, row}
      /\ ~Reached("created") /\ row.gen # journal.gen
  BY DEF IndInv, Placed, SnapIsRow, JournalAt, SourceAt, Replacing, At, Select
<1>3. CASE Throw /\ (journal' = NoJournal \/ UNCHANGED journal)
  <2>1. JournalOK'
    BY <1>3 DEF IndInv, Typed, JournalOK, Reached
  <2> QED
    BY <1>1, <1>3, <2>1, ThrowPlaced
<1>4. CASE GoTo("create") /\ UNCHANGED <<row, journal>>
  <2>1. CmdOK' /\ cmd'.pc = "create" /\ cmd'.snap = cmd.snap
    BY <1>4, GoToFacts DEF IndInv, Typed, Pcs
  <2>2. RowOK' /\ JournalOK'
    BY <1>4 DEF IndInv, Typed, RowOK, JournalOK, Reached
  <2>3. Placed'
    BY <1>2, <1>4, <2>1 DEF Placed, SnapIsRow, JournalAt, SourceAt, TargetAt, At, Replacing, Reached
  <2> QED
    BY <1>1, <2>1, <2>2, <2>3 DEF IndInv, Typed
<1> QED
  BY <1>3, <1>4 DEF Select

\* The command comes to the delete only with the source, or with nothing.
LEMMA EdgeInv ==
  ASSUME IndInv, Edge
  PROVE  IndInv'
<1>1. LiveOK' /\ FaultsOK'
  BY DEF IndInv, Typed, LiveOK, FaultsOK, Edge
<1>2. /\ At("edge") /\ journal # NoJournal /\ cmd.snap \in {NoRow, row}
      /\ ~Reached("created") /\ row.gen # journal.gen
  BY DEF IndInv, Placed, SnapIsRow, JournalAt, SourceAt, Replacing, At, Edge
<1>3. CASE Throw /\ UNCHANGED journal
  <2>1. JournalOK'
    BY <1>3 DEF IndInv, Typed, JournalOK, Reached
  <2> QED
    BY <1>1, <1>3, <2>1, ThrowPlaced
<1>4. CASE /\ live = NoLive \/ live.id = journal.srcId
           /\ journal' = IF Reached("deleted") THEN journal ELSE Advanced("deleting")
           /\ GoTo(IF live = NoLive THEN "confirm" ELSE "delete")
           /\ UNCHANGED row
  <2>1. /\ JournalOK' /\ journal' # NoJournal /\ ~Reached("created")'
        /\ journal'.srcId = journal.srcId /\ journal'.gen = journal.gen
    <3>1. CASE journal' = journal
      BY <1>2, <3>1 DEF IndInv, Typed, JournalOK, Reached
    <3>2. CASE journal' = Advanced("deleting")
      <4>1. "deleting" \in DOMAIN Rank /\ ~(Rank["deleting"] >= Rank["created"])
        BY RankValues
      <4>2. /\ JournalOK' /\ journal' # NoJournal /\ journal'.phase = "deleting"
            /\ journal'.srcId = journal.srcId /\ journal'.gen = journal.gen
        BY <1>2, <3>2, <4>1, AdvancedFacts DEF IndInv, Typed
      <4> QED
        BY <4>1, <4>2 DEF Reached
    <3> QED
      BY <1>4, <3>1, <3>2
  <2>2. CmdOK' /\ cmd'.pc \in {"confirm", "delete"} /\ cmd'.snap = cmd.snap
    BY <1>4, GoToFacts DEF IndInv, Typed, Pcs
  <2>3. RowOK'
    BY <1>4 DEF IndInv, Typed, RowOK
  <2>4. live' = live
    BY DEF Edge
  <2>5. Placed'
    BY <1>2, <1>4, <2>1, <2>2, <2>4
    DEF Placed, SnapIsRow, JournalAt, SourceAt, TargetAt, At, Replacing
  <2> QED
    BY <1>1, <2>1, <2>2, <2>3, <2>5 DEF IndInv, Typed
<1> QED
  BY <1>3, <1>4 DEF Edge

\* A delete, whatever becomes of it, removes a sandbox or nothing.
LEMMA DeleteInv ==
  ASSUME IndInv, Delete \/ DeleteFails
  PROVE  IndInv'
<1>1. LiveOK' /\ JournalOK'
  <2>1. LiveOK'
    BY LiveTypes DEF IndInv, Typed, Delete, DeleteFails
  <2>2. JournalOK'
    BY DEF IndInv, Typed, JournalOK, Reached, Delete, DeleteFails
  <2> QED
    BY <2>1, <2>2
<1>2. CASE DeleteFails
  <2>1. FaultsOK'
    BY <1>2, FaultsAssumption DEF IndInv, Typed, FaultsOK, DeleteFails, Faulty
  <2> QED
    BY <1>1, <1>2, <2>1, ThrowPlaced DEF DeleteFails
<1>3. CASE Delete
  <2>1. RowOK' /\ FaultsOK'
    BY <1>3 DEF IndInv, Typed, RowOK, FaultsOK, Delete
  <2>2. CmdOK' /\ cmd'.pc = "confirm" /\ cmd'.snap = cmd.snap
    BY <1>3, GoToFacts DEF IndInv, Typed, Pcs, Delete
  <2>3. Placed'
    BY <1>3, <2>2
    DEF IndInv, Placed, SnapIsRow, JournalAt, SourceAt, TargetAt, At, Replacing, Reached, Delete
  <2> QED
    BY <1>1, <2>1, <2>2, <2>3 DEF IndInv, Typed
<1> QED
  BY <1>2, <1>3

\* The row outlives the deletion: the journal is not completed yet.
LEMMA ConfirmKeepsRow ==
  ASSUME IndInv, Confirm, ~Throw
  PROVE  /\ UNCHANGED <<row, live, faults>> /\ journal' = Advanced("deleted")
         /\ GoTo(IF cmd.kind = "rebuild" THEN "plan" ELSE "create")
         /\ JournalOK' /\ journal' # NoJournal /\ journal'.phase = "deleted"
         /\ journal'.gen = journal.gen
<1>1. /\ journal' = Advanced("deleted")
      /\ row' = IF cmd.kind = "rebuild" \/ journal'.phase # "completed" THEN row ELSE NoRow
      /\ GoTo(IF cmd.kind = "rebuild" THEN "plan" ELSE "create")
      /\ UNCHANGED <<live, faults>>
  BY DEF Confirm
<1>2. At("confirm") /\ journal # NoJournal /\ ~Reached("created")
  BY DEF IndInv, Placed, JournalAt, Replacing, At, Confirm
<1>3. "deleted" \in DOMAIN Rank /\ ~(Rank["deleted"] >= Rank["created"])
  BY RankValues
<1>4. /\ JournalOK' /\ journal' # NoJournal /\ journal'.phase = "deleted"
      /\ journal'.gen = journal.gen
  BY <1>1, <1>2, <1>3, AdvancedFacts DEF IndInv, Typed
<1> QED
  BY <1>1, <1>4

\* confirmDeleted leaves a journal that does not name a replacement yet.
LEMMA ConfirmInv ==
  ASSUME IndInv, Confirm
  PROVE  IndInv'
<1>1. LiveOK' /\ FaultsOK'
  BY DEF IndInv, Typed, LiveOK, FaultsOK, Confirm
<1>2. CASE Throw
  <2>1. CASE UNCHANGED journal
    <3>1. JournalOK'
      BY <2>1 DEF IndInv, Typed, JournalOK, Reached
    <3> QED
      BY <1>1, <1>2, <3>1, ThrowPlaced
  <2>2. CASE ~UNCHANGED journal
    <3>1. GoTo("plan") \/ GoTo("create")
      BY <2>2 DEF Confirm
    <3>2. cmd'.pc # "idle"
      BY <3>1, GoToFacts DEF IndInv, Typed, Pcs
    <3> QED
      BY <1>2, <3>2 DEF Throw, Idle
  <2> QED
    BY <2>1, <2>2
<1>3. CASE ~Throw
  <2>1. cmd.snap \in {NoRow, row} /\ row.gen # journal.gen
    BY DEF IndInv, Placed, SnapIsRow, JournalAt, SourceAt, Replacing, Confirm, At
  <2>2. CmdOK' /\ cmd'.pc \in {"plan", "create"} /\ cmd'.snap = cmd.snap
    BY <1>3, ConfirmKeepsRow, GoToFacts DEF IndInv, Typed, Pcs
  <2>3. RowOK'
    BY <1>3, ConfirmKeepsRow DEF IndInv, Typed, RowOK
  <2>4. /\ ~Reached("created")' /\ journal' # NoJournal /\ JournalOK' /\ row' = row
        /\ journal'.gen = journal.gen
    BY <1>3, ConfirmKeepsRow, RankValues DEF Reached
  <2>5. Placed'
    BY <2>1, <2>2, <2>4 DEF Placed, SnapIsRow, JournalAt, SourceAt, TargetAt, At, Replacing
  <2> QED
    BY <1>1, <2>2, <2>3, <2>4, <2>5 DEF IndInv, Typed
<1> QED
  BY <1>2, <1>3

\* The advance to "creating" comes before the replacement is named.
LEMMA CreatingInv ==
  ASSUME IndInv, Creating
  PROVE  IndInv'
<1>1. LiveOK' /\ FaultsOK' /\ RowOK'
  BY DEF IndInv, Typed, LiveOK, FaultsOK, RowOK, Creating
<1>2. /\ At("create") /\ cmd.snap \in {NoRow, row} /\ ~Reached("created")
      /\ journal = NoJournal => cmd.kind = "fresh"
      /\ journal # NoJournal => row.gen # journal.gen
  BY DEF IndInv, Placed, SnapIsRow, JournalAt, SourceAt, Replacing, At, Creating
<1>3. /\ JournalOK' /\ ~Reached("created")' /\ (journal' = NoJournal => cmd.kind = "fresh")
      /\ journal' # NoJournal => row.gen # journal'.gen
  <2>1. CASE journal = NoJournal
    BY <1>2, <2>1 DEF Creating, JournalOK, Reached
  <2>2. CASE journal # NoJournal
    <3>1. "creating" \in DOMAIN Rank /\ ~(Rank["creating"] >= Rank["created"])
      BY RankValues
    <3>2. /\ JournalOK' /\ journal' # NoJournal /\ journal'.phase = "creating"
          /\ journal'.gen = journal.gen
      BY <1>2, <2>2, <3>1, AdvancedFacts DEF IndInv, Typed, Creating
    <3> QED
      BY <1>2, <2>2, <3>1, <3>2 DEF Reached
  <2> QED
    BY <2>1, <2>2
<1>4. CmdOK' /\ cmd'.pc = "make" /\ cmd'.snap = cmd.snap /\ cmd'.kind = cmd.kind
  BY GoToFacts DEF IndInv, Typed, Pcs, Creating
<1>5. Placed'
  BY <1>2, <1>3, <1>4
  DEF Placed, SnapIsRow, JournalAt, SourceAt, TargetAt, At, Replacing, Creating
<1> QED
  BY <1>1, <1>3, <1>4, <1>5 DEF IndInv, Typed

\* A new sandbox is not the source, and the command knows it as the one it made.
LEMMA MakeInv ==
  ASSUME IndInv, Make \/ MakeFails
  PROVE  IndInv'
<1>1. LiveOK' /\ JournalOK'
  <2>1. LiveOK'
    BY LiveTypes DEF IndInv, Typed, Make, MakeFails, Created
  <2>2. JournalOK'
    BY DEF IndInv, Typed, JournalOK, Reached, Make, MakeFails
  <2> QED
    BY <2>1, <2>2
<1>2. FaultsOK'
  BY FaultsCounted DEF IndInv, Typed, Make, MakeFails
<1>3. CASE Throw
  BY <1>1, <1>2, <1>3, ThrowPlaced
<1>4. CASE /\ \E b \in BOOLEAN : live' = [id |-> FreshId, ready |-> b]
           /\ Made("record") \/ Made("undo") \/ Made("retry")
           /\ UNCHANGED <<row, journal>>
  <2>1. RowOK'
    BY <1>4 DEF IndInv, Typed, RowOK
  <2>2. /\ CmdOK' /\ cmd'.pc \in {"record", "undo", "retry"} /\ cmd'.snap = cmd.snap
        /\ cmd'.kind = cmd.kind /\ cmd'.made = FreshId
    <3>1. FreshId \in 0..MaxToken
      BY FreshTokens, TokensAssumption DEF Tokens
    <3>2. PICK l \in {"record", "undo", "retry"} :
            cmd' = [cmd EXCEPT !.pc = l, !.made = FreshId, !.taken = FALSE]
      BY <1>4 DEF Made
    <3> QED
      BY <3>1, <3>2 DEF IndInv, Typed, CmdOK, Cmd, Pcs
  <2>3. live'.id = FreshId /\ live'.id # journal.srcId
    BY <1>4, FreshTokens
  <2>4. At("make")
    BY DEF Make, MakeFails
  <2>5. Placed'
    BY <1>4, <2>2, <2>3, <2>4
    DEF IndInv, Placed, SnapIsRow, JournalAt, SourceAt, TargetAt, At, Replacing, Reached
  <2> QED
    BY <1>1, <1>2, <2>1, <2>2, <2>5 DEF IndInv, Typed
<1> QED
  BY <1>3, <1>4 DEF Make, MakeFails, Created

\* A sandbox that cannot be reached is the one the command made.
LEMMA UnreachableInv ==
  ASSUME IndInv, Unreachable
  PROVE  IndInv'
<1>1. RowOK' /\ LiveOK' /\ FaultsOK'
  BY FaultsAssumption DEF IndInv, Typed, RowOK, LiveOK, FaultsOK, Unreachable, Faulty
<1>2. JournalOK'
  BY DEF IndInv, Typed, JournalOK, Reached, Unreachable
<1>3. /\ CmdOK' /\ cmd'.pc = "undo" /\ cmd'.snap = cmd.snap /\ cmd'.kind = cmd.kind
      /\ cmd'.made = cmd.made /\ cmd'.taken = cmd.taken
  BY GoToFacts DEF IndInv, Typed, Pcs, Unreachable
<1>4. Placed'
  BY <1>3
  DEF IndInv, Placed, SnapIsRow, JournalAt, SourceAt, TargetAt, At, Replacing, Reached, Unreachable
<1> QED
  BY <1>1, <1>2, <1>3, <1>4 DEF IndInv, Typed

\* The cleanup ends the command, or has it create once more.
LEMMA UndoInv ==
  ASSUME IndInv, Undo \/ Fallback
  PROVE  IndInv'
<1>1. FaultsOK'
  BY DEF IndInv, Typed, FaultsOK, Undo, Fallback
<1>2. JournalOK'
  BY DEF IndInv, Typed, JournalOK, Reached, Undo, Fallback
<1>3. LiveOK'
  BY LiveTypes DEF IndInv, Typed, Undo, Fallback
<1>4. CASE Undo
  BY <1>1, <1>2, <1>3, <1>4, ThrowPlaced DEF Undo
<1>5. CASE Fallback
  <2>1. RowOK'
    BY <1>5 DEF IndInv, Typed, RowOK, Fallback
  <2>2. CmdOK' /\ cmd'.pc = "make" /\ cmd'.snap = cmd.snap /\ cmd'.kind = cmd.kind
    BY <1>5, GoToFacts DEF IndInv, Typed, Pcs, Fallback
  <2>3. Placed'
    BY <1>5, <2>2
    DEF IndInv, Placed, SnapIsRow, JournalAt, SourceAt, TargetAt, At, Replacing, Reached, Fallback
  <2> QED
    BY <1>1, <1>2, <1>3, <2>1, <2>2, <2>3 DEF IndInv, Typed
<1> QED
  BY <1>4, <1>5

\* recordCreated names the replacement, which is not the source.
LEMMA RecordInv ==
  ASSUME IndInv, Record
  PROVE  IndInv'
<1>1. LiveOK' /\ FaultsOK' /\ UNCHANGED live
  BY DEF IndInv, Typed, LiveOK, FaultsOK, Record
<1>2. CASE Throw /\ UNCHANGED journal
  <2>1. JournalOK'
    BY <1>2 DEF IndInv, Typed, JournalOK, Reached
  <2> QED
    BY <1>1, <1>2, <2>1, ThrowPlaced
<1>3. CASE /\ journal = NoJournal \/ live.ready
           /\ journal' = IF journal = NoJournal THEN journal
                         ELSE [journal EXCEPT !.phase = "created", !.tgtId = live.id]
           /\ GoTo("register") /\ UNCHANGED row
  <2>1. RowOK'
    BY <1>3 DEF IndInv, Typed, RowOK
  <2>2. CmdOK' /\ cmd'.pc = "register" /\ cmd'.snap = cmd.snap /\ cmd'.kind = cmd.kind
    BY <1>3, GoToFacts DEF IndInv, Typed, Pcs
  <2>3. JournalOK' /\ (journal' # NoJournal => Reached("created")')
                   /\ (journal' = NoJournal => cmd.kind = "fresh")
    <3>1. CASE journal = NoJournal
      BY <1>3, <3>1 DEF IndInv, Placed, JournalAt, JournalOK, Record, At
    <3>2. CASE journal # NoJournal
      <4>1. live.id # 0 /\ live.id \in 0..MaxToken
        BY <1>3, <3>2 DEF IndInv, Typed, LiveOK
      <4>2. live.id # journal.srcId
        BY <3>2, <4>1 DEF IndInv, Placed, SourceAt, Record, At, NoLive
      <4>3. journal \in [intent : Kinds, src : Tokens, srcId : 0..MaxToken, gen : Tokens,
                         tgtId : 0..MaxToken, phase : DOMAIN Rank, clean : BOOLEAN]
        BY <3>2 DEF IndInv, Typed, JournalOK
      <4>4. "created" \in DOMAIN Rank
        BY RankValues
      <4>5. /\ journal' \in [intent : Kinds, src : Tokens, srcId : 0..MaxToken, gen : Tokens,
                             tgtId : 0..MaxToken, phase : DOMAIN Rank, clean : BOOLEAN]
            /\ journal'.phase = "created" /\ journal'.tgtId = live.id
            /\ journal'.srcId = journal.srcId /\ journal'.intent \in Kinds
        BY <1>3, <3>2, <4>1, <4>3, <4>4
      <4>6. journal' # NoJournal
        BY <4>5, KindsAssumption DEF NoJournal
      <4>7. Reached("created")'
        BY <4>5, RankValues DEF Reached
      <4> QED
        BY <4>1, <4>2, <4>5, <4>6, <4>7 DEF JournalOK
    <3> QED
      BY <3>1, <3>2
  <2>4. Placed'
    BY <2>2, <2>3 DEF Placed, SnapIsRow, JournalAt, SourceAt, TargetAt, At, Replacing
  <2> QED
    BY <1>1, <2>1, <2>2, <2>3, <2>4 DEF IndInv, Typed
<1> QED
  BY <1>2, <1>3 DEF Record

\* The registered row is the replacement's.
LEMMA RegisterInv ==
  ASSUME IndInv, Register
  PROVE  IndInv'
<1>1. LiveOK' /\ FaultsOK' /\ JournalOK'
  <2>1. LiveOK' /\ FaultsOK'
    BY DEF IndInv, Typed, LiveOK, FaultsOK, Register
  <2>2. JournalOK'
    BY DEF IndInv, Typed, JournalOK, Reached, Register
  <2> QED
    BY <2>1, <2>2
<1>2. journal.gen \in 0..MaxToken /\ journal.tgtId \in 0..MaxToken
  BY TokensAssumption DEF IndInv, Typed, JournalOK, NoJournal, Tokens
<1>3. RowOK' /\ row'.gen = journal.gen /\ row'.id = journal.tgtId
  BY <1>2, FreshTokens, TokensAssumption DEF Register, RowOK, Row, Tokens
<1>4. /\ journal # NoJournal => Reached("created")
      /\ journal = NoJournal => cmd.kind = "fresh"
  BY DEF IndInv, Placed, JournalAt, At, Register
<1>5. CASE cmd' = Idle
  BY <1>1, <1>3, <1>5, EndsPlaced
<1>6. CASE journal # NoJournal /\ (GoTo("commit") \/ GoTo("complete"))
  <2>1. CmdOK' /\ cmd'.pc \in {"commit", "complete"}
    BY <1>6, GoToFacts DEF IndInv, Typed, Pcs
  <2>2. Placed'
    BY <1>3, <1>4, <1>6, <2>1
    DEF Placed, SnapIsRow, JournalAt, SourceAt, TargetAt, At, Replacing, Reached, Register
  <2> QED
    BY <1>1, <1>3, <2>1, <2>2 DEF IndInv, Typed
<1> QED
  BY <1>4, <1>5, <1>6 DEF Register

\* A command that is through ends.
LEMMA CompleteInv ==
  ASSUME IndInv, Complete \/ InnerDone
  PROVE  IndInv'
<1>1. RowOK' /\ LiveOK' /\ FaultsOK' /\ cmd' = Idle
  BY DEF IndInv, Typed, RowOK, LiveOK, FaultsOK, Complete, InnerDone
<1>2. JournalOK'
  BY DEF IndInv, Typed, JournalOK, Reached, Complete, InnerDone
<1> QED
  BY <1>1, <1>2, EndsPlaced

\* The commit of the row keeps its generation and identity.
LEMMA CommitInv ==
  ASSUME IndInv, Commit \/ Finish
  PROVE  IndInv'
<1>1. LiveOK' /\ FaultsOK'
  BY DEF IndInv, Typed, LiveOK, FaultsOK, Commit, Finish
<1>2. /\ journal # NoJournal /\ Reached("created")
      /\ row.gen = journal.gen /\ row.id = journal.tgtId
  BY DEF IndInv, Placed, JournalAt, TargetAt, At, Commit, Finish
<1>3. RowOK' /\ row'.gen = row.gen /\ row'.id = row.id
  BY FreshTokens, TokensAssumption DEF IndInv, Typed, RowOK, Row, Tokens, Commit, Finish
<1>4. CmdOK' /\ cmd'.pc \in {"finish", "clear"}
  BY GoToFacts DEF IndInv, Typed, Pcs, Commit, Finish
<1>5. /\ JournalOK' /\ journal' # NoJournal /\ Reached("created")'
      /\ journal'.gen = journal.gen /\ journal'.tgtId = journal.tgtId
  <2>1. CASE journal' = journal
    BY <1>2, <2>1 DEF IndInv, Typed, JournalOK, Reached
  <2>2. CASE \E p \in {"completed", "registry_committing"} : journal' = Advanced(p)
    <3>1. PICK p \in {"completed", "registry_committing"} : journal' = Advanced(p)
      BY <2>2
    <3>2. p \in DOMAIN Rank /\ Rank[p] >= Rank["created"]
      BY RankValues
    <3>3. /\ JournalOK' /\ journal' # NoJournal /\ journal'.phase = p
          /\ journal'.gen = journal.gen /\ journal'.tgtId = journal.tgtId
      BY <1>2, <3>1, <3>2, AdvancedFacts DEF IndInv, Typed
    <3> QED
      BY <3>2, <3>3 DEF Reached
  <2> QED
    BY <2>1, <2>2 DEF Commit, Finish
<1>6. Placed'
  BY <1>2, <1>3, <1>4, <1>5 DEF Placed, SnapIsRow, JournalAt, SourceAt, TargetAt, At, Replacing
<1> QED
  BY <1>1, <1>3, <1>4, <1>5, <1>6 DEF IndInv, Typed

\* A cleared journal leaves nothing to be relied on.
LEMMA ClearInv ==
  ASSUME IndInv, Clear
  PROVE  IndInv'
<1>1. LiveOK' /\ FaultsOK' /\ RowOK' /\ JournalOK'
  BY DEF IndInv, Typed, LiveOK, FaultsOK, RowOK, JournalOK, Clear
<1>2. CASE cmd' = Idle
  BY <1>1, <1>2, EndsPlaced
<1>3. CASE GoTo("inner")
  <2>1. CmdOK' /\ cmd'.pc = "inner"
    BY <1>3, GoToFacts DEF IndInv, Typed, Pcs
  <2>2. Placed'
    BY <2>1 DEF Placed, SnapIsRow, JournalAt, SourceAt, TargetAt, At, Replacing, Clear
  <2> QED
    BY <1>1, <2>1, <2>2 DEF IndInv, Typed
<1> QED
  BY <1>2, <1>3 DEF Clear

\* A command may throw or die anywhere.
LEMMA StopInv ==
  ASSUME IndInv, Fail \/ Die
  PROVE  IndInv'
<1>1. LiveOK' /\ FaultsOK'
  BY FaultsAssumption DEF IndInv, Typed, LiveOK, FaultsOK, Fail, Die, Faulty
<1>2. JournalOK'
  BY DEF IndInv, Typed, JournalOK, Reached, Fail, Die
<1>3. CASE Fail
  BY <1>1, <1>2, <1>3, ThrowPlaced DEF Fail
<1>4. CASE Die
  <2>1. RowOK'
    BY <1>4 DEF IndInv, Typed, RowOK, Die
  <2> QED
    BY <1>1, <1>2, <1>4, <2>1, EndsPlaced DEF Die
<1> QED
  BY <1>3, <1>4

\* What others do to the live sandbox is known to the command, or the name is taken.
LEMMA WorldInv ==
  ASSUME IndInv, Vanish \/ Foreign \/ Flip
  PROVE  IndInv'
<1>1. UNCHANGED <<row, journal>>
  BY DEF Vanish, Foreign, Flip
<1>2. /\ CmdOK' /\ cmd'.pc = cmd.pc /\ cmd'.kind = cmd.kind /\ cmd'.snap = cmd.snap
      /\ cmd'.made = cmd.made /\ (cmd.taken => cmd'.taken)
  <2>1. cmd' = cmd \/ cmd' = [cmd EXCEPT !.taken = TRUE]
    BY DEF Vanish, Foreign, Flip
  <2> QED
    BY <2>1 DEF IndInv, Typed, CmdOK, Cmd
<1>3. RowOK' /\ JournalOK'
  BY <1>1 DEF IndInv, Typed, RowOK, JournalOK, Reached
<1>4. FaultsOK'
  BY FaultsCounted DEF IndInv, Typed, Vanish, Foreign, Flip
<1>5. LiveOK'
  <2>1. CASE Vanish
    BY <2>1, LiveTypes DEF IndInv, Typed, Vanish
  <2>2. CASE Foreign
    BY <2>2, LiveTypes DEF IndInv, Typed, Foreign, Created
  <2>3. CASE Flip
    BY <2>3 DEF IndInv, Typed, Flip, LiveOK, NoLive
  <2> QED
    BY <2>1, <2>2, <2>3
<1>6. cmd.pc \in {"delete", "undo", "retry", "record"}
        => live' = NoLive \/ cmd'.taken \/ (live # NoLive /\ live'.id = live.id)
  <2>1. CASE Foreign
    BY <2>1 DEF Foreign, IndInv, Typed, CmdOK, Cmd
  <2>2. CASE Vanish \/ Flip
    BY <2>2 DEF Vanish, Flip, IndInv, Typed, LiveOK
  <2> QED
    BY <2>1, <2>2
<1>7. live' = NoLive \/ (live # NoLive /\ live'.id = live.id) \/ live'.id # journal.srcId
  BY FreshTokens DEF Vanish, Foreign, Created, Flip, IndInv, Typed, LiveOK
<1>8. SnapIsRow' /\ JournalAt' /\ TargetAt'
  BY <1>1, <1>2 DEF IndInv, Placed, SnapIsRow, JournalAt, TargetAt, At, Replacing, Reached
<1>9. SourceAt'
  BY <1>1, <1>2, <1>6, <1>7 DEF IndInv, Placed, SourceAt, At
<1> QED
  BY <1>2, <1>3, <1>4, <1>5, <1>8, <1>9 DEF IndInv, Typed, Placed

\* Other commands change the row only while none of these runs.
LEMMA EditInv ==
  ASSUME IndInv, Edit
  PROVE  IndInv'
<1>1. LiveOK' /\ FaultsOK' /\ CmdOK'
  BY FaultsAssumption DEF IndInv, Typed, LiveOK, FaultsOK, CmdOK, Edit, Faulty
<1>2. JournalOK'
  BY DEF IndInv, Typed, JournalOK, Reached, Edit
<1>3. RowOK'
  BY FreshTokens, TokensAssumption DEF IndInv, Typed, RowOK, Row, Tokens, Edit
<1>4. Placed'
  BY DEF Placed, SnapIsRow, JournalAt, SourceAt, TargetAt, At, Replacing, Edit
<1> QED
  BY <1>1, <1>2, <1>3, <1>4 DEF IndInv, Typed

-----------------------------------------------------------------------------
(* The theorems.                                                           *)

\* What the invariant says of types is TypeOK.
LEMMA TypedIsTypeOK == Typed => TypeOK
<1> SUFFICES ASSUME Typed PROVE TypeOK
  OBVIOUS
<1>1. cmd.kind \in Kinds \cup {"none"} /\ cmd.proof \in BOOLEAN
  BY DEF Typed, CmdOK, Cmd
<1> QED
  BY <1>1, Zenon DEF Typed, RowOK, Row, LiveOK, JournalOK, FaultsOK, TypeOK

\* The invariant holds at the start.
LEMMA InitInv == Init => IndInv
<1> SUFFICES ASSUME Init PROVE IndInv
  OBVIOUS
<1>1. RowOK /\ LiveOK /\ FaultsOK
  BY TokensAssumption, FaultsAssumption DEF Init, RowOK, Row, LiveOK, FaultsOK
<1>2. CmdOK /\ cmd.pc = "idle"
  BY NothingTyped DEF Init, CmdOK, Idle
<1>3. JournalOK
  BY DEF Init, JournalOK
<1>4. Placed
  BY <1>2 DEF Placed, SnapIsRow, JournalAt, SourceAt, TargetAt, At, Replacing
<1> QED
  BY <1>1, <1>2, <1>3, <1>4 DEF IndInv, Typed

\* Every step keeps the invariant.
LEMMA NextInv == IndInv /\ [Next]_vars => IndInv'
<1> SUFFICES ASSUME IndInv, [Next]_vars PROVE IndInv'
  OBVIOUS
<1>1. CASE UNCHANGED vars
  <2>1. Typed'
    BY <1>1 DEF IndInv, Typed, RowOK, LiveOK, JournalOK, CmdOK, FaultsOK, Reached, vars
  <2>2. Placed'
    BY <1>1
    DEF IndInv, Placed, SnapIsRow, JournalAt, SourceAt, TargetAt, At, Replacing, Reached, vars
  <2> QED
    BY <2>1, <2>2 DEF IndInv
<1>2. CASE Next
  BY <1>2, StartInv, OpenRebuildInv, OpenResumeInv, OpenFreshInv, RetireInv, MakePlanInv,
     SelectInv, EdgeInv, DeleteInv, ConfirmInv, CreatingInv, MakeInv, UnreachableInv,
     UndoInv, RecordInv, RegisterInv, CompleteInv, CommitInv, ClearInv, StopInv, WorldInv,
     EditInv, Zenon
  DEF Next, Step
<1> QED
  BY <1>1, <1>2

\* The invariant holds throughout: what planSandboxRecreateRecovery and the
\* commands rely on at each place is true there.
THEOREM Invariant == Spec => []IndInv
BY InitInv, NextInv, PTL DEF Spec

\* Types; and the journal of recordSandboxRecreateTargetCreated names the
\* replacement exactly from phase "created" on, and never the source.
THEOREM TypeCorrect == Spec => []TypeOK
<1>1. IndInv => TypeOK
  BY TypedIsTypeOK DEF IndInv
<1> QED
  BY <1>1, Invariant, PTL

\* A command deletes the journaled source, or in its cleanup the sandbox it has made,
\* and never the replacement that the registry holds, unless somebody has taken the
\* name since it looked.
THEOREM DeletesOwn == Spec => DeletesOnlyItsOwn
<1>1. ASSUME IndInv, [Next]_vars, live # NoLive, live' = NoLive, cmd' # cmd
      PROVE  /\ journal # NoJournal => row.gen # journal.gen
             /\ cmd.taken \/ live.id = (IF At("delete") THEN journal.srcId ELSE cmd.made)
  <2>1. Delete \/ DeleteFails \/ Undo \/ Fallback
    BY <1>1
    DEF Next, Step, Start, OpenRebuild, OpenResume, OpenFresh, Retire, MakePlan, Select, Edge,
        Confirm, Creating, Make, MakeFails, Unreachable, Record, Register, Complete, Commit,
        Finish, Clear, InnerDone, Fail, Die, Vanish, Foreign, Flip, Edit, vars
  <2>2. cmd.pc \in {"delete", "undo", "retry"}
    BY <2>1 DEF Delete, DeleteFails, Undo, Fallback, At
  <2> QED
    BY <1>1, <2>2 DEF IndInv, Placed, SourceAt, Replacing, At
<1>2. IndInv /\ [Next]_vars =>
        [live # NoLive /\ live' = NoLive /\ cmd' # cmd
           => /\ journal # NoJournal => row.gen # journal.gen
              /\ cmd.taken \/ live.id = (IF At("delete") THEN journal.srcId
                                        ELSE cmd.made)]_vars
  BY <1>1
<1> QED
  BY <1>2, Invariant, PTL DEF Spec, DeletesOnlyItsOwn

\* Between the opening of the journal and the creation of the replacement no
\* step of a command, and no failure of one, changes the row of the source.
THEOREM KeepsSourceRecord == Spec => SourceRecordKept
<1>1. ASSUME IndInv, [Next]_vars, ~At("idle"), journal # NoJournal, ~Reached("created")
      PROVE  row' = row
  <2>1. cmd.snap = NoRow \/ cmd.snap = row \/ cmd.pc \in {"retire", "register", "complete",
          "commit", "finish", "clear", "inner"}
    BY <1>1 DEF IndInv, Typed, CmdOK, Cmd, Pcs, Placed, SnapIsRow, Replacing, At
  <2>2. cmd.pc \notin {"retire", "register", "complete", "commit", "finish", "clear"}
    BY <1>1 DEF IndInv, Placed, JournalAt, TargetAt, At
  <2>3. cmd.pc # "inner"
    BY <1>1 DEF IndInv, Placed, JournalAt, At
  <2>4. Throw => row' = row
    BY <2>1, <2>2, <2>3 DEF Throw
  <2>5. CASE UNCHANGED vars
    BY <2>5 DEF vars
  <2>6. CASE Confirm
    BY <1>1, <2>4, <2>6, ConfirmKeepsRow
  <2>7. CASE Next /\ ~Confirm
    BY <1>1, <2>2, <2>4, <2>7
    DEF Next, Step, Start, OpenRebuild, OpenResume, OpenFresh, Retire, MakePlan, Select, Edge,
        Delete, DeleteFails, Creating, Make, MakeFails, Unreachable, Undo, Fallback, Record,
        Register, Complete, Commit, Finish, Clear, InnerDone, Fail, Die, Vanish, Foreign, Flip,
        Edit, At
  <2> QED
    BY <1>1, <2>5, <2>6, <2>7
<1>2. IndInv /\ [Next]_vars =>
        [~At("idle") /\ journal # NoJournal /\ ~Reached("created") => row' = row]_vars
  BY <1>1
<1> QED
  BY <1>2, Invariant, PTL DEF Spec, SourceRecordKept

\* A journal that has recorded an effect disappears only when the registry has
\* the replacement it names, or with the session of a new onboard.
THEOREM ClearsRegistered == Spec => ClearedMeansRegistered
<1>1. ASSUME IndInv, [Next]_vars, journal # NoJournal, journal' = NoJournal,
             ~(At("idle") /\ cmd'.kind = "fresh"), ~journal.clean
      PROVE  row.gen = journal.gen /\ row.id = journal.tgtId
  <2>1. cmd.pc \in {"retire", "complete", "clear"}
          => row.gen = journal.gen /\ row.id = journal.tgtId
    BY <1>1 DEF IndInv, Placed, TargetAt
  <2>2. ASSUME NEW p \in DOMAIN Rank, journal' = Advanced(p)
        PROVE  FALSE
    <3>1. journal.intent # "none" /\ journal \in
            [intent : Kinds, src : Tokens, srcId : 0..MaxToken, gen : Tokens,
             tgtId : 0..MaxToken, phase : DOMAIN Rank, clean : BOOLEAN]
      BY <1>1, KindsAssumption DEF IndInv, Typed, JournalOK
    <3>2. journal'.intent = journal.intent
      BY <2>2, <3>1 DEF Advanced
    <3> QED
      BY <1>1, <3>1, <3>2 DEF NoJournal
  <2>3. /\ journal' # Advanced("deleting") /\ journal' # Advanced("deleted")
        /\ journal' # Advanced("creating") /\ journal' # Advanced("registry_committing")
        /\ journal' # Advanced("completed")
    BY <2>2, RankValues
  <2>4. journal' # journal
    BY <1>1
  <2>5. CASE \E kind \in Kinds : Start(kind)
    BY <1>1, <2>4, <2>5 DEF Start
  <2>6. CASE OpenRebuild \/ OpenResume \/ OpenFresh
    <3>1. ~OpenFresh
      BY <1>1 DEF IndInv, Placed, JournalAt, OpenFresh
    <3> QED
      BY <1>1, <2>4, <2>6, <3>1 DEF OpenRebuild, OpenResume
  <2>7. CASE Retire \/ Complete \/ Clear
    BY <2>1, <2>7 DEF Retire, Complete, Clear, At
  <2>8. CASE MakePlan \/ Select \/ Edge \/ Confirm \/ Creating \/ Commit \/ Finish
    BY <1>1, <2>3, <2>4, <2>8 DEF MakePlan, Select, Edge, Confirm, Creating, Commit, Finish
  <2>9. CASE Record
    <3>1. journal \in
            [intent : Kinds, src : Tokens, srcId : 0..MaxToken, gen : Tokens,
             tgtId : 0..MaxToken, phase : DOMAIN Rank, clean : BOOLEAN]
      BY <1>1 DEF IndInv, Typed, JournalOK
    <3>2. journal' = [journal EXCEPT !.phase = "created", !.tgtId = live.id]
      BY <1>1, <2>4, <2>9 DEF Record
    <3>3. journal'.intent \in Kinds
      BY <3>1, <3>2
    <3> QED
      BY <1>1, <3>3, KindsAssumption DEF NoJournal
  <2>10. CASE UNCHANGED journal
    BY <2>4, <2>10
  <2> QED
    BY <1>1, <2>5, <2>6, <2>7, <2>8, <2>9, <2>10
    DEF Next, Step, vars, Delete, DeleteFails, Make, MakeFails, Unreachable, Undo, Fallback,
        Register, InnerDone, Fail, Die, Vanish, Foreign, Flip, Edit
<1>2. IndInv /\ [Next]_vars =>
        [journal # NoJournal /\ journal' = NoJournal
           => \/ At("idle") /\ cmd'.kind = "fresh"
              \/ journal.clean
              \/ row.gen = journal.gen /\ row.id = journal.tgtId]_vars
  BY <1>1
<1> QED
  BY <1>2, Invariant, PTL DEF Spec, ClearedMeansRegistered
=============================================================================
