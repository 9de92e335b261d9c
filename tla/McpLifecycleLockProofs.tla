----------------------- MODULE McpLifecycleLockProofs -----------------------
(***************************************************************************)
(* The sandbox mutation lock for any number of processes, windows, crashes,*)
(* timeouts and failed recoveries, as long as tokens do not run out.       *)
(*                                                                         *)
(* The reaper gate and the deadline fence keep each other out as in a      *)
(* two-process lock: each is published before the other is looked for      *)
(* (ReaperHeld, FenceHeld, FenceOrReaper).  A reaper deletes only what it  *)
(* has judged, whose owner is dead, and a release only what its process    *)
(* has published (Judged, Mine), so no record of a running operation is    *)
(* lost.                                                                   *)
(*                                                                         *)
(* Both rename before they look.  As long as every release finds its own   *)
(* record under its hands (OwnRelease), a reaper that has read the main    *)
(* record faces that record, when it renames it, or one whose owner has    *)
(* still to look at the reaper gate (Spared).  The last part, on failing   *)
(* closed and on the refinement of LifecycleLock, is about the runs in     *)
(* which two things do not happen: see Undisplaced and Relies.             *)
(***************************************************************************)
EXTENDS McpLifecycleLock, FiniteSetTheorems, TLAPS

\* Random UUIDs do not run out.
Supply == IsFiniteSet(Procs) /\ ~IsFiniteSet(Tokens)

---------------------------------------------------------------------------
(* The inductive invariant.                                                *)

\* The labels of a process that holds the reaper gate, of one that has looked
\* at the fence since it took the gate, and of one that judges a record.
HoldsReaper ==
  {"reap_containment", "reap_again", "reap_authority", "reap_read", "reap_judge",
   "reap_recheck", "claim", "claimed", "restore"}
PastFence == {"reap_authority", "reap_read", "reap_judge", "reap_recheck", "claim"}
Judging == {"reap_judge", "reap_recheck", "claim"}

\* Of a process that has seen no reaper since it took the fence, and of one that
\* holds the fence and has yet to publish its main record.
Cleared ==
  {"clear_main", "cm_read", "cm_judge", "cm_confirm", "cm_contain", "pub_authority", "pub_link"}
HoldsFence ==
  {"fence_authority", "clear_reaper", "cr_read", "cr_judge", "cr_confirm", "cr_contain"}
    \cup Cleared

\* Of a process that has published its main record, and of one that nothing but
\* a marker or a clock can keep from its operation.
Entering == {"post_expired", "post_token", "fence_enter", "op"}
Owning == {"post_containment", "post_deadline", "post_reaper"} \cup Entering

\* Of a process that releases its main record, up to the deletion; and of one that
\* has renamed the record of another.
Releasing ==
  {"drop", "drop_rename", "drop_verify", "end_main", "end_rename", "end_verify"}
Returning == {"drop_restore", "end_restore"}

Critical == HoldsReaper \cup HoldsFence \cup Owning \cup Releasing \cup Returning

\* The two gates name whoever is behind them, and nobody is behind both.
ReaperHeld == \A q \in Procs : pc[q] \in HoldsReaper => file["reaper"].owner = q
FenceHeld == \A p \in Procs : pc[p] \in HoldsFence => file["deadline"].owner = p
FenceOrReaper == \A p, q \in Procs : pc[p] \in Cleared => pc[q] \notin PastFence

\* A reaper reclaims a record it has read, of a process that has ended; a release
\* one that its own process has published.
Observed == \A q \in Procs : pc[q] \in Judging \cup {"claimed"} => obs[q] # NoGen
Judged ==
  \A q \in Procs :
    pc[q] \in {"reap_recheck", "claim", "claimed"} => pc[obs[q].owner] \in Over
Mine == \A p \in Procs : pc[p] \in Owning \cup Releasing => obs[p].owner = p

Owns(p) == file["main"].owner = p \/ \E g \in aside : g.owner = p
Owned == \A p \in Procs : pc[p] \in Owning => Owns(p)

\* Nobody has renamed another's record in a release, and the record of an entering
\* process is the one that a reaper has read.
Upright == \A p \in Procs : pc[p] \notin Returning
Spared ==
  \A p, q \in Procs :
    pc[p] \in Entering /\ pc[q] \in Judging /\ file["main"].owner = p => obs[q].owner = p

Returns ==
  \A p \in Procs : ret[p] \in {"acq", "rel_reaper", "fence", "fence_throw", "gave_up"}
Types == TypeOK /\ Returns /\ IsFiniteSet(aside)

\* The protocol, with releases of any kind or ("own") such as OwnRelease assumes.
Protocol(rel) ==
  /\ ReaperHeld /\ FenceHeld /\ FenceOrReaper
  /\ Observed /\ Judged /\ Mine /\ Owned
  /\ rel = "own" => Upright /\ Spared

LockInv == Types /\ Protocol("any")
SparingInv == Types /\ Protocol("own")

\* A release that renames the main record has its own in its hands: nobody has taken
\* that away and published another since it read the token.
OwnRelease == \A p \in Procs : pc[p] \in {"drop_verify", "end_verify"} => quar[p] = obs[p]

---------------------------------------------------------------------------
(* Fresh tokens.                                                           *)

\* The values of a function on a finite set are finitely many.
LEMMA FiniteRange ==
  ASSUME NEW S, IsFiniteSet(S), NEW f
  PROVE  IsFiniteSet({f[x] : x \in S})
<1> DEFINE T == {f[x] : x \in S}
           g == [x \in S |-> f[x]]
<1>1. g \in Surjection(S, T)
  BY DEF Surjection
<1> HIDE DEF T, g
<1>2. IsFiniteSet(T)
  BY <1>1, FS_Surjection
<1> QED
  BY <1>2 DEF T

\* There is a token that no file and no process knows, and FreshToken is one.
LEMMA Fresh ==
  ASSUME Supply, Types
  PROVE  /\ FreshToken \in Tokens
         /\ \A f \in Paths : file[f].token # FreshToken
<1> DEFINE ofFile == [f \in Paths |-> file[f].token]
           ofAside == [g \in aside |-> g.token]
           ofObs == [p \in Procs |-> obs[p].token]
           ofQuar == [p \in Procs |-> quar[p].token]
           F == {ofFile[f] : f \in Paths}
           A == {ofAside[g] : g \in aside}
           O == {ofObs[p] : p \in Procs}
           Q == {ofQuar[p] : p \in Procs}
<1>1. IsFiniteSet(Paths)
  <2>1. Paths = (({} \cup {"main"}) \cup {"reaper"}) \cup ({"deadline"} \cup {"containment"})
    BY DEF Paths
  <2>2. IsFiniteSet(({} \cup {"main"}) \cup {"reaper"})
    BY FS_EmptySet, FS_AddElement
  <2>3. IsFiniteSet({"deadline"} \cup {"containment"})
    BY FS_Singleton, FS_AddElement
  <2> QED
    BY <2>1, <2>2, <2>3, FS_Union
<1>2. IsFiniteSet(F) /\ IsFiniteSet(A) /\ IsFiniteSet(O) /\ IsFiniteSet(Q)
  <2> HIDE DEF ofFile, ofAside, ofObs, ofQuar
  <2> QED
    BY <1>1, FiniteRange DEF Supply, Types
<1>3. IsFiniteSet((F \cup A) \cup (O \cup Q))
  <2> HIDE DEF F, A, O, Q
  <2>1. IsFiniteSet(F \cup A) /\ IsFiniteSet(O \cup Q)
    BY <1>2, FS_Union
  <2> QED
    BY <2>1, FS_Union
<1>4. PICK t \in Tokens : t \notin (F \cup A) \cup (O \cup Q)
  <2> HIDE DEF F, A, O, Q
  <2>1. CASE Tokens \subseteq (F \cup A) \cup (O \cup Q)
    BY <2>1, <1>3, FS_Subset DEF Supply
  <2> QED
    BY <2>1
<1>5. /\ \A f \in Paths : file[f].token # t
      /\ \A g \in aside : g.token # t
      /\ \A p \in Procs : obs[p].token # t /\ quar[p].token # t
  BY <1>4
<1> QED
  BY <1>5 DEF FreshToken

---------------------------------------------------------------------------
(* Types.                                                                  *)

\* The records and markers that stand for none are no records and of the types.
LEMMA NoneTypes ==
  /\ NoGen \notin Gen /\ NoGen.owner = Nobody /\ NoGen.token = NoToken
  /\ \A g \in Gen : g.owner \in Procs /\ g.token \in Tokens /\ g.bound \in Timers \cup {NoTimer}
  /\ NoMarker \in Marker
  /\ \A m \in Marker : m.timer \in Timers \cup {NoTimer} /\ m.expired \in BOOLEAN
BY NamesAssumption DEF NoGen, Gen, NoMarker, Marker

\* Init has the types.
LEMMA TypesInit == Init => Types
<1> SUFFICES ASSUME Init PROVE Types
  OBVIOUS
<1> USE NoneTypes, BoundsAssumption DEF Init
<1>1. TypeOK
  <2>1. "off" \in Labels /\ "acq" \in Labels
    BY DEF Labels
  <2>2. crashes \in 0..MaxCrashes /\ lates \in 0..MaxLate /\ failures \in 0..MaxFailures
    OBVIOUS
  <2>3. /\ file \in [Paths -> Gen \cup {NoGen}] /\ aside \subseteq Gen
        /\ marker \in Marker /\ opened \subseteq Timers
    OBVIOUS
  <2>4. /\ want \in [Procs -> Timers \cup {NoTimer}] /\ tok \in [Procs -> Timers \cup {NoTimer}]
        /\ obs \in [Procs -> Gen \cup {NoGen}] /\ quar \in [Procs -> Gen \cup {NoGen}]
    OBVIOUS
  <2>5. pc \in [Procs -> Labels] /\ ret \in [Procs -> Labels] /\ late \in [Procs -> BOOLEAN]
    BY <2>1
  <2>6. unsafe \in BOOLEAN
    OBVIOUS
  <2> QED
    BY <2>2, <2>3, <2>4, <2>5, <2>6 DEF TypeOK
<1>2. Returns /\ IsFiniteSet(aside)
  BY FS_EmptySet DEF Returns
<1> QED
  BY <1>1, <1>2 DEF Types

\* A process that only moves on changes no type.
LEMMA MoveTypes ==
  ASSUME Types, NEW p \in Procs, NEW from, NEW to \in Labels, Move(p, from, to)
  PROVE  Types'
BY DEF Types, TypeOK, Returns, Move, Goto, disk, locals, budgets

\* Neither does the read of a record.
LEMMA ReadTypes ==
  ASSUME Types, NEW p \in Procs, NEW from, NEW f \in Paths, NEW a \in Labels, NEW b \in Labels,
         Read(p, from, f, a, b)
  PROVE  Types'
BY DEF Types, TypeOK, Returns, Read, Goto, disk, budgets

\* Nor the read of the takeover token.
LEMMA ReadTokenTypes ==
  ASSUME Types, NEW p \in Procs, NEW from, NEW to \in Labels, ReadToken(p, from, to)
  PROVE  Types'
BY NoneTypes DEF Types, TypeOK, Returns, ReadToken, Goto, disk, budgets

\* A record is published with the caller as its owner and a fresh token.
LEMMA PublishTypes ==
  ASSUME Supply, Types, NEW p \in Procs, NEW f \in Paths,
         NEW bound \in Timers \cup {NoTimer}, Publish(f, p, bound)
  PROVE  /\ file' \in [Paths -> Gen \cup {NoGen}]
         /\ file'[f].owner = p
         /\ \A h \in Paths \ {f} : file'[h] = file[h]
<1> DEFINE g == [token |-> FreshToken, owner |-> p, bound |-> bound]
<1>1. g \in Gen /\ g.owner = p /\ g.token = FreshToken
  BY Fresh DEF Gen
<1>2. file' = [file EXCEPT ![f] = g]
  BY DEF Publish
<1> HIDE DEF g
<1> QED
  BY <1>1, <1>2, Fresh DEF Types, TypeOK

\* A link publishes one where there was none.
LEMMA LinkTypes ==
  ASSUME Supply, Types, NEW p \in Procs, NEW from, NEW f \in Paths,
         NEW bound \in Timers \cup {NoTimer}, NEW a \in Labels, NEW b \in Labels,
         Link(p, from, f, bound, a, b)
  PROVE  Types'
<1>1. file' \in [Paths -> Gen \cup {NoGen}]
  BY PublishTypes DEF Link, Types, TypeOK
<1>2. obs' \in [Procs -> Gen \cup {NoGen}]
  BY <1>1 DEF Link, Types, TypeOK
<1> QED
  BY <1>1, <1>2 DEF Types, TypeOK, Returns, Link, Goto, budgets

\* A release removes one at most.
LEMMA ReleaseTypes ==
  ASSUME Types, NEW p \in Procs, NEW from, NEW f \in Paths, NEW to \in Labels,
         Release(p, from, f, to)
  PROVE  Types'
BY DEF Types, TypeOK, Returns, Release, Remove, Goto, locals, budgets

\* A reclaim moves a record aside, deletes it there or moves it back.
LEMMA RenameTypes ==
  ASSUME Types, NEW p \in Procs, NEW from, NEW a \in Labels, NEW b \in Labels,
         RenameAside(p, from, a, b)
  PROVE  Types'
<1>1. "main" \in Paths /\ IsFiniteSet(aside')
  BY FS_AddElement DEF RenameAside, Types, Paths
<1>2. Exists("main") => file["main"] \in Gen
  BY <1>1 DEF Exists, Types, TypeOK
<1> QED
  BY <1>1, <1>2 DEF RenameAside, Remove, Goto, Types, TypeOK, Returns, budgets

\* It deletes the record ...
LEMMA DeleteTypes ==
  ASSUME Types, NEW p \in Procs, NEW from, NEW proven, NEW a \in Labels, NEW b \in Labels,
         DeleteExpected(p, from, proven, a, b)
  PROVE  Types'
<1>1. IsFiniteSet(aside') /\ aside' \subseteq aside
  BY FS_RemoveElement DEF DeleteExpected, Types
<1> QED
  BY <1>1 DEF DeleteExpected, Goto, Types, TypeOK, Returns, locals, budgets

\* ... or puts it back.
LEMMA PutBackTypes ==
  ASSUME Types, NEW p \in Procs, NEW from, NEW to \in Labels, PutBack(p, from, to)
  PROVE  Types'
<1>1. IsFiniteSet(aside') /\ aside' \subseteq aside
  BY FS_RemoveElement DEF PutBack, Types
<1> QED
  BY <1>1 DEF PutBack, Goto, Types, TypeOK, Returns, locals, budgets

\* So does the release of the main record.
LEMMA ReleaseMainTypes ==
  ASSUME Types, NEW p \in Procs, NEW to \in Labels,
         NEW a1 \in Labels, NEW a2 \in Labels, NEW a3 \in Labels, NEW a4 \in Labels,
         ReleaseMain(p, <<a1, a2, a3, a4>>, to)
  PROVE  Types'
BY MoveTypes, RenameTypes, DeleteTypes, PutBackTypes DEF ReleaseMain, Test

\* Containment is published, with the label to return to.
LEMMA ContainTypes ==
  ASSUME Supply, Types, NEW p \in Procs, NEW from,
         NEW to \in {"acq", "rel_reaper", "fence", "fence_throw"}, Contain(p, from, to)
  PROVE  Types'
<1>1. file' \in [Paths -> Gen \cup {NoGen}]
  BY PublishTypes, NoneTypes DEF Contain, Types, TypeOK, Paths
<1>2. to \in Labels /\ "contained" \in Labels
  BY DEF Labels
<1> QED
  BY <1>1, <1>2 DEF Types, TypeOK, Returns, Contain, Goto, budgets

\* The steps of an acquisition keep the types.
LEMMA AcquireTypes ==
  ASSUME Supply, Types, NEW p \in Procs,
         Attempt(p) \/ Gates(p) \/ Enter(p) \/ LookAtOwner(p)
  PROVE  Types'
<1>t. tok[p] \in Timers \cup {NoTimer}
  BY DEF Types, TypeOK
<1>1. CASE Attempt(p)
  <2>1. "exited" \in Labels /\ "acq_deadline" \in Labels
    BY DEF Labels
  <2> QED
    BY <1>1, <2>1 DEF Attempt, Types, TypeOK, Returns, Goto, disk, budgets
<1>2. CASE Gates(p)
  <2>1. ASSUME NEW from, Gate(p, from)
        PROVE  Types'
    BY <2>1, ContainTypes, MoveTypes DEF Gate, Labels
  <2>2. {"acq_deadline", "acq_reaper", "judge_deadline", "acq_expired", "judge_reaper",
         "acq", "pre_deadline", "look", "pre_reaper", "pre_expired", "pre_token", "link"}
          \subseteq Labels
    BY DEF Labels
  <2> QED
    BY <1>2, <2>1, <2>2, ReadTypes, MoveTypes, ReadTokenTypes DEF Gates, Test, Paths
<1>3. CASE Enter(p)
  <2>1. {"link", "acq", "post_containment", "look", "drop", "drop_rename", "drop_verify",
         "drop_restore", "post_deadline", "post_reaper", "post_expired", "post_token", "op"}
          \subseteq Labels
    BY DEF Labels
  <2>2. CASE ReleaseMain(p, <<"drop", "drop_rename", "drop_verify", "drop_restore">>, "look")
    BY <2>1, <2>2, ReleaseMainTypes
  <2> QED
    BY <1>3, <1>t, <2>1, <2>2, MoveTypes, LinkTypes DEF Enter, Test, Paths
<1>4. CASE LookAtOwner(p)
  <2>1. {"look", "acq", "judge_main", "reap"} \subseteq Labels
    BY DEF Labels
  <2> QED
    BY <1>4, <2>1, ReadTypes, MoveTypes DEF LookAtOwner, Test, Paths
<1> QED
  BY <1>1, <1>2, <1>3, <1>4

\* So do those of a reaper, whose reclaim moves records aside and back.
LEMMA ReapTypes ==
  ASSUME Supply, Types, NEW p \in Procs,
         \/ ReaperGate(p) \/ ReclaimOrContain(p) \/ Claim(p) \/ Verify(p) \/ Restore(p)
         \/ Contained(p)
  PROVE  Types'
<1>t. tok[p] \in Timers \cup {NoTimer}
  BY DEF Types, TypeOK
<1>l. {"claimed", "rel_reaper", "restore"} \subseteq Labels
  BY DEF Labels
<1>1. CASE ReaperGate(p)
  <2>1. {"reap", "acq", "reap_deadline", "reap_token", "reap_link", "reap_containment",
         "rel_reaper", "reap_again", "reap_authority", "reap_read", "reap_judge",
         "reap_recheck"} \subseteq Labels
    BY DEF Labels
  <2> QED
    BY <1>1, <1>t, <2>1, MoveTypes, LinkTypes, ReadTokenTypes, ReadTypes, ReleaseTypes
       DEF ReaperGate, Test, Paths
<1>2. CASE ReclaimOrContain(p)
  BY <1>2, MoveTypes, ContainTypes DEF ReclaimOrContain, Labels
<1>3. CASE Claim(p)
  BY <1>3, <1>l, RenameTypes DEF Claim
<1>4. CASE Verify(p)
  BY <1>4, <1>l, DeleteTypes DEF Verify
<1>5. CASE Restore(p)
  BY <1>5, <1>l, PutBackTypes DEF Restore
<1>6. CASE Contained(p)
  <2>1. ret[p] \in Labels
    BY DEF Types, TypeOK
  <2> QED
    BY <1>6, <2>1 DEF Contained, Remove, Goto, Types, TypeOK, Returns, locals, budgets
<1> QED
  BY <1>1, <1>2, <1>3, <1>4, <1>5, <1>6

\* So do those of the deadline fence.
LEMMA FenceTypes ==
  ASSUME Supply, Types, NEW p \in Procs,
         \/ TakeFence(p) \/ ClearGates(p) \/ PublishMain(p) \/ Throw(p) \/ GiveUp(p)
  PROVE  Types'
<1>t. want[p] \in Timers \cup {NoTimer}
  BY DEF Types, TypeOK
<1>1. CASE TakeFence(p)
  <2>1. {"fence", "fence_containment", "exited", "fence_link", "fence_authority",
         "fence_look", "clear_reaper", "end_deadline", "fence_judge"} \subseteq Labels
    BY DEF Labels
  <2> QED
    BY <1>1, <1>t, <2>1, MoveTypes, LinkTypes, ReadTypes, ContainTypes
       DEF TakeFence, Test, Paths
<1>2. CASE ClearGates(p)
  <2>1. ASSUME NEW f \in Paths, NEW next \in Labels,
               NEW a1 \in Labels, NEW a2 \in Labels, NEW a3 \in Labels, NEW a4 \in Labels,
               NEW a5 \in Labels,
               Clear(p, f, <<a1, a2, a3, a4, a5>>, next)
        PROVE  Types'
    <3>1. "end_deadline" \in Labels
      BY DEF Labels
    <3> QED
      BY <2>1, <3>1, MoveTypes, ReadTypes, ContainTypes DEF Clear, Test
  <2>2. {"clear_reaper", "cr_read", "cr_judge", "cr_confirm", "cr_contain", "clear_main",
         "cm_read", "cm_judge", "cm_confirm", "cm_contain", "pub_authority"} \subseteq Labels
    BY DEF Labels
  <2> QED
    BY <1>2, <2>1, <2>2 DEF ClearGates, Paths
<1>3. CASE PublishMain(p)
  <2>1. {"pub_authority", "pub_link", "end_deadline", "fence_enter", "clear_reaper", "op",
         "end_main"} \subseteq Labels
    BY DEF Labels
  <2> QED
    BY <1>3, <1>t, <2>1, LinkTypes, MoveTypes DEF PublishMain, Test, Paths
<1>4. CASE Throw(p)
  BY <1>4 DEF Throw, Goto, Labels, Types, TypeOK, Returns, disk, locals, budgets
<1>5. CASE GiveUp(p)
  <2>1. file' \in [Paths -> Gen \cup {NoGen}]
    BY <1>5, PublishTypes, NoneTypes DEF GiveUp, Types, TypeOK, Paths
  <2>2. "exited" \in Labels /\ "contained" \in Labels /\ "gave_up" \in Labels
    BY DEF Labels
  <2>3. failures' \in 0..MaxFailures
    BY <1>5, BoundsAssumption DEF GiveUp, Types, TypeOK
  <2> QED
    BY <1>5, <2>1, <2>2, <2>3 DEF GiveUp, Goto, Types, TypeOK, Returns
<1> QED
  BY <1>1, <1>2, <1>3, <1>4, <1>5

\* So do those of the operation under the lock.
LEMMA OperationTypes ==
  ASSUME Supply, Types, NEW p \in Procs,
         \/ EndOp(p) \/ Leave(p) \/ OpenWindow(p) \/ CloseWindow(p) \/ FailRestore(p)
  PROVE  Types'
<1>l. {"end_main", "end_deadline", "exited"} \subseteq Labels
  BY DEF Labels
<1>1. CASE EndOp(p)
  BY <1>1, <1>l, NoneTypes DEF EndOp, Goto, Types, TypeOK, Returns, locals, budgets
<1>2. CASE Leave(p)
  <2>1. {"end_rename", "end_verify", "end_restore"} \subseteq Labels
    BY DEF Labels
  <2>2. ASSUME NEW to \in Labels,
               ReleaseMain(p, <<"end_main", "end_rename", "end_verify", "end_restore">>, to)
        PROVE  Types'
    BY <2>1, <2>2, <1>l, ReleaseMainTypes
  <2> QED
    BY <1>2, <1>l, <2>2, ReleaseTypes DEF Leave, Paths
<1>3. CASE OpenWindow(p)
  BY <1>3 DEF OpenWindow, Marker, Types, TypeOK, Returns, locals, budgets
<1>4. CASE CloseWindow(p)
  BY <1>4, NoneTypes DEF CloseWindow, Types, TypeOK, Returns, locals, budgets
<1>5. CASE FailRestore(p)
  <2>1. file' \in [Paths -> Gen \cup {NoGen}]
    BY <1>5, PublishTypes, NoneTypes DEF FailRestore, Types, TypeOK, Paths
  <2>2. failures' \in 0..MaxFailures
    BY <1>5, BoundsAssumption DEF FailRestore, Types, TypeOK
  <2>3. unsafe' \in BOOLEAN
    BY <1>5 DEF FailRestore, Types, TypeOK
  <2>4. pc' \in [Procs -> Labels]
    BY <1>5, <1>l DEF FailRestore, Goto, Types, TypeOK
  <2> QED
    BY <1>5, <2>1, <2>2, <2>3, <2>4 DEF FailRestore, Types, TypeOK, Returns, locals
<1> QED
  BY <1>1, <1>2, <1>3, <1>4, <1>5

\* So do a start, a crash, a timeout, the clock and the operator.
LEMMA EnvironmentTypes ==
  ASSUME Types,
         \/ \E p \in Procs : Start(p) \/ StartFence(p) \/ Crash(p) \/ BecomeLate(p)
         \/ Expire \/ Operator
         \/ UNCHANGED vars
  PROVE  Types'
<1>l. {"acq", "fence", "crashed"} \subseteq Labels
  BY DEF Labels
<1>1. ASSUME NEW p \in Procs, Start(p) \/ StartFence(p)
      PROVE  Types'
  BY <1>1, <1>l, NoneTypes
     DEF Start, StartFence, Goto, Types, TypeOK, Returns, disk, locals, budgets
<1>2. ASSUME NEW p \in Procs, Crash(p)
      PROVE  Types'
  <2>1. crashes' \in 0..MaxCrashes
    BY <1>2, BoundsAssumption DEF Crash, Types, TypeOK
  <2>2. unsafe' \in BOOLEAN
    BY <1>2, Zenon DEF Crash
  <2> QED
    BY <1>2, <1>l, <2>1, <2>2 DEF Crash, Goto, Types, TypeOK, Returns, disk, locals
<1>3. ASSUME NEW p \in Procs, BecomeLate(p)
      PROVE  Types'
  <2>1. lates' \in 0..MaxLate
    BY <1>3, BoundsAssumption DEF BecomeLate, Types, TypeOK
  <2> QED
    BY <1>3, <2>1 DEF BecomeLate, Types, TypeOK, Returns, disk
<1>4. CASE Expire
  <2>1. marker' \in Marker
    BY <1>4 DEF Expire, Marker, Types, TypeOK
  <2> QED
    BY <1>4, <2>1 DEF Expire, Types, TypeOK, Returns, locals, budgets
<1>5. CASE Operator
  BY <1>5 DEF Operator, Types, TypeOK, Returns, locals, budgets
<1>6. CASE UNCHANGED vars
  BY <1>6 DEF vars, Types, TypeOK, Returns, disk, locals, budgets
<1> QED
  BY <1>1, <1>2, <1>3, <1>4, <1>5, <1>6

\* Every step keeps the types.
LEMMA TypesStep == ASSUME Supply, Types, [Next]_vars PROVE Types'
BY AcquireTypes, ReapTypes, FenceTypes, OperationTypes, EnvironmentTypes DEF Next, Step

---------------------------------------------------------------------------
(* Steps that move one process and leave the three gates alone.            *)

\* What a process that reaches a label has to hold there.
Entitled(rel, p, label) ==
  /\ label \in HoldsReaper => file["reaper"].owner = p
  /\ label \in HoldsFence => file["deadline"].owner = p
  /\ label \in Cleared => \A q \in Procs : pc[q] \notin PastFence
  /\ label \in PastFence => \A q \in Procs : pc[q] \notin Cleared
  /\ label \in Judging =>
       /\ obs'[p] # NoGen
       /\ rel = "own" => \A q \in Procs :
            pc[q] \in Entering /\ file["main"].owner = q => obs'[p].owner = q
  /\ label \in {"reap_recheck", "claim"} => pc[obs'[p].owner] \in Over
  /\ label # "claimed"
  /\ label \in Entering /\ rel = "own" => \A q \in Procs :
       pc[q] \in Judging /\ file["main"].owner = p => obs[q].owner = p
  /\ label \in Owning => Owns(p)
  /\ label \in Owning \cup Releasing => obs'[p].owner = p
  /\ label \notin Returning

\* The gates, and what other processes have read, stay as they are.
Apart(p) ==
  /\ \A f \in Paths \ {"containment"} : file'[f] = file[f]
  /\ aside' = aside
  /\ \A q \in Procs \ {p} : obs'[q] = obs[q] /\ quar'[q] = quar[q]

\* Who has been judged dead by a reaper stays so.
LEMMA DeadStayDead ==
  ASSUME Types, NEW rel, Protocol(rel), NEW p \in Procs, pc[p] \notin Over,
         \A r \in Procs \ {p} : pc'[r] = pc[r],
         NEW q \in Procs, pc[q] \in {"reap_recheck", "claim", "claimed"}
  PROVE  obs[q] \in Gen /\ pc'[obs[q].owner] \in Over
<1>1. pc[obs[q].owner] \in Over /\ obs[q] \in Gen
  BY DEF Protocol, Judged, Observed, Judging, Types, TypeOK
<1> QED
  BY <1>1, NoneTypes

\* A running process may move to any label it is entitled to.
LEMMA Moves ==
  ASSUME Types, Types', NEW rel, Protocol(rel), NEW p \in Procs, pc[p] \notin Over,
         NEW label, Goto(p, label), Apart(p), Entitled(rel, p, label)
  PROVE  Protocol(rel)'
<1>f. /\ file'["main"] = file["main"] /\ file'["reaper"] = file["reaper"]
      /\ file'["deadline"] = file["deadline"]
  BY DEF Apart, Paths
<1>p. pc \in [Procs -> Labels] /\ pc'[p] = label /\ \A q \in Procs \ {p} : pc'[q] = pc[q]
  BY DEF Types, TypeOK, Goto
<1>o. \A q \in Procs \ {p} : obs'[q] = obs[q] /\ quar'[q] = quar[q]
  BY DEF Apart
<1>1. ReaperHeld' /\ FenceHeld'
  BY <1>f, <1>p DEF Protocol, ReaperHeld, FenceHeld, Entitled
<1>2. FenceOrReaper'
  BY <1>p DEF Protocol, FenceOrReaper, Entitled, Cleared, PastFence
<1>3. Observed'
  BY <1>p, <1>o DEF Protocol, Observed, Entitled
<1>4. Judged'
  <2> SUFFICES ASSUME NEW q \in Procs, pc'[q] \in {"reap_recheck", "claim", "claimed"}
               PROVE  pc'[obs'[q].owner] \in Over
    BY DEF Judged
  <2>1. pc[obs'[q].owner] \in Over /\ obs'[q] # NoGen
    BY <1>p, <1>o DEF Protocol, Judged, Observed, Entitled, Judging
  <2>2. obs'[q] \in Gen
    BY <2>1 DEF Types, TypeOK
  <2> QED
    BY <2>1, <2>2, <1>p, NoneTypes
<1>5. Mine'
  BY <1>p, <1>o DEF Protocol, Mine, Entitled
<1>6. rel = "own" => Upright' /\ Spared'
  <2> SUFFICES ASSUME rel = "own" PROVE Upright' /\ Spared'
    OBVIOUS
  <2>1. Upright'
    BY <1>p DEF Protocol, Upright, Entitled
  <2>2. Spared'
    BY <1>f, <1>p, <1>o DEF Protocol, Spared, Entitled, Entering, Judging
  <2> QED
    BY <2>1, <2>2
<1>7. Owned'
  BY <1>f, <1>p DEF Protocol, Owned, Owns, Entitled, Apart
<1> QED
  BY <1>1, <1>2, <1>3, <1>4, <1>5, <1>6, <1>7 DEF Protocol

\* Away from the labels that claim something it needs nothing.
Withdraws(p) ==
  /\ pc[p] \notin Over /\ Apart(p)
  /\ \E label : label \notin Critical /\ Goto(p, label)

\* So it may always withdraw.
LEMMA Withdrawal ==
  ASSUME Types, Types', NEW rel, Protocol(rel), NEW p \in Procs, Withdraws(p)
  PROVE  Protocol(rel)'
<1>1. PICK label : label \notin Critical /\ Goto(p, label)
  BY DEF Withdraws
<1>2. Entitled(rel, p, label)
  BY <1>1 DEF Entitled, Critical, HoldsReaper, HoldsFence, Cleared, PastFence, Judging,
              Entering, Owning
<1> QED
  BY <1>1, <1>2, Moves DEF Withdraws

\* An owner of the main record may always begin to release it, and go on with it.
LEMMA Releases ==
  ASSUME Types, Types', NEW rel, Protocol(rel), NEW p \in Procs,
         pc[p] \in Owning \cup Releasing, NEW label \in Releasing, Goto(p, label), Apart(p),
         obs' = obs
  PROVE  Protocol(rel)'
<1>1. label \notin HoldsReaper \cup HoldsFence \cup Owning \cup Returning
  BY DEF Releasing, Returning, HoldsReaper, HoldsFence, Cleared, Entering, Owning
<1>2. pc[p] \notin Over
  BY DEF Releasing, Owning, Entering, Over
<1>3. obs'[p].owner = p
  BY DEF Protocol, Mine
<1>4. Entitled(rel, p, label)
  BY <1>1, <1>3 DEF Entitled, HoldsReaper, HoldsFence, Cleared, PastFence, Judging, Entering,
                    Owning
<1> QED
  BY <1>2, <1>4, Moves

\* A plain move that leads away.
LEMMA MoveWithdraws ==
  ASSUME Types, NEW p \in Procs, NEW from, from \notin Over, NEW to, to \notin Critical,
         Move(p, from, to)
  PROVE  Withdraws(p)
BY DEF Withdraws, Apart, Move, disk, locals

\* A read that leads away.
LEMMA ReadWithdraws ==
  ASSUME Types, NEW p \in Procs, NEW from, from \notin Over, NEW f,
         NEW a, a \notin Critical, NEW b, b \notin Critical,
         Read(p, from, f, a, b)
  PROVE  Withdraws(p)
BY DEF Withdraws, Apart, Read, disk, Types, TypeOK

\* The read of the takeover token.
LEMMA ReadTokenWithdraws ==
  ASSUME Types, NEW p \in Procs, NEW from, from \notin Over, NEW to, to \notin Critical,
         ReadToken(p, from, to)
  PROVE  Withdraws(p)
BY DEF Withdraws, Apart, ReadToken, disk

\* Containment changes none of the three gates.
LEMMA ContainWithdraws ==
  ASSUME Supply, Types, NEW p \in Procs, NEW from, from \notin Over,
         NEW to, to \notin Critical, Contain(p, from, to)
  PROVE  Withdraws(p)
<1>1. "contained" \notin Critical
  BY DEF Critical, HoldsReaper, HoldsFence, Cleared, Entering, Owning, Releasing,
         Returning
<1>2. marker.timer \in Timers \cup {NoTimer}
  BY NoneTypes DEF Types, TypeOK
<1>3. \A f \in Paths \ {"containment"} : file'[f] = file[f]
  BY <1>2, PublishTypes DEF Contain, Paths
<1> QED
  BY <1>1, <1>3 DEF Withdraws, Apart, Contain

\* An acquisition that waits: each look at the gates, and at the owner.
LEMMA WaitingStep ==
  ASSUME Supply, Types, NEW p \in Procs, Attempt(p) \/ Gates(p) \/ LookAtOwner(p)
  PROVE  Withdraws(p)
<1>l. /\ {"exited", "acq", "acq_deadline", "judge_deadline", "acq_reaper", "judge_reaper",
          "acq_expired", "pre_deadline", "pre_reaper", "pre_expired", "pre_token", "link",
          "look", "judge_main", "reap"} \cap Critical = {}
      /\ {"acq", "acq_deadline", "judge_deadline", "acq_reaper", "judge_reaper",
          "acq_expired", "pre_deadline", "pre_reaper", "pre_expired", "pre_token",
          "look", "judge_main"} \cap Over = {}
  BY DEF Critical, HoldsReaper, HoldsFence, Cleared, Entering, Owning, Releasing,
         Returning, Over
<1>1. CASE Attempt(p)
  BY <1>1, <1>l DEF Attempt, Withdraws, Apart, disk, Types, TypeOK
<1>2. CASE Gates(p)
  BY <1>2, <1>l, MoveWithdraws, ReadWithdraws, ReadTokenWithdraws, ContainWithdraws
     DEF Gates, Gate, Test
<1>3. CASE LookAtOwner(p)
  BY <1>3, <1>l, MoveWithdraws, ReadWithdraws DEF LookAtOwner, Test
<1> QED
  BY <1>1, <1>2, <1>3

---------------------------------------------------------------------------
(* Entering.                                                               *)

\* A gate that a process is behind exists.
LEMMA BehindGate ==
  ASSUME Types, NEW rel, Protocol(rel), NEW p \in Procs
  PROVE  /\ pc[p] \in HoldsReaper => Exists("reaper")
         /\ pc[p] \in HoldsFence => Exists("deadline")
BY NoneTypes, NamesAssumption DEF Protocol, ReaperHeld, FenceHeld, Exists

\* The main record is published where there was none: nobody else's is lost,
\* and no reaper takes it for the one it has read.
LEMMA LinkMain ==
  ASSUME Supply, Types, Types', NEW rel, Protocol(rel), NEW p \in Procs, NEW from, from \notin Over,
         NEW bound \in Timers \cup {NoTimer}, NEW a, NEW b, b \notin Critical,
         a \in {"post_containment", "fence_enter"},
         a = "fence_enter" => from = "pub_link",
         Link(p, from, "main", bound, a, b)
  PROVE  Protocol(rel)'
<1>1. CASE Exists("main")
  BY <1>1, Withdrawal DEF Link, Withdraws, Apart
<1>2. CASE ~Exists("main")
  <2>p. /\ pc[p] = from /\ pc'[p] = a /\ \A q \in Procs \ {p} : pc'[q] = pc[q]
        /\ aside' = aside /\ \A q \in Procs \ {p} : obs'[q] = obs[q]
        /\ obs'[p] = file'["main"]
        /\ \A q : pc[q] \in Over => q # p
    BY <1>2 DEF Link, Goto, Types, TypeOK
  <2>f. /\ file'["main"].owner = p /\ file["main"].owner = Nobody
        /\ file'["reaper"] = file["reaper"] /\ file'["deadline"] = file["deadline"]
    BY <1>2, PublishTypes, NoneTypes DEF Link, Exists, Paths
  <2>l. /\ a \notin HoldsReaper /\ a \notin HoldsFence /\ a \notin Judging
        /\ a \in Owning /\ (a \in Entering => a = "fence_enter") /\ a \notin Returning
    BY DEF HoldsReaper, HoldsFence, Cleared, Judging, Entering, Owning, Returning
  <2>1. ReaperHeld' /\ FenceHeld'
    BY <2>p, <2>f, <2>l DEF Protocol, ReaperHeld, FenceHeld
  <2>2. FenceOrReaper'
    BY <2>p, <2>l DEF Protocol, FenceOrReaper, Cleared, PastFence
  <2>3. Observed'
    BY <2>p, <2>l DEF Protocol, Observed, HoldsReaper
  <2>4. Judged'
    BY <2>p, <2>l, DeadStayDead DEF Judged, HoldsReaper
  <2>5. Mine'
    BY <2>p, <2>f DEF Protocol, Mine
  <2>6. rel = "own" => Upright' /\ Spared'
    <3>1. rel = "own" => Upright'
      BY <2>p, <2>l DEF Protocol, Upright
    <3> SUFFICES ASSUME NEW r \in Procs, NEW q \in Procs, pc'[r] \in Entering,
                        pc'[q] \in Judging, file'["main"].owner = r
                 PROVE  FALSE
      BY <3>1 DEF Spared
    <3>2. r = p /\ q # p /\ pc[p] = "pub_link"
      BY <2>p, <2>f, <2>l
    <3> QED
      BY <3>2, <2>p DEF Protocol, FenceOrReaper, Cleared, PastFence, Judging
  <2>7. Owned'
    BY <2>p, <2>f, NamesAssumption DEF Protocol, Owned, Owns
  <2> QED
    BY <2>1, <2>2, <2>3, <2>4, <2>5, <2>6, <2>7 DEF Protocol
<1> QED
  BY <1>1, <1>2

\* A process that changes the main path or what lies aside, leads away from every
\* label that claims something, and lets no owner lose its record.
Rearranges(p) ==
  /\ pc[p] \notin Over
  /\ \A f \in {"reaper", "deadline"} : file'[f] = file[f]
  /\ obs' = obs
  /\ \A q \in Procs \ {p} : pc[q] \in Owning /\ Owns(q) => Owns(q)'
  /\ \E label : Goto(p, label) /\ label \notin Critical \ (Releasing \cup Returning)
  /\ pc'[p] \in Releasing => pc[p] \in Releasing

\* Such a step keeps the protocol, if a reaper is not deceived.
LEMMA Rearrangement ==
  ASSUME Types, Types', NEW rel, Protocol(rel), NEW p \in Procs, Rearranges(p),
         rel = "own" => Upright' /\ Spared'
  PROVE  Protocol(rel)'
<1>1. PICK label : Goto(p, label) /\ label \notin Critical \ (Releasing \cup Returning)
  BY DEF Rearranges
<1>p. /\ pc'[p] = label /\ \A q \in Procs \ {p} : pc'[q] = pc[q]
      /\ \A q : pc[q] \in Over => q # p
  BY <1>1 DEF Goto, Types, TypeOK, Rearranges
<1>l. label \notin HoldsReaper \cup HoldsFence \cup Owning
  BY <1>1 DEF Critical, Releasing, Returning, HoldsReaper, HoldsFence, Cleared, Owning, Entering
<1>2. ReaperHeld' /\ FenceHeld'
  BY <1>p, <1>l DEF Protocol, ReaperHeld, FenceHeld, Rearranges
<1>3. FenceOrReaper'
  BY <1>p, <1>l DEF Protocol, FenceOrReaper, HoldsReaper, HoldsFence, PastFence
<1>4. Observed'
  BY <1>p, <1>l DEF Protocol, Observed, HoldsReaper, Judging, Rearranges
<1>5. Judged'
  BY <1>p, <1>l, DeadStayDead DEF Judged, HoldsReaper, Rearranges
<1>6. Mine'
  BY <1>p, <1>l DEF Protocol, Mine, Rearranges
<1>7. Owned'
  BY <1>p, <1>l DEF Protocol, Owned, Rearranges
<1> QED
  BY <1>2, <1>3, <1>4, <1>5, <1>6, <1>7 DEF Protocol

\* A rename loses no record.
LEMMA RenameKeeps ==
  ASSUME Types, NEW p \in Procs, NEW from, NEW a, NEW b, RenameAside(p, from, a, b)
  PROVE  /\ pc[p] = from /\ obs' = obs /\ file'["main"] = NoGen
         /\ Goto(p, IF Exists("main") THEN a ELSE b)
         /\ \A f \in {"reaper", "deadline"} : file'[f] = file[f]
         /\ \A q \in Procs : Owns(q) => Owns(q)'
BY NoneTypes, NamesAssumption DEF RenameAside, Remove, Types, TypeOK, Paths, Owns, Exists

\* Nor does it put one into a reaper's way.
LEMMA NoneToSpare ==
  ASSUME NEW rel, Protocol(rel), file'["main"] = NoGen
  PROVE  Spared'
BY NoneTypes, NamesAssumption DEF Spared

\* What is put back is lost by nobody.
LEMMA PutBackKeeps ==
  ASSUME Types, NEW p \in Procs, NEW from, NEW to, PutBack(p, from, to)
  PROVE  /\ pc[p] = from /\ obs' = obs /\ Goto(p, to)
         /\ \A f \in {"reaper", "deadline"} : file'[f] = file[f]
         /\ \A q \in Procs : Owns(q) => Owns(q)'
BY NoneTypes, NamesAssumption DEF PutBack, locals, Types, TypeOK, Paths, Owns, Exists

\* An owner takes its own main record away, or finds that another's is there.
LEMMA ReleaseMainStep ==
  ASSUME Types, Types', NEW rel, Protocol(rel), rel = "own" => OwnRelease,
         NEW p \in Procs, NEW to, to \notin Critical,
         \/ ReleaseMain(p, <<"drop", "drop_rename", "drop_verify", "drop_restore">>, to)
         \/ ReleaseMain(p, <<"end_main", "end_rename", "end_verify", "end_restore">>, to)
  PROVE  Protocol(rel)'
<1>l. /\ Releasing \cap Over = {} /\ Returning \cap Over = {}
      /\ Releasing \cap Returning = {} /\ Releasing \subseteq Critical
      /\ Returning \subseteq Critical
  BY DEF Releasing, Returning, Over, Critical
<1>1. ASSUME NEW a \in Releasing, NEW b \in Releasing, NEW c, Test(p, a, c, b, to)
      PROVE  Protocol(rel)'
  <2>1. CASE Move(p, a, b)
    <3>1. pc[p] = a /\ Goto(p, b) /\ Apart(p) /\ obs' = obs
      BY <2>1 DEF Move, Apart, disk, locals
    <3> QED
      BY <3>1, Releases
  <2>2. CASE Move(p, a, to)
    BY <2>2, <1>l, MoveWithdraws, Withdrawal
  <2> QED
    BY <1>1, <2>1, <2>2 DEF Test
<1>2. ASSUME NEW a \in Releasing, NEW b \in Releasing, RenameAside(p, a, b, to)
      PROVE  Protocol(rel)'
  <2>1. /\ pc[p] = a /\ obs' = obs /\ file'["main"] = NoGen
        /\ Goto(p, IF Exists("main") THEN b ELSE to)
        /\ \A f \in {"reaper", "deadline"} : file'[f] = file[f]
        /\ \A q \in Procs : Owns(q) => Owns(q)'
    BY <1>2, RenameKeeps
  <2>2. Rearranges(p)
    BY <2>1, <1>l DEF Rearranges
  <2>3. pc'[p] \in {b, to} /\ \A q \in Procs \ {p} : pc'[q] = pc[q]
    BY <2>1 DEF Goto, Types, TypeOK
  <2>4. rel = "own" => Upright' /\ Spared'
    BY <2>1, <2>3, <1>l, NoneToSpare DEF Protocol, Upright
  <2> QED
    BY <2>2, <2>4, Rearrangement
<1>3. ASSUME NEW a \in {"drop_verify", "end_verify"}, NEW b \in Returning,
             DeleteExpected(p, a, TRUE, to, b)
      PROVE  Protocol(rel)'
  <2>1. /\ pc[p] = a /\ file' = file /\ obs' = obs /\ a \in Releasing
        /\ IF quar[p] = obs[p]
           THEN aside' = aside \ {obs[p]} /\ Goto(p, to)
           ELSE aside' = aside /\ Goto(p, b)
    BY <1>3 DEF DeleteExpected, locals, Releasing
  <2>2. obs[p].owner = p
    BY <2>1 DEF Protocol, Mine
  <2>3. \A q \in Procs \ {p} : Owns(q) => Owns(q)'
    BY <2>1, <2>2 DEF Owns
  <2>4. pc'[p] \in {b, to} /\ \A q \in Procs \ {p} : pc'[q] = pc[q]
    BY <2>1 DEF Goto, Types, TypeOK
  <2>5. Rearranges(p)
    BY <2>1, <2>3, <2>4, <1>l DEF Rearranges
  <2>6. rel = "own" => Upright' /\ Spared'
    <3> SUFFICES ASSUME rel = "own" PROVE Upright' /\ Spared'
      OBVIOUS
    <3>1. pc'[p] = to
      BY <2>1 DEF OwnRelease, Goto, Types, TypeOK
    <3>2. to \notin Entering \cup Judging \cup Returning
      BY DEF Critical, Owning, HoldsReaper, Judging
    <3> QED
      BY <3>1, <3>2, <2>1, <2>4 DEF Protocol, Upright, Spared
  <2> QED
    BY <2>5, <2>6, Rearrangement
<1>4. ASSUME NEW a \in Returning, PutBack(p, a, to)
      PROVE  Protocol(rel)'
  <2>1. /\ pc[p] = a /\ obs' = obs /\ Goto(p, to)
        /\ \A f \in {"reaper", "deadline"} : file'[f] = file[f]
        /\ \A q \in Procs : Owns(q) => Owns(q)'
    BY <1>4, PutBackKeeps
  <2>2. pc'[p] = to
    BY <2>1 DEF Goto, Types, TypeOK
  <2>3. Rearranges(p)
    BY <2>1, <2>2, <1>l DEF Rearranges
  <2>4. rel # "own"
    BY <2>1 DEF Protocol, Upright
  <2> QED
    BY <2>3, <2>4, Rearrangement
<1>5. /\ {"drop", "drop_rename", "drop_verify", "end_main", "end_rename", "end_verify"}
           \subseteq Releasing
      /\ {"drop_restore", "end_restore"} \subseteq Returning
  BY DEF Releasing, Returning
<1> QED
  BY <1>1, <1>2, <1>3, <1>4, <1>5 DEF ReleaseMain

\* The look at the gates after the link: past it no reaper is at work.
LEMMA EnterStep ==
  ASSUME Supply, Types, Types', NEW rel, Protocol(rel), rel = "own" => OwnRelease,
         NEW p \in Procs, Enter(p)
  PROVE  Protocol(rel)'
<1>l. /\ {"link", "acq", "look"} \cap Critical = {}
      /\ {"link", "post_containment", "post_deadline", "post_reaper", "post_expired",
          "post_token"} \cap Over = {}
  BY DEF Critical, HoldsReaper, HoldsFence, Cleared, Entering, Owning, Releasing,
         Returning, Over
<1>t. tok[p] \in Timers \cup {NoTimer}
  BY DEF Types, TypeOK
<1>1. CASE Move(p, "link", "acq")
  BY <1>1, <1>l, MoveWithdraws, Withdrawal
<1>2. CASE Link(p, "link", "main", tok[p], "post_containment", "look")
  BY <1>2, <1>l, <1>t, LinkMain
<1>3. CASE ReleaseMain(p, <<"drop", "drop_rename", "drop_verify", "drop_restore">>, "look")
  BY <1>3, <1>l, ReleaseMainStep
<1>4. ASSUME NEW from \in {"post_containment", "post_deadline", "post_reaper",
                           "post_expired", "post_token"},
             Move(p, from, "drop")
      PROVE  Protocol(rel)'
  <2>1. from \in Owning /\ "drop" \in Releasing
    BY DEF Owning, Entering, Releasing
  <2>2. pc[p] = from /\ Goto(p, "drop") /\ Apart(p) /\ obs' = obs
    BY <1>4 DEF Move, Apart, disk, locals
  <2> QED
    BY <2>1, <2>2, Releases
<1>5. ASSUME NEW from \in {"post_containment", "post_deadline", "post_reaper",
                           "post_expired", "post_token"},
             NEW to \in {"post_deadline", "post_reaper", "post_expired", "post_token", "op"},
             Move(p, from, to),
             from \in {"post_expired", "post_token"} <=> to \in {"post_token", "op"},
             to = "post_expired" => ~Exists("reaper")
      PROVE  Protocol(rel)'
  <2>1. pc[p] = from /\ Goto(p, to) /\ Apart(p) /\ from \notin Over /\ obs' = obs
    BY <1>5, <1>l DEF Move, Apart, disk, locals
  <2>2. Owns(p) /\ obs[p].owner = p
    BY <2>1 DEF Protocol, Owned, Mine, Owning, Entering
  <2>3. to \in Entering /\ rel = "own" => \A q \in Procs :
          pc[q] \in Judging /\ file["main"].owner = p => obs[q].owner = p
    <3>1. CASE to = "post_expired"
      BY <3>1, <1>5, BehindGate DEF Judging, HoldsReaper
    <3>2. CASE to \in {"post_token", "op"}
      BY <3>2, <1>5, <2>1 DEF Protocol, Spared, Entering
    <3> QED
      BY <3>1, <3>2 DEF Entering
  <2>4. Entitled(rel, p, to)
    BY <2>1, <2>2, <2>3 DEF Entitled, HoldsReaper, HoldsFence, Cleared, PastFence, Judging,
                            Returning
  <2> QED
    BY <2>1, <2>4, Moves
<1> QED
  BY <1>1, <1>2, <1>3, <1>4, <1>5 DEF Enter, Test

---------------------------------------------------------------------------
(* Reaping.                                                                *)

\* Whoever links the reaper gate is alone behind it.
LEMMA LinkReaper ==
  ASSUME Supply, Types, Types', NEW rel, Protocol(rel), NEW p \in Procs,
         NEW bound \in Timers \cup {NoTimer},
         Link(p, "reap_link", "reaper", bound, "reap_containment", "acq")
  PROVE  Protocol(rel)'
<1>1. CASE Exists("reaper")
  <2>1. "acq" \notin Critical /\ "reap_link" \notin Over
    BY DEF Critical, HoldsReaper, HoldsFence, Cleared, Entering, Owning, Releasing,
         Returning, Over
  <2> QED
    BY <1>1, <2>1, Withdrawal DEF Link, Withdraws, Apart
<1>2. CASE ~Exists("reaper")
  <2>p. /\ pc[p] = "reap_link" /\ pc'[p] = "reap_containment" /\ pc[p] \notin Over
        /\ \A q \in Procs \ {p} : pc'[q] = pc[q] /\ obs'[q] = obs[q]
        /\ aside' = aside
    BY <1>2 DEF Link, Goto, Types, TypeOK, Over
  <2>f. /\ file'["reaper"].owner = p
        /\ file'["main"] = file["main"] /\ file'["deadline"] = file["deadline"]
    BY <1>2, PublishTypes DEF Link, Paths
  <2>1. \A q \in Procs : pc[q] \notin HoldsReaper
    BY <1>2, BehindGate
  <2>2. ReaperHeld' /\ FenceHeld'
    BY <2>p, <2>f, <2>1 DEF Protocol, ReaperHeld, FenceHeld, HoldsFence, Cleared
  <2>3. FenceOrReaper' /\ Observed' /\ Judged' /\ Spared'
    BY <2>p, <2>1 DEF FenceOrReaper, Observed, Judged, Spared, HoldsReaper, PastFence, Judging
  <2>4. Owned' /\ Mine' /\ (rel = "own" => Upright')
    BY <2>p, <2>f DEF Protocol, Owned, Owns, Mine, Upright, Owning, Entering, Releasing, Returning
  <2> QED
    BY <2>2, <2>3, <2>4 DEF Protocol
<1> QED
  BY <1>1, <1>2

\* A reaper gives its own gate back.
LEMMA ReleaseReaper ==
  ASSUME Types, Types', NEW rel, Protocol(rel), NEW p \in Procs,
         Release(p, "rel_reaper", "reaper", "acq")
  PROVE  Protocol(rel)'
<1>p. /\ pc[p] = "rel_reaper" /\ pc'[p] = "acq" /\ pc[p] \notin Over
      /\ \A q \in Procs \ {p} : pc'[q] = pc[q]
      /\ aside' = aside /\ obs' = obs /\ quar' = quar
  BY DEF Release, Goto, locals, Types, TypeOK, Over
<1>f. /\ file'["reaper"] = file["reaper"] \/ file["reaper"].owner = p
      /\ file'["main"] = file["main"] /\ file'["deadline"] = file["deadline"]
  BY DEF Release, Remove, Types, TypeOK, Paths
<1>1. ReaperHeld' /\ FenceHeld'
  BY <1>p, <1>f DEF Protocol, ReaperHeld, FenceHeld, HoldsReaper, HoldsFence, Cleared
<1>2. FenceOrReaper' /\ Observed'
  BY <1>p DEF Protocol, FenceOrReaper, Observed, Cleared, PastFence, Judging
<1>3. Judged'
  BY <1>p, DeadStayDead DEF Judged
<1>4. rel = "own" => Upright' /\ Spared'
  BY <1>p, <1>f DEF Protocol, Upright, Spared, Judging, Entering, Returning
<1>5. Owned' /\ Mine'
  BY <1>p, <1>f DEF Protocol, Owned, Owns, Mine, Owning, Entering, Releasing
<1> QED
  BY <1>1, <1>2, <1>3, <1>4, <1>5 DEF Protocol

\* From the gate to the rename: past the look at the fence nobody has cleared the
\* gates, and only the record of a process that ended gets past its judgement.
LEMMA ReaperStep ==
  ASSUME Supply, Types, Types', NEW rel, Protocol(rel), NEW p \in Procs,
         ReaperGate(p) \/ ReclaimOrContain(p)
  PROVE  Protocol(rel)'
<1>l. /\ {"acq", "reap", "reap_deadline", "reap_token", "reap_link", "rel_reaper"}
           \cap Critical = {}
      /\ {"reap", "reap_deadline", "reap_token", "reap_link", "reap_containment",
          "reap_again", "reap_authority", "reap_read", "reap_judge", "reap_recheck",
          "rel_reaper"} \cap Over = {}
  BY DEF Critical, HoldsReaper, HoldsFence, Cleared, Entering, Owning, Releasing,
         Returning, Over
<1>t. tok[p] \in Timers \cup {NoTimer}
  BY DEF Types, TypeOK
<1>1. CASE \/ ReadToken(p, "reap_token", "reap_link")
           \/ Move(p, "reap_link", "acq")
  BY <1>1, <1>l, MoveWithdraws, ReadTokenWithdraws, Withdrawal
<1>2. CASE Link(p, "reap_link", "reaper", tok[p], "reap_containment", "acq")
  BY <1>2, <1>t, LinkReaper
<1>3. CASE Release(p, "rel_reaper", "reaper", "acq")
  BY <1>3, ReleaseReaper
<1>4. ASSUME NEW from \in {"reap", "reap_deadline", "reap_containment", "reap_again",
                           "reap_authority", "reap_judge", "reap_recheck"},
             NEW to \in {"acq", "reap_deadline", "reap_token", "rel_reaper"},
             Move(p, from, to)
      PROVE  Protocol(rel)'
  BY <1>4, <1>l, MoveWithdraws, Withdrawal
<1>5. CASE Contain(p, "reap_recheck", "rel_reaper")
  BY <1>5, <1>l, ContainWithdraws, Withdrawal
<1>6. ASSUME NEW from \in {"reap_containment", "reap_again", "reap_authority", "reap_judge",
                           "reap_recheck"},
             NEW to \in {"reap_again", "reap_authority", "reap_read", "reap_recheck", "claim"},
             Move(p, from, to),
             to = "reap_again" <=> from = "reap_containment",
             to = "reap_authority" <=> from = "reap_again",
             to = "reap_read" <=> from = "reap_authority",
             to = "reap_authority" => ~Exists("deadline"),
             to = "reap_recheck" => from = "reap_judge" /\ Stale(obs[p]),
             to = "claim" => from = "reap_recheck"
      PROVE  Protocol(rel)'
  <2>1. pc[p] = from /\ Goto(p, to) /\ Apart(p) /\ from \notin Over /\ obs' = obs
    BY <1>6, <1>l DEF Move, Apart, disk, locals
  <2>2. file["reaper"].owner = p
    BY <2>1 DEF Protocol, ReaperHeld, HoldsReaper
  <2>3. to \in PastFence => \A q \in Procs : pc[q] \notin Cleared
    <3>1. CASE to = "reap_authority"
      BY <3>1, <1>6, BehindGate DEF HoldsFence
    <3>2. CASE from \in PastFence
      BY <3>2, <2>1 DEF Protocol, FenceOrReaper
    <3> QED
      BY <1>6, <3>1, <3>2 DEF PastFence
  <2>4. to \in Judging =>
          /\ from \in Judging /\ obs[p] # NoGen
          /\ rel = "own" => \A q \in Procs :
               pc[q] \in Entering /\ file["main"].owner = q => obs[p].owner = q
    BY <1>6, <2>1 DEF Protocol, Observed, Spared, Judging
  <2>5. to \in {"reap_recheck", "claim"} => pc[obs[p].owner] \in Over
    BY <1>6, <2>1 DEF Protocol, Judged, Stale
  <2>6. Entitled(rel, p, to)
    BY <2>1, <2>2, <2>3, <2>4, <2>5
       DEF Entitled, HoldsFence, Cleared, Owning, Entering, Releasing, Returning
  <2> QED
    BY <2>1, <2>6, Moves
<1>7. CASE Read(p, "reap_read", "main", "rel_reaper", "reap_judge")
  <2> DEFINE to == IF Exists("main") THEN "reap_judge" ELSE "rel_reaper"
  <2>1. /\ pc[p] = "reap_read" /\ Goto(p, to) /\ Apart(p) /\ pc[p] \notin Over
        /\ obs'[p] = file["main"]
    BY <1>7, <1>l DEF Read, Apart, disk, Types, TypeOK
  <2>2. file["reaper"].owner = p
    BY <2>1 DEF Protocol, ReaperHeld, HoldsReaper
  <2>3. \A q \in Procs : pc[q] \notin Cleared
    BY <2>1 DEF Protocol, FenceOrReaper, PastFence
  <2>4. Entitled(rel, p, to)
    BY <2>1, <2>2, <2>3
       DEF Entitled, HoldsReaper, HoldsFence, Cleared, PastFence, Judging, Owning, Entering,
           Releasing, Returning, Exists
  <2> HIDE DEF to
  <2> QED
    BY <2>1, <2>4, Moves
<1>8. CASE ReaperGate(p)
  BY <1>8, <1>1, <1>2, <1>3, <1>4, <1>6, <1>7 DEF ReaperGate, Test
<1>9. CASE ReclaimOrContain(p)
  BY <1>9, <1>4, <1>5, <1>6 DEF ReclaimOrContain
<1> QED
  BY <1>8, <1>9

\* The rename moves the main record aside.
LEMMA ClaimStep ==
  ASSUME Types, Types', NEW rel, Protocol(rel), NEW p \in Procs, Claim(p)
  PROVE  Protocol(rel)'
<1> DEFINE to == IF Exists("main") THEN "claimed" ELSE "rel_reaper"
<1>k. /\ pc[p] = "claim" /\ obs' = obs /\ file'["main"] = NoGen /\ Goto(p, to)
      /\ \A f \in {"reaper", "deadline"} : file'[f] = file[f]
      /\ \A q \in Procs : Owns(q) => Owns(q)'
  BY RenameKeeps DEF Claim
<1>p. /\ pc'[p] = to /\ pc[p] \notin Over /\ \A q \in Procs \ {p} : pc'[q] = pc[q]
  BY <1>k DEF Goto, Types, TypeOK, Over
<1>l. to \in {"claimed", "rel_reaper"}
  OBVIOUS
<1> HIDE DEF to
<1>1. \A q \in Procs \ {p} : pc[q] \notin HoldsReaper
  BY <1>k DEF Protocol, ReaperHeld, HoldsReaper
<1>2. ReaperHeld' /\ FenceHeld'
  BY <1>p, <1>l, <1>k DEF Protocol, ReaperHeld, FenceHeld, HoldsReaper, HoldsFence, Cleared
<1>3. FenceOrReaper'
  BY <1>p, <1>l DEF Protocol, FenceOrReaper, Cleared, PastFence
<1>4. Observed'
  BY <1>p, <1>l, <1>k DEF Protocol, Observed, Judging
<1>5. Judged'
  BY <1>p, <1>l, <1>k, DeadStayDead DEF Judged
<1>6. rel = "own" => Upright' /\ Spared'
  BY <1>p, <1>l, <1>k, NoneToSpare DEF Protocol, Upright, Returning
<1>7. Owned' /\ Mine'
  BY <1>p, <1>l, <1>k DEF Protocol, Owned, Mine, Owning, Entering, Releasing
<1> QED
  BY <1>2, <1>3, <1>4, <1>5, <1>6, <1>7 DEF Protocol

\* What is deleted is the record of a process that has ended.
LEMMA VerifyStep ==
  ASSUME Types, Types', NEW rel, Protocol(rel), NEW p \in Procs, Verify(p)
  PROVE  Protocol(rel)'
<1>p. /\ pc[p] = "claimed" /\ pc'[p] \in {"rel_reaper", "restore"} /\ pc[p] \notin Over
      /\ \A q \in Procs \ {p} : pc'[q] = pc[q]
      /\ file' = file /\ obs' = obs
      /\ aside' = aside \/ aside' = aside \ {obs[p]}
  BY DEF Verify, DeleteExpected, Goto, locals, Types, TypeOK, Over
<1>1. \A q \in Procs : pc[q] \in Owning /\ Owns(q) => Owns(q)'
  <2>1. pc[obs[p].owner] \notin Owning
    BY <1>p DEF Protocol, Judged, Owning, Entering, Over
  <2> QED
    BY <1>p, <2>1 DEF Owns
<1>2. ReaperHeld' /\ FenceHeld'
  BY <1>p DEF Protocol, ReaperHeld, FenceHeld, HoldsReaper, HoldsFence, Cleared
<1>3. FenceOrReaper' /\ Observed'
  BY <1>p DEF Protocol, FenceOrReaper, Observed, Cleared, PastFence, Judging
<1>4. rel = "own" => Upright' /\ Spared'
  BY <1>p DEF Protocol, Upright, Spared, Judging, Entering, Returning
<1>5. Judged'
  BY <1>p, DeadStayDead DEF Judged
<1>6. Owned' /\ Mine'
  BY <1>p, <1>1 DEF Protocol, Owned, Mine, Owning, Entering, Releasing
<1> QED
  BY <1>2, <1>3, <1>4, <1>5, <1>6 DEF Protocol

\* What was taken from another is put back, or left where it is.
LEMMA RestoreStep ==
  ASSUME Types, Types', NEW rel, Protocol(rel), NEW p \in Procs, Restore(p)
  PROVE  Protocol(rel)'
<1>k. /\ pc[p] = "restore" /\ obs' = obs /\ Goto(p, "rel_reaper")
      /\ \A f \in {"reaper", "deadline"} : file'[f] = file[f]
      /\ \A q \in Procs : Owns(q) => Owns(q)'
  BY PutBackKeeps DEF Restore
<1>p. pc'[p] = "rel_reaper" /\ \A q \in Procs \ {p} : pc'[q] = pc[q]
  BY <1>k DEF Goto, Types, TypeOK
<1>1. \A q \in Procs \ {p} : pc[q] \notin HoldsReaper
  BY <1>k DEF Protocol, ReaperHeld, HoldsReaper
<1>2. "restore" \notin Over /\ "rel_reaper" \notin Critical
  BY DEF Over, Critical, HoldsReaper, HoldsFence, Cleared, Entering, Owning, Releasing,
         Returning
<1>3. Rearranges(p)
  BY <1>k, <1>p, <1>2 DEF Rearranges, Critical
<1>4. Spared' /\ (rel = "own" => Upright')
  BY <1>p, <1>1 DEF Protocol, Upright, Spared, Judging, HoldsReaper, Returning
<1> QED
  BY <1>3, <1>4, Rearrangement

---------------------------------------------------------------------------
(* The deadline fence.                                                     *)

\* Whoever links the fence is alone behind it.
LEMMA LinkFence ==
  ASSUME Supply, Types, Types', NEW rel, Protocol(rel), NEW p \in Procs,
         NEW bound \in Timers \cup {NoTimer},
         Link(p, "fence_link", "deadline", bound, "fence_authority", "fence_look")
  PROVE  Protocol(rel)'
<1>1. CASE Exists("deadline")
  <2>1. "fence_look" \notin Critical /\ "fence_link" \notin Over
    BY DEF Critical, HoldsReaper, HoldsFence, Cleared, Entering, Owning, Releasing,
         Returning, Over
  <2> QED
    BY <1>1, <2>1, Withdrawal DEF Link, Withdraws, Apart
<1>2. CASE ~Exists("deadline")
  <2>p. /\ pc[p] = "fence_link" /\ pc'[p] = "fence_authority" /\ pc[p] \notin Over
        /\ \A q \in Procs \ {p} : pc'[q] = pc[q] /\ obs'[q] = obs[q]
        /\ aside' = aside
    BY <1>2 DEF Link, Goto, Types, TypeOK, Over
  <2>f. /\ file'["deadline"].owner = p
        /\ file'["main"] = file["main"] /\ file'["reaper"] = file["reaper"]
    BY <1>2, PublishTypes DEF Link, Paths
  <2>1. \A q \in Procs : pc[q] \notin HoldsFence
    BY <1>2, BehindGate
  <2>2. ReaperHeld' /\ FenceHeld'
    BY <2>p, <2>f, <2>1 DEF Protocol, ReaperHeld, FenceHeld, HoldsReaper
  <2>3. FenceOrReaper'
    BY <2>p, <2>1 DEF FenceOrReaper, HoldsFence, Cleared
  <2>4. Observed' /\ (rel = "own" => Upright' /\ Spared')
    BY <2>p, <2>f DEF Protocol, Observed, Upright, Spared, Judging, Entering, Returning
  <2>5. Judged'
    BY <2>p, DeadStayDead DEF Judged
  <2>6. Owned' /\ Mine'
    BY <2>p, <2>f DEF Protocol, Owned, Owns, Mine, Owning, Entering, Releasing
  <2> QED
    BY <2>2, <2>3, <2>4, <2>5, <2>6 DEF Protocol
<1> QED
  BY <1>1, <1>2

\* A recovery takes its own fence down.
LEMMA ReleaseFence ==
  ASSUME Types, Types', NEW rel, Protocol(rel), NEW p \in Procs,
         Release(p, "end_deadline", "deadline", "exited")
  PROVE  Protocol(rel)'
<1>p. /\ pc[p] = "end_deadline" /\ pc'[p] = "exited" /\ pc[p] \notin Over
      /\ \A q \in Procs \ {p} : pc'[q] = pc[q]
      /\ aside' = aside /\ obs' = obs /\ quar' = quar
  BY DEF Release, Goto, locals, Types, TypeOK, Over
<1>f. /\ file'["deadline"] = file["deadline"] \/ file["deadline"].owner = p
      /\ file'["main"] = file["main"] /\ file'["reaper"] = file["reaper"]
  BY DEF Release, Remove, Types, TypeOK, Paths
<1>1. ReaperHeld' /\ FenceHeld'
  BY <1>p, <1>f DEF Protocol, ReaperHeld, FenceHeld, HoldsReaper, HoldsFence, Cleared
<1>2. FenceOrReaper' /\ Observed'
  BY <1>p DEF Protocol, FenceOrReaper, Observed, Cleared, PastFence, Judging
<1>3. Judged'
  BY <1>p, DeadStayDead DEF Judged
<1>4. rel = "own" => Upright' /\ Spared'
  BY <1>p, <1>f DEF Protocol, Upright, Spared, Judging, Entering, Returning
<1>5. Owned' /\ Mine'
  BY <1>p, <1>f DEF Protocol, Owned, Owns, Mine, Owning, Entering, Releasing
<1> QED
  BY <1>1, <1>2, <1>3, <1>4, <1>5 DEF Protocol

\* Behind the fence a process goes on, and past the reaper gate once it has seen
\* that nobody holds it.
LEMMA FenceMoves ==
  ASSUME Types, Types', NEW rel, Protocol(rel), NEW p \in Procs, pc[p] \in HoldsFence,
         NEW to \in HoldsFence, Goto(p, to), Apart(p),
         to \in Cleared => pc[p] \in Cleared \/ ~Exists("reaper")
  PROVE  Protocol(rel)'
<1>1. pc[p] \notin Over /\ file["deadline"].owner = p
  BY DEF HoldsFence, Cleared, Over, Protocol, FenceHeld
<1>2. to \in Cleared => \A q \in Procs : pc[q] \notin PastFence
  BY BehindGate DEF Protocol, FenceOrReaper, HoldsReaper, PastFence
<1>3. Entitled(rel, p, to)
  BY <1>1, <1>2
     DEF Entitled, HoldsReaper, HoldsFence, Cleared, PastFence, Judging, Owning, Entering,
         Releasing, Returning
<1> QED
  BY <1>1, <1>3, Moves

\* Every step of withMcpLifecycleDeadlineFence up to its operation.
LEMMA FenceStep ==
  ASSUME Supply, Types, Types', NEW rel, Protocol(rel), NEW p \in Procs,
         TakeFence(p) \/ ClearGates(p) \/ PublishMain(p)
  PROVE  Protocol(rel)'
<1>l. /\ {"fence", "fence_containment", "fence_link", "fence_look", "fence_judge", "exited",
          "end_deadline", "fence_throw"} \cap Critical = {}
      /\ {"fence", "fence_containment", "fence_look", "fence_judge", "pub_link", "fence_enter"}
           \cap Over = {}
      /\ HoldsFence \cap Over = {}
  BY DEF Critical, HoldsReaper, HoldsFence, Cleared, Entering, Owning, Releasing,
         Returning, Over
<1>h. /\ {"fence_authority", "clear_reaper", "cr_read", "cr_judge", "cr_confirm",
          "cr_contain"} \subseteq HoldsFence \ Cleared
      /\ {"clear_main", "cm_read", "cm_judge", "cm_confirm", "cm_contain",
          "pub_authority", "pub_link"} \subseteq Cleared
      /\ Cleared \subseteq HoldsFence
  BY DEF HoldsFence, Cleared
<1>t. want[p] \in Timers \cup {NoTimer}
  BY DEF Types, TypeOK
\* Leaving the fence, from any label.
<1>1. ASSUME NEW from, from \notin Over,
             NEW to \in {"fence", "fence_containment", "fence_link", "exited",
                         "end_deadline"},
             Move(p, from, to)
      PROVE  Protocol(rel)'
  BY <1>1, <1>l, MoveWithdraws, Withdrawal
<1>2. ASSUME NEW from, from \notin Over, NEW to \in {"fence", "fence_throw"},
             Contain(p, from, to)
      PROVE  Protocol(rel)'
  BY <1>2, <1>l, ContainWithdraws, Withdrawal
\* Going on behind it.
<1>3. ASSUME NEW from \in HoldsFence, NEW to \in HoldsFence, Move(p, from, to),
             to \in Cleared => from \in Cleared
      PROVE  Protocol(rel)'
  <2>1. pc[p] = from /\ Goto(p, to) /\ Apart(p)
    BY <1>3 DEF Move, Apart, disk, locals
  <2> QED
    BY <1>3, <2>1, FenceMoves
<1>4. ASSUME NEW from \in HoldsFence, NEW f, NEW a \in HoldsFence, NEW b \in HoldsFence,
             Read(p, from, f, a, b),
             a \in Cleared => from \in Cleared \/ f = "reaper",
             b \in Cleared => from \in Cleared
      PROVE  Protocol(rel)'
  <2>1. /\ pc[p] = from /\ Goto(p, IF Exists(f) THEN b ELSE a) /\ Apart(p)
    BY <1>4 DEF Read, Apart, disk, Types, TypeOK
  <2> QED
    BY <1>4, <2>1, FenceMoves
<1>5. CASE TakeFence(p)
  <2>1. CASE Link(p, "fence_link", "deadline", want[p], "fence_authority", "fence_look")
    BY <2>1, <1>t, LinkFence
  <2>2. CASE Read(p, "fence_look", "deadline", "fence", "fence_judge")
    BY <2>2, <1>l, ReadWithdraws, Withdrawal
  <2> QED
    BY <1>5, <1>l, <1>h, <1>1, <1>2, <1>3, <2>1, <2>2 DEF TakeFence, Test
<1>6. CASE ClearGates(p)
  <2>1. ASSUME NEW f, NEW next \in HoldsFence,
               NEW a1 \in HoldsFence, NEW a2 \in HoldsFence, NEW a3 \in HoldsFence,
               NEW a4 \in HoldsFence, NEW a5 \in HoldsFence,
               Clear(p, f, <<a1, a2, a3, a4, a5>>, next),
               \/ {a1, a2, a3, a4, a5} \subseteq Cleared
               \/ {a1, a2, a3, a4, a5} \cap Cleared = {} /\ f = "reaper"
        PROVE  Protocol(rel)'
    <3>1. CASE Read(p, a2, f, next, a3)
      BY <3>1, <2>1, <1>4
    <3>2. CASE \/ Move(p, a1, a2) \/ Move(p, a1, "end_deadline")
               \/ Move(p, a3, a4) \/ Move(p, a3, a1)
               \/ Move(p, a4, a5) \/ Move(p, a4, a1)
      BY <3>2, <2>1, <1>l, <1>1, <1>3
    <3>3. CASE Contain(p, a5, "fence_throw") \/ Move(p, a5, "end_deadline")
      BY <3>3, <2>1, <1>l, <1>1, <1>2
    <3> QED
      BY <2>1, <3>1, <3>2, <3>3 DEF Clear, Test
  <2>2. CASE Clear(p, "reaper",
                   <<"clear_reaper", "cr_read", "cr_judge", "cr_confirm", "cr_contain">>,
                   "clear_main")
    <3>1. {"clear_reaper", "cr_read", "cr_judge", "cr_confirm", "cr_contain"}
            \cap Cleared = {}
      BY <1>h
    <3> QED
      BY <2>2, <3>1, <2>1, <1>h
  <2>3. CASE Clear(p, "main",
                   <<"clear_main", "cm_read", "cm_judge", "cm_confirm", "cm_contain">>,
                   "pub_authority")
    <3>1. {"clear_main", "cm_read", "cm_judge", "cm_confirm", "cm_contain"} \subseteq Cleared
      BY <1>h
    <3> QED
      BY <2>3, <3>1, <2>1, <1>h
  <2> QED
    BY <1>6, <2>2, <2>3 DEF ClearGates
<1>7. CASE PublishMain(p)
  <2>1. CASE Link(p, "pub_link", "main", want[p], "fence_enter", "clear_reaper")
    <3>1. CASE Exists("main")
      <4>1. pc[p] = "pub_link" /\ Goto(p, "clear_reaper") /\ Apart(p)
        BY <2>1, <3>1 DEF Link, Apart
      <4> QED
        BY <4>1, <1>h, FenceMoves
    <3>2. CASE ~Exists("main")
      <4>1. Link(p, "pub_link", "main", want[p], "fence_enter", "end_deadline")
        BY <2>1, <3>2 DEF Link
      <4> QED
        BY <4>1, <1>l, <1>t, LinkMain
    <3> QED
      BY <3>1, <3>2
  <2>2. CASE Move(p, "fence_enter", "op")
    <3>1. /\ pc[p] = "fence_enter" /\ Goto(p, "op") /\ Apart(p) /\ pc[p] \notin Over
          /\ obs' = obs
      BY <2>2, <1>l DEF Move, Apart, disk, locals
    <3>2. Owns(p) /\ obs[p].owner = p
      BY <3>1 DEF Protocol, Owned, Mine, Owning, Entering
    <3>3. rel = "own" =>
            \A q \in Procs : pc[q] \in Judging /\ file["main"].owner = p => obs[q].owner = p
      BY <3>1 DEF Protocol, Spared, Entering
    <3>4. Entitled(rel, p, "op")
      BY <3>1, <3>2, <3>3
         DEF Entitled, HoldsReaper, HoldsFence, Cleared, PastFence, Judging, Returning
    <3> QED
      BY <3>1, <3>4, Moves
  <2>3. CASE Move(p, "fence_enter", "end_main")
    <3>1. pc[p] = "fence_enter" /\ Goto(p, "end_main") /\ Apart(p) /\ obs' = obs
      BY <2>3 DEF Move, Apart, disk, locals
    <3>2. "fence_enter" \in Owning /\ "end_main" \in Releasing
      BY DEF Owning, Entering, Releasing
    <3> QED
      BY <3>1, <3>2, Releases
  <2> QED
    BY <1>7, <1>l, <1>h, <1>1, <1>3, <2>1, <2>2, <2>3 DEF PublishMain, Test
<1> QED
  BY <1>5, <1>6, <1>7

---------------------------------------------------------------------------
(* The end of an operation, failures and the environment.                  *)

\* An operation ends, a recovery gives up or fails, a process starts or is killed.
LEMMA EndingStep ==
  ASSUME Supply, Types, Types', NEW rel, Protocol(rel), rel = "own" => OwnRelease,
         NEW p \in Procs,
         \/ Contained(p) \/ Throw(p) \/ GiveUp(p)
         \/ EndOp(p) \/ Leave(p) \/ FailRestore(p)
         \/ Start(p) \/ StartFence(p) \/ Crash(p)
  PROVE  Protocol(rel)'
<1>l. /\ {"acq", "fence", "rel_reaper", "fence_throw", "gave_up", "contained", "exited",
          "crashed", "end_deadline"} \cap Critical = {}
      /\ {"off", "op", "contained", "fence_judge", "cr_judge", "fence_look", "pub_link",
          "fence_throw", "gave_up"} \cap Over = {}
      /\ "op" \in Owning /\ "end_main" \in Releasing
  BY DEF Critical, HoldsReaper, HoldsFence, Cleared, Entering, Owning, Releasing,
         Returning, Over
<1>m. marker.timer \in Timers \cup {NoTimer}
  BY NoneTypes DEF Types, TypeOK
<1>1. CASE Contained(p)
  <2>1. ret[p] \notin Critical
    BY <1>l DEF Types, Returns
  <2>2. \A f \in Paths \ {"containment"} : file'[f] = file[f]
    BY <1>1 DEF Contained, Remove, Types, TypeOK
  <2> QED
    BY <1>1, <1>l, <2>1, <2>2, Withdrawal DEF Contained, Withdraws, Apart, locals
<1>2. CASE Throw(p)
  BY <1>2, <1>l, Withdrawal DEF Throw, Withdraws, Apart, disk, locals
<1>3. CASE GiveUp(p)
  <2>1. \A f \in Paths \ {"containment"} : file'[f] = file[f]
    BY <1>3, <1>m, PublishTypes DEF GiveUp, Paths
  <2> QED
    BY <1>3, <1>l, <2>1, Withdrawal DEF GiveUp, Withdraws, Apart
<1>4. CASE EndOp(p)
  <2>1. pc[p] = "op" /\ Goto(p, "end_main") /\ Apart(p) /\ obs' = obs
    BY <1>4 DEF EndOp, Apart, locals
  <2> QED
    BY <1>l, <2>1, Releases
<1>5. CASE Leave(p)
  <2>1. CASE Release(p, "end_deadline", "deadline", "exited")
    BY <2>1, ReleaseFence
  <2> DEFINE to == IF want[p] = NoTimer THEN "exited" ELSE "end_deadline"
  <2>2. CASE ReleaseMain(p, <<"end_main", "end_rename", "end_verify", "end_restore">>, to)
    <3>1. to \notin Critical
      BY <1>l
    <3> HIDE DEF to
    <3> QED
      BY <2>2, <3>1, ReleaseMainStep
  <2> QED
    BY <1>5, <2>1, <2>2 DEF Leave
<1>6. CASE FailRestore(p)
  <2>1. \A f \in Paths \ {"containment"} : file'[f] = file[f]
    BY <1>6, <1>m, PublishTypes DEF FailRestore, Paths
  <2>2. /\ pc[p] = "op" /\ Apart(p) /\ obs' = obs
        /\ Goto(p, "end_main") \/ Goto(p, "exited")
    BY <1>6, <2>1 DEF FailRestore, Apart, locals
  <2> QED
    BY <1>l, <2>2, Releases, Withdrawal DEF Withdraws
<1>7. CASE Start(p) \/ StartFence(p)
  BY <1>7, <1>l, Withdrawal DEF Start, StartFence, Withdraws, Apart, disk, locals
<1>8. CASE Crash(p)
  BY <1>8, <1>l, Withdrawal DEF Crash, Withdraws, Apart, disk, locals
<1> QED
  BY <1>1, <1>2, <1>3, <1>4, <1>5, <1>6, <1>7, <1>8

\* Steps of which the protocol notices nothing, and the operator, who waits until
\* no process is left.
LEMMA OutsideStep ==
  ASSUME Types, NEW rel, Protocol(rel),
         \/ \E p \in Procs : OpenWindow(p) \/ CloseWindow(p) \/ BecomeLate(p)
         \/ Expire \/ Operator
         \/ UNCHANGED vars
  PROVE  Protocol(rel)'
<1> USE DEF Protocol, ReaperHeld, FenceHeld, FenceOrReaper, Observed, Judged, Mine, Upright,
            Spared, Owned, Owns
<1>1. CASE Operator
  <2>1. pc' = pc /\ \A p \in Procs : pc[p] \in Over \cup {"off"}
    BY <1>1 DEF Operator
  <2>2. \A p \in Procs : pc[p] \notin Critical
    BY <2>1 DEF Over, Critical, HoldsReaper, HoldsFence, Cleared, Entering, Owning,
                Releasing, Returning
  <2> QED
    BY <2>1, <2>2 DEF Critical, HoldsReaper, HoldsFence, Cleared, Judging, Owning
<1>2. CASE UNCHANGED <<file, aside, pc, obs, quar>>
  BY <1>2
<1> QED
  BY <1>1, <1>2 DEF OpenWindow, CloseWindow, BecomeLate, Expire, vars, disk, locals

---------------------------------------------------------------------------
(* The theorems.                                                           *)

\* At the start nobody holds anything.
LEMMA ProtocolInit == ASSUME Init, NEW rel PROVE Protocol(rel)
<1>1. \A p \in Procs : pc[p] \notin Critical
  BY DEF Init, Critical, HoldsReaper, HoldsFence, Cleared, Entering, Owning, Releasing,
         Returning
<1> QED
  BY <1>1 DEF Protocol, ReaperHeld, FenceHeld, FenceOrReaper, Observed, Judged, Mine, Upright,
              Spared, Owned, Critical, HoldsReaper, HoldsFence, Judging, Owning

\* Every step keeps the protocol.
LEMMA ProtocolStep ==
  ASSUME Supply, Types, Types', NEW rel, Protocol(rel), rel = "own" => OwnRelease, [Next]_vars
  PROVE  Protocol(rel)'
<1>1. ASSUME NEW p \in Procs, Attempt(p) \/ Gates(p) \/ LookAtOwner(p)
      PROVE  Protocol(rel)'
  BY <1>1, WaitingStep, Withdrawal
<1>2. ASSUME NEW p \in Procs, Step(p) \/ GiveUp(p) \/ FailRestore(p)
      PROVE  Protocol(rel)'
  BY <1>1, <1>2, EnterStep, ReaperStep, ClaimStep, VerifyStep, RestoreStep, FenceStep,
     EndingStep DEF Step
<1>3. ASSUME NEW p \in Procs, Start(p) \/ StartFence(p) \/ Crash(p)
      PROVE  Protocol(rel)'
  BY <1>3, EndingStep
<1> QED
  BY <1>2, <1>3, OutsideStep DEF Next

\* LockInv is an invariant, as long as tokens do not run out.
THEOREM LockInvCorrect == ASSUME Supply PROVE Spec => []LockInv
<1>1. Init => LockInv
  BY TypesInit, ProtocolInit DEF LockInv
<1>2. LockInv /\ [Next]_vars => LockInv'
  BY TypesStep, ProtocolStep DEF LockInv
<1> QED
  BY <1>1, <1>2, PTL DEF Spec

\* Every variable keeps its type, whatever crashes, times out or gives up.
THEOREM TypeCorrect == ASSUME Supply PROVE Spec => []TypeOK
<1>1. LockInv => TypeOK
  BY DEF LockInv, Types
<1> QED
  BY <1>1, LockInvCorrect, PTL

\* No record of a running operation is ever deleted: it is at the main path or
\* where a reclaim has put it (reclaimStaleMcpLifecycleLockGeneration).
THEOREM HolderOwnsMainCorrect == ASSUME Supply PROVE Spec => []HolderOwnsMain
<1>1. LockInv => HolderOwnsMain
  BY DEF LockInv, Protocol, Owned, Owns, Owning, Entering, HolderOwnsMain
<1> QED
  BY <1>1, LockInvCorrect, PTL

\* SparingInv is an invariant of the runs in which OwnRelease holds.
LEMMA SparingInvCorrect == ASSUME Supply PROVE Spec /\ []OwnRelease => []SparingInv
<1>1. Init => SparingInv
  BY TypesInit, ProtocolInit DEF SparingInv
<1>2. SparingInv /\ OwnRelease /\ [Next]_vars => SparingInv'
  BY TypesStep, ProtocolStep DEF SparingInv
<1> QED
  BY <1>1, <1>2, PTL DEF Spec

\* As long as every release (safelyReleaseMcpLifecycleLock) finds its own record in
\* its hands, the gates of acquireMcpLifecycleLock and withMcpLifecycleDeadlineFence
\* keep tryReapStaleMainLock from renaming the record of an operation that runs.
THEOREM ReaperSparesHolderCorrect ==
  ASSUME Supply PROVE Spec /\ []OwnRelease => []ReaperSparesHolder
<1>1. SparingInv => ReaperSparesHolder
  <2> SUFFICES ASSUME SparingInv, NEW p \in Procs, NEW q \in Procs,
                      pc[p] = "op", pc[q] = "claim", file["main"].owner = p
               PROVE  FALSE
    BY DEF ReaperSparesHolder
  <2>1. obs[q].owner = p
    BY DEF SparingInv, Protocol, Spared, Entering, Judging
  <2> QED
    BY <2>1 DEF SparingInv, Protocol, Judged, Over
<1> QED
  BY <1>1, SparingInvCorrect, PTL

\* withMcpLifecycleLock serializes the operations as long as no reclaim has left
\* another's record aside.
THEOREM SerializedUnlessAside == ASSUME Supply PROVE Spec => [](aside = {} => Serialized)
<1>1. HolderOwnsMain => (aside = {} => Serialized)
  BY DEF HolderOwnsMain, Serialized
<1> QED
  BY <1>1, HolderOwnsMainCorrect, PTL

---------------------------------------------------------------------------
(* Failing closed.  Two things can undo it, and both are hypotheses here:  *)
(* a reclaim or a release that sets aside the record of a process that may *)
(* yet enter (the run mcp_lock_displaced), and a failing restore that      *)
(* releases its record while the publisher of containment may still take   *)
(* that back.                                                              *)

Undisplaced == OwnRelease /\ \A g \in aside : pc[g.owner] \notin Owning
Relies ==
  \E p, q \in Procs : FailRestore(p) /\ Goto(p, "end_main") /\ pc[q] = "contained"

PastContainment == {"post_deadline", "post_reaper", "post_expired", "post_token"}
PostLink == {"post_containment"} \cup PastContainment

\* The labels of a command and of a recovery before their operations.
Commands ==
  {"off", "acq", "acq_deadline", "judge_deadline", "acq_reaper", "judge_reaper",
   "acq_expired", "pre_deadline", "pre_reaper", "pre_expired", "pre_token", "link", "drop",
   "drop_rename", "drop_verify", "drop_restore", "look", "judge_main",
   "reap", "reap_deadline", "reap_token", "reap_link", "rel_reaper"}
    \cup PostLink \cup HoldsReaper
Fencing ==
  {"fence", "fence_containment", "fence_link", "fence_look", "fence_judge", "fence_enter",
   "fence_throw", "gave_up"} \cup HoldsFence

\* Nothing takes back a containment record that is settled; and no reaper frees
\* the main record of a dead process that a window covers.
Settled == Exists("containment") /\ pc[file["containment"].owner] # "contained"
DeadCovered == Stale(file["main"]) /\ Covered

\* A condemned sandbox is protected by one of the two, and no command has got past
\* its look at containment.
Condemned ==
  unsafe =>
    /\ Settled \/ DeadCovered
    /\ \A p \in Procs : pc[p] \notin PastContainment /\ (pc[p] = "op" => want[p] # NoTimer)

\* While only the dead record protects it, a reaper judges that very record.
ReadsIt ==
  unsafe /\ ~Settled => \A q \in Procs : pc[q] \in Judging => obs[q] = file["main"]
SparedIt ==
  \A p, q \in Procs : pc[p] \in Entering /\ pc[q] \in Judging => obs[q] = file["main"]
Claims ==
  \A q \in Procs : pc[q] = "claim" => obs[q].bound = NoTimer /\ marker.timer = NoTimer

ContainedOwns == \A p \in Procs : pc[p] = "contained" => file["containment"].owner = p

\* A record is bound to the window that its owner saw or restores.
Bounds ==
  \A p \in Procs :
    /\ pc[p] \in Commands => want[p] = NoTimer
    /\ pc[p] \in Fencing => want[p] # NoTimer
    /\ pc[p] = "contained" => (want[p] = NoTimer <=> ret[p] \in {"acq", "rel_reaper"})
    /\ pc[p] \in PostLink => file["main"].bound = tok[p]
    /\ pc[p] = "fence_enter" => file["main"].bound = want[p]

\* A recovery's window has passed its deadline, and is never opened again.
Windows ==
  /\ marker.timer = NoTimer => marker = NoMarker
  /\ marker.timer # NoTimer => marker.timer \in opened
  /\ \A p \in Procs :
       want[p] # NoTimer => want[p] \in opened /\ (marker.timer = want[p] => marker.expired)

FailInv ==
  Condemned /\ ReadsIt /\ SparedIt /\ Claims /\ ContainedOwns /\ Bounds /\ Windows

\* Undisplaced, an owner's record is at the main path; so there is one owner.
OwnsMain == \A p \in Procs : pc[p] \in Owning => file["main"].owner = p

\* What the proofs below assume of the state before a step.
Ready == Types /\ Protocol("own") /\ OwnsMain /\ FailInv

\* Whoever publishes a main record finds none, so nobody else owns one.
LEMMA NoMainNoOwner ==
  ASSUME OwnsMain, ~Exists("main")
  PROVE  \A p \in Procs : pc[p] \notin Owning
BY NoneTypes, NamesAssumption DEF OwnsMain, Exists

\* An owner of the main record is alone, and the record is not that of the dead.
LEMMA Alone ==
  ASSUME Ready, NEW p \in Procs, pc[p] \in Owning
  PROVE  /\ \A q \in Procs : pc[q] \in Owning => q = p
         /\ file["main"].owner = p /\ Exists("main")
         /\ ~DeadCovered
<1>1. file["main"].owner = p
  BY DEF Ready, OwnsMain
<1>2. Exists("main")
  BY <1>1, NoneTypes, NamesAssumption DEF Exists
<1>3. pc[p] \notin Over
  BY DEF Owning, Entering, Over
<1> QED
  BY <1>1, <1>2, <1>3 DEF Ready, OwnsMain, DeadCovered, Stale

\* An entering process has no reaper about to reclaim.
LEMMA NoClaim ==
  ASSUME Ready, NEW p \in Procs, pc[p] \in Entering
  PROVE  \A q \in Procs : pc[q] \notin {"reap_recheck", "claim"}
<1>1. file["main"].owner = p /\ pc[p] \notin Over
  BY Alone DEF Entering, Owning, Over
<1> SUFFICES ASSUME NEW q \in Procs, pc[q] \in {"reap_recheck", "claim"} PROVE FALSE
  OBVIOUS
<1>2. obs[q] = file["main"]
  BY DEF Ready, FailInv, SparedIt, Judging
<1> QED
  BY <1>1, <1>2 DEF Ready, Protocol, Judged

---------------------------------------------------------------------------
(* Steps that leave the main record, containment and the marker alone.     *)

\* Where such a step may lead.
MayGo(p, to) ==
  /\ to # "contained" /\ to # "fence_enter"
  /\ to \in Commands => pc[p] \in Commands
  /\ to \in Fencing => pc[p] \in Fencing
  /\ to \in Judging => obs'[p] = file["main"] \/ (pc[p] \in Judging /\ obs'[p] = obs[p])
  /\ to = "claim" => obs'[p].bound = NoTimer /\ marker.timer = NoTimer
  /\ to \in PostLink => pc[p] \in PostLink /\ tok'[p] = tok[p]
  /\ to \in PastContainment => pc[p] \in PastContainment \/ ~Exists("containment")
  /\ to \in Entering => pc[p] \in Entering \/ ~Exists("reaper")
  /\ to = "op" => \/ pc[p] = "post_token" /\ marker.timer = tok[p]
                  \/ pc[p] = "fence_enter" /\ Authority(p)

KeepsRest(p) ==
  /\ file'["main"] = file["main"]
  /\ UNCHANGED <<marker, opened, unsafe, want>>
  /\ \A q \in Procs \ {p} : obs'[q] = obs[q] /\ tok'[q] = tok[q] /\ ret'[q] = ret[q]

Travels(p) ==
  /\ pc[p] \notin Over \cup {"op", "contained"}
  /\ file'["containment"] = file["containment"]
  /\ KeepsRest(p)
  /\ \E to : Goto(p, to) /\ MayGo(p, to)

\* Such a step keeps the invariant.
LEMMA TravelStep ==
  ASSUME Ready, NEW p \in Procs, Travels(p)
  PROVE  FailInv'
<1>a. PICK to : Goto(p, to) /\ MayGo(p, to)
  BY DEF Travels
<1>p. pc'[p] = to /\ \A q \in Procs \ {p} : pc'[q] = pc[q]
  BY <1>a DEF Goto, Ready, Types, TypeOK
<1>f. /\ file'["main"] = file["main"] /\ file'["containment"] = file["containment"]
      /\ marker' = marker /\ opened' = opened /\ unsafe' = unsafe /\ want' = want
      /\ \A q \in Procs \ {p} : obs'[q] = obs[q] /\ tok'[q] = tok[q] /\ ret'[q] = ret[q]
  BY DEF Travels, KeepsRest
<1>n. pc[p] \notin Over /\ pc[p] # "op" /\ pc[p] # "contained" /\ to # "contained"
  BY <1>a DEF Travels, MayGo
<1>o. to \in PostLink => pc[p] \in Owning
  BY <1>a DEF MayGo, PostLink, PastContainment, Owning, Entering
<1>1. (Settled <=> Settled') /\ (DeadCovered => DeadCovered')
  <2>1. Exists("containment")' = Exists("containment")
    BY <1>f DEF Exists
  <2>2. ASSUME Exists("containment")
        PROVE  file["containment"].owner \in Procs
    BY <2>2, NoneTypes DEF Exists, Ready, Types, TypeOK, Paths
  <2>3. ASSUME file["main"] # NoGen
        PROVE  file["main"].owner \in Procs
    BY <2>3, NoneTypes DEF Ready, Types, TypeOK, Paths
  <2>4. Settled <=> Settled'
    BY <1>p, <1>f, <1>n, <2>1, <2>2 DEF Settled
  <2>5. DeadCovered => DeadCovered'
    BY <1>p, <1>f, <1>n, <2>3 DEF DeadCovered, Stale, Covered
  <2> QED
    BY <2>4, <2>5
<1>2. Condemned'
  <2> SUFFICES ASSUME unsafe' PROVE (Settled \/ DeadCovered)' /\
          \A q \in Procs : pc'[q] \notin PastContainment /\ (pc'[q] = "op" => want'[q] # NoTimer)
    BY DEF Condemned
  <2>1. /\ Settled \/ DeadCovered
        /\ \A q \in Procs : pc[q] \notin PastContainment /\ (pc[q] = "op" => want[q] # NoTimer)
    BY <1>f DEF Ready, FailInv, Condemned
  <2>2. to \notin PastContainment
    <3> SUFFICES ASSUME to \in PastContainment PROVE FALSE
      OBVIOUS
    <3>1. to \in PostLink
      BY DEF PostLink
    <3>2. ~Exists("containment")
      BY <2>1, <1>a DEF MayGo
    <3> QED
      BY <3>1, <3>2, <2>1, <1>o, Alone DEF Settled
  <2>3. to = "op" => want[p] # NoTimer
    <3>1. pc[p] = "post_token" => FALSE
      BY <2>1 DEF PastContainment
    <3>2. pc[p] = "fence_enter" => want[p] # NoTimer
      BY DEF Ready, FailInv, Bounds, Fencing
    <3> QED
      BY <3>1, <3>2, <1>a DEF MayGo
  <2> QED
    BY <1>1, <1>p, <1>f, <2>1, <2>2, <2>3
<1>3. ReadsIt'
  <2> SUFFICES ASSUME unsafe', ~Settled', NEW q \in Procs, pc'[q] \in Judging
               PROVE  obs'[q] = file'["main"]
    BY DEF ReadsIt
  <2>1. \A r \in Procs : pc[r] \in Judging => obs[r] = file["main"]
    BY <1>f, <1>1 DEF Ready, FailInv, ReadsIt
  <2> QED
    BY <2>1, <1>a, <1>p, <1>f DEF MayGo
<1>4. SparedIt'
  <2> SUFFICES ASSUME NEW r \in Procs, NEW q \in Procs, pc'[r] \in Entering, pc'[q] \in Judging
               PROVE  obs'[q] = file'["main"]
    BY DEF SparedIt
  <2>0. to \in Judging => to \notin Entering
    BY DEF Judging, Entering
  <2>1. CASE r = p /\ pc[p] \notin Entering
    <3>1. \A s \in Procs : pc[s] \notin HoldsReaper
      BY <2>1, <1>a, <1>p, BehindGate DEF MayGo, Ready
    <3> QED
      BY <2>1, <2>0, <3>1, <1>p DEF HoldsReaper, Judging
  <2>2. CASE r # p \/ pc[p] \in Entering
    <3>1. pc[r] \in Entering
      BY <2>2, <1>p
    <3>2. \A s \in Procs : pc[s] \in Judging => obs[s] = file["main"]
      BY <3>1 DEF Ready, FailInv, SparedIt
    <3> QED
      BY <3>2, <1>a, <1>p, <1>f DEF MayGo
  <2> QED
    BY <2>1, <2>2
<1>5. Claims'
  BY <1>a, <1>p, <1>f DEF Ready, FailInv, Claims, MayGo
<1>6. ContainedOwns'
  BY <1>n, <1>p, <1>f DEF Ready, FailInv, ContainedOwns
<1>7. Bounds'
  <2>1. \A q \in Procs :
          /\ pc'[q] \in Commands => want[q] = NoTimer
          /\ pc'[q] \in Fencing => want[q] # NoTimer
    BY <1>a, <1>p DEF MayGo, Ready, FailInv, Bounds
  <2>2. \A q \in Procs :
          /\ pc'[q] \in PostLink => file["main"].bound = tok'[q]
          /\ pc'[q] = "fence_enter" => file["main"].bound = want[q]
    BY <1>a, <1>p, <1>f DEF MayGo, Ready, FailInv, Bounds
  <2>3. \A q \in Procs :
          pc'[q] = "contained" => (want[q] = NoTimer <=> ret'[q] \in {"acq", "rel_reaper"})
    BY <1>n, <1>p, <1>f DEF Ready, FailInv, Bounds
  <2> QED
    BY <2>1, <2>2, <2>3, <1>f DEF Bounds
<1>8. Windows'
  BY <1>f DEF Ready, FailInv, Windows
<1> QED
  BY <1>2, <1>3, <1>4, <1>5, <1>6, <1>7, <1>8 DEF FailInv

---------------------------------------------------------------------------
(* Containment is published, and perhaps taken back.                       *)

\* What publishing it does.
Publishes(p) ==
  /\ pc[p] \notin Over \cup {"op", "contained"}
  /\ ~Exists("containment") /\ file'["containment"].owner = p
  /\ KeepsRest(p) /\ obs'[p] = obs[p]
  /\ Goto(p, "contained")
  /\ want[p] = NoTimer <=> ret'[p] \in {"acq", "rel_reaper"}

\* A record that its publisher may take back protects nothing yet.
LEMMA PublishStep ==
  ASSUME Ready, Types', NEW p \in Procs, Publishes(p)
  PROVE  FailInv'
<1>p. /\ pc'[p] = "contained" /\ \A q \in Procs \ {p} : pc'[q] = pc[q]
      /\ pc[p] \notin Over
  BY DEF Publishes, Goto, Ready, Types, TypeOK
<1>f. /\ file'["main"] = file["main"] /\ file'["containment"].owner = p
      /\ marker' = marker /\ opened' = opened /\ unsafe' = unsafe /\ want' = want
      /\ \A q \in Procs \ {p} : tok'[q] = tok[q] /\ ret'[q] = ret[q]
      /\ \A q \in Procs : obs'[q] = obs[q]
  BY DEF Publishes, KeepsRest
<1>l. "contained" \notin PastContainment \cup Entering \cup Judging \cup Commands \cup Fencing
                           \cup PostLink \cup {"op", "claim"}
  BY DEF PastContainment, PostLink, Entering, Judging, Commands, Fencing, HoldsReaper,
         HoldsFence, Cleared
<1>1. ~Settled /\ (DeadCovered => DeadCovered')
  <2>1. ASSUME file["main"] # NoGen
        PROVE  file["main"].owner \in Procs
    BY <2>1, NoneTypes DEF Ready, Types, TypeOK, Paths
  <2> QED
    BY <1>p, <1>f, <2>1 DEF Publishes, Settled, DeadCovered, Stale, Covered
<1>2. Condemned'
  <2>1. unsafe => DeadCovered'
    BY <1>1 DEF Ready, FailInv, Condemned
  <2>2. unsafe => \A q \in Procs :
          pc'[q] \notin PastContainment /\ (pc'[q] = "op" => want[q] # NoTimer)
    BY <1>l, <1>p DEF Ready, FailInv, Condemned
  <2> QED
    BY <2>1, <2>2, <1>f DEF Condemned
<1>3. ReadsIt' /\ SparedIt' /\ Claims'
  BY <1>l, <1>p, <1>f, <1>1 DEF Ready, FailInv, ReadsIt, SparedIt, Claims
<1>4. ContainedOwns'
  <2>1. \A q \in Procs : pc[q] # "contained"
    BY NoneTypes, NamesAssumption DEF Publishes, Exists, Ready, FailInv, ContainedOwns
  <2> QED
    BY <2>1, <1>p, <1>f DEF ContainedOwns
<1>5. Bounds'
  <2>1. \A q \in Procs \ {p} :
          /\ pc'[q] \in Commands => want[q] = NoTimer
          /\ pc'[q] \in Fencing => want[q] # NoTimer
          /\ pc'[q] = "contained" => (want[q] = NoTimer <=> ret'[q] \in {"acq", "rel_reaper"})
          /\ pc'[q] \in PostLink => file["main"].bound = tok'[q]
          /\ pc'[q] = "fence_enter" => file["main"].bound = want[q]
    BY <1>p, <1>f DEF Ready, FailInv, Bounds
  <2>2. "contained" # "fence_enter" /\ (want[p] = NoTimer <=> ret'[p] \in {"acq", "rel_reaper"})
    BY DEF Publishes
  <2> QED
    BY <1>l, <1>p, <1>f, <2>1, <2>2 DEF Bounds
<1>6. Windows'
  BY <1>f DEF Ready, FailInv, Windows
<1> QED
  BY <1>2, <1>3, <1>4, <1>5, <1>6 DEF FailInv

\* Past it, the record is settled or gone.
LEMMA ContainedLeaves ==
  ASSUME Ready, NEW p \in Procs, pc[p] = "contained",
         NEW to, Goto(p, to), to = ret[p] \/ to = "crashed",
         file'["main"] = file["main"],
         file'["containment"] \in {file["containment"], NoGen},
         UNCHANGED <<marker, opened, unsafe, locals>>
  PROVE  FailInv'
<1>p. pc[p] = "contained" /\ pc'[p] = to /\ \A q \in Procs \ {p} : pc'[q] = pc[q]
  BY DEF Goto, Ready, Types, TypeOK
<1>f. /\ marker' = marker /\ opened' = opened /\ unsafe' = unsafe /\ want' = want
      /\ obs' = obs /\ tok' = tok /\ ret' = ret
  BY DEF locals
<1>r. to \in {"acq", "rel_reaper", "fence", "fence_throw", "gave_up", "crashed"}
  BY DEF Ready, Types, Returns
<1>l. /\ to \notin PastContainment \cup Entering \cup Judging \cup PostLink
                     \cup {"op", "claim", "contained", "fence_enter"}
      /\ to \in Commands => to \in {"acq", "rel_reaper"}
      /\ to \in Fencing => to \notin {"acq", "rel_reaper", "crashed"}
  BY <1>r DEF PastContainment, PostLink, Entering, Judging, Commands, Fencing, HoldsReaper,
              HoldsFence, Cleared
<1>c. file["containment"].owner = p
  BY <1>p DEF Ready, FailInv, ContainedOwns
<1>1. ~Settled /\ (DeadCovered => DeadCovered')
  <2>1. ASSUME file["main"] # NoGen
        PROVE  file["main"].owner \in Procs
    BY <2>1, NoneTypes DEF Ready, Types, TypeOK, Paths
  <2>2. "contained" \notin Over
    BY DEF Over
  <2> QED
    BY <1>p, <1>f, <1>c, <2>1, <2>2 DEF Settled, DeadCovered, Stale, Covered
<1>2. Condemned'
  <2>1. unsafe => DeadCovered'
    BY <1>1 DEF Ready, FailInv, Condemned
  <2>2. unsafe => \A q \in Procs :
          pc'[q] \notin PastContainment /\ (pc'[q] = "op" => want[q] # NoTimer)
    BY <1>l, <1>p DEF Ready, FailInv, Condemned
  <2> QED
    BY <2>1, <2>2, <1>f DEF Condemned
<1>3. ReadsIt' /\ SparedIt' /\ Claims'
  BY <1>l, <1>p, <1>f, <1>1 DEF Ready, FailInv, ReadsIt, SparedIt, Claims
<1>4. ContainedOwns'
  BY <1>l, <1>p, <1>c DEF Ready, FailInv, ContainedOwns
<1>5. Bounds'
  <2>1. \A q \in Procs \ {p} :
          /\ pc'[q] \in Commands => want[q] = NoTimer
          /\ pc'[q] \in Fencing => want[q] # NoTimer
          /\ pc'[q] = "contained" => (want[q] = NoTimer <=> ret[q] \in {"acq", "rel_reaper"})
          /\ pc'[q] \in PostLink => file["main"].bound = tok[q]
          /\ pc'[q] = "fence_enter" => file["main"].bound = want[q]
    BY <1>p DEF Ready, FailInv, Bounds
  <2>2. to # "crashed" => (want[p] = NoTimer <=> to \in {"acq", "rel_reaper"})
    BY <1>p DEF Ready, FailInv, Bounds
  <2> QED
    BY <1>l, <1>p, <1>f, <2>1, <2>2 DEF Bounds
<1>6. Windows'
  BY <1>f DEF Ready, FailInv, Windows
<1> QED
  BY <1>2, <1>3, <1>4, <1>5, <1>6 DEF FailInv

---------------------------------------------------------------------------
(* Steps that change the main record.                                      *)

\* What such a step may do: another owner finds its record where it was, and so
\* does a condemned sandbox that nothing else protects.
Rewrites(p) ==
  /\ pc[p] \notin Over \cup {"op", "contained"}
  /\ \E to :
       /\ Goto(p, to)
       /\ to \notin {"op", "contained"} \cup Judging \cup PastContainment
       /\ to \in Commands => pc[p] \in Commands
       /\ to \in Fencing => pc[p] \in Fencing
       /\ to \in Entering => \A q \in Procs : pc[q] \notin Judging
       /\ to \in PostLink => file'["main"].bound = tok[p]
       /\ to = "fence_enter" => file'["main"].bound = want[p]
  /\ \A q \in Procs \ {p} : pc[q] \in Owning => file'["main"] = file["main"]
  /\ unsafe /\ ~Settled => file'["main"] = file["main"]
  /\ file'["containment"] = file["containment"]
  /\ \A q \in Procs \ {p} : obs'[q] = obs[q]
  /\ UNCHANGED <<marker, opened, unsafe, want, tok, ret>>

\* Such a step keeps the invariant.
LEMMA RewriteStep ==
  ASSUME Ready, NEW p \in Procs, Rewrites(p)
  PROVE  FailInv'
<1>l. PICK to :
        /\ Goto(p, to)
        /\ to \notin {"op", "contained"} \cup Judging \cup PastContainment
        /\ to \in Commands => pc[p] \in Commands
        /\ to \in Fencing => pc[p] \in Fencing
        /\ to \in Entering => \A q \in Procs : pc[q] \notin Judging
        /\ to \in PostLink => file'["main"].bound = tok[p]
        /\ to = "fence_enter" => file'["main"].bound = want[p]
  BY DEF Rewrites
<1>p. pc'[p] = to /\ \A q \in Procs \ {p} : pc'[q] = pc[q]
  BY <1>l DEF Goto, Ready, Types, TypeOK
<1>f. /\ file'["containment"] = file["containment"]
      /\ marker' = marker /\ opened' = opened /\ unsafe' = unsafe /\ want' = want
      /\ tok' = tok /\ ret' = ret /\ \A q \in Procs \ {p} : obs'[q] = obs[q]
      /\ pc[p] \notin Over \cup {"op", "contained"}
      /\ \A q \in Procs \ {p} : pc[q] \in Owning => file'["main"] = file["main"]
      /\ unsafe /\ ~Settled => file'["main"] = file["main"]
  BY DEF Rewrites
<1>o. /\ Entering \subseteq Owning /\ PostLink \subseteq Owning /\ "fence_enter" \in Owning
      /\ "claim" \in Judging
  BY DEF PastContainment, PostLink, Owning, Entering, Judging
<1>1. /\ Settled <=> Settled'
      /\ file'["main"] = file["main"] /\ DeadCovered => DeadCovered'
  <2>1. ASSUME file["main"] # NoGen
        PROVE  file["main"].owner \in Procs
    BY <2>1, NoneTypes DEF Ready, Types, TypeOK, Paths
  <2>2. ASSUME Exists("containment")
        PROVE  file["containment"].owner \in Procs
    BY <2>2, NoneTypes DEF Exists, Ready, Types, TypeOK, Paths
  <2>3. Exists("containment")' = Exists("containment")
    BY <1>f DEF Exists
  <2>4. Settled <=> Settled'
    BY <1>p, <1>f, <1>l, <2>2, <2>3 DEF Settled
  <2>5. file'["main"] = file["main"] /\ DeadCovered => DeadCovered'
    BY <1>p, <1>f, <2>1 DEF DeadCovered, Stale, Covered
  <2> QED
    BY <2>4, <2>5
<1>2. Condemned'
  <2>1. unsafe => Settled' \/ DeadCovered'
    BY <1>f, <1>1 DEF Ready, FailInv, Condemned
  <2>2. unsafe => \A q \in Procs :
          pc'[q] \notin PastContainment /\ (pc'[q] = "op" => want[q] # NoTimer)
    BY <1>l, <1>p DEF Ready, FailInv, Condemned
  <2> QED
    BY <2>1, <2>2, <1>f DEF Condemned
<1>3. ReadsIt'
  BY <1>l, <1>p, <1>f, <1>1 DEF Ready, FailInv, ReadsIt
<1>4. SparedIt'
  BY <1>l, <1>p, <1>f, <1>o DEF Ready, FailInv, SparedIt
<1>5. Claims' /\ ContainedOwns'
  BY <1>l, <1>p, <1>f, <1>o DEF Ready, FailInv, Claims, ContainedOwns
<1>6. Bounds'
  <2>1. \A q \in Procs \ {p} :
          /\ pc'[q] \in Commands => want[q] = NoTimer
          /\ pc'[q] \in Fencing => want[q] # NoTimer
          /\ pc'[q] = "contained" => (want[q] = NoTimer <=> ret[q] \in {"acq", "rel_reaper"})
          /\ pc'[q] \in PostLink => file'["main"].bound = tok[q]
          /\ pc'[q] = "fence_enter" => file'["main"].bound = want[q]
    BY <1>p, <1>f, <1>o DEF Ready, FailInv, Bounds
  <2>2. /\ to \in Commands => want[p] = NoTimer
        /\ to \in Fencing => want[p] # NoTimer
    BY <1>l DEF Ready, FailInv, Bounds
  <2> QED
    BY <1>l, <1>p, <1>f, <2>1, <2>2 DEF Bounds
<1>7. Windows'
  BY <1>f DEF Ready, FailInv, Windows
<1> QED
  BY <1>2, <1>3, <1>4, <1>5, <1>6, <1>7 DEF FailInv

\* A main record is published where there was none.
LEMMA LinkMainRewrites ==
  ASSUME Supply, Ready, NEW p \in Procs,
         NEW from, NEW bound \in Timers \cup {NoTimer}, NEW to, NEW other,
         Link(p, from, "main", bound, to, other), ~Exists("main"),
         \/ from = "link" /\ bound = tok[p] /\ to = "post_containment"
         \/ from = "pub_link" /\ bound = want[p] /\ to = "fence_enter"
  PROVE  Rewrites(p)
<1>f. /\ file'["main"].bound = bound /\ file'["containment"] = file["containment"]
      /\ pc[p] = from /\ Goto(p, to) /\ \A q \in Procs \ {p} : obs'[q] = obs[q]
      /\ UNCHANGED <<marker, opened, unsafe, want, tok, ret>>
  BY DEF Link, Publish, Ready, Types, TypeOK, Paths
<1>l. /\ from \notin Over \cup {"op", "contained"}
      /\ to \notin {"op", "contained"} \cup Judging \cup PastContainment
      /\ to \in Commands => from \in Commands
      /\ to \in Fencing => from \in Fencing
      /\ to \in Entering => from \in Cleared
      /\ to \in PostLink => from = "link"
  BY DEF Over, Judging, PastContainment, PostLink, Commands, Fencing, HoldsReaper, HoldsFence,
         Cleared, Entering
<1>1. \A q \in Procs : pc[q] \notin Owning
  BY NoMainNoOwner DEF Ready
<1>2. unsafe => Settled
  BY DEF Ready, FailInv, Condemned, DeadCovered, Stale, Exists
<1>3. to \in Entering => \A q \in Procs : pc[q] \notin Judging
  BY <1>l DEF Link, Ready, Protocol, FenceOrReaper, Judging, PastFence
<1> QED
  BY <1>f, <1>l, <1>1, <1>2, <1>3 DEF Rewrites

\* A reaper renames no record that protects a condemned sandbox.
LEMMA ClaimRewrites ==
  ASSUME Ready, Undisplaced', NEW p \in Procs, Claim(p)
  PROVE  Rewrites(p)
<1> DEFINE to == IF Exists("main") THEN "claimed" ELSE "rel_reaper"
<1>f. /\ file'["containment"] = file["containment"] /\ pc[p] = "claim" /\ Goto(p, to)
      /\ Exists("main") => file["main"] \in aside'
      /\ ~Exists("main") => file'["main"] = file["main"]
      /\ UNCHANGED <<marker, opened, unsafe, want, obs, tok, ret>>
  BY DEF Claim, RenameAside, Remove, Exists, Ready, Types, TypeOK, Paths
<1>l. /\ "claim" \notin Over \cup {"op", "contained"} \cup Owning
      /\ to \notin {"op", "contained"} \cup Judging \cup PastContainment
      /\ to \notin Fencing \cup Entering \cup PostLink \cup {"fence_enter"}
      /\ "claim" \in Commands /\ "claim" \in Judging
  BY DEF Over, Owning, Judging, PastContainment, PostLink, Commands, Fencing, HoldsReaper,
         HoldsFence, Cleared, Entering
<1> HIDE DEF to
<1>1. \A q \in Procs \ {p} : pc[q] \in Owning => file'["main"] = file["main"]
  <2> SUFFICES ASSUME NEW q \in Procs \ {p}, pc[q] \in Owning, Exists("main") PROVE FALSE
    BY <1>f
  <2>1. file["main"].owner = q
    BY DEF Ready, OwnsMain
  <2>2. pc'[q] = pc[q]
    BY <1>f DEF Goto, Ready, Types, TypeOK
  <2> QED
    BY <2>1, <2>2, <1>f DEF Undisplaced
<1>2. unsafe => Settled
  <2> SUFFICES ASSUME unsafe, ~Settled PROVE FALSE
    OBVIOUS
  <2>1. DeadCovered /\ obs[p] = file["main"]
    BY <1>f, <1>l DEF Ready, FailInv, Condemned, ReadsIt
  <2>2. obs[p].bound = NoTimer /\ marker.timer = NoTimer
    BY <1>f DEF Ready, FailInv, Claims
  <2> QED
    BY <2>1, <2>2 DEF DeadCovered, Covered
<1> QED
  BY <1>f, <1>l, <1>1, <1>2 DEF Rewrites

\* What is put back replaces nothing.
LEMMA RestoreRewrites ==
  ASSUME Ready, NEW p \in Procs, Restore(p)
  PROVE  Rewrites(p)
<1> DEFINE to == "rel_reaper"
<1>f. /\ file'["containment"] = file["containment"] /\ pc[p] = "restore" /\ Goto(p, to)
      /\ Exists("main") => file'["main"] = file["main"]
      /\ UNCHANGED <<marker, opened, unsafe, want, obs, tok, ret>>
  BY DEF Restore, PutBack, locals, Ready, Types, TypeOK, Paths
<1>l. /\ "restore" \notin Over \cup {"op", "contained"}
      /\ to \notin {"op", "contained"} \cup Judging \cup PastContainment
      /\ to \notin Fencing \cup Entering \cup PostLink \cup {"fence_enter"}
      /\ "restore" \in Commands
  BY DEF Over, Judging, PastContainment, PostLink, Commands, Fencing, HoldsReaper,
         HoldsFence, Cleared, Entering
<1> HIDE DEF to
<1>1. \A q \in Procs \ {p} : pc[q] \in Owning => file'["main"] = file["main"]
  BY <1>f, Alone
<1>2. unsafe /\ ~Settled => file'["main"] = file["main"]
  BY <1>f DEF Ready, FailInv, Condemned, DeadCovered, Stale, Exists
<1> QED
  BY <1>f, <1>l, <1>1, <1>2 DEF Rewrites

---------------------------------------------------------------------------
(* The operation, and the environment.                                     *)

\* However an operation ends, what it leaves has to protect a condemned sandbox.
LEMMA OperationEnds ==
  ASSUME Ready, NEW p \in Procs, pc[p] = "op",
         NEW to \in {"end_main", "exited", "crashed"}, Goto(p, to),
         file'["main"] = file["main"],
         UNCHANGED <<opened, locals>>,
         unsafe' => Settled' \/ DeadCovered',
         ContainedOwns', Windows'
  PROVE  FailInv'
<1>p. pc'[p] = to /\ \A q \in Procs \ {p} : pc'[q] = pc[q]
  BY DEF Goto, Ready, Types, TypeOK
<1>f. want' = want /\ obs' = obs /\ tok' = tok /\ ret' = ret
  BY DEF locals
<1>l. /\ to \notin PastContainment \cup Entering \cup Judging \cup Commands \cup Fencing
                     \cup PostLink \cup {"op", "contained", "fence_enter", "claim"}
      /\ PastContainment \subseteq Owning /\ {"op", "fence_enter"} \subseteq Owning
      /\ "op" \in Entering
  BY DEF PastContainment, PostLink, Entering, Owning, Judging, Commands, Fencing, HoldsReaper,
         HoldsFence, Cleared
<1>1. \A q \in Procs \ {p} : pc[q] \notin Owning
  BY <1>l, Alone
<1>2. Condemned'
  BY <1>p, <1>l, <1>1 DEF Condemned
<1>3. \A q \in Procs : pc[q] \in Judging => obs[q] = file["main"]
  BY <1>l DEF Ready, FailInv, SparedIt
<1>4. ReadsIt' /\ SparedIt'
  BY <1>p, <1>f, <1>l, <1>3 DEF ReadsIt, SparedIt
<1>5. Claims'
  BY <1>p, <1>l, NoClaim DEF Claims
<1>6. Bounds'
  BY <1>p, <1>f, <1>l DEF Ready, FailInv, Bounds
<1> QED
  BY <1>2, <1>4, <1>5, <1>6 DEF FailInv

\* Without a change of the record or of containment both keep what they protect.
LEMMA ProtectionStays ==
  ASSUME Ready, NEW p \in Procs, pc[p] \notin Over, NEW to, to # "contained", Goto(p, to),
         file'["main"] = file["main"], file'["containment"] = file["containment"]
  PROVE  /\ Settled => Settled'
         /\ marker' = marker /\ DeadCovered => DeadCovered'
<1>p. pc'[p] = to /\ \A q \in Procs \ {p} : pc'[q] = pc[q]
  BY DEF Goto, Ready, Types, TypeOK
<1>1. ASSUME file["main"] # NoGen
      PROVE  file["main"].owner \in Procs
  BY <1>1, NoneTypes DEF Ready, Types, TypeOK, Paths
<1>2. ASSUME Exists("containment")
      PROVE  file["containment"].owner \in Procs
  BY <1>2, NoneTypes DEF Exists, Ready, Types, TypeOK, Paths
<1>3. Exists("containment")' = Exists("containment")
  BY DEF Exists
<1>4. Settled => Settled'
  BY <1>p, <1>2, <1>3 DEF Settled
<1>5. marker' = marker /\ DeadCovered => DeadCovered'
  BY <1>p, <1>1 DEF DeadCovered, Stale, Covered
<1> QED
  BY <1>4, <1>5

\* An operation comes to its end.
LEMMA EndOpStep ==
  ASSUME Ready, NEW p \in Procs, EndOp(p)
  PROVE  FailInv'
<1>1. /\ pc[p] = "op" /\ Goto(p, "end_main") /\ file' = file
      /\ UNCHANGED <<opened, locals, unsafe>> /\ pc[p] \notin Over
  BY DEF EndOp, Over
<1>2. unsafe => Settled
  BY <1>1, Alone DEF Ready, FailInv, Condemned, Owning, Entering
<1>3. Settled => Settled'
  BY <1>1, ProtectionStays
<1>4. ContainedOwns'
  BY <1>1 DEF Ready, Types, TypeOK, Goto, FailInv, ContainedOwns
<1>5. Windows'
  <2>1. marker' = marker \/ marker' = NoMarker
    BY DEF EndOp
  <2>2. want' = want /\ NoMarker.timer = NoTimer
    BY <1>1 DEF locals, NoMarker
  <2> QED
    BY <1>1, <2>1, <2>2 DEF Ready, FailInv, Windows
<1> QED
  BY <1>1, <1>2, <1>3, <1>4, <1>5, OperationEnds

\* A restore fails for good, and relies on no containment that may be taken back.
LEMMA FailRestoreStep ==
  ASSUME Supply, Ready, Types', NEW p \in Procs, FailRestore(p),
         Goto(p, "end_main") => \A q \in Procs : pc[q] # "contained"
  PROVE  FailInv'
<1>1. PICK to \in {"end_main", "exited"} : Goto(p, to)
  BY DEF FailRestore
<1>2. /\ pc[p] = "op" /\ pc[p] \notin Over /\ marker' = marker
      /\ UNCHANGED <<opened, locals>>
  BY DEF FailRestore, Over
<1>p. pc'[p] = to /\ \A q \in Procs \ {p} : pc'[q] = pc[q]
  BY <1>1 DEF Goto, Ready, Types, TypeOK
<1>m. marker.timer \in Timers \cup {NoTimer}
  BY NoneTypes DEF Ready, Types, TypeOK
<1>f. /\ file'["main"] = file["main"]
      /\ Exists("containment") => file' = file
      /\ file' = file \/ file'["containment"].owner = p
  BY <1>m, PublishTypes DEF FailRestore, Paths, Ready
<1>3. to = "end_main" => \A q \in Procs : pc'[q] # "contained"
  BY <1>1, <1>p
<1>4. to = "end_main" /\ Exists("containment")' => Settled'
  <2>1. Exists("containment")' => file'["containment"].owner \in Procs
    BY NoneTypes DEF Exists, Types, TypeOK, Paths
  <2> QED
    BY <1>3, <2>1 DEF Settled
<1>5. unsafe' => Settled' \/ DeadCovered'
  <2>a. file["main"].owner = p /\ Exists("main") /\ ~DeadCovered
    BY <1>2, Alone DEF Owning, Entering
  <2>1. CASE Exists("containment")' /\ to = "end_main"
    BY <2>1, <1>4
  <2>2. CASE to = "exited"
    <3>1. Expired /\ marker # NoMarker
      BY NoneTypes DEF FailRestore, Expired, NoMarker
    <3>2. marker.timer # NoTimer
      BY <3>1 DEF Ready, FailInv, Windows
    <3> QED
      BY <2>2, <2>a, <3>2, <1>2, <1>p, <1>f DEF DeadCovered, Stale, Covered, Over, Exists
  <2>3. CASE ~Exists("containment")' /\ to = "end_main"
    <3>1. file' = file
      BY <2>3, <1>f, NoneTypes, NamesAssumption DEF Exists
    <3>2. pc'[p] # "exited" /\ ~Exists("containment")
      BY <2>3, <3>1, <1>p DEF Exists
    <3>3. unsafe' = unsafe
      <4>1. ~Publish("containment", p, marker.timer)
        <5> SUFFICES ASSUME Publish("containment", p, marker.timer) PROVE FALSE
          OBVIOUS
        <5>1. file'["containment"].owner = p
          BY <1>m, PublishTypes DEF Paths, Ready
        <5> QED
          BY <5>1, <2>3, NoneTypes, NamesAssumption DEF Exists
      <4>2. ~Goto(p, "exited")
        BY <3>2 DEF Goto, Ready, Types, TypeOK
      <4> QED
        BY <4>1, <4>2, <3>2 DEF FailRestore
    <3>4. unsafe => Settled
      BY <2>a DEF Ready, FailInv, Condemned
    <3> QED
      BY <3>2, <3>3, <3>4 DEF Settled
  <2> QED
    BY <2>1, <2>2, <2>3, <1>1
<1>6. ContainedOwns'
  <2>1. CASE to = "end_main"
    BY <2>1, <1>3 DEF ContainedOwns
  <2>2. CASE to = "exited"
    <3>1. ~Goto(p, "end_main")
      BY <2>2, <1>p DEF Goto, Ready, Types, TypeOK
    <3>2. file' = file
      BY <3>1 DEF FailRestore
    <3> QED
      BY <2>2, <3>2, <1>p DEF Ready, FailInv, ContainedOwns
  <2> QED
    BY <2>1, <2>2, <1>1
<1>7. Windows'
  BY <1>2 DEF Ready, FailInv, Windows, locals
<1> QED
  BY <1>1, <1>2, <1>f, <1>5, <1>6, <1>7, OperationEnds

\* An operation that a window covers leaves a record that no reaper frees.
LEMMA CrashStep ==
  ASSUME Ready, NEW p \in Procs, Crash(p)
  PROVE  FailInv'
<1>1. /\ Goto(p, "crashed") /\ file' = file /\ marker' = marker /\ opened' = opened
      /\ UNCHANGED locals /\ pc[p] \notin Over
      /\ unsafe' = (unsafe \/ (pc[p] = "op" /\ Covered))
  BY DEF Crash, disk
<1>2. CASE pc[p] = "op"
  <2>1. file["main"].owner = p /\ Exists("main") /\ ~DeadCovered
    BY <1>2, Alone DEF Owning, Entering
  <2>2. unsafe => Settled'
    BY <2>1, <1>1, ProtectionStays DEF Ready, FailInv, Condemned
  <2>3. Covered => DeadCovered'
    <3>1. pc'[p] = "crashed"
      BY <1>1 DEF Goto, Ready, Types, TypeOK
    <3> QED
      BY <1>1, <2>1, <3>1 DEF DeadCovered, Stale, Covered, Over, Exists
  <2>4. ContainedOwns' /\ Windows'
    BY <1>1 DEF Ready, Types, TypeOK, Goto, FailInv, ContainedOwns, Windows, locals
  <2> QED
    BY <1>1, <1>2, <2>2, <2>3, <2>4, OperationEnds
<1>u. pc[p] # "op" => unsafe' = unsafe
  <2>1. unsafe \in {TRUE, FALSE}
    BY DEF Ready, Types, TypeOK
  <2>2. CASE unsafe = TRUE
    BY <1>1, <2>2, Zenon
  <2>3. CASE unsafe = FALSE
    BY <1>1, <2>3, Zenon
  <2> QED
    BY <2>1, <2>2, <2>3, Zenon
<1>3. CASE pc[p] = "contained"
  BY <1>1, <1>3, <1>u, ContainedLeaves
<1>4. CASE pc[p] \notin {"op", "contained"}
  <2>1. "crashed" \notin Commands \cup Fencing \cup Judging \cup PostLink \cup Entering
                           \cup {"op", "contained", "fence_enter", "claim"} \cup PastContainment
    BY DEF Commands, Fencing, Judging, PastContainment, PostLink, Entering, HoldsReaper,
           HoldsFence, Cleared
  <2>2. Travels(p)
    BY <1>1, <1>4, <1>u, <2>1 DEF Travels, MayGo, KeepsRest, locals
  <2> QED
    BY <2>2, TravelStep
<1> QED
  BY <1>2, <1>3, <1>4

\* A command opens or closes a window while nobody is about to reclaim.
LEMMA WindowStep ==
  ASSUME Ready, NEW p \in Procs, OpenWindow(p) \/ CloseWindow(p)
  PROVE  FailInv'
<1>1. /\ pc[p] = "op" /\ pc' = pc /\ file' = file /\ unsafe' = unsafe
      /\ want' = want /\ obs' = obs /\ tok' = tok /\ ret' = ret
  BY DEF OpenWindow, CloseWindow, locals
<1>2. pc[p] \in Entering /\ pc[p] \in Owning
  BY <1>1 DEF Entering, Owning
<1>3. unsafe => Settled
  BY <1>2, Alone DEF Ready, FailInv, Condemned
<1>4. Settled' = Settled
  BY <1>1 DEF Settled, Exists
<1>5. Condemned' /\ ReadsIt'
  BY <1>1, <1>3, <1>4 DEF Ready, FailInv, Condemned, ReadsIt
<1>6. SparedIt' /\ ContainedOwns' /\ Bounds'
  BY <1>1 DEF Ready, FailInv, SparedIt, ContainedOwns, Bounds
<1>7. Claims'
  BY <1>1, <1>2, NoClaim DEF Claims
<1>8. Windows'
  <2>1. CASE OpenWindow(p)
    <3>1. PICK t \in Timers \ opened :
            marker' = [timer |-> t, expired |-> FALSE] /\ opened' = opened \cup {t}
      BY <2>1 DEF OpenWindow
    <3> QED
      BY <3>1, <1>1, NamesAssumption DEF Ready, FailInv, Windows
  <2>2. CASE CloseWindow(p)
    BY <2>2, <1>1 DEF CloseWindow, Ready, FailInv, Windows, NoMarker
  <2> QED
    BY <2>1, <2>2
<1> QED
  BY <1>5, <1>6, <1>7, <1>8 DEF FailInv

\* A recovery starts for a window past its deadline.
LEMMA StartFenceStep ==
  ASSUME Ready, NEW p \in Procs, StartFence(p)
  PROVE  FailInv'
<1>1. /\ pc[p] = "off" /\ pc[p] \notin Over /\ Goto(p, "fence") /\ Expired
      /\ file' = file /\ marker' = marker /\ opened' = opened /\ unsafe' = unsafe
      /\ obs' = obs /\ tok' = tok /\ ret' = ret
  BY DEF StartFence, disk, Over
<1>p. /\ pc'[p] = "fence" /\ \A q \in Procs \ {p} : pc'[q] = pc[q]
      /\ want'[p] = marker.timer /\ \A q \in Procs \ {p} : want'[q] = want[q]
  BY DEF StartFence, Goto, Ready, Types, TypeOK
<1>l. "fence" \notin PastContainment \cup Entering \cup Judging \cup Commands \cup PostLink
                       \cup {"op", "contained", "fence_enter", "claim"}
  BY DEF PastContainment, PostLink, Entering, Judging, Commands, HoldsReaper
<1>2. marker.timer # NoTimer
  BY <1>1 DEF Expired, Ready, FailInv, Windows, NoMarker
<1>3. (Settled => Settled') /\ (DeadCovered => DeadCovered')
  BY <1>1, ProtectionStays
<1>4. Condemned'
  BY <1>1, <1>p, <1>l, <1>3 DEF Ready, FailInv, Condemned
<1>5. ReadsIt' /\ SparedIt' /\ Claims' /\ ContainedOwns'
  BY <1>1, <1>p, <1>l, <1>3 DEF Ready, FailInv, ReadsIt, SparedIt, Claims, ContainedOwns
<1>6. Bounds'
  BY <1>1, <1>p, <1>l, <1>2 DEF Ready, FailInv, Bounds
<1>7. Windows'
  BY <1>1, <1>p, <1>2 DEF Ready, FailInv, Windows, Expired
<1> QED
  BY <1>4, <1>5, <1>6, <1>7 DEF FailInv

\* The clock, a timeout, and the operator.
LEMMA EnvironmentStep ==
  ASSUME Ready, (\E p \in Procs : BecomeLate(p)) \/ Expire \/ Operator \/ UNCHANGED vars
  PROVE  FailInv'
<1>1. CASE Operator
  <2>1. /\ ~unsafe' /\ pc' = pc /\ marker' = marker /\ opened' = opened
        /\ want' = want /\ \A p \in Procs : pc[p] \in Over \cup {"off"}
    BY <1>1 DEF Operator, locals
  <2>2. \A p \in Procs : pc[p] \notin Entering \cup Judging \cup {"claim", "contained"} \cup Fencing
                            \cup PostLink \cup {"fence_enter"}
    BY <2>1 DEF Over, PastContainment, PostLink, Entering, Judging, Fencing, HoldsFence, Cleared
  <2>3. Condemned' /\ ReadsIt' /\ SparedIt' /\ Claims' /\ ContainedOwns'
    BY <2>1, <2>2 DEF Condemned, ReadsIt, SparedIt, Claims, ContainedOwns
  <2>4. Bounds'
    BY <2>1, <2>2 DEF Ready, FailInv, Bounds
  <2>5. Windows'
    BY <2>1 DEF Ready, FailInv, Windows
  <2> QED
    BY <2>3, <2>4, <2>5 DEF FailInv
<1>2. CASE /\ UNCHANGED <<file, pc, opened, want, tok, obs, ret, unsafe>>
           /\ marker'.timer = marker.timer
           /\ marker' = marker \/ Expire
  <2>1. (Settled <=> Settled') /\ (DeadCovered <=> DeadCovered')
    BY <1>2 DEF Settled, Exists, DeadCovered, Stale, Covered
  <2>2. Condemned' /\ ReadsIt'
    BY <1>2, <2>1 DEF Ready, FailInv, Condemned, ReadsIt
  <2>3. SparedIt' /\ Claims' /\ ContainedOwns' /\ Bounds'
    BY <1>2 DEF Ready, FailInv, SparedIt, Claims, ContainedOwns, Bounds
  <2>4. Windows'
    BY <1>2 DEF Ready, FailInv, Windows, Expire, Types, TypeOK, Marker
  <2> QED
    BY <2>2, <2>3, <2>4 DEF FailInv
<1>3. Expire => marker'.timer = marker.timer
  BY DEF Expire, Ready, Types, TypeOK, Marker
<1> QED
  BY <1>1, <1>2, <1>3 DEF BecomeLate, Expire, vars, disk, locals

---------------------------------------------------------------------------
(* Every other step is of one of these kinds.                              *)

\* Labels that claim something of the main record, of a reaper or of containment.
Marked == Judging \cup PostLink \cup Entering \cup {"contained"}

\* A process may always go on to any other label of its kind, or to its end.
Leads(from, to) ==
  /\ from \notin Over \cup {"op", "contained"} /\ to \notin Marked
  /\ to \in Commands => from \in Commands
  /\ to \in Fencing => from \in Fencing

\* So these steps need no more than that.
LEMMA PlainTravels ==
  ASSUME NEW p \in Procs, NEW from, NEW to, Leads(from, to), pc[p] = from, Goto(p, to),
         file'["containment"] = file["containment"], KeepsRest(p)
  PROVE  Travels(p)
<1>1. /\ to \notin Judging \cup PostLink \cup Entering \cup {"contained", "claim", "op"}
      /\ to # "fence_enter" /\ to \notin PastContainment
  BY DEF Leads, Marked, Judging, PostLink, Entering
<1>2. MayGo(p, to)
  BY <1>1 DEF MayGo, Leads
<1> QED
  BY <1>2 DEF Travels, Leads

\* A plain move.
LEMMA MoveTravels ==
  ASSUME NEW p \in Procs, NEW from, NEW to, Leads(from, to), Move(p, from, to)
  PROVE  Travels(p)
BY PlainTravels DEF Move, KeepsRest, disk, locals

\* The read of a record.
LEMMA ReadTravels ==
  ASSUME Types, NEW p \in Procs, NEW from, NEW f, NEW a, NEW b, Leads(from, a), Leads(from, b),
         Read(p, from, f, a, b)
  PROVE  Travels(p)
<1>1. KeepsRest(p) /\ file' = file
  BY DEF Read, KeepsRest, disk, Types, TypeOK
<1> QED
  BY <1>1, PlainTravels DEF Read

\* The read of the takeover token.
LEMMA ReadTokenTravels ==
  ASSUME Types, NEW p \in Procs, NEW from, NEW to, Leads(from, to), ReadToken(p, from, to)
  PROVE  Travels(p)
<1>1. KeepsRest(p) /\ file' = file
  BY DEF ReadToken, KeepsRest, disk, Types, TypeOK
<1> QED
  BY <1>1, PlainTravels DEF ReadToken

\* The reaper gate and the fence are other files.
LEMMA GateTravels ==
  ASSUME Supply, Types, NEW p \in Procs, NEW from, NEW f \in {"reaper", "deadline"},
         NEW bound \in Timers \cup {NoTimer}, NEW a, NEW b, Leads(from, a), Leads(from, b),
         Link(p, from, f, bound, a, b) \/ Release(p, from, f, a)
  PROVE  Travels(p)
<1>1. file'["main"] = file["main"] /\ file'["containment"] = file["containment"]
  BY PublishTypes DEF Link, Release, Remove, Types, TypeOK, Paths
<1>2. KeepsRest(p)
  BY <1>1 DEF KeepsRest, Link, Release, locals, Types, TypeOK
<1> QED
  BY <1>1, <1>2, PlainTravels DEF Link, Release

\* A look at containment publishes it or goes on.
LEMMA ContainTravels ==
  ASSUME Supply, Types, Bounds, NEW p \in Procs, NEW from, NEW to, Leads(from, to),
         \/ from \in Commands /\ to \in {"acq", "rel_reaper"}
         \/ from \in Fencing /\ to \in {"fence", "fence_throw"},
         Contain(p, from, to)
  PROVE  Travels(p) \/ Publishes(p)
<1>m. marker.timer \in Timers \cup {NoTimer}
  BY NoneTypes DEF Types, TypeOK
<1>1. CASE Exists("containment")
  <2>1. KeepsRest(p) /\ file' = file
    BY <1>1 DEF Contain, KeepsRest
  <2> QED
    BY <1>1, <2>1, PlainTravels DEF Contain
<1>2. CASE ~Exists("containment")
  <2>1. file'["main"] = file["main"] /\ file'["containment"].owner = p
    BY <1>2, <1>m, PublishTypes DEF Contain, Paths
  <2>2. KeepsRest(p) /\ ret'[p] = to /\ obs' = obs /\ pc[p] = from /\ Goto(p, "contained")
    BY <1>2, <2>1 DEF Contain, KeepsRest, Types, TypeOK
  <2>3. want[p] = NoTimer <=> to \in {"acq", "rel_reaper"}
    BY <2>2 DEF Bounds
  <2> QED
    BY <1>2, <2>1, <2>2, <2>3 DEF Publishes, Leads
<1> QED
  BY <1>1, <1>2

\* The release of the main record, which is its own.
LEMMA ReleaseMainKinds ==
  ASSUME Ready, Undisplaced', NEW p \in Procs,
         NEW a1, NEW a2, NEW a3 \in {"drop_verify", "end_verify"}, NEW a4 \in Returning, NEW to,
         a2 \in Releasing,
         Leads(a1, a2), Leads(a1, to), Leads(a2, a3), Leads(a2, to), Leads(a3, to), Leads(a3, a4),
         ReleaseMain(p, <<a1, a2, a3, a4>>, to)
  PROVE  Travels(p) \/ Rewrites(p)
<1>1. CASE Test(p, a1, file["main"] = obs[p], a2, to)
  BY <1>1, MoveTravels DEF Test
<1>2. CASE RenameAside(p, a2, a3, to)
  <2> DEFINE next == IF Exists("main") THEN a3 ELSE to
  <2>f. /\ file'["containment"] = file["containment"] /\ pc[p] = a2 /\ Goto(p, next)
        /\ quar'[p] = file["main"] /\ obs' = obs
        /\ ~Exists("main") => file'["main"] = file["main"]
        /\ UNCHANGED <<marker, opened, unsafe, want, tok, ret>>
    BY <1>2 DEF RenameAside, Remove, Exists, Ready, Types, TypeOK, Paths
  <2>l. Leads(a2, next)
    OBVIOUS
  <2>k. /\ a2 \notin Over \cup {"op", "contained"}
        /\ next \notin Judging \cup PastContainment \cup PostLink \cup Entering
        /\ next # "op" /\ next # "contained" /\ next # "fence_enter"
        /\ next \in Commands => a2 \in Commands
        /\ next \in Fencing => a2 \in Fencing
    <3> HIDE DEF next
    <3> QED
      BY <2>l DEF Leads, Marked, PostLink, Entering
  <2>1. Exists("main") => file["main"].owner = p
    <3>1. Exists("main") => pc'[p] = a3
      BY <2>f DEF Goto, Ready, Types, TypeOK
    <3>2. Exists("main") => file["main"] = obs[p]
      BY <3>1, <2>f DEF Undisplaced, OwnRelease
    <3> QED
      BY <3>2, <2>f DEF Ready, Protocol, Mine
  <2> HIDE DEF next
  <2>2. \A q \in Procs \ {p} : pc[q] \in Owning => file'["main"] = file["main"]
    BY <2>f, <2>1 DEF Ready, OwnsMain
  <2>3. unsafe /\ ~Settled => file'["main"] = file["main"]
    BY <2>f, <2>1, <2>k DEF Ready, FailInv, Condemned, DeadCovered, Stale
  <2> QED
    BY <2>f, <2>k, <2>2, <2>3 DEF Rewrites
<1>3. CASE DeleteExpected(p, a3, TRUE, to, a4)
  <2>1. /\ pc[p] = a3 /\ file' = file /\ KeepsRest(p)
        /\ Goto(p, to) \/ Goto(p, a4)
    BY <1>3 DEF DeleteExpected, KeepsRest, locals
  <2> QED
    BY <2>1, PlainTravels
<1>4. CASE PutBack(p, a4, to)
  BY <1>4 DEF PutBack, Ready, Protocol, Upright
<1> QED
  BY <1>1, <1>2, <1>3, <1>4 DEF ReleaseMain

\* The step of a process that waits for the lock, enters, or leaves.
LEMMA CommandKinds ==
  ASSUME Supply, Ready, Undisplaced', NEW p \in Procs,
         Attempt(p) \/ Gates(p) \/ LookAtOwner(p) \/ Enter(p) \/ Start(p) \/ Leave(p)
  PROVE  Travels(p) \/ Publishes(p) \/ Rewrites(p)
<1> DEFINE Waiting ==
      {"acq", "acq_deadline", "judge_deadline", "acq_reaper", "judge_reaper",
       "acq_expired", "pre_deadline", "pre_reaper", "pre_expired", "pre_token", "link", "drop",
       "drop_rename", "drop_verify", "drop_restore", "look", "judge_main", "reap", "off"}
<1>l. /\ \A from \in Waiting \cup PostLink, to \in Waiting \cup {"exited"} : Leads(from, to)
      /\ Leads("end_deadline", "exited")
      /\ PostLink \cap (Over \cup {"op", "contained"}) = {}
      /\ Waiting \subseteq Commands
  BY DEF Leads, Marked, Judging, PastContainment, PostLink, Entering, Over, Commands, Fencing,
         HoldsReaper, HoldsFence, Cleared
<1>t. /\ Types /\ Bounds /\ tok[p] \in Timers \cup {NoTimer}
      /\ want[p] \in Timers \cup {NoTimer}
  BY DEF Ready, FailInv, Types, TypeOK
<1>1. CASE Attempt(p)
  <2>1. KeepsRest(p) /\ file' = file
    BY <1>1, <1>t DEF Attempt, KeepsRest, disk, Types, TypeOK
  <2> QED
    BY <1>1, <1>l, <2>1, PlainTravels DEF Attempt
<1>2. CASE Gates(p)
  <2>1. ASSUME NEW from \in Waiting, Gate(p, from)
        PROVE  Travels(p) \/ Publishes(p)
    <3>1. Leads(from, "acq") /\ from \in Commands
      BY <1>l
    <3> QED
      BY <2>1, <3>1, <1>t, MoveTravels, ContainTravels DEF Gate
  <2> HIDE DEF Waiting
  <2>2. {"acq_deadline", "acq_reaper", "judge_deadline", "acq_expired", "judge_reaper",
         "acq", "pre_deadline", "look", "pre_reaper", "pre_expired", "pre_token", "link"}
          \subseteq Waiting
    BY DEF Waiting
  <2> QED
    BY <1>2, <1>l, <1>t, <2>1, <2>2, ReadTravels, MoveTravels, ReadTokenTravels DEF Gates, Test
<1>3. CASE LookAtOwner(p)
  BY <1>3, <1>l, <1>t, ReadTravels, MoveTravels DEF LookAtOwner, Test
<1>4. CASE Enter(p)
  <2>1. CASE Move(p, "link", "acq")
    BY <2>1, <1>l, MoveTravels
  <2>2. CASE Link(p, "link", "main", tok[p], "post_containment", "look")
    <3>1. CASE Exists("main")
      <4>1. pc[p] = "link" /\ Goto(p, "look") /\ KeepsRest(p) /\ file' = file
        BY <2>2, <3>1 DEF Link, KeepsRest
      <4> QED
        BY <4>1, <1>l, PlainTravels
    <3>2. CASE ~Exists("main")
      BY <2>2, <3>2, <1>t, LinkMainRewrites
    <3> QED
      BY <3>1, <3>2
  <2>3. CASE ReleaseMain(p, <<"drop", "drop_rename", "drop_verify", "drop_restore">>, "look")
    <3>1. "drop_rename" \in Releasing /\ "drop_restore" \in Returning
      BY DEF Releasing, Returning
    <3> QED
      BY <2>3, <3>1, <1>l, ReleaseMainKinds
  <2>4. ASSUME NEW from \in PostLink, Move(p, from, "drop")
        PROVE  Travels(p)
    BY <2>4, <1>l, MoveTravels
  <2>5. ASSUME NEW from \in PostLink, NEW to \in PastContainment, Move(p, from, to),
               from = "post_containment" => ~Exists("containment"),
               to = "post_expired" => ~Exists("reaper"),
               to = "post_token" => from = "post_expired"
        PROVE  Travels(p)
    <3>1. /\ to \notin {"contained", "fence_enter", "op", "claim"} \cup Judging \cup Fencing
          /\ from \in Commands /\ to \in PostLink
          /\ from # "post_containment" => from \in PastContainment
          /\ to \in Entering => to \in {"post_expired", "post_token"}
          /\ "post_expired" \in Entering
      BY <2>5 DEF Judging, Fencing, HoldsFence, Cleared, Commands, PostLink, PastContainment,
                  Entering
    <3>2. pc[p] = from /\ Goto(p, to) /\ KeepsRest(p) /\ file' = file /\ tok' = tok
      BY <2>5 DEF Move, KeepsRest, disk, locals
    <3>3. MayGo(p, to)
      BY <3>1, <3>2, <2>5 DEF MayGo
    <3> QED
      BY <3>2, <3>3, <1>l DEF Travels
  <2>6. ASSUME Move(p, "post_token", "op"), marker.timer = tok[p]
        PROVE  Travels(p)
    <3>1. /\ "op" \notin Judging \cup Fencing \cup Commands \cup PostLink \cup PastContainment
          /\ "post_token" \in PostLink /\ "post_token" \in Entering
      BY DEF Judging, Fencing, HoldsFence, Cleared, Commands, HoldsReaper, PostLink,
             PastContainment, Entering
    <3>2. pc[p] = "post_token" /\ Goto(p, "op") /\ KeepsRest(p) /\ file' = file
      BY <2>6 DEF Move, KeepsRest, disk, locals
    <3>3. MayGo(p, "op")
      BY <3>1, <3>2, <2>6 DEF MayGo
    <3> QED
      BY <3>1, <3>2, <3>3, <1>l DEF Travels
  <2>7. /\ {"post_containment", "post_deadline", "post_reaper", "post_expired", "post_token"}
             \subseteq PostLink
        /\ {"post_deadline", "post_reaper", "post_expired", "post_token"} \subseteq PastContainment
    BY DEF PostLink, PastContainment
  <2> HIDE DEF Waiting
  <2> QED
    BY <1>4, <2>1, <2>2, <2>3, <2>4, <2>5, <2>6, <2>7 DEF Enter, Test
<1>5. CASE Start(p)
  <2>1. Move(p, "off", "acq")
    BY <1>5 DEF Start, Move
  <2> QED
    BY <2>1, <1>l, MoveTravels
<1>6. CASE Leave(p)
  <2>1. CASE Release(p, "end_deadline", "deadline", "exited")
    BY <2>1, <1>l, <1>t, GateTravels
  <2> DEFINE to == IF want[p] = NoTimer THEN "exited" ELSE "end_deadline"
  <2>2. CASE ReleaseMain(p, <<"end_main", "end_rename", "end_verify", "end_restore">>, to)
    <3>1. /\ \A from \in {"end_main", "end_rename", "end_verify"},
              next \in {"end_rename", "end_verify", "end_restore", "exited", "end_deadline"} :
                Leads(from, next)
          /\ "end_rename" \in Releasing /\ "end_restore" \in Returning
      BY DEF Leads, Marked, Judging, PastContainment, PostLink, Entering, Over, Commands,
             Fencing, HoldsReaper, HoldsFence, Cleared, Releasing, Returning
    <3>2. to \in {"exited", "end_deadline"}
      OBVIOUS
    <3> HIDE DEF to
    <3> QED
      BY <2>2, <3>1, <3>2, ReleaseMainKinds
  <2> QED
    BY <1>6, <2>1, <2>2 DEF Leave
<1> QED
  BY <1>1, <1>2, <1>3, <1>4, <1>5, <1>6

\* The step of a reaper.
LEMMA ReaperKinds ==
  ASSUME Supply, Ready, Undisplaced', NEW p \in Procs,
         ReaperGate(p) \/ ReclaimOrContain(p) \/ Claim(p) \/ Verify(p) \/ Restore(p)
  PROVE  Travels(p) \/ Publishes(p) \/ Rewrites(p)
<1> DEFINE From ==
      {"reap", "reap_deadline", "reap_token", "reap_link", "reap_containment", "reap_again",
       "reap_authority", "reap_read", "reap_judge", "reap_recheck", "rel_reaper", "claimed"}
           To ==
      {"acq", "reap_deadline", "reap_token", "reap_link", "reap_containment", "rel_reaper",
       "reap_again", "reap_authority", "reap_read", "restore"}
<1>l. /\ \A from \in From, to \in To : Leads(from, to)
      /\ From \subseteq Commands /\ From \cap (Over \cup {"op", "contained"}) = {}
  BY DEF Leads, Marked, Judging, PastContainment, PostLink, Entering, Over, Commands, Fencing,
         HoldsReaper, HoldsFence, Cleared
<1>t. /\ Types /\ Bounds /\ tok[p] \in Timers \cup {NoTimer}
  BY DEF Ready, FailInv, Types, TypeOK
<1>k. /\ {"reap_judge", "reap_recheck", "claim"} \subseteq Judging
      /\ \A to \in Judging :
           to \notin {"contained", "fence_enter", "op"} \cup Fencing \cup PostLink
                       \cup PastContainment \cup Entering
  BY DEF Judging, Fencing, HoldsFence, Cleared, PostLink, PastContainment, Entering
\* A reaper judges what it reads ...
<1>1. CASE Read(p, "reap_read", "main", "rel_reaper", "reap_judge")
  <2>1. /\ pc[p] = "reap_read" /\ KeepsRest(p) /\ file' = file /\ obs'[p] = file["main"]
        /\ Goto(p, "rel_reaper") \/ Goto(p, "reap_judge")
    BY <1>1, <1>t DEF Read, KeepsRest, disk, Types, TypeOK
  <2>2. MayGo(p, "reap_judge")
    BY <2>1, <1>k, <1>l DEF MayGo
  <2>3. Goto(p, "rel_reaper") => Travels(p)
    BY <2>1, <1>l, PlainTravels
  <2> QED
    BY <2>1, <2>2, <2>3, <1>l DEF Travels
\* ... and keeps to it.
<1>2. ASSUME NEW from \in {"reap_judge", "reap_recheck"}, NEW to \in {"reap_recheck", "claim"},
             Move(p, from, to),
             to = "claim" => obs[p].bound = NoTimer /\ marker.timer = NoTimer
      PROVE  Travels(p)
  <2>1. pc[p] = from /\ KeepsRest(p) /\ file' = file /\ obs' = obs /\ Goto(p, to)
    BY <1>2 DEF Move, KeepsRest, disk, locals
  <2>2. from \in From
    OBVIOUS
  <2>3. MayGo(p, to)
    BY <2>1, <2>2, <1>2, <1>k, <1>l DEF MayGo
  <2> QED
    BY <2>1, <2>2, <2>3, <1>l DEF Travels
<1>3. ASSUME NEW from \in From, NEW to \in To, Move(p, from, to)
      PROVE  Travels(p)
  BY <1>3, <1>l, MoveTravels
<1>4. CASE ReaperGate(p)
  <2>1. CASE \/ Link(p, "reap_link", "reaper", tok[p], "reap_containment", "acq")
             \/ Release(p, "rel_reaper", "reaper", "acq")
    BY <2>1, <1>l, <1>t, GateTravels
  <2>2. CASE ReadToken(p, "reap_token", "reap_link")
    BY <2>2, <1>l, <1>t, ReadTokenTravels
  <2> QED
    BY <1>4, <1>1, <1>2, <1>3, <2>1, <2>2 DEF ReaperGate, Test
<1>5. CASE ReclaimOrContain(p)
  <2>1. CASE Contain(p, "reap_recheck", "rel_reaper")
    BY <2>1, <1>l, <1>t, ContainTravels
  <2> QED
    BY <1>5, <1>2, <1>3, <2>1 DEF ReclaimOrContain
<1>6. CASE Verify(p)
  <2>1. /\ pc[p] = "claimed" /\ file' = file /\ KeepsRest(p)
        /\ Goto(p, "rel_reaper") \/ Goto(p, "restore")
    BY <1>6 DEF Verify, DeleteExpected, KeepsRest, locals
  <2> QED
    BY <2>1, <1>l, PlainTravels
<1> QED
  BY <1>4, <1>5, <1>6, ClaimRewrites, RestoreRewrites

\* The step of a recovery.
LEMMA FenceKinds ==
  ASSUME Supply, Ready, NEW p \in Procs,
         TakeFence(p) \/ ClearGates(p) \/ PublishMain(p) \/ Throw(p) \/ GiveUp(p)
  PROVE  Travels(p) \/ Publishes(p) \/ Rewrites(p)
<1> DEFINE To == (Fencing \ {"fence_enter"}) \cup {"exited", "end_deadline", "end_main"}
<1>l. \A from \in Fencing, to \in To : Leads(from, to)
  BY DEF Leads, Marked, Judging, PastContainment, PostLink, Entering, Over, Commands, Fencing,
         HoldsReaper, HoldsFence, Cleared
<1>k. /\ {"exited", "end_deadline", "end_main"} \subseteq To
      /\ {"fence", "fence_containment", "fence_link", "fence_look", "fence_judge", "fence_throw",
          "gave_up", "fence_authority"} \subseteq To \cap Fencing
      /\ {"clear_reaper", "cr_read", "cr_judge", "cr_confirm", "cr_contain", "clear_main",
          "cm_read", "cm_judge", "cm_confirm", "cm_contain", "pub_authority", "pub_link"}
           \subseteq To \cap Fencing
      /\ "fence_enter" \in Fencing
  BY DEF Fencing, HoldsFence, Cleared
<1> HIDE DEF To
<1>t. /\ Types /\ Bounds /\ want[p] \in Timers \cup {NoTimer}
      /\ marker.timer \in Timers \cup {NoTimer}
  BY NoneTypes DEF Ready, FailInv, Types, TypeOK
<1>1. ASSUME NEW from \in Fencing, NEW to \in To, Move(p, from, to)
      PROVE  Travels(p)
  BY <1>1, <1>l, MoveTravels
<1>2. ASSUME NEW from \in Fencing, NEW to \in {"fence", "fence_throw"}, Contain(p, from, to)
      PROVE  Travels(p) \/ Publishes(p)
  BY <1>2, <1>l, <1>k, <1>t, ContainTravels
<1>3. ASSUME NEW from \in Fencing, NEW f, NEW a \in To, NEW b \in To, Read(p, from, f, a, b)
      PROVE  Travels(p)
  BY <1>3, <1>l, <1>t, ReadTravels
<1>4. CASE TakeFence(p)
  <2>1. CASE Link(p, "fence_link", "deadline", want[p], "fence_authority", "fence_look")
    <3>1. Leads("fence_link", "fence_authority") /\ Leads("fence_link", "fence_look")
      BY <1>k, <1>l
    <3> QED
      BY <2>1, <3>1, <1>t, GateTravels
  <2> QED
    BY <1>4, <1>k, <1>1, <1>2, <1>3, <2>1 DEF TakeFence, Test
<1>5. CASE ClearGates(p)
  <2>1. ASSUME NEW f, NEW next \in To, NEW a1 \in To \cap Fencing, NEW a2 \in To \cap Fencing,
               NEW a3 \in To \cap Fencing, NEW a4 \in To \cap Fencing,
               NEW a5 \in To \cap Fencing,
               Clear(p, f, <<a1, a2, a3, a4, a5>>, next)
        PROVE  Travels(p) \/ Publishes(p)
    BY <2>1, <1>k, <1>1, <1>2, <1>3 DEF Clear, Test
  <2> QED
    BY <1>5, <1>k, <2>1 DEF ClearGates
<1>6. CASE PublishMain(p)
  <2>1. CASE Link(p, "pub_link", "main", want[p], "fence_enter", "clear_reaper")
    <3>1. CASE Exists("main")
      <4>1. pc[p] = "pub_link" /\ Goto(p, "clear_reaper") /\ KeepsRest(p) /\ file' = file
        BY <2>1, <3>1 DEF Link, KeepsRest
      <4> QED
        BY <4>1, <1>k, <1>l, PlainTravels
    <3>2. CASE ~Exists("main")
      BY <2>1, <3>2, <1>t, LinkMainRewrites
    <3> QED
      BY <3>1, <3>2
  <2>2. CASE Move(p, "fence_enter", "op") /\ Authority(p)
    <3>1. /\ "op" \notin Judging \cup Fencing \cup Commands \cup PostLink \cup PastContainment
          /\ "fence_enter" \in Entering
      BY DEF Judging, Fencing, HoldsFence, Cleared, Commands, HoldsReaper, PostLink,
             PastContainment, Entering
    <3>2. pc[p] = "fence_enter" /\ Goto(p, "op") /\ KeepsRest(p) /\ file' = file
      BY <2>2 DEF Move, KeepsRest, disk, locals
    <3>3. MayGo(p, "op")
      BY <3>1, <3>2, <2>2 DEF MayGo
    <3> QED
      BY <3>2, <3>3 DEF Travels, Over
  <2> QED
    BY <1>6, <1>k, <1>1, <2>1, <2>2 DEF PublishMain, Test
<1>7. CASE Throw(p)
  <2>1. /\ pc[p] \in {"fence_throw", "gave_up"} /\ KeepsRest(p) /\ file' = file
        /\ Goto(p, "end_deadline") \/ Goto(p, "exited")
    BY <1>7 DEF Throw, KeepsRest, disk, locals
  <2> QED
    BY <2>1, <1>k, <1>l, PlainTravels
<1>8. CASE GiveUp(p)
  <2>a. pc[p] \in Fencing /\ pc[p] \notin Over \cup {"op", "contained"}
    BY <1>8, <1>k DEF GiveUp, Over
  <2>1. CASE Exists("containment")
    <3>1. KeepsRest(p) /\ file' = file /\ Goto(p, "exited")
      BY <1>8, <2>1 DEF GiveUp, KeepsRest
    <3> QED
      BY <3>1, <2>a, <1>k, <1>l, PlainTravels
  <2>2. CASE ~Exists("containment")
    <3>1. file'["main"] = file["main"] /\ file'["containment"].owner = p
      BY <1>8, <2>2, <1>t, PublishTypes DEF GiveUp, Paths
    <3>2. KeepsRest(p) /\ ret'[p] = "gave_up" /\ obs' = obs /\ Goto(p, "contained")
      BY <1>8, <2>2, <3>1, <1>t DEF GiveUp, KeepsRest, Types, TypeOK
    <3>3. want[p] # NoTimer
      BY <2>a, <1>t DEF Bounds
    <3> QED
      BY <2>2, <2>a, <3>1, <3>2, <3>3 DEF Publishes
  <2> QED
    BY <2>1, <2>2
<1> QED
  BY <1>4, <1>5, <1>6, <1>7, <1>8

---------------------------------------------------------------------------
(* The invariant.                                                          *)

\* At the start there is nothing to protect.
LEMMA FailInit == Init => FailInv
<1> SUFFICES ASSUME Init PROVE FailInv
  OBVIOUS
<1>1. /\ \A p \in Procs : pc[p] = "off" /\ want[p] = NoTimer
      /\ ~unsafe /\ marker = NoMarker /\ NoMarker.timer = NoTimer
  BY DEF Init, NoMarker
<1>2. "off" \notin Entering \cup Judging \cup {"claim", "contained", "fence_enter"} \cup Fencing
                     \cup PostLink
  BY DEF Entering, Judging, Fencing, HoldsFence, Cleared, PostLink, PastContainment
<1>3. Condemned /\ ReadsIt /\ SparedIt /\ Claims /\ ContainedOwns
  BY <1>1, <1>2 DEF Condemned, ReadsIt, SparedIt, Claims, ContainedOwns
<1>4. Bounds /\ Windows
  BY <1>1, <1>2 DEF Bounds, Windows
<1> QED
  BY <1>3, <1>4 DEF FailInv

\* Undisplaced, the invariant of the protocol says who owns the main record.
LEMMA UndisplacedReady ==
  ASSUME SparingInv, Undisplaced, FailInv
  PROVE  Ready
BY DEF SparingInv, Undisplaced, Protocol, Owned, Owns, OwnsMain, Ready

\* What a process does of itself, but for the end of an operation and a
\* containment that it looks at again, is of the three kinds.
LEMMA StepKinds ==
  ASSUME Supply, Ready, Undisplaced', NEW p \in Procs,
         Step(p) \/ GiveUp(p) \/ Start(p), ~EndOp(p), ~Contained(p)
  PROVE  Travels(p) \/ Publishes(p) \/ Rewrites(p)
BY CommandKinds, ReaperKinds, FenceKinds DEF Step

\* A containment record is kept or taken back.
LEMMA ContainedStep ==
  ASSUME Ready, NEW p \in Procs, Contained(p)
  PROVE  FailInv'
<1>1. /\ pc[p] = "contained" /\ Goto(p, ret[p]) /\ UNCHANGED <<marker, opened, unsafe, locals>>
      /\ file'["main"] = file["main"]
      /\ file'["containment"] \in {file["containment"], NoGen}
  BY DEF Contained, Remove, Ready, Types, TypeOK, Paths
<1> QED
  BY <1>1, ContainedLeaves

\* Every step keeps the invariant.
LEMMA FailStep ==
  ASSUME Supply, Ready, Types', Undisplaced', [Next]_vars, ~Relies
  PROVE  FailInv'
<1>1. ASSUME NEW p \in Procs, Step(p) \/ GiveUp(p) \/ Start(p)
      PROVE  FailInv'
  BY <1>1, StepKinds, TravelStep, PublishStep, RewriteStep, EndOpStep, ContainedStep
<1>2. ASSUME NEW p \in Procs, FailRestore(p)
      PROVE  FailInv'
  BY <1>2, FailRestoreStep DEF Relies
<1> QED
  BY <1>1, <1>2, WindowStep, StartFenceStep, CrashStep, EnvironmentStep DEF Next

\* FailInv is an invariant of the runs in which no record is displaced and no
\* failing restore relies on a containment that is not settled.
THEOREM FailInvCorrect ==
  ASSUME Supply
  PROVE  Spec /\ []Undisplaced /\ [][~Relies]_vars => []FailInv
<1>1. Init => FailInv
  BY FailInit
<1>2. SparingInv /\ SparingInv' /\ Undisplaced /\ Undisplaced' /\ FailInv
        /\ [Next]_vars /\ [~Relies]_vars => FailInv'
  <2> SUFFICES ASSUME SparingInv, SparingInv', Undisplaced, Undisplaced', FailInv, [Next]_vars,
                      [~Relies]_vars
               PROVE  FailInv'
    OBVIOUS
  <2>1. Ready /\ Types'
    BY UndisplacedReady DEF SparingInv
  <2>2. CASE UNCHANGED vars
    BY <2>1, <2>2, EnvironmentStep
  <2> QED
    BY <2>1, <2>2, FailStep
<1>3. Undisplaced => OwnRelease
  BY DEF Undisplaced
<1> QED
  BY <1>1, <1>2, <1>3, SparingInvCorrect, PTL DEF Spec

\* No command runs an operation on a condemned sandbox: no reaper frees the record
\* of an operation that died under a window, and nobody gets past containment.
THEOREM FailClosedCorrect ==
  ASSUME Supply
  PROVE  Spec /\ []Undisplaced /\ [][~Relies]_vars => []FailClosed
<1>1. FailInv => FailClosed
  BY DEF FailInv, Condemned, FailClosed
<1> QED
  BY <1>1, FailInvCorrect, PTL

---------------------------------------------------------------------------
(* The refinement.                                                         *)

\* Who runs an operation is the holder.
LEMMA OneHolder ==
  ASSUME NEW f, NEW p \in Procs, f[p] = "op", \A q \in Procs : f[q] = "op" => q = p
  PROVE  (CHOOSE q \in Procs : f[q] = "op") = p
OBVIOUS

\* Before a step.
LEMMA HolderIs ==
  ASSUME Ready, NEW p \in Procs, pc[p] = "op"
  PROVE  Holder = p /\ p # Nobody /\ \A q \in Procs \ {p} : pc[q] # "op"
<1>1. \A q \in Procs : pc[q] = "op" => q = p
  BY Alone DEF Owning, Entering
<1> QED
  BY <1>1, OneHolder, NamesAssumption DEF Holder

\* Nobody does.
LEMMA NobodyHolds ==
  ASSUME \A p \in Procs : pc[p] # "op"
  PROVE  Holder = Nobody
BY DEF Holder

\* A step after which the same process runs, on the same record, is none of the lock.
LEMMA Unnoticed ==
  ASSUME Ready, \A q \in Procs : pc'[q] = "op" <=> pc[q] = "op",
         \A q \in Procs : pc[q] = "op" => file'["main"] = file["main"] /\ want'[q] = want[q],
         marker' = marker, unsafe' = unsafe
  PROVE  UNCHANGED Lock!vars
<1>1. CASE \A q \in Procs : pc[q] # "op"
  <2>1. Holder = Nobody /\ Holder' = Nobody
    BY <1>1 DEF Holder
  <2> QED
    BY <2>1 DEF Lock!vars, Expired
<1>2. ASSUME NEW p \in Procs, pc[p] = "op"
      PROVE  UNCHANGED Lock!vars
  <2>1. Holder = p /\ \A q \in Procs \ {p} : pc[q] # "op"
    BY <1>2, HolderIs
  <2>2. Holder' = p
    BY <1>2, <2>1, OneHolder DEF Holder
  <2> QED
    BY <1>2, <2>1, <2>2 DEF Lock!vars, Expired
<1> QED
  BY <1>1, <1>2

\* A process enters its operation, or the lock notices nothing.
LEMMA TravelImplements ==
  ASSUME Ready, NEW p \in Procs, Travels(p)
  PROVE  [Lock!Next]_(Lock!vars)
<1>a. PICK to : Goto(p, to) /\ MayGo(p, to)
  BY DEF Travels
<1>p. pc'[p] = to /\ \A q \in Procs \ {p} : pc'[q] = pc[q]
  BY <1>a DEF Goto, Ready, Types, TypeOK
<1>f. /\ file'["main"] = file["main"] /\ marker' = marker /\ unsafe' = unsafe /\ want' = want
      /\ pc[p] # "op"
  BY DEF Travels, KeepsRest
<1>1. CASE to # "op"
  <2>1. \A q \in Procs : pc'[q] = "op" <=> pc[q] = "op"
    BY <1>1, <1>p, <1>f
  <2> QED
    BY <2>1, <1>f, Unnoticed
<1>2. CASE to = "op"
  <2>1. pc[p] \in Owning
    BY <1>2, <1>a DEF MayGo, Owning, Entering
  <2>2. \A q \in Procs : pc[q] # "op"
    BY <2>1, <1>f, Alone DEF Owning, Entering
  <2>3. Holder = Nobody /\ Holder' = p /\ p # Nobody
    <3>1. Holder = Nobody
      BY <2>2, NobodyHolds
    <3>2. Holder' = p
      BY <1>2, <1>p, <2>2, OneHolder DEF Holder
    <3> QED
      BY <3>1, <3>2, NamesAssumption
  <2>4. CASE pc[p] = "post_token" /\ marker.timer = tok[p]
    <3>1. want[p] = NoTimer /\ file["main"].bound = marker.timer
      BY <2>4 DEF Ready, FailInv, Bounds, Commands, PostLink, PastContainment
    <3>2. ~unsafe
      BY <2>4 DEF Ready, FailInv, Condemned, PastContainment
    <3>3. Lock!CommandEnters(p)
      BY <1>f, <2>3, <3>1, <3>2 DEF Lock!CommandEnters, Expired
    <3> QED
      BY <3>3 DEF Lock!Next
  <2>5. CASE pc[p] = "fence_enter" /\ Authority(p)
    <3>1. want[p] # NoTimer /\ file["main"].bound = marker.timer /\ marker.expired
      BY <2>5 DEF Ready, FailInv, Bounds, Fencing, Windows, Authority
    <3>2. Lock!RecoveryEnters(p)
      BY <1>f, <2>3, <3>1 DEF Lock!RecoveryEnters, Expired
    <3> QED
      BY <3>2 DEF Lock!Next
  <2> QED
    BY <1>2, <1>a, <2>4, <2>5 DEF MayGo
<1> QED
  BY <1>1, <1>2

\* Nor does it notice a containment record or a record that is nobody else's.
LEMMA OthersUnnoticed ==
  ASSUME Ready, NEW p \in Procs, Publishes(p) \/ Rewrites(p) \/ Contained(p)
  PROVE  UNCHANGED Lock!vars
<1>1. PICK to : Goto(p, to) /\ to # "op" /\ pc[p] # "op"
  <2>1. ret[p] # "op"
    BY DEF Ready, Types, Returns
  <2> QED
    BY <2>1 DEF Publishes, Rewrites, Contained
<1>2. \A q \in Procs : pc'[q] = "op" <=> pc[q] = "op"
  BY <1>1 DEF Goto, Ready, Types, TypeOK
<1>3. marker' = marker /\ unsafe' = unsafe /\ want' = want
  BY DEF Publishes, KeepsRest, Rewrites, Contained, locals
<1>4. \A q \in Procs : pc[q] = "op" => file'["main"] = file["main"]
  BY <1>1 DEF Publishes, KeepsRest, Rewrites, Contained, Remove, Owning, Entering, Ready, Types,
              TypeOK, Paths
<1> QED
  BY <1>2, <1>3, <1>4, Unnoticed

\* The end of an operation: by itself, by a failure, or by a crash.
LEMMA EndsImplement ==
  ASSUME Supply, Ready, NEW p \in Procs,
         EndOp(p) \/ FailRestore(p) \/ (Crash(p) /\ pc[p] = "op")
  PROVE  Lock!Next
<1>1. pc[p] = "op" /\ want' = want
  BY DEF EndOp, FailRestore, Crash, locals
<1>2. PICK to \in {"end_main", "exited", "crashed"} : Goto(p, to)
  BY DEF EndOp, FailRestore, Crash
<1>3. Holder = p /\ p # Nobody /\ \A q \in Procs \ {p} : pc[q] # "op"
  BY <1>1, HolderIs
<1>4. Holder' = Nobody
  <2>1. \A q \in Procs : pc'[q] # "op"
    BY <1>2, <1>3 DEF Goto, Ready, Types, TypeOK
  <2> QED
    BY <2>1 DEF Holder
<1>5. Lock!Vacate /\ Holder # Nobody
  BY <1>3, <1>4 DEF Lock!Vacate
<1>6. CASE EndOp(p)
  <2>1. Lock!Leave
    BY <1>3, <1>5, <1>6 DEF EndOp, Lock!Leave, Expired, NoMarker
  <2> QED
    BY <2>1 DEF Lock!Next
<1>7. CASE FailRestore(p)
  <2>1. marker' = marker /\ Expired
    BY <1>7 DEF FailRestore
  <2>2. unsafe' = TRUE \/ (file["main"].bound = NoTimer /\ unsafe' = unsafe)
    BY <1>7 DEF FailRestore
  <2>3. Lock!Fail
    BY <1>3, <1>5, <2>1, <2>2 DEF Lock!Fail, Expired
  <2> QED
    BY <2>3 DEF Lock!Next
<1>8. CASE Crash(p)
  <2>1. marker' = marker /\ unsafe' = (unsafe \/ Covered)
    BY <1>8, <1>1, Zenon DEF Crash, disk
  <2>2. unsafe' = (unsafe \/ marker.timer # NoTimer \/ file["main"].bound # NoTimer)
    BY <2>1, Zenon DEF Covered
  <2>3. Lock!Die
    BY <1>3, <1>5, <2>1, <2>2 DEF Lock!Die, Expired
  <2> QED
    BY <2>3 DEF Lock!Next
<1> QED
  BY <1>6, <1>7, <1>8

\* The windows, the clock and the operator.
LEMMA WindowsImplement ==
  ASSUME Ready,
         \/ \E p \in Procs : OpenWindow(p) \/ CloseWindow(p)
         \/ Expire \/ Operator
  PROVE  Lock!Next
<1>1. ASSUME NEW p \in Procs, OpenWindow(p) \/ CloseWindow(p)
      PROVE  Lock!Next
  <2>1. /\ pc[p] = "op" /\ want[p] = NoTimer
        /\ pc' = pc /\ file' = file /\ want' = want /\ unsafe' = unsafe
    BY <1>1 DEF OpenWindow, CloseWindow, locals
  <2>2. Holder = p /\ p # Nobody /\ Holder' = Holder
    BY <2>1, HolderIs DEF Holder
  <2>3. CASE OpenWindow(p)
    <3>1. PICK t \in Timers : marker' = [timer |-> t, expired |-> FALSE]
      BY <2>3 DEF OpenWindow
    <3>2. marker.timer = NoTimer /\ marker.expired = FALSE
      BY <2>3 DEF OpenWindow, NoMarker
    <3>3. Lock!Open(t)
      BY <2>1, <2>2, <3>1, <3>2 DEF Lock!Open, Expired
    <3> QED
      BY <3>3 DEF Lock!Next
  <2>4. CASE CloseWindow(p)
    <3>1. marker.timer # NoTimer /\ marker'.timer = NoTimer /\ marker'.expired = FALSE
      BY <2>4 DEF CloseWindow, NoMarker, Ready, FailInv, Windows
    <3>2. Lock!Close
      BY <2>1, <2>2, <3>1 DEF Lock!Close, Expired
    <3> QED
      BY <3>2 DEF Lock!Next
  <2> QED
    BY <1>1, <2>3, <2>4
<1>2. CASE Expire
  <2>1. /\ marker.timer # NoTimer /\ marker'.timer = marker.timer /\ marker'.expired = TRUE
    BY <1>2 DEF Expire, Ready, FailInv, Windows, Types, TypeOK, Marker
  <2>2. pc' = pc /\ file' = file /\ want' = want /\ unsafe' = unsafe /\ Holder' = Holder
    BY <1>2 DEF Expire, locals, Holder
  <2>3. Lock!Expire
    BY <2>1, <2>2 DEF Lock!Expire, Expired
  <2> QED
    BY <2>3 DEF Lock!Next
<1>3. CASE Operator
  <2>1. \A p \in Procs : pc[p] # "op" /\ pc'[p] # "op"
    BY <1>3 DEF Operator, Over
  <2>2. Holder = Nobody /\ Holder' = Nobody
    BY <2>1 DEF Holder
  <2>3. Lock!Operator
    BY <1>3, <2>2 DEF Operator, Lock!Operator, Expired
  <2> QED
    BY <2>3 DEF Lock!Next
<1> QED
  BY <1>1, <1>2, <1>3

\* Every step is one of the lock, or none.
LEMMA StepImplements ==
  ASSUME Supply, Ready, Undisplaced', [Next]_vars
  PROVE  [Lock!Next]_(Lock!vars)
<1>1. ASSUME NEW p \in Procs, Step(p) \/ GiveUp(p) \/ Start(p)
      PROVE  [Lock!Next]_(Lock!vars)
  BY <1>1, StepKinds, TravelImplements, OthersUnnoticed, EndsImplement
<1>2. ASSUME NEW p \in Procs, Crash(p)
      PROVE  [Lock!Next]_(Lock!vars)
  <2>1. CASE pc[p] # "op"
    <3>1. unsafe' = unsafe
      <4>1. unsafe \in {TRUE, FALSE} /\ unsafe' = (unsafe \/ (pc[p] = "op" /\ Covered))
        BY <1>2 DEF Crash, Ready, Types, TypeOK
      <4>2. CASE unsafe = TRUE
        BY <4>1, <4>2, <2>1, Zenon
      <4>3. CASE unsafe = FALSE
        BY <4>1, <4>3, <2>1, Zenon
      <4> QED
        BY <4>1, <4>2, <4>3, Zenon
    <3>2. /\ \A q \in Procs : pc'[q] = "op" <=> pc[q] = "op"
          /\ file' = file /\ marker' = marker /\ want' = want
      BY <1>2, <2>1 DEF Crash, disk, locals, Goto, Ready, Types, TypeOK
    <3> QED
      BY <3>1, <3>2, Unnoticed
  <2> QED
    BY <1>2, <2>1, EndsImplement
<1>3. ASSUME NEW p \in Procs, StartFence(p) \/ BecomeLate(p)
      PROVE  [Lock!Next]_(Lock!vars)
  <2>1. /\ \A q \in Procs : pc'[q] = "op" <=> pc[q] = "op"
        /\ \A q \in Procs : pc[q] = "op" => want'[q] = want[q]
        /\ file' = file /\ marker' = marker /\ unsafe' = unsafe
    BY <1>3 DEF StartFence, BecomeLate, disk, locals, Goto, Ready, Types, TypeOK
  <2> QED
    BY <2>1, Unnoticed
<1>4. CASE UNCHANGED vars
  BY <1>4, Unnoticed DEF vars, disk, locals
<1> QED
  BY <1>1, <1>2, <1>3, <1>4, EndsImplement, WindowsImplement DEF Next

\* The protocol of files implements the lock that its callers count on, for any
\* number of processes: the initial states map to the lock's, and each step to one
\* of its steps or to none.
THEOREM ImplementsLockCorrect ==
  ASSUME Supply
  PROVE  Spec /\ []Undisplaced /\ [][~Relies]_vars => ImplementsLock
<1>1. Init => Lock!Init
  <2> SUFFICES ASSUME Init PROVE Lock!Init
    OBVIOUS
  <2>1. Holder = Nobody
    BY DEF Init, Holder
  <2> QED
    BY <2>1 DEF Init, Lock!Init, NoMarker, Expired
<1>2. SparingInv /\ Undisplaced /\ Undisplaced' /\ FailInv /\ [Next]_vars
        => [Lock!Next]_(Lock!vars)
  BY UndisplacedReady, StepImplements
<1>3. Undisplaced => OwnRelease
  BY DEF Undisplaced
<1> QED
  BY <1>1, <1>2, <1>3, SparingInvCorrect, FailInvCorrect, PTL DEF Spec, ImplementsLock, Lock!Spec
=============================================================================
