-------------------------- MODULE McpLifecycleLock --------------------------
(***************************************************************************)
(* The sandbox mutation lock of state/mcp-lifecycle-lock-acquisition.ts:   *)
(* ordinary acquisition, stale-owner reaping, the auto-restore deadline    *)
(* fence, and durable containment.  A hard link publishes an owner record  *)
(* and a rename claims one.  One file-system call per step, except where   *)
(* a step of another process in between would change nothing: the release  *)
(* of a gate (Release) and the publication of containment (Contain).       *)
(*                                                                         *)
(* A process runs one command and its pid is never taken for another's     *)
(* (the code compares start identities).  A process that has to throw      *)
(* because its wait is over goes back to the head of the loop, where it    *)
(* does.  The marker file names the shields window in force.  Only the     *)
(* owner of the main record writes it: `shields down' opens a window,      *)
(* `shields up', a destroy or the restore closes it.                       *)
(***************************************************************************)
EXTENDS Naturals

CONSTANTS Procs,        \* processes, each of one command
          Tokens,       \* names of owner records (random UUIDs)
          Timers,       \* takeover tokens, one for each shields window
          MaxCrashes,   \* bound on killed processes
          MaxLate,      \* bound on acquisitions that reach their timeout
          MaxFailures   \* bound on recoveries that give up

Nobody == "nobody"
NoToken == 0
NoTimer == "none"

ASSUME NamesAssumption ==
  Nobody \notin Procs /\ NoToken \notin Tokens /\ NoTimer \notin Timers

ASSUME BoundsAssumption ==
  MaxCrashes \in Nat /\ MaxLate \in Nat /\ MaxFailures \in Nat

VARIABLES file,      \* the four lock files
          aside,     \* records that a reclaim has renamed away, still on disk
          marker,    \* the shields timer marker
          opened,    \* windows there have been
          pc,
          want,      \* the takeover token of a recovery, NoTimer in a command
          tok,       \* the takeover token read before a link
          obs,       \* the owner record last read or published
          quar,      \* the one of them that a reclaim is at work on
          ret,       \* where to go on after publishing containment
          late,      \* the acquisition timeout has passed
          unsafe,    \* an operation ended without proof that its children did
          crashes, lates, failures

disk == <<file, aside, marker, opened>>
locals == <<want, tok, obs, quar, ret, late>>
budgets == <<crashes, lates, failures>>
vars == <<disk, pc, locals, unsafe, budgets>>

Paths == {"main", "reaper", "deadline", "containment"}

\* createMcpLifecycleLockOwner
Gen == [token : Tokens, owner : Procs, bound : Timers \cup {NoTimer}]
NoGen == [token |-> NoToken, owner |-> Nobody, bound |-> NoTimer]

Marker == [timer : Timers \cup {NoTimer}, expired : BOOLEAN]
NoMarker == [timer |-> NoTimer, expired |-> FALSE]

Init ==
  /\ file = [f \in Paths |-> NoGen]
  /\ aside = {}
  /\ marker = NoMarker
  /\ opened = {}
  /\ pc = [p \in Procs |-> "off"]
  /\ want = [p \in Procs |-> NoTimer]
  /\ tok = [p \in Procs |-> NoTimer]
  /\ obs = [p \in Procs |-> NoGen]
  /\ quar = [p \in Procs |-> NoGen]
  /\ ret = [p \in Procs |-> "acq"]
  /\ late = [p \in Procs |-> FALSE]
  /\ unsafe = FALSE
  /\ crashes = 0 /\ lates = 0 /\ failures = 0

---------------------------------------------------------------------------
(* Storage and identity.                                                   *)

Exists(f) == file[f] # NoGen

Over == {"exited", "crashed"}

\* Mutant: an owner whose start identity cannot be read is taken for dead.
StaleIfSilent(g) == g # NoGen /\ pc[g.owner] \in Over \cup {"op"}

\* classifyMcpLifecycleLock: nobody runs as the process that wrote it.
Stale(g) == g # NoGen /\ pc[g.owner] \in Over

Expired == marker.expired

\* A random UUID: none that a file or a process still knows.
FreshToken ==
  CHOOSE t \in Tokens :
    /\ \A f \in Paths : file[f].token # t
    /\ \A g \in aside : g.token # t
    /\ \A p \in Procs : obs[p].token # t /\ quar[p].token # t

\* writeMcpLifecycleLockCandidateAndLink, once it has succeeded
Publish(f, p, bound) ==
  file' = [file EXCEPT ![f] =
    [token |-> FreshToken, owner |-> p, bound |-> bound]]

Remove(f) == file' = [file EXCEPT ![f] = NoGen]

---------------------------------------------------------------------------
(* Forms of a step.                                                        *)

Goto(p, label) == pc' = [pc EXCEPT ![p] = label]

\* A step that only moves the process on.
Move(p, from, to) ==
  /\ pc[p] = from
  /\ Goto(p, to)
  /\ UNCHANGED <<disk, locals, unsafe, budgets>>

Test(p, from, cond, ifTrue, ifFalse) ==
  Move(p, from, IF cond THEN ifTrue ELSE ifFalse)

\* readMcpLifecycleLockObservation
Read(p, from, f, ifAbsent, ifPresent) ==
  /\ pc[p] = from
  /\ obs' = [obs EXCEPT ![p] = file[f]]
  /\ Goto(p, IF Exists(f) THEN ifPresent ELSE ifAbsent)
  /\ UNCHANGED <<disk, want, tok, quar, ret, late, unsafe, budgets>>

\* readShieldsTimerTakeoverToken
ReadToken(p, from, to) ==
  /\ pc[p] = from
  /\ tok' = [tok EXCEPT ![p] = marker.timer]
  /\ Goto(p, to)
  /\ UNCHANGED <<disk, want, obs, quar, ret, late, unsafe, budgets>>

Link(p, from, f, bound, ifLinked, ifTaken) ==
  /\ pc[p] = from
  /\ IF Exists(f)
     THEN Goto(p, ifTaken) /\ UNCHANGED file
     ELSE Publish(f, p, bound) /\ Goto(p, ifLinked)
  /\ obs' = IF Exists(f) THEN obs ELSE [obs EXCEPT ![p] = file'[f]]
  /\ UNCHANGED <<aside, marker, opened, want, tok, quar, ret, late, unsafe, budgets>>

\* reclaimStaleMcpLifecycleLockGeneration, of the main record.  The rename takes
\* whatever is there ...
RenameAside(p, from, ifRenamed, ifAbsent) ==
  /\ pc[p] = from
  /\ quar' = [quar EXCEPT ![p] = file["main"]]
  /\ Remove("main")
  /\ IF Exists("main")
     THEN aside' = aside \cup {file["main"]} /\ Goto(p, ifRenamed)
     ELSE UNCHANGED aside /\ Goto(p, ifAbsent)
  /\ UNCHANGED <<marker, opened, want, tok, obs, ret, late, unsafe, budgets>>

\* ... what was renamed is deleted if it has the token that was expected ...
DeleteExpected(p, from, proven, ifDeleted, ifOther) ==
  /\ pc[p] = from
  /\ IF quar[p] = obs[p] /\ proven
     THEN aside' = aside \ {quar[p]} /\ Goto(p, ifDeleted)
     ELSE UNCHANGED aside /\ Goto(p, ifOther)
  /\ UNCHANGED <<file, marker, opened, locals, unsafe, budgets>>

\* ... and put back if not (restoreClaimedMcpLifecycleLockGeneration).  A link
\* never overwrites: where another record has appeared, this one stays aside.
PutBack(p, from, to) ==
  /\ pc[p] = from
  /\ IF Exists("main")
     THEN UNCHANGED <<file, aside>>
     ELSE file' = [file EXCEPT !["main"] = quar[p]] /\ aside' = aside \ {quar[p]}
  /\ Goto(p, to)
  /\ UNCHANGED <<marker, opened, locals, unsafe, budgets>>

\* safelyReleaseMcpLifecycleLock, of the main record: read it, and reclaim it if it
\* carries the token of this process.
ReleaseMain(p, at, to) ==
  \/ Test(p, at[1], file["main"] = obs[p], at[2], to)
  \/ RenameAside(p, at[2], at[3], to)
  \/ DeleteExpected(p, at[3], TRUE, to, at[4])
  \/ PutBack(p, at[4], to)

\* The same of a gate or of containment.  Nobody but its owner ever renames or
\* removes the record of a live process there, so the calls come to one.
Release(p, from, f, to) ==
  /\ pc[p] = from
  /\ IF file[f].owner = p THEN Remove(f) ELSE UNCHANGED file
  /\ Goto(p, to)
  /\ UNCHANGED <<aside, marker, opened, locals, unsafe, budgets>>

\* ensureDurableContainmentForStaleGenerationSync: leave one that is there,
\* otherwise publish one and look at the clock again (Contained).
Contain(p, from, to) ==
  /\ pc[p] = from
  /\ IF Exists("containment")
     THEN Goto(p, to) /\ UNCHANGED <<file, ret>>
     ELSE /\ Publish("containment", p, marker.timer)
          /\ ret' = [ret EXCEPT ![p] = to]
          /\ Goto(p, "contained")
  /\ UNCHANGED <<aside, marker, opened, want, tok, obs, quar, late, unsafe, budgets>>

\* Past its timeout an acquisition takes back the record it published, and a
\* timer that gave up does when it has lost its authority.
Contained(p) ==
  /\ pc[p] = "contained"
  /\ IF late[p] \/ (ret[p] = "gave_up" /\ marker.timer # want[p])
     THEN Remove("containment")
     ELSE UNCHANGED file
  /\ Goto(p, ret[p])
  /\ UNCHANGED <<aside, marker, opened, locals, unsafe, budgets>>

---------------------------------------------------------------------------
(* acquireMcpLifecycleLock.                                                *)

\* The head of the loop: containment, then the timeout; nothing that was
\* read the last time round is kept.
Attempt(p) ==
  /\ pc[p] = "acq"
  /\ obs' = [obs EXCEPT ![p] = NoGen]
  /\ tok' = [tok EXCEPT ![p] = NoTimer]
  /\ quar' = [quar EXCEPT ![p] = NoGen]
  /\ Goto(p, IF Exists("containment") \/ late[p] THEN "exited" ELSE "acq_deadline")
  /\ UNCHANGED <<disk, want, ret, late, unsafe, budgets>>

\* A gate whose owner is gone is contained; a live one is waited for.
Gate(p, from) ==
  IF Stale(obs[p]) /\ ~late[p] THEN Contain(p, from, "acq") ELSE Move(p, from, "acq")

Gates(p) ==
  \/ Read(p, "acq_deadline", "deadline", "acq_reaper", "judge_deadline")
  \/ Gate(p, "judge_deadline")
  \/ Read(p, "acq_reaper", "reaper", "acq_expired", "judge_reaper")
  \/ Gate(p, "judge_reaper")
  \/ Test(p, "acq_expired", Expired, "acq", "pre_deadline")
  \/ Test(p, "pre_deadline", Exists("deadline"), "look", "pre_reaper")
  \/ Test(p, "pre_reaper", Exists("reaper"), "look", "pre_expired")
  \/ Test(p, "pre_expired", Expired, "look", "pre_token")
  \/ ReadToken(p, "pre_token", "link")

\* Mutant: the gates are not looked at again after the link.
EnterUnchecked(p) ==
  \/ late[p] /\ Move(p, "link", "acq")
  \/ ~late[p] /\ Link(p, "link", "main", tok[p], "op", "look")

\* Publish, look at every gate again, and enter only if none has appeared.
Enter(p) ==
  \/ late[p] /\ Move(p, "link", "acq")
  \/ ~late[p] /\ Link(p, "link", "main", tok[p], "post_containment", "look")
  \/ Test(p, "post_containment", Exists("containment"), "drop", "post_deadline")
  \/ Test(p, "post_deadline", Exists("deadline"), "drop", "post_reaper")
  \/ Test(p, "post_reaper", Exists("reaper"), "drop", "post_expired")
  \/ Test(p, "post_expired", Expired, "drop", "post_token")
  \/ Test(p, "post_token", marker.timer # tok[p] \/ late[p], "drop", "op")
  \/ ReleaseMain(p, <<"drop", "drop_rename", "drop_verify", "drop_restore">>, "look")

\* Mutant: an owner is waited for, dead or alive.
LookAndWait(p) == Move(p, "look", "acq")

LookAtOwner(p) ==
  \/ Read(p, "look", "main", "acq", "judge_main")
  \/ Test(p, "judge_main", Stale(obs[p]) /\ ~late[p], "reap", "acq")

---------------------------------------------------------------------------
(* tryReapStaleMainLock.                                                   *)

ReaperGate(p) ==
  \/ Test(p, "reap", Exists("containment"), "acq", "reap_deadline")
  \/ Test(p, "reap_deadline", Exists("deadline"), "acq", "reap_token")
  \/ ReadToken(p, "reap_token", "reap_link")
  \/ late[p] /\ Move(p, "reap_link", "acq")
  \/ ~late[p] /\ Link(p, "reap_link", "reaper", tok[p], "reap_containment", "acq")
  \/ Test(p, "reap_containment", Exists("containment") \/ late[p],
          "rel_reaper", "reap_again")
  \/ Test(p, "reap_again", Exists("deadline"), "rel_reaper", "reap_authority")
  \/ Test(p, "reap_authority", marker.timer # tok[p], "rel_reaper", "reap_read")
  \/ Read(p, "reap_read", "main", "rel_reaper", "reap_judge")
  \/ Test(p, "reap_judge", Stale(obs[p]), "reap_recheck", "rel_reaper")
  \/ Release(p, "rel_reaper", "reaper", "acq")

\* Mutant: a record bound to no timer is reclaimed whatever the marker says.
ReclaimUnbound(p) ==
  /\ pc[p] = "reap_recheck"
  /\ IF marker.timer # tok[p] \/ late[p]
     THEN Move(p, "reap_recheck", "rel_reaper")
     ELSE IF obs[p].bound # NoTimer
     THEN Contain(p, "reap_recheck", "rel_reaper")
     ELSE Move(p, "reap_recheck", "claim")

\* What a shields window covers is contained, anything else reclaimed.
ReclaimOrContain(p) ==
  /\ pc[p] = "reap_recheck"
  /\ IF marker.timer # tok[p] \/ late[p]
     THEN Move(p, "reap_recheck", "rel_reaper")
     ELSE IF obs[p].bound # NoTimer \/ marker.timer # NoTimer
     THEN Contain(p, "reap_recheck", "rel_reaper")
     ELSE Move(p, "reap_recheck", "claim")

\* The reclaim, which the timeout of the acquisition stops before the deletion.
Claim(p) == RenameAside(p, "claim", "claimed", "rel_reaper")
Verify(p) == DeleteExpected(p, "claimed", ~late[p], "rel_reaper", "restore")
Restore(p) == PutBack(p, "restore", "rel_reaper")

---------------------------------------------------------------------------
(* withMcpLifecycleDeadlineFence, of the restore timer and of a command    *)
(* that finds the deadline passed and the timer gone or late.  Both throw  *)
(* when containment has been committed.                                    *)

Authority(p) == marker.timer = want[p]

\* acquireDeadlineFence
TakeFence(p) ==
  \/ Test(p, "fence", Authority(p), "fence_containment", "exited")
  \/ Test(p, "fence_containment", Exists("containment"), "exited", "fence_link")
  \/ Link(p, "fence_link", "deadline", want[p], "fence_authority", "fence_look")
  \/ Test(p, "fence_authority", Authority(p), "clear_reaper", "end_deadline")
  \/ Read(p, "fence_look", "deadline", "fence", "fence_judge")
  \/ IF Stale(obs[p])
     THEN Contain(p, "fence_judge", "fence")
     ELSE Move(p, "fence_judge", "fence")

\* clearDeadlineProtectedPath: wait for a live owner; contain a dead one's
\* record, once it has been read twice, and throw.
Clear(p, f, at, next) ==
  \/ Test(p, at[1], Authority(p), at[2], "end_deadline")
  \/ Read(p, at[2], f, next, at[3])
  \/ Test(p, at[3], Stale(obs[p]), at[4], at[1])
  \/ Test(p, at[4], file[f] = obs[p], at[5], at[1])
  \/ IF Authority(p)
     THEN Contain(p, at[5], "fence_throw")
     ELSE Move(p, at[5], "end_deadline")

ClearGates(p) ==
  \/ Clear(p, "reaper", <<"clear_reaper", "cr_read", "cr_judge", "cr_confirm", "cr_contain">>,
           "clear_main")
  \/ Clear(p, "main", <<"clear_main", "cm_read", "cm_judge", "cm_confirm", "cm_contain">>,
           "pub_authority")

\* publishDeadlineMainOwner, and the last look before the operation.
PublishMain(p) ==
  \/ Test(p, "pub_authority", Authority(p), "pub_link", "end_deadline")
  \/ Link(p, "pub_link", "main", want[p], "fence_enter", "clear_reaper")
  \/ Test(p, "fence_enter", Authority(p), "op", "end_main")

\* onSetupFailure of the timer, its attempts used up: another owner holds the
\* fence or the reaper gate, the fence it met is gone, or its main record could
\* not be published: terminalRecoveryFailure.
GiveUp(p) ==
  /\ \/ pc[p] \in {"fence_judge", "cr_judge"} /\ ~Stale(obs[p])
     \/ pc[p] = "fence_look" /\ ~Exists("deadline")
     \/ pc[p] = "pub_link" /\ Exists("main")
  /\ Authority(p)
  /\ failures < MaxFailures
  /\ failures' = failures + 1
  /\ IF Exists("containment")
     THEN Goto(p, "exited") /\ UNCHANGED <<file, ret>>
     ELSE /\ Publish("containment", p, marker.timer)
          /\ ret' = [ret EXCEPT ![p] = "gave_up"]
          /\ Goto(p, "contained")
  /\ UNCHANGED <<aside, marker, opened, want, tok, obs, quar, late, unsafe, crashes, lates>>

\* A durable failure gives the fence up only while containment stands for it.
Throw(p) ==
  /\ pc[p] \in {"fence_throw", "gave_up"}
  /\ Goto(p, IF Exists("containment") THEN "end_deadline" ELSE "exited")
  /\ UNCHANGED <<disk, locals, unsafe, budgets>>

---------------------------------------------------------------------------
(* The operation under the lock, and its end.                              *)

Covered == marker.timer # NoTimer \/ file["main"].bound # NoTimer

\* Mutant: the marker is written without its deadline.
OpenUndated(p) ==
  /\ pc[p] = "op" /\ want[p] = NoTimer /\ marker = NoMarker
  /\ \E t \in Timers \ opened : marker' = [timer |-> t] /\ opened' = opened \cup {t}
  /\ UNCHANGED <<file, aside, pc, locals, unsafe, budgets>>

\* `shields down' writes the marker of a new window.
OpenWindow(p) ==
  /\ pc[p] = "op" /\ want[p] = NoTimer /\ marker = NoMarker
  /\ \E t \in Timers \ opened :
       marker' = [timer |-> t, expired |-> FALSE] /\ opened' = opened \cup {t}
  /\ UNCHANGED <<file, aside, pc, locals, unsafe, budgets>>

\* `shields up' or a destroy removes it.
CloseWindow(p) ==
  /\ pc[p] = "op" /\ want[p] = NoTimer /\ marker # NoMarker
  /\ marker' = NoMarker
  /\ UNCHANGED <<file, aside, opened, pc, locals, unsafe, budgets>>

\* The command ends; a recovery ends with its window closed.
EndOp(p) ==
  /\ pc[p] = "op"
  /\ marker' = IF want[p] = NoTimer THEN marker ELSE NoMarker
  /\ Goto(p, "end_main")
  /\ UNCHANGED <<file, aside, opened, locals, unsafe, budgets>>

Leave(p) ==
  \/ ReleaseMain(p, <<"end_main", "end_rename", "end_verify", "end_restore">>,
                 IF want[p] = NoTimer THEN "exited" ELSE "end_deadline")
  \/ Release(p, "end_deadline", "deadline", "exited")

\* A restore fails for good (retainOwnedLifecycleGateAfterFailure).  With
\* containment committed the records are released; without it they stay
\* behind, but for an owner bound to no window: the expired marker remains.
FailRestore(p) ==
  /\ pc[p] = "op" /\ Expired
  /\ failures < MaxFailures
  /\ failures' = failures + 1
  /\ \/ /\ IF Exists("containment")
           THEN UNCHANGED file
           ELSE Publish("containment", p, marker.timer)
        /\ unsafe' = TRUE
        /\ Goto(p, "end_main")
     \/ /\ file["main"].bound # NoTimer
        /\ unsafe' = TRUE
        /\ Goto(p, "exited")
        /\ UNCHANGED file
     \/ /\ file["main"].bound = NoTimer
        /\ Goto(p, "end_main")
        /\ UNCHANGED <<file, unsafe>>
  /\ UNCHANGED <<aside, marker, opened, locals, crashes, lates>>

---------------------------------------------------------------------------
(* The environment.                                                        *)

Start(p) ==
  /\ pc[p] = "off"
  /\ Goto(p, "acq")
  /\ UNCHANGED <<disk, locals, unsafe, budgets>>

StartFence(p) ==
  /\ pc[p] = "off" /\ Expired
  /\ want' = [want EXCEPT ![p] = marker.timer]
  /\ Goto(p, "fence")
  /\ UNCHANGED <<disk, tok, obs, quar, ret, late, unsafe, budgets>>

Crash(p) ==
  /\ pc[p] \notin Over \cup {"off"}
  /\ crashes < MaxCrashes
  /\ crashes' = crashes + 1
  /\ unsafe' = (unsafe \/ (pc[p] = "op" /\ Covered))
  /\ Goto(p, "crashed")
  /\ UNCHANGED <<disk, locals, lates, failures>>

BecomeLate(p) ==
  /\ pc[p] \notin Over \cup {"off", "op", "end_main", "end_rename", "end_verify", "end_restore"}
  /\ want[p] = NoTimer /\ ~late[p]
  /\ lates < MaxLate
  /\ lates' = lates + 1
  /\ late' = [late EXCEPT ![p] = TRUE]
  /\ UNCHANGED <<disk, pc, want, tok, obs, quar, ret, unsafe, crashes, failures>>

Expire ==
  /\ marker # NoMarker /\ ~Expired
  /\ marker' = [marker EXCEPT !.expired = TRUE]
  /\ UNCHANGED <<file, aside, opened, pc, locals, unsafe, budgets>>

\* The operator stops every process and removes the records, containment last.
Operator ==
  /\ Exists("containment")
  /\ \A p \in Procs : pc[p] \in Over \cup {"off"}
  /\ file' = [f \in Paths |-> NoGen]
  /\ unsafe' = FALSE
  /\ UNCHANGED <<aside, marker, opened, pc, locals, budgets>>

\* What a process does of itself; each loop is one that polls.
Step(p) ==
  \/ Attempt(p) \/ Gates(p) \/ Enter(p) \/ LookAtOwner(p)
  \/ ReaperGate(p) \/ ReclaimOrContain(p) \/ Claim(p) \/ Verify(p) \/ Restore(p)
  \/ Contained(p)
  \/ TakeFence(p) \/ ClearGates(p) \/ PublishMain(p) \/ Throw(p)
  \/ EndOp(p) \/ Leave(p)

Next ==
  \/ \E p \in Procs :
       \/ Step(p) \/ GiveUp(p)
       \/ OpenWindow(p) \/ CloseWindow(p) \/ FailRestore(p)
       \/ Start(p) \/ StartFence(p) \/ Crash(p) \/ BecomeLate(p)
  \/ Expire \/ Operator

Spec == Init /\ [][Next]_vars

\* The scheduler runs every process, and every operation ends.
FairSpec == Spec /\ \A p \in Procs : WF_vars(Step(p))

---------------------------------------------------------------------------
(* Properties.                                                             *)

Labels ==
  {"off", "acq", "acq_deadline", "judge_deadline", "acq_reaper", "judge_reaper",
   "acq_expired", "pre_deadline", "pre_reaper", "pre_expired", "pre_token", "link",
   "post_containment", "post_deadline", "post_reaper", "post_expired", "post_token",
   "drop", "drop_rename", "drop_verify", "drop_restore", "look", "judge_main",
   "reap", "reap_deadline", "reap_token", "reap_link",
   "reap_containment", "reap_again", "reap_authority", "reap_read", "reap_judge",
   "rel_reaper", "reap_recheck", "claim", "claimed", "restore", "contained",
   "fence", "fence_containment", "fence_link", "fence_authority", "fence_look",
   "fence_judge", "clear_reaper", "cr_read", "cr_judge", "cr_confirm", "cr_contain",
   "clear_main", "cm_read", "cm_judge", "cm_confirm", "cm_contain", "pub_authority",
   "pub_link", "fence_enter", "fence_throw", "gave_up", "op", "end_main",
   "end_rename", "end_verify", "end_restore", "end_deadline", "exited", "crashed"}

\* Every variable has the type its declaration says.
TypeOK ==
  /\ file \in [Paths -> Gen \cup {NoGen}] /\ aside \subseteq Gen
  /\ marker \in Marker /\ opened \subseteq Timers
  /\ pc \in [Procs -> Labels]
  /\ want \in [Procs -> Timers \cup {NoTimer}] /\ tok \in [Procs -> Timers \cup {NoTimer}]
  /\ obs \in [Procs -> Gen \cup {NoGen}] /\ quar \in [Procs -> Gen \cup {NoGen}]
  /\ ret \in [Procs -> Labels] /\ late \in [Procs -> BOOLEAN]
  /\ unsafe \in BOOLEAN
  /\ crashes \in 0..MaxCrashes /\ lates \in 0..MaxLate /\ failures \in 0..MaxFailures

\* Whoever runs an operation owns the record at the main path, or its record lies
\* set aside by a reclaim that met another one there: nobody's record is deleted
\* but by its owner, or by a reaper when the owner has died, whatever is reaped,
\* fenced or restored in between.
HolderOwnsMain ==
  \A p \in Procs :
    pc[p] = "op" => file["main"].owner = p \/ \E g \in aside : g.owner = p

\* A reaper about to rename the main record never faces that of an operation that
\* runs: the look at the gates after the link, and the reaper's look at the fence
\* after its own, leave only records whose owner has still to enter.
ReaperSparesHolder ==
  \A p, q \in Procs : pc[p] = "op" /\ pc[q] = "claim" => file["main"].owner # p

\* No two processes run an operation at once ("Serializes the complete MCP
\* lifecycle for one sandbox across processes", of withMcpLifecycleLock).
Serialized ==
  \A p, q \in Procs : pc[p] = "op" /\ pc[q] = "op" => p = q

\* After an operation covered by a shields window died, or a restore failed for
\* good, no command runs an operation until an operator has looked: the reaper
\* never frees what it cannot prove stopped, and nobody undoes the containment.
\* (A second failing recovery and a fourth process can: see the README.)
FailClosed ==
  unsafe => \A p \in Procs : pc[p] = "op" => want[p] # NoTimer

Holder == IF \E p \in Procs : pc[p] = "op" THEN CHOOSE p \in Procs : pc[p] = "op" ELSE Nobody

Lock == INSTANCE LifecycleLock WITH
  holder <- Holder,
  recovering <- Holder # Nobody /\ want[Holder] # NoTimer,
  bound <- IF Holder = Nobody THEN NoTimer ELSE file["main"].bound,
  window <- marker.timer,
  expired <- Expired,
  condemned <- unsafe

\* The protocol of links, renames, reapers and fences implements the lock that
\* its callers count on: one operation at a time; each begins under a record
\* bound to the window then in force, so that whoever finds the record knows
\* whether a window covered it; and none on a sandbox that is condemned.
ImplementsLock == Lock!Spec

\* A process does not wait for ever: a recovery gets to restore or its process ends,
\* and a command gets its turn or an error unless a deadline passes first.
NotStuck(p) ==
  (pc[p] \in {"acq", "fence"})
    ~> (pc[p] \in Over \cup {"op"} \/ (want[p] = NoTimer /\ Expired))
=============================================================================
