------------------------------ MODULE Shields ------------------------------
(***************************************************************************)
(* `shields down', `shields up', the detached restore timer and the inline *)
(* recovery of shields/index.ts and shields/timer.ts, for one sandbox.     *)
(*                                                                         *)
(* `shields down' opens a window: it forks a timer, writes the marker that *)
(* gives the timer its authority, and only then weakens the sandbox.  At   *)
(* the deadline the timer, or a command that finds the timer gone or late, *)
(* restores the policy and the lock and removes the marker.                *)
(*                                                                         *)
(* Commands and recoveries exclude one another by the lifecycle lock, which*)
(* stands here for what McpLifecycleLock shows of it: one holder; ordinary *)
(* commands stay out past the deadline; a dead holder's lock is reclaimed  *)
(* when no window covered it, and contained otherwise.  A step is one      *)
(* write of a file or one change of the sandbox; each may fail, and a push *)
(* of the policy that reports failure may have taken effect all the same.  *)
(***************************************************************************)
EXTENDS Naturals

CONSTANTS MaxWindows,    \* windows opened
          MaxAttempts,   \* AUTO_RESTORE_MAX_ATTEMPTS and its inline twin
          MaxFaults,     \* failures, kills and reboots
          OpenClaw       \* whether the agent is OpenClaw

ASSUME BoundsAssumption ==
  MaxWindows \in Nat /\ MaxAttempts \in Nat \ {0} /\ MaxFaults \in Nat /\ OpenClaw \in BOOLEAN

VARIABLES policy,                \* "stray": relaxed by a push that reported failure
          config,                \* "default": mutable, as it was created
          sfile, named,          \* the state file: shieldsDown, or not said; the
                                 \* window whose snapshot it names
          snapshot,              \* the policy as each window found it
          marker, expired,       \* the window in force, and whether it is over
          trans,                 \* the transition file of each window
          lock, bound,           \* the lifecycle lock; its owner's window
          containment,
          cmd, kind, mode0, win, \* the command under the lock
          timers,                \* windows whose timer process lives
          rpc, igen, attempts,   \* the recoveries
          faults

sandbox == <<policy, config>>
state == <<sfile, named, snapshot>>
timer == <<marker, expired>>
files == <<state, timer, trans>>
gate == <<lock, bound, containment>>
command == <<cmd, kind, mode0, win>>
recovery == <<timers, rpc, igen, attempts>>
vars == <<sandbox, files, gate, command, recovery, faults>>

Windows == 1..MaxWindows
Inline == 0                      \* the recovery that a command runs
Recoveries == Windows \cup {Inline}

Init ==
  /\ policy = "restrictive"
  /\ \/ sfile = "none" /\ config = "default"
     \/ sfile = "up" /\ config = "locked"
  /\ named = 0
  /\ snapshot = [w \in Windows |-> "restrictive"]
  /\ marker = 0 /\ expired = FALSE
  /\ trans = [w \in Windows |-> "none"]
  /\ lock = "free" /\ bound = FALSE /\ containment = FALSE
  /\ cmd = "idle" /\ kind = "down" /\ mode0 = "none" /\ win = 0
  /\ timers = {}
  /\ rpc = [r \in Recoveries |-> "idle"] /\ igen = 0
  /\ attempts = [r \in Recoveries |-> 0]
  /\ faults = 0

---------------------------------------------------------------------------
(* Forms of a step.                                                        *)

Over == marker # 0 /\ expired

\* The step fails.
Fault == faults < MaxFaults /\ faults' = faults + 1
NoFault == UNCHANGED faults

\* clearTimerMarker, and killTimer, which never signals the process.
DropMarker == marker' = 0 /\ expired' = FALSE

\* The same where the code goes on when it fails.
TryDropMarker == (DropMarker /\ NoFault) \/ (UNCHANGED timer /\ Fault)

SetTrans(w, phase) == trans' = [trans EXCEPT ![w] = phase]

\* clearShieldsDownTransition, which goes on when it fails.
TryClearTrans(w) == (SetTrans(w, "none") /\ NoFault) \/ (UNCHANGED trans /\ Fault)

\* saveShieldsState; the snapshot it names is kept.
Save(mode) == sfile' = mode /\ UNCHANGED <<named, snapshot>>

\* The command ends and releases the lock.
Done == cmd' = "idle" /\ lock' = "free" /\ UNCHANGED <<bound, containment>>

GoOn(l) == cmd' = l /\ UNCHANGED gate

---------------------------------------------------------------------------
(* The lifecycle lock, as acquireMcpLifecycleLock gives and refuses it.    *)

Acquire(k, l) ==
  /\ cmd = "idle" /\ lock = "free" /\ ~containment /\ ~Over
  /\ lock' = "command" /\ bound' = (marker # 0)
  /\ cmd' = l /\ kind' = k /\ mode0' = sfile
  /\ UNCHANGED <<sandbox, files, containment, win, recovery, faults>>

\* A command that waits finds that the owner has died.
FindDead ==
  /\ \/ lock = "dead_command" /\ ~Over
     \/ lock = "dead_recovery"
  /\ ~containment
  /\ IF bound \/ marker # 0
     THEN containment' = TRUE /\ UNCHANGED lock
     ELSE lock' = "free" /\ UNCHANGED containment
  /\ UNCHANGED <<sandbox, files, bound, command, recovery, faults>>

\* The operator stops every process and removes the lock records, containment
\* last, as the error text tells him to.
Operator ==
  /\ containment
  /\ containment' = FALSE /\ lock' = "free"
  /\ cmd' = "idle"
  /\ timers' = {} /\ rpc' = [r \in Recoveries |-> "idle"]
  /\ UNCHANGED <<sandbox, files, bound, kind, mode0, win, igen, attempts, faults>>

---------------------------------------------------------------------------
(* shieldsDownWithoutHostLock.                                             *)

\* A rebuild opens a window and closes it under the same lock.
StartDown(k) ==
  sfile # "down" /\ win < MaxWindows /\ Acquire(k, "d_kill")

\* A marker that was left is revoked and the policy captured.  Then the recovery
\* authority: transition file, timer, marker.
Arm ==
  \/ /\ cmd = "d_kill"
     /\ \/ /\ DropMarker /\ NoFault
           /\ win' = win + 1 /\ snapshot' = [snapshot EXCEPT ![win + 1] = policy]
           /\ GoOn("d_trans")
        \/ UNCHANGED <<timer, win, snapshot>> /\ Fault /\ Done
     /\ UNCHANGED <<sfile, named, trans, timers>>
  \/ /\ cmd = "d_trans"
     /\ SetTrans(win, "preparing")
     /\ GoOn("d_fork") /\ NoFault
     /\ UNCHANGED <<state, timer, win, timers>>
  \/ /\ cmd = "d_fork"
     /\ timers' = timers \cup {win}
     /\ GoOn("d_marker") /\ NoFault
     /\ UNCHANGED <<files, win>>
  \/ /\ cmd = "d_marker"
     /\ marker' = win /\ expired' = FALSE
     /\ GoOn("d_auth") /\ NoFault
     /\ UNCHANGED <<state, trans, win, timers>>
  \/ /\ cmd = "d_auth"
     /\ GoOn("d_save") /\ NoFault
     /\ UNCHANGED <<files, win, timers>>
  \/ /\ cmd \in {"d_trans", "d_fork", "d_marker", "d_auth"}
     /\ Fault /\ GoOn("d_revoke")
     /\ UNCHANGED <<files, win, timers>>

\* No timer: marker and transition file go again.
Disarm ==
  \/ /\ cmd = "d_revoke"
     /\ TryDropMarker
     /\ GoOn("d_forget")
     /\ UNCHANGED <<state, trans>>
  \/ /\ cmd = "d_forget"
     /\ TryClearTrans(win)
     /\ Done
     /\ UNCHANGED <<state, timer>>

\* The state file, the policy, the configuration, and the handover.
Weaken ==
  \/ /\ cmd = "d_save"
     /\ \/ sfile' = "down" /\ named' = win /\ NoFault /\ GoOn("d_policy")
        \/ UNCHANGED <<sfile, named>> /\ Fault /\ GoOn("d_clear")
     /\ UNCHANGED <<sandbox, snapshot, timer, trans>>
  \/ /\ cmd = "d_policy"
     /\ \/ policy' = "permissive" /\ NoFault /\ GoOn("d_unlock")
        \/ policy' \in {policy, "stray"} /\ Fault /\ GoOn("d_refused")
     /\ UNCHANGED <<config, files>>
  \/ /\ cmd = "d_unlock"
     /\ \/ config' = "unlocked" /\ NoFault /\ GoOn("d_active")
        \/ config' \in {config, "unlocked"} /\ Fault /\ GoOn("b_policy")
     /\ UNCHANGED <<policy, files>>
  \/ /\ cmd = "d_active"
     /\ \/ /\ SetTrans(win, "active") /\ NoFault
           /\ IF kind = "rebuild" THEN GoOn("u_check") ELSE Done
        \/ trans' = trans /\ Fault /\ GoOn("b_policy")
     /\ UNCHANGED <<sandbox, state, timer>>

\* OpenShell has not confirmed the policy: the state goes back to UP.  When that
\* cannot be written the transition file says it instead, if it can.
Refused ==
  \/ /\ cmd = "d_refused"
     /\ \/ /\ sfile' = "up" /\ named' = 0
           /\ NoFault /\ GoOn("d_clear")
           /\ UNCHANGED trans
        \/ /\ SetTrans(win, "rejected") \/ UNCHANGED trans
           /\ Fault /\ Done
           /\ UNCHANGED <<sfile, named>>
     /\ UNCHANGED <<sandbox, snapshot, timer>>
  \/ /\ cmd = "d_clear"
     /\ TryClearTrans(win) /\ GoOn("d_cancel")
     /\ UNCHANGED <<sandbox, state, timer>>
  \/ /\ cmd = "d_cancel"
     /\ TryDropMarker /\ Done
     /\ UNCHANGED <<sandbox, state, trans>>

\* rollbackShieldsDown: the mutable default of a sandbox that had no lockdown
\* (OpenClaw only), otherwise lockdown, otherwise the window stays.
Rollback ==
  \/ /\ cmd = "b_policy"
     /\ \/ /\ policy' = snapshot[win] /\ NoFault
           /\ GoOn(IF mode0 = "none" /\ OpenClaw THEN "b_default" ELSE "b_lock")
        \/ policy' \in {policy, snapshot[win]} /\ Fault /\ GoOn("b_trans")
     /\ UNCHANGED <<config, files>>
  \/ /\ cmd = "b_default"
     /\ \/ config' = "default" /\ NoFault /\ GoOn("b_cancel")
        \/ config' \in {config, "default"} /\ Fault /\ GoOn("b_lock")
     /\ UNCHANGED <<policy, files>>
  \/ /\ cmd = "b_cancel"
     /\ DropMarker /\ NoFault /\ GoOn("b_state")
     /\ UNCHANGED <<sandbox, state, trans>>
  \/ /\ cmd = "b_state"
     /\ sfile' = mode0 /\ named' = 0 /\ NoFault /\ GoOn("b_trans")
     /\ UNCHANGED <<sandbox, snapshot, timer, trans>>
  \/ /\ cmd \in {"b_cancel", "b_state"}
     /\ Fault /\ GoOn("b_lock")
     /\ UNCHANGED <<sandbox, files>>
  \/ /\ cmd = "b_lock"
     /\ \/ config' = "locked" /\ NoFault /\ GoOn("b_save")
        \/ config' \in {config, "locked"} /\ Fault /\ GoOn("b_trans")
     /\ UNCHANGED <<policy, files>>
  \/ /\ cmd = "b_save"
     /\ \/ Save("up") /\ NoFault /\ GoOn("b_trans")
        \/ Save(sfile) /\ Fault /\ Done
     /\ UNCHANGED <<sandbox, timer, trans>>
  \/ /\ cmd = "b_trans"
     /\ TryClearTrans(win) /\ Done
     /\ UNCHANGED <<sandbox, state, timer>>

---------------------------------------------------------------------------
(* shieldsUpWithoutHostLock.                                               *)

StartUp == Acquire("up", "u_check")

\* Mutant: the marker goes before the sandbox is hardened.
UpRevokesFirst ==
  /\ cmd = "u_check" /\ sfile = "down"
  /\ DropMarker /\ NoFault /\ GoOn("u_policy")
  /\ UNCHANGED <<sandbox, state, trans>>

\* In lockdown already: verify the configuration, put right what has drifted
\* unless its seal is missing or broken, and drop a marker that was left.
\* Otherwise restore the policy, which takes the snapshot, lock and save.
Up ==
  \/ /\ cmd = "u_check" /\ sfile = "up"
     /\ \/ config = "locked" /\ TryDropMarker /\ Done
        \/ config # "locked" /\ UNCHANGED timer /\ NoFault /\ GoOn("u_relock")
        \/ UNCHANGED timer /\ NoFault /\ Done
     /\ UNCHANGED <<sandbox, state, trans>>
  \/ /\ cmd = "u_relock"
     /\ \/ config' = "locked" /\ DropMarker /\ NoFault /\ Done
        \/ config' \in {config, "locked"} /\ Fault /\ Done /\ UNCHANGED timer
     /\ UNCHANGED <<policy, state, trans>>
  \/ /\ cmd = "u_check" /\ sfile # "up"
     /\ \/ sfile = "none" /\ GoOn("u_lock")
        \/ sfile = "down" /\ named # 0 /\ GoOn("u_policy")
        \/ sfile = "down" /\ named = 0 /\ Done
     /\ NoFault
     /\ UNCHANGED <<sandbox, files>>
  \/ /\ cmd = "u_policy"
     /\ \/ policy' = snapshot[named] /\ NoFault /\ GoOn("u_lock")
        \/ policy' \in {policy, snapshot[named]} /\ Fault /\ Done
     /\ UNCHANGED <<config, files>>
  \/ /\ cmd = "u_lock"
     /\ \/ config' = "locked" /\ NoFault /\ GoOn("u_save")
        \/ config' \in {config, "locked"} /\ Fault /\ Done
     /\ UNCHANGED <<policy, files>>
  \/ /\ cmd = "u_save"
     /\ \/ Save("up") /\ NoFault /\ GoOn("u_kill")
        \/ Save(sfile) /\ Fault /\ Done
     /\ UNCHANGED <<sandbox, timer, trans>>
  \/ /\ cmd = "u_kill"
     /\ TryDropMarker
     /\ IF marker = 0 THEN Done ELSE GoOn("u_trans")
     /\ UNCHANGED <<sandbox, state, trans>>
  \/ /\ cmd = "u_trans"
     /\ TryClearTrans(win) /\ Done
     /\ UNCHANGED <<sandbox, state, timer>>

---------------------------------------------------------------------------
(* The restore: runRestoreTimerWithBudget in the timer of a window, and    *)
(* retryInlineAutoRestore in a command.                                    *)

Gen(r) == IF r = Inline THEN igen ELSE r

Goto(r, l) == rpc' = [rpc EXCEPT ![r] = l]

\* The recovery is over; a timer process exits with it.
Finish(r) == Goto(r, "idle") /\ timers' = timers \ {r}

Proceed(r, l) == Goto(r, l) /\ UNCHANGED <<gate, timers>>

\* The parent publishes the marker before it authorises the child.
Authorised(w) == ~(cmd \in {"d_marker", "d_auth"} /\ win = w)

\* The timer's authority poll.
TimerExits(w) ==
  /\ w \in timers /\ rpc[w] = "idle" /\ marker # w /\ Authorised(w)
  /\ timers' = timers \ {w}
  /\ UNCHANGED <<sandbox, files, gate, command, rpc, igen, attempts, faults>>

Wake(w) ==
  /\ w \in timers /\ rpc[w] = "idle" /\ Over /\ marker = w /\ Authorised(w)
  /\ Goto(w, "wait")
  /\ UNCHANGED <<sandbox, files, gate, command, timers, igen, attempts, faults>>

\* Mutant: the window of a timer that is gone is left alone.
StartInlineIfLate ==
  /\ rpc[Inline] = "idle" /\ sfile = "down" /\ Over /\ marker \in timers /\ ~containment
  /\ Goto(Inline, "wait") /\ igen' = marker
  /\ attempts' = [attempts EXCEPT ![Inline] = 0]
  /\ UNCHANGED <<sandbox, files, gate, command, timers, faults>>

\* inspectExpiredAutoRestoreMarker: the timer is gone, or late.
StartInline ==
  /\ rpc[Inline] = "idle" /\ sfile = "down" /\ Over /\ ~containment
  /\ Goto(Inline, "wait") /\ igen' = marker
  /\ attempts' = [attempts EXCEPT ![Inline] = 0]
  /\ UNCHANGED <<sandbox, files, gate, command, timers, faults>>

\* Mutant: who has waited for the lock does not look at the marker again.
FenceUnchecked(r) ==
  /\ rpc[r] = "wait" /\ lock = "free" /\ ~containment
  /\ lock' = "recovery" /\ bound' = TRUE /\ Goto(r, "prepare")
  /\ UNCHANGED <<sandbox, files, containment, command, timers, igen, attempts, faults>>

\* withMcpLifecycleDeadlineFence
Fence(r) ==
  /\ rpc[r] = "wait"
  /\ \/ (marker # Gen(r) \/ containment) /\ Finish(r) /\ UNCHANGED gate
     \/ /\ marker = Gen(r) /\ ~containment /\ lock = "free"
        /\ lock' = "recovery" /\ bound' = TRUE /\ Goto(r, "prepare")
        /\ UNCHANGED <<containment, timers>>
     \/ /\ marker = Gen(r) /\ ~containment /\ lock \in {"dead_command", "dead_recovery"}
        /\ containment' = TRUE /\ Finish(r)
        /\ UNCHANGED <<lock, bound>>
  /\ UNCHANGED <<sandbox, files, command, igen, attempts, faults>>

\* terminalRecoveryFailure, failInteractiveAutoRestoreClosed and
\* persistUnresolvedShieldsContainment
ContainAndFinish(r) ==
  containment' = TRUE /\ lock' = "free" /\ UNCHANGED bound /\ Finish(r)

\* prepareAutoRestoreTransitionTakeover: nobody else runs, so the owner of a
\* transition that is still being prepared is gone.
Prepare(r) ==
  /\ rpc[r] = "prepare"
  /\ attempts' = [attempts EXCEPT ![r] = @ + 1]
  /\ IF trans[Gen(r)] = "preparing" THEN ContainAndFinish(r) ELSE Proceed(r, "policy")
  /\ UNCHANGED <<sandbox, files, command, igen, faults>>

\* Mutant: the state says UP whether or not the lock could be verified.
HardenUnverified(r) ==
  \/ /\ rpc[r] = "policy"
     /\ policy' = snapshot[Gen(r)] /\ NoFault /\ Proceed(r, "lock")
     /\ UNCHANGED <<config, files>>
  \/ /\ rpc[r] = "lock"
     /\ \/ config' = "locked" /\ NoFault
        \/ config' = config /\ Fault
     /\ Save("up") /\ Proceed(r, "save")
     /\ UNCHANGED <<policy, timer, trans>>

\* Policy, lock, state, transition, marker.  An inline recovery leaves the work
\* to a timer that lives; a timer that cannot verify the lock says DOWN, and one
\* that cannot remove its marker tries everything again.
Harden(r) ==
  \/ /\ rpc[r] = "policy"
     /\ \/ /\ ~(r = Inline /\ igen \in timers)
           /\ policy' = snapshot[Gen(r)] /\ NoFault /\ Proceed(r, "lock")
        \/ r = Inline /\ igen \in timers /\ policy' = policy /\ NoFault /\ Proceed(r, "retry")
        \/ policy' \in {policy, snapshot[Gen(r)]} /\ Fault /\ Proceed(r, "retry")
     /\ UNCHANGED <<config, files>>
  \/ /\ rpc[r] = "lock"
     /\ \/ config' = "locked" /\ NoFault /\ Proceed(r, "save") /\ Save(sfile)
        \/ /\ config' \in {config, "locked"} /\ Fault /\ Proceed(r, "retry")
           /\ Save(IF r = Inline THEN sfile ELSE "down")
     /\ UNCHANGED <<policy, timer, trans>>
  \/ /\ rpc[r] = "save"
     /\ \/ Save("up") /\ NoFault /\ Proceed(r, "trans")
        \/ Save(sfile) /\ Fault /\ Proceed(r, "retry")
     /\ UNCHANGED <<sandbox, timer, trans>>
  \/ /\ rpc[r] = "trans"
     /\ TryClearTrans(Gen(r)) /\ Proceed(r, "marker")
     /\ UNCHANGED <<sandbox, state, timer>>
  \/ /\ rpc[r] = "marker"
     /\ \/ /\ (DropMarker /\ NoFault) \/ (r = Inline /\ UNCHANGED timer /\ Fault)
           /\ lock' = "free" /\ UNCHANGED <<bound, containment>> /\ Finish(r)
        \/ r # Inline /\ UNCHANGED timer /\ Fault /\ Proceed(r, "retry")
     /\ UNCHANGED <<sandbox, state, trans>>

\* Mutant: the attempts are not held against the budget.
RetryForever(r) ==
  /\ rpc[r] = "retry" /\ Proceed(r, "prepare")
  /\ UNCHANGED <<sandbox, files, command, igen, attempts, faults>>

\* Mutant: with the attempts used up the timer sits on the lock.
RetryOrSit(r) ==
  /\ rpc[r] = "retry" /\ attempts[r] < MaxAttempts /\ Proceed(r, "prepare")
  /\ UNCHANGED <<sandbox, files, command, igen, attempts, faults>>

\* The attempt failed: another one, or containment when they are used up.
Retry(r) ==
  /\ rpc[r] = "retry"
  /\ IF attempts[r] < MaxAttempts THEN Proceed(r, "prepare") ELSE ContainAndFinish(r)
  /\ UNCHANGED <<sandbox, files, command, igen, attempts, faults>>

---------------------------------------------------------------------------
(* The environment.                                                        *)

Expire ==
  /\ marker # 0 /\ ~expired
  /\ expired' = TRUE
  /\ UNCHANGED <<sandbox, state, marker, trans, gate, command, recovery, faults>>

\* Locked by someone who is killed.
Held(r) == rpc[r] \notin {"idle", "wait"}

KillCommand ==
  /\ cmd # "idle" /\ Fault
  /\ cmd' = "idle" /\ lock' = "dead_command"
  /\ UNCHANGED <<sandbox, files, bound, containment, kind, mode0, win, recovery>>

KillRecovery(r) ==
  /\ (IF r = Inline THEN rpc[r] # "idle" ELSE r \in timers) /\ Fault
  /\ lock' = IF Held(r) THEN "dead_recovery" ELSE lock
  /\ Finish(r)
  /\ UNCHANGED <<sandbox, files, bound, containment, command, igen, attempts>>

Reboot ==
  /\ Fault
  /\ cmd' = "idle" /\ timers' = {} /\ rpc' = [r \in Recoveries |-> "idle"]
  /\ lock' = CASE lock = "command" -> "dead_command"
               [] lock = "recovery" -> "dead_recovery"
               [] OTHER -> lock
  /\ UNCHANGED <<sandbox, files, bound, containment, kind, mode0, win, igen, attempts>>

CommandStep ==
  \/ Arm /\ UNCHANGED <<sandbox, kind, mode0, rpc, igen, attempts>>
  \/ Disarm /\ UNCHANGED <<sandbox, kind, mode0, win, recovery>>
  \/ (Weaken \/ Refused \/ Rollback \/ Up) /\ UNCHANGED <<kind, mode0, win, recovery>>

RecoveryStep(r) ==
  \/ Fence(r) \/ Prepare(r) \/ Retry(r)
  \/ Harden(r) /\ UNCHANGED <<command, igen, attempts>>

Next ==
  \/ StartDown("down") \/ StartDown("rebuild") \/ StartUp \/ StartInline
  \/ CommandStep
  \/ \E r \in Recoveries : RecoveryStep(r) \/ KillRecovery(r)
  \/ \E w \in Windows : TimerExits(w) \/ Wake(w)
  \/ FindDead \/ Operator \/ Expire \/ KillCommand \/ Reboot

Spec == Init /\ [][Next]_vars

\* A command and a recovery that run go on, and a timer wakes.
FairSpec ==
  /\ Spec
  /\ WF_vars(CommandStep)
  /\ \A r \in Recoveries : WF_vars(RecoveryStep(r))
  /\ \A w \in Windows : WF_vars(TimerExits(w)) /\ WF_vars(Wake(w))

\* And the user tries again, and the operator follows the error text.
RetrySpec ==
  FairSpec /\ WF_vars(StartUp \/ StartInline) /\ WF_vars(FindDead) /\ WF_vars(Operator)

---------------------------------------------------------------------------
(* Properties.                                                             *)

CommandLabels ==
  {"idle", "d_kill", "d_trans", "d_fork", "d_marker", "d_auth", "d_revoke", "d_forget",
   "d_save", "d_policy", "d_unlock", "d_active", "d_refused", "d_clear", "d_cancel",
   "b_policy", "b_default", "b_cancel", "b_state", "b_lock", "b_save", "b_trans",
   "u_check", "u_relock", "u_policy", "u_lock", "u_save", "u_kill", "u_trans"}
RecoveryLabels ==
  {"idle", "wait", "prepare", "policy", "lock", "save", "trans", "marker", "retry"}

Policies == {"restrictive", "permissive", "stray"}

\* Every variable has its type.
TypeOK ==
  /\ policy \in Policies /\ config \in {"locked", "unlocked", "default"}
  /\ snapshot \in [Windows -> Policies] /\ named \in 0..MaxWindows
  /\ sfile \in {"none", "up", "down"} /\ mode0 \in {"none", "up", "down"}
  /\ marker \in 0..MaxWindows /\ igen \in 0..MaxWindows /\ win \in 0..MaxWindows
  /\ trans \in [Windows -> {"none", "preparing", "active", "rejected"}]
  /\ lock \in {"free", "command", "recovery", "dead_command", "dead_recovery"}
  /\ expired \in BOOLEAN /\ bound \in BOOLEAN /\ containment \in BOOLEAN
  /\ cmd \in CommandLabels /\ kind \in {"down", "rebuild", "up"}
  /\ timers \subseteq Windows
  /\ rpc \in [Recoveries -> RecoveryLabels]
  /\ attempts \in [Recoveries -> 0..MaxAttempts]
  /\ faults \in 0..MaxFaults

\* "A crash can therefore never leave an untracked mutable window": while a policy
\* that `shields down' has relaxed is in force the state file says DOWN and the
\* marker of a deadline exists, whatever was killed, refused, rolled back or
\* rebooted on the way.  A push that took effect and reported failure is not
\* tracked ("stray"): see the README.
NoUntrackedWindow ==
  policy = "permissive" => sfile = "down" /\ marker # 0

\* When the state file says UP, what a window relaxed has been put back as the
\* window found it and the configuration is locked; but for the mutable default
\* of a sandbox that never was in lockdown, whose window was refused.
UpIsHardened ==
  sfile = "up" => policy # "permissive" /\ config # "unlocked"

\* A recovery changes the sandbox or its files only while its own window is in
\* force: a timer that waited through a manual `shields up' and the next
\* `shields down' does not cut the new window short.
OnlyOwnWindow ==
  [][\A r \in Recoveries :
       Held(r) /\ rpc'[r] # rpc[r] /\ <<sandbox, files>>' # <<sandbox, files>>
         => marker = Gen(r)]_vars

\* A window whose timer lives is closed after its deadline, or contained, once
\* nothing fails and nobody is killed any more: the timer never gives up of itself.
DeadlineHonoured ==
  \A w \in Windows :
    (Over /\ marker = w /\ w \in timers /\ faults = MaxFaults) ~> (marker # w \/ containment)

\* The opening was cut short before the handover: each recovery contains it again.
OpeningCut(w) == trans[w] = "preparing"

\* The window was cut short before the state file said DOWN, or closed and cut
\* short before the marker went, and whoever was at work on it is gone.  The marker
\* keeps every command out, `shields up' included, and no recovery looks at a
\* window whose state is not DOWN: this one stays until the marker is removed by
\* hand.
Stranded(w) ==
  sfile # "down" /\ w \notin timers /\ lock \notin {"command", "recovery"}

\* "... before retrying": once the operator has done what the error text says,
\* trying again closes a window that is over; but for the two kinds above.
ExpiredWindowEnds ==
  \A w \in Windows : (Over /\ marker = w) ~> (marker # w \/ OpeningCut(w) \/ Stranded(w))
=============================================================================
