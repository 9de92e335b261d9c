--------------------------- MODULE ShieldsProofs ---------------------------
(***************************************************************************)
(* The safety of the shields, for any number of windows, attempts and      *)
(* faults, and for either kind of agent: every failure, kill and reboot of *)
(* the model is allowed.                                                   *)
(***************************************************************************)
EXTENDS Shields, TLAPS

---------------------------------------------------------------------------
(* The inductive invariant.                                                *)

\* The lifecycle lock has one holder: the command, or one recovery, whose own
\* window is in force.
Exclusion ==
  /\ cmd # "idle" => lock = "command"
  /\ \A r \in Recoveries : Held(r) => lock = "recovery" /\ marker = Gen(r)
  /\ \A r, s \in Recoveries : Held(r) /\ Held(s) => r = s

\* Nothing has been weakened yet; the state file still says what it said.
Arming == {"d_kill", "d_trans", "d_fork", "d_marker", "d_auth", "d_revoke", "d_forget", "d_save"}
\* The state file says DOWN.
SaidDown == {"d_policy", "d_unlock", "d_active", "d_refused", "b_policy", "b_default",
             "b_cancel", "b_state", "b_lock", "b_save"}
\* The policy is not, or no longer, relaxed.
Restricted == {"d_policy", "d_refused", "d_clear", "d_cancel", "b_default", "b_cancel",
               "b_state", "b_lock", "b_save", "u_lock", "u_save", "u_kill"}
\* The window has its number.
Numbered == (Arming \ {"d_kill"}) \cup SaidDown

\* What the command knows at each of its steps.
CommandKnows ==
  /\ cmd = "d_kill" => win < MaxWindows
  /\ cmd \in Numbered => win # 0
  /\ cmd \in Arming => sfile = mode0 /\ mode0 # "down"
  /\ cmd \in {"d_auth", "d_save", "d_policy"} => marker = win
  /\ cmd \in SaidDown => sfile = "down"
  /\ cmd \in Restricted => policy # "permissive"
  /\ cmd \in {"d_policy", "d_refused"} => config # "unlocked"
  /\ cmd \in {"b_default", "b_cancel", "b_state"} => mode0 = "none"
  /\ cmd \in {"b_cancel", "b_state"} => config = "default"
  /\ cmd \in {"b_save", "u_save"} => config = "locked"
  /\ cmd = "u_relock" => sfile = "up"
  /\ cmd = "u_policy" => sfile = "down" /\ named # 0

\* What a recovery knows at each of its steps.
RecoveryKnows ==
  \A r \in Recoveries :
    /\ rpc[r] # "idle" => Gen(r) # 0
    /\ rpc[r] \in {"lock", "save", "trans", "marker"} => policy # "permissive"
    /\ rpc[r] = "save" => config = "locked"

\* A window is opened over a policy that no window has relaxed: putting a snapshot
\* back ends the window.
Snapshots == \A w \in Windows : snapshot[w] # "permissive"

\* A configuration that a window has unlocked is said to be DOWN.
UnlockedIsDown == config = "unlocked" => sfile = "down"

\* What is on disk covers the sandbox at every moment.
Covered == NoUntrackedWindow /\ UnlockedIsDown /\ Snapshots

\* A window has one timer process in its life, which wakes once, with its
\* attempts before it.
Unforked(w) == w > win \/ (w = win /\ cmd \in {"d_trans", "d_fork"})
AttemptsCounted ==
  /\ \A r \in Recoveries : /\ rpc[r] = "wait" => attempts[r] = 0
                           /\ rpc[r] = "prepare" => attempts[r] < MaxAttempts
  /\ \A w \in Windows :
       /\ Unforked(w) => w \notin timers /\ rpc[w] = "idle" /\ attempts[w] = 0
       /\ w \in timers /\ rpc[w] = "idle" => attempts[w] = 0

ShieldsInv ==
  /\ TypeOK /\ Exclusion /\ CommandKnows /\ RecoveryKnows /\ AttemptsCounted /\ Covered

---------------------------------------------------------------------------
(* Steps of the command.                                                   *)

\* The invariant holds at the start.
LEMMA ShieldsInit == Init => ShieldsInv
<1> SUFFICES ASSUME Init PROVE ShieldsInv
  OBVIOUS
<1> USE BoundsAssumption DEF Init
<1>1. TypeOK
  <2>1. attempts \in [Recoveries -> 0..MaxAttempts]
    OBVIOUS
  <2>2. expired \in BOOLEAN /\ bound \in BOOLEAN /\ containment \in BOOLEAN
    OBVIOUS
  <2>3. rpc \in [Recoveries -> RecoveryLabels]
    BY DEF RecoveryLabels
  <2>4. /\ policy \in Policies /\ config \in {"locked", "unlocked", "default"}
        /\ snapshot \in [Windows -> Policies] /\ named \in 0..MaxWindows
        /\ sfile \in {"none", "up", "down"} /\ mode0 \in {"none", "up", "down"}
        /\ marker \in 0..MaxWindows /\ igen \in 0..MaxWindows /\ win \in 0..MaxWindows
        /\ faults \in 0..MaxFaults
    BY DEF Policies
  <2> QED
    BY <2>1, <2>2, <2>3, <2>4 DEF TypeOK, CommandLabels
<1>2. Exclusion /\ RecoveryKnows
  BY DEF Exclusion, RecoveryKnows, Held
<1>3. CommandKnows
  BY DEF CommandKnows, Arming, SaidDown, Restricted, Numbered
<1>4. AttemptsCounted
  BY DEF AttemptsCounted, Unforked, Windows, Recoveries
<1>5. Covered
  BY DEF Covered, NoUntrackedWindow, UnlockedIsDown, Snapshots
<1> QED
  BY <1>1, <1>2, <1>3, <1>4, <1>5 DEF ShieldsInv

\* While a command runs no recovery does, and a step of the command starts none.
LEMMA CommandExcludes ==
  ASSUME ShieldsInv, cmd # "idle", rpc' = rpc, igen' = igen, cmd' # "idle" => lock' = "command"
  PROVE  Exclusion' /\ RecoveryKnows'
<1>1. \A r \in Recoveries : ~Held(r)
  BY DEF ShieldsInv, Exclusion
<1>2. \A r \in Recoveries : rpc'[r] \in {"idle", "wait"}
  BY <1>1 DEF Held
<1>3. \A r \in Recoveries : rpc'[r] # "idle" => Gen(r)' # 0
  BY DEF ShieldsInv, RecoveryKnows, Gen
<1> QED
  BY <1>2, <1>3 DEF Exclusion, RecoveryKnows, Held

\* A step that forks no timer and counts no attempt, and that does not enter
\* the part of a command before its fork.
LEMMA AttemptsFrame ==
  ASSUME ShieldsInv, UNCHANGED <<rpc, attempts, win>>, timers' \subseteq timers,
         cmd' \in {"d_trans", "d_fork"} => cmd \in {"d_trans", "d_fork"}
  PROVE  AttemptsCounted'
BY DEF ShieldsInv, AttemptsCounted, Unforked

\* What every step of the command leaves as it should be.
LEMMA CommandTypes ==
  ASSUME ShieldsInv, UNCHANGED <<kind, mode0, rpc, igen, attempts, bound, containment>>,
         win' \in 0..MaxWindows, named' \in 0..MaxWindows, marker' \in 0..MaxWindows,
         snapshot' \in [Windows -> Policies], policy' \in Policies,
         config' \in {"locked", "unlocked", "default"}, sfile' \in {"none", "up", "down"},
         trans' \in [Windows -> {"none", "preparing", "active", "rejected"}],
         expired' \in BOOLEAN, cmd' \in CommandLabels, lock' \in {"free", "command"},
         timers' \subseteq Windows, faults' \in 0..MaxFaults
  PROVE  TypeOK'
BY DEF ShieldsInv, TypeOK

\* shieldsDown, until the timer has its authority.
LEMMA ArmStep ==
  ASSUME ShieldsInv, Arm, UNCHANGED <<sandbox, kind, mode0, rpc, igen, attempts>>
  PROVE  ShieldsInv'
<1> USE BoundsAssumption DEF sandbox, files, state, timer, gate
<1>0. cmd \in {"d_kill", "d_trans", "d_fork", "d_marker", "d_auth"} /\ cmd # "idle"
  BY DEF Arm
<1>1. lock = "command"
  BY <1>0 DEF ShieldsInv, Exclusion
<1>2. Exclusion' /\ RecoveryKnows'
  BY <1>0, <1>1, CommandExcludes DEF Arm, GoOn, Done
<1>3. policy # "permissive"
  BY <1>0 DEF ShieldsInv, CommandKnows, Arming, Covered, NoUntrackedWindow
<1>w. cmd = "d_kill" => win + 1 \in Windows
  BY DEF ShieldsInv, TypeOK, CommandKnows, Windows
<1>4. Covered'
  <2>1. Snapshots'
    BY <1>3, <1>w DEF ShieldsInv, TypeOK, Covered, Snapshots, Arm
  <2> QED
    BY <1>3, <2>1 DEF ShieldsInv, Covered, NoUntrackedWindow, UnlockedIsDown, Arm
<1>6. TypeOK'
  <2>1. win' \in 0..MaxWindows
    BY DEF ShieldsInv, TypeOK, CommandKnows, Arm
  <2>2. cmd' \in CommandLabels /\ faults' \in 0..MaxFaults /\ lock' \in {"free", "command"}
    BY <1>1 DEF ShieldsInv, TypeOK, Arm, GoOn, Done, Fault, NoFault, CommandLabels
  <2>3. marker' \in 0..MaxWindows /\ sfile' = sfile /\ named' = named
    BY DEF ShieldsInv, TypeOK, Arm, DropMarker
  <2>4. trans' \in [Windows -> {"none", "preparing", "active", "rejected"}]
    BY DEF ShieldsInv, TypeOK, Arm, SetTrans
  <2>5. timers' \subseteq Windows
    <3>1. CASE cmd = "d_fork"
      <4>1. win \in Windows
        BY <3>1 DEF ShieldsInv, TypeOK, CommandKnows, Numbered, Arming, Windows
      <4> QED
        BY <3>1, <4>1 DEF ShieldsInv, TypeOK, Arm
    <3>2. CASE cmd # "d_fork"
      BY <3>2 DEF ShieldsInv, TypeOK, Arm
    <3> QED
      BY <3>1, <3>2
  <2>6. UNCHANGED <<bound, containment>>
    BY Zenon DEF Arm, GoOn, Done
  <2>7. expired' \in BOOLEAN
    BY Zenon DEF ShieldsInv, TypeOK, Arm, DropMarker
  <2>8. snapshot' \in [Windows -> Policies]
    BY DEF ShieldsInv, TypeOK, Arm
  <2>9. /\ policy' \in Policies /\ config' \in {"locked", "unlocked", "default"}
        /\ sfile' \in {"none", "up", "down"} /\ named' \in 0..MaxWindows
    BY <2>3 DEF ShieldsInv, TypeOK
  <2> QED
    BY <2>1, <2>2, <2>3, <2>4, <2>5, <2>6, <2>7, <2>8, <2>9, CommandTypes
<1>7. CommandKnows'
  BY DEF ShieldsInv, TypeOK, CommandKnows, Arm, GoOn, Done, Arming, SaidDown, Restricted, Numbered
<1>8. AttemptsCounted'
  <2>1. CASE cmd = "d_kill"
    BY <2>1 DEF ShieldsInv, TypeOK, AttemptsCounted, Unforked, Windows, Arm, GoOn, Done
  <2>2. CASE cmd = "d_fork"
    BY <2>2 DEF ShieldsInv, TypeOK, AttemptsCounted, Unforked, Windows, Arm, GoOn
  <2>3. CASE cmd \notin {"d_kill", "d_fork"}
    BY <2>3, AttemptsFrame DEF Arm, GoOn
  <2> QED
    BY <2>1, <2>2, <2>3
<1> QED
  BY <1>2, <1>4, <1>6, <1>7, <1>8 DEF ShieldsInv

\* No timer: nothing was weakened, so the marker may go.
LEMMA DisarmStep ==
  ASSUME ShieldsInv, Disarm, UNCHANGED <<sandbox, kind, mode0, win, recovery>>
  PROVE  ShieldsInv'
<1> USE BoundsAssumption DEF sandbox, state, timer, recovery, gate
<1>0. cmd \in {"d_revoke", "d_forget"} /\ cmd # "idle"
  BY DEF Disarm
<1>1. lock = "command"
  BY <1>0 DEF ShieldsInv, Exclusion
<1>2. Exclusion' /\ RecoveryKnows'
  BY <1>0, <1>1, CommandExcludes DEF Disarm, GoOn, Done
<1>3. policy # "permissive"
  BY <1>0 DEF ShieldsInv, CommandKnows, Arming, Covered, NoUntrackedWindow
<1>s. UNCHANGED <<sfile, named, snapshot>>
  BY DEF Disarm
<1>4. Covered'
  BY <1>3, <1>s DEF Covered, NoUntrackedWindow, UnlockedIsDown, Snapshots, ShieldsInv
<1>5. TypeOK'
  <2>1. UNCHANGED <<bound, containment>>
    BY Zenon DEF Disarm, GoOn, Done
  <2>2. trans' \in [Windows -> {"none", "preparing", "active", "rejected"}]
    BY DEF ShieldsInv, TypeOK, Disarm, TryClearTrans, SetTrans
  <2>3. marker' \in 0..MaxWindows
    BY DEF ShieldsInv, TypeOK, Disarm, TryDropMarker, DropMarker
  <2>4. expired' \in BOOLEAN
    BY Zenon DEF ShieldsInv, TypeOK, Disarm, TryDropMarker, DropMarker
  <2>5. cmd' \in CommandLabels /\ lock' \in {"free", "command"}
    BY <1>1 DEF Disarm, CommandLabels, GoOn, Done
  <2>6. faults' \in 0..MaxFaults
    BY DEF ShieldsInv, TypeOK, Disarm, TryDropMarker, TryClearTrans, Fault, NoFault
  <2> QED
    BY <1>s, <2>1, <2>2, <2>3, <2>4, <2>5, <2>6 DEF ShieldsInv, TypeOK
<1>6. CommandKnows'
  BY <1>s DEF ShieldsInv, CommandKnows, Disarm, GoOn, Done, Arming, SaidDown, Restricted, Numbered
<1>7. AttemptsCounted'
  BY AttemptsFrame DEF Disarm, GoOn, Done
<1> QED
  BY <1>2, <1>4, <1>5, <1>6, <1>7 DEF ShieldsInv

\* The state file says DOWN before anything is weakened.
LEMMA WeakenStep ==
  ASSUME ShieldsInv, Weaken, UNCHANGED <<kind, mode0, win, recovery>>
  PROVE  ShieldsInv'
<1> USE BoundsAssumption
      DEF sandbox, files, state, timer, gate, recovery, Save, TryDropMarker, TryClearTrans
<1>0. cmd # "idle"
  BY DEF Weaken
<1>1. lock = "command"
  BY <1>0 DEF ShieldsInv, Exclusion
<1>2. Exclusion' /\ RecoveryKnows'
  BY <1>0, <1>1, CommandExcludes DEF Weaken, GoOn, Done
<1>s. snapshot' = snapshot
  BY DEF Weaken
<1>3. TypeOK'
  <2>1. expired' \in BOOLEAN
    BY Zenon DEF ShieldsInv, TypeOK, Weaken, DropMarker
  <2>2. UNCHANGED <<bound, containment>>
    BY Zenon DEF Weaken, GoOn, Done
  <2>3. trans' \in [Windows -> {"none", "preparing", "active", "rejected"}]
    BY DEF ShieldsInv, TypeOK, Weaken, SetTrans
  <2>4. cmd' \in CommandLabels /\ lock' \in {"free", "command"}
    BY <1>1 DEF Weaken, CommandLabels, GoOn, Done
  <2>5. marker' \in 0..MaxWindows /\ faults' \in 0..MaxFaults /\ named' \in 0..MaxWindows
    BY DEF ShieldsInv, TypeOK, Weaken, DropMarker, Fault, NoFault
  <2>6. sfile' \in {"none", "up", "down"} /\ config' \in {"locked", "unlocked", "default"}
    BY DEF ShieldsInv, TypeOK, Weaken
  <2>7. policy' \in Policies
    BY DEF ShieldsInv, TypeOK, Policies, Weaken
  <2> QED
    BY <1>s, <2>1, <2>2, <2>3, <2>4, <2>5, <2>6, <2>7 DEF ShieldsInv, TypeOK
<1>4. CommandKnows'
  BY DEF ShieldsInv, CommandKnows, Covered, NoUntrackedWindow, UnlockedIsDown,
         Weaken, GoOn, Done, Arming, SaidDown, Restricted, Numbered
<1>5. NoUntrackedWindow'
  BY DEF ShieldsInv, CommandKnows, Covered, NoUntrackedWindow,
         Weaken, DropMarker, SaidDown, Restricted, Numbered
<1>6. UnlockedIsDown'
  BY DEF ShieldsInv, CommandKnows, Covered, UnlockedIsDown, Weaken, SaidDown
<1>7. AttemptsCounted'
  BY AttemptsFrame DEF Weaken, GoOn, Done
<1> QED
  BY <1>s, <1>2, <1>3, <1>4, <1>5, <1>6, <1>7 DEF ShieldsInv, Covered, Snapshots

\* A refused policy: the state goes back to UP, and only then the marker.
LEMMA RefusedStep ==
  ASSUME ShieldsInv, Refused, UNCHANGED <<kind, mode0, win, recovery>>
  PROVE  ShieldsInv'
<1> USE BoundsAssumption
      DEF sandbox, files, state, timer, gate, recovery, Save, TryDropMarker, TryClearTrans
<1>0. cmd # "idle"
  BY DEF Refused
<1>1. lock = "command"
  BY <1>0 DEF ShieldsInv, Exclusion
<1>2. Exclusion' /\ RecoveryKnows'
  BY <1>0, <1>1, CommandExcludes DEF Refused, GoOn, Done
<1>s. snapshot' = snapshot
  BY DEF Refused
<1>3. TypeOK'
  <2>1. expired' \in BOOLEAN
    BY Zenon DEF ShieldsInv, TypeOK, Refused, DropMarker
  <2>2. UNCHANGED <<bound, containment>>
    BY Zenon DEF Refused, GoOn, Done
  <2>3. trans' \in [Windows -> {"none", "preparing", "active", "rejected"}]
    BY DEF ShieldsInv, TypeOK, Refused, SetTrans
  <2>4. cmd' \in CommandLabels /\ lock' \in {"free", "command"}
    BY <1>1 DEF Refused, CommandLabels, GoOn, Done
  <2>5. marker' \in 0..MaxWindows /\ faults' \in 0..MaxFaults /\ named' \in 0..MaxWindows
    BY DEF ShieldsInv, TypeOK, Refused, DropMarker, Fault, NoFault
  <2>6. sfile' \in {"none", "up", "down"} /\ config' \in {"locked", "unlocked", "default"}
    BY DEF ShieldsInv, TypeOK, Refused
  <2>7. policy' \in Policies
    BY DEF ShieldsInv, TypeOK, Policies, Refused
  <2> QED
    BY <1>s, <2>1, <2>2, <2>3, <2>4, <2>5, <2>6, <2>7 DEF ShieldsInv, TypeOK
<1>4. CommandKnows'
  BY DEF ShieldsInv, CommandKnows, Covered, NoUntrackedWindow, UnlockedIsDown,
         Refused, GoOn, Done, Arming, SaidDown, Restricted, Numbered
<1>5. NoUntrackedWindow'
  BY DEF ShieldsInv, CommandKnows, Covered, NoUntrackedWindow,
         Refused, DropMarker, SaidDown, Restricted, Numbered
<1>6. UnlockedIsDown'
  BY DEF ShieldsInv, CommandKnows, Covered, UnlockedIsDown, Refused, SaidDown
<1>7. AttemptsCounted'
  BY AttemptsFrame DEF Refused, GoOn, Done
<1> QED
  BY <1>s, <1>2, <1>3, <1>4, <1>5, <1>6, <1>7 DEF ShieldsInv, Covered, Snapshots

\* The rollback hardens before it gives the marker up.
LEMMA RollbackStep ==
  ASSUME ShieldsInv, Rollback, UNCHANGED <<kind, mode0, win, recovery>>
  PROVE  ShieldsInv'
<1> USE BoundsAssumption
      DEF sandbox, files, state, timer, gate, recovery, Save, TryDropMarker, TryClearTrans
<1>0. cmd # "idle"
  BY DEF Rollback
<1>1. lock = "command"
  BY <1>0 DEF ShieldsInv, Exclusion
<1>2. Exclusion' /\ RecoveryKnows'
  BY <1>0, <1>1, CommandExcludes DEF Rollback, GoOn, Done
<1>s. snapshot' = snapshot
  BY DEF Rollback
<1>w. cmd = "b_policy" => snapshot[win] \in Policies /\ snapshot[win] # "permissive"
  BY DEF ShieldsInv, TypeOK, CommandKnows, Numbered, SaidDown, Covered, Snapshots, Windows
<1>3. TypeOK'
  <2>1. expired' \in BOOLEAN
    BY Zenon DEF ShieldsInv, TypeOK, Rollback, DropMarker
  <2>2. UNCHANGED <<bound, containment>>
    BY Zenon DEF Rollback, GoOn, Done
  <2>3. trans' \in [Windows -> {"none", "preparing", "active", "rejected"}]
    BY DEF ShieldsInv, TypeOK, Rollback, SetTrans
  <2>4. cmd' \in CommandLabels /\ lock' \in {"free", "command"}
    BY <1>1 DEF Rollback, CommandLabels, GoOn, Done
  <2>5. marker' \in 0..MaxWindows /\ faults' \in 0..MaxFaults /\ named' \in 0..MaxWindows
    BY DEF ShieldsInv, TypeOK, Rollback, DropMarker, Fault, NoFault
  <2>6. sfile' \in {"none", "up", "down"} /\ config' \in {"locked", "unlocked", "default"}
    BY DEF ShieldsInv, TypeOK, Rollback
  <2>7. policy' \in Policies
    BY <1>w DEF ShieldsInv, TypeOK, Policies, Rollback
  <2> QED
    BY <1>s, <2>1, <2>2, <2>3, <2>4, <2>5, <2>6, <2>7 DEF ShieldsInv, TypeOK
<1>4. CommandKnows'
  BY <1>w DEF ShieldsInv, CommandKnows, Covered, NoUntrackedWindow, UnlockedIsDown,
         Rollback, GoOn, Done, Arming, SaidDown, Restricted, Numbered
<1>5. NoUntrackedWindow'
  BY <1>w DEF ShieldsInv, CommandKnows, Covered, NoUntrackedWindow,
         Rollback, DropMarker, SaidDown, Restricted, Numbered
<1>6. UnlockedIsDown'
  BY DEF ShieldsInv, CommandKnows, Covered, UnlockedIsDown, Rollback, SaidDown
<1>7. AttemptsCounted'
  BY AttemptsFrame DEF Rollback, GoOn, Done
<1> QED
  BY <1>s, <1>2, <1>3, <1>4, <1>5, <1>6, <1>7 DEF ShieldsInv, Covered, Snapshots

\* shields up hardens, records it, and only then gives the marker up.
LEMMA UpStep ==
  ASSUME ShieldsInv, Up, UNCHANGED <<kind, mode0, win, recovery>>
  PROVE  ShieldsInv'
<1> USE BoundsAssumption
      DEF sandbox, files, state, timer, gate, recovery, Save, TryDropMarker, TryClearTrans
<1>0. cmd # "idle"
  BY DEF Up
<1>1. lock = "command"
  BY <1>0 DEF ShieldsInv, Exclusion
<1>2. Exclusion' /\ RecoveryKnows'
  BY <1>0, <1>1, CommandExcludes DEF Up, GoOn, Done
<1>s. snapshot' = snapshot
  BY DEF Up
<1>w. cmd = "u_policy" => snapshot[named] \in Policies /\ snapshot[named] # "permissive"
  BY DEF ShieldsInv, TypeOK, CommandKnows, Covered, Snapshots, Windows
<1>3. TypeOK'
  <2>1. expired' \in BOOLEAN
    BY Zenon DEF ShieldsInv, TypeOK, Up, DropMarker
  <2>2. UNCHANGED <<bound, containment>>
    BY Zenon DEF Up, GoOn, Done
  <2>3. trans' \in [Windows -> {"none", "preparing", "active", "rejected"}]
    BY DEF ShieldsInv, TypeOK, Up, SetTrans
  <2>4. cmd' \in CommandLabels /\ lock' \in {"free", "command"}
    BY <1>1 DEF Up, CommandLabels, GoOn, Done
  <2>5. marker' \in 0..MaxWindows /\ faults' \in 0..MaxFaults /\ named' \in 0..MaxWindows
    BY DEF ShieldsInv, TypeOK, Up, DropMarker, Fault, NoFault
  <2>6. sfile' \in {"none", "up", "down"} /\ config' \in {"locked", "unlocked", "default"}
    BY DEF ShieldsInv, TypeOK, Up
  <2>7. policy' \in Policies
    BY <1>w DEF ShieldsInv, TypeOK, Policies, Up
  <2> QED
    BY <1>s, <2>1, <2>2, <2>3, <2>4, <2>5, <2>6, <2>7 DEF ShieldsInv, TypeOK
<1>4. CommandKnows'
  BY <1>w DEF ShieldsInv, CommandKnows, Covered, NoUntrackedWindow, UnlockedIsDown,
         Up, GoOn, Done, Arming, SaidDown, Restricted, Numbered
<1>5. NoUntrackedWindow'
  BY <1>w DEF ShieldsInv, CommandKnows, Covered, NoUntrackedWindow,
         Up, DropMarker, SaidDown, Restricted, Numbered
<1>6. UnlockedIsDown'
  BY DEF ShieldsInv, CommandKnows, Covered, UnlockedIsDown, Up, SaidDown
<1>7. AttemptsCounted'
  BY AttemptsFrame DEF Up, GoOn, Done
<1> QED
  BY <1>s, <1>2, <1>3, <1>4, <1>5, <1>6, <1>7 DEF ShieldsInv, Covered, Snapshots

\* acquireMcpLifecycleLock lets a command in: nobody else is.
LEMMA AcquireStep ==
  ASSUME ShieldsInv, NEW k \in {"down", "rebuild", "up"}, NEW l \in {"d_kill", "u_check"},
         Acquire(k, l), l = "d_kill" => sfile # "down" /\ win < MaxWindows
  PROVE  ShieldsInv'
<1> USE BoundsAssumption DEF sandbox, files, state, timer, gate, recovery, Acquire
<1>1. \A r \in Recoveries : ~Held(r)
  BY DEF ShieldsInv, Exclusion
<1>2. Exclusion' /\ RecoveryKnows'
  BY <1>1 DEF ShieldsInv, Exclusion, RecoveryKnows, Held, Gen
<1>3. TypeOK'
  <2>1. bound' \in BOOLEAN
    BY Zenon
  <2>2. cmd' \in CommandLabels /\ mode0' \in {"none", "up", "down"}
    BY DEF ShieldsInv, TypeOK, CommandLabels
  <2> QED
    BY <2>1, <2>2 DEF ShieldsInv, TypeOK
<1>4. CommandKnows'
  BY DEF CommandKnows, Arming, SaidDown, Restricted, Numbered
<1>5. Covered'
  BY DEF ShieldsInv, Covered, NoUntrackedWindow, UnlockedIsDown, Snapshots
<1>6. AttemptsCounted'
  BY AttemptsFrame
<1> QED
  BY <1>2, <1>3, <1>4, <1>5, <1>6 DEF ShieldsInv

---------------------------------------------------------------------------
(* Steps of the recoveries.                                                *)

\* A recovery under the lock is the only one, and no command runs.
LEMMA HeldAlone ==
  ASSUME ShieldsInv, NEW r \in Recoveries, Held(r)
  PROVE  /\ cmd = "idle" /\ lock = "recovery" /\ marker = Gen(r)
         /\ \A s \in Recoveries \ {r} : rpc[s] \in {"idle", "wait"}
BY DEF ShieldsInv, Exclusion, Held

\* The label of one recovery changes; what the others know stays true.
LEMMA OthersKnow ==
  ASSUME ShieldsInv, NEW r \in Recoveries, Held(r), NEW l, Goto(r, l),
         igen' = igen, l \in {"lock", "save", "trans", "marker"} => policy' # "permissive",
         l = "save" => config' = "locked"
  PROVE  RecoveryKnows'
<1>1. rpc' = [rpc EXCEPT ![r] = l]
  BY DEF Goto
<1>2. \A s \in Recoveries \ {r} : rpc'[s] \in {"idle", "wait"}
  BY <1>1, HeldAlone DEF ShieldsInv, TypeOK
<1>3. rpc'[r] = l
  BY <1>1 DEF ShieldsInv, TypeOK
<1>4. \A s \in Recoveries : rpc'[s] # "idle" => Gen(s)' # 0
  BY <1>1 DEF ShieldsInv, TypeOK, RecoveryKnows, Held, Gen
<1> QED
  BY <1>2, <1>3, <1>4 DEF RecoveryKnows

\* It stays alone, or leaves the lock.
LEMMA StaysAlone ==
  ASSUME ShieldsInv, NEW r \in Recoveries, Held(r), NEW l, Goto(r, l), cmd' = cmd,
         \/ l = "idle"
         \/ lock' = lock /\ marker' = marker /\ igen' = igen
  PROVE  Exclusion'
<1>1. rpc' = [rpc EXCEPT ![r] = l]
  BY DEF Goto
<1>2. \A s \in Recoveries \ {r} : ~Held(s)'
  BY <1>1, HeldAlone DEF ShieldsInv, TypeOK, Held
<1>3. Held(r)' => lock' = lock /\ marker' = marker /\ Gen(r)' = Gen(r)
  BY <1>1 DEF ShieldsInv, TypeOK, Held, Gen
<1> QED
  BY <1>2, <1>3, HeldAlone DEF Exclusion

\* Its attempts are counted.
LEMMA AttemptsOf ==
  ASSUME ShieldsInv, NEW r \in Recoveries, rpc[r] # "idle", NEW l, Goto(r, l),
         cmd' = cmd, win' = win,
         timers' \in {timers, timers \ {r}},
         l = "idle" => timers' = timers \ {r},
         l # "wait", l = "prepare" => attempts'[r] < MaxAttempts,
         \A s \in Recoveries \ {r} : attempts'[s] = attempts[s]
  PROVE  AttemptsCounted'
<1>1. rpc' = [rpc EXCEPT ![r] = l] /\ rpc \in [Recoveries -> RecoveryLabels]
  BY DEF Goto, ShieldsInv, TypeOK
<1>2. \A w \in Windows : w \in Recoveries
  BY DEF Recoveries
<1>3. AttemptsCounted
  BY DEF ShieldsInv
<1>4. \A s \in Recoveries : /\ rpc'[s] = "wait" => attempts'[s] = 0
                            /\ rpc'[s] = "prepare" => attempts'[s] < MaxAttempts
  BY <1>1, <1>3 DEF AttemptsCounted
<1>5. \A w \in Windows : Unforked(w)' => w \notin timers' /\ rpc'[w] = "idle" /\ attempts'[w] = 0
  BY <1>1, <1>2, <1>3 DEF AttemptsCounted, Unforked
<1>6. \A w \in Windows : w \in timers' /\ rpc'[w] = "idle" => attempts'[w] = 0
  BY <1>1, <1>2, <1>3 DEF AttemptsCounted
<1> QED
  BY <1>4, <1>5, <1>6 DEF AttemptsCounted

\* The fence lets a recovery in only under its own window and into a free lock.
LEMMA FenceStep ==
  ASSUME ShieldsInv, NEW r \in Recoveries, Fence(r)
  PROVE  ShieldsInv'
<1> USE BoundsAssumption DEF sandbox, files, state, timer, gate, command, Fence
<1>t. rpc \in [Recoveries -> RecoveryLabels]
  BY DEF ShieldsInv, TypeOK
<1>1. PICK l \in {"idle", "prepare"} : Goto(r, l)
  BY DEF Finish
<1>2. l = "prepare" =>
        lock = "free" /\ lock' = "recovery" /\ marker = Gen(r) /\ timers' = timers
  BY <1>1, <1>t DEF Finish, Goto
<1>3. l = "idle" => lock' = lock /\ timers' = timers \ {r}
  BY <1>1, <1>t DEF Finish, Goto
<1>4. TypeOK'
  <2>1. containment' \in BOOLEAN /\ bound' \in BOOLEAN
    BY Zenon DEF ShieldsInv, TypeOK
  <2>2. rpc' \in [Recoveries -> RecoveryLabels]
    BY <1>1, <1>t DEF Goto, RecoveryLabels
  <2> QED
    BY <1>2, <1>3, <2>1, <2>2 DEF ShieldsInv, TypeOK
<1>5. Exclusion'
  <2>1. \A s \in Recoveries : Held(s)' => Held(s) \/ (s = r /\ l = "prepare")
    BY <1>1, <1>t DEF Held, Goto
  <2>2. lock = "free" => cmd = "idle" /\ \A s \in Recoveries : ~Held(s)
    BY DEF ShieldsInv, Exclusion
  <2>3. \A s \in Recoveries : Gen(s)' = Gen(s)
    BY DEF Gen
  <2>4. CASE l = "prepare"
    BY <1>2, <2>1, <2>2, <2>3, <2>4 DEF Exclusion
  <2>5. CASE l = "idle"
    BY <1>3, <2>1, <2>3, <2>5 DEF ShieldsInv, Exclusion
  <2> QED
    BY <2>4, <2>5
<1>6. RecoveryKnows'
  BY <1>1, <1>t DEF ShieldsInv, RecoveryKnows, Goto, Gen
<1>7. CommandKnows' /\ Covered'
  BY DEF ShieldsInv, CommandKnows, Covered, NoUntrackedWindow, UnlockedIsDown, Snapshots
<1>8. AttemptsCounted'
  <2>1. rpc[r] # "idle" /\ attempts' = attempts /\ attempts[r] = 0 /\ win' = win /\ cmd' = cmd
    BY DEF ShieldsInv, AttemptsCounted
  <2> QED
    BY <1>1, <1>2, <1>3, <2>1, AttemptsOf
<1> QED
  BY <1>4, <1>5, <1>6, <1>7, <1>8 DEF ShieldsInv

\* The environment and the files as they are, the invariant of the command is.
LEMMA CommandFrame ==
  ASSUME ShieldsInv, UNCHANGED <<sandbox, files, command>>
  PROVE  CommandKnows' /\ Covered'
BY DEF ShieldsInv, CommandKnows, Covered, NoUntrackedWindow, UnlockedIsDown, Snapshots,
       sandbox, files, state, timer, command

\* An attempt begins, or its transition was never handed over.
LEMMA PrepareStep ==
  ASSUME ShieldsInv, NEW r \in Recoveries, Prepare(r)
  PROVE  ShieldsInv'
<1> USE BoundsAssumption DEF gate, command, Prepare
<1>t. /\ rpc \in [Recoveries -> RecoveryLabels]
      /\ attempts \in [Recoveries -> 0..MaxAttempts]
  BY DEF ShieldsInv, TypeOK
<1>0. Held(r) /\ rpc[r] = "prepare" /\ attempts[r] < MaxAttempts
  BY DEF Held, ShieldsInv, AttemptsCounted
<1>1. PICK l \in {"idle", "policy"} : Goto(r, l)
  BY DEF ContainAndFinish, Proceed, Finish
<1>2. \/ l = "idle" /\ timers' = timers \ {r} /\ lock' = "free"
      \/ l = "policy" /\ timers' = timers /\ lock' = lock
  BY <1>1, <1>t DEF ContainAndFinish, Proceed, Finish, Goto
<1>3. TypeOK'
  <2>1. containment' \in BOOLEAN /\ bound' \in BOOLEAN
    BY Zenon DEF ShieldsInv, TypeOK, ContainAndFinish, Proceed
  <2>2. rpc' \in [Recoveries -> RecoveryLabels]
    BY <1>1, <1>t DEF Goto, RecoveryLabels
  <2>3. attempts' \in [Recoveries -> 0..MaxAttempts]
    <3>1. attempts[r] + 1 \in 0..MaxAttempts
      BY <1>0, <1>t
    <3> QED
      BY <1>t, <3>1
  <2> QED
    BY <1>2, <2>1, <2>2, <2>3 DEF ShieldsInv, TypeOK, sandbox, files, state, timer
<1>4. Exclusion'
  BY <1>0, <1>1, <1>2, StaysAlone DEF files, timer
<1>5. RecoveryKnows'
  BY <1>0, <1>1, OthersKnow
<1>6. CommandKnows' /\ Covered'
  BY CommandFrame
<1>7. AttemptsCounted'
  BY <1>0, <1>1, <1>2, <1>t, AttemptsOf
<1> QED
  BY <1>3, <1>4, <1>5, <1>6, <1>7 DEF ShieldsInv

\* Another attempt, or containment when they are used up.
LEMMA RetryStep ==
  ASSUME ShieldsInv, NEW r \in Recoveries, Retry(r)
  PROVE  ShieldsInv'
<1> USE BoundsAssumption DEF gate, command, Retry
<1>t. rpc \in [Recoveries -> RecoveryLabels]
  BY DEF ShieldsInv, TypeOK
<1>0. Held(r)
  BY DEF Held
<1>1. PICK l \in {"idle", "prepare"} : Goto(r, l)
  BY DEF ContainAndFinish, Proceed, Finish
<1>2. \/ l = "idle" /\ timers' = timers \ {r} /\ lock' = "free"
      \/ l = "prepare" /\ timers' = timers /\ lock' = lock /\ attempts[r] < MaxAttempts
  BY <1>1, <1>t DEF ContainAndFinish, Proceed, Finish, Goto
<1>3. TypeOK'
  <2>1. containment' \in BOOLEAN /\ bound' \in BOOLEAN
    BY Zenon DEF ShieldsInv, TypeOK, ContainAndFinish, Proceed
  <2>2. rpc' \in [Recoveries -> RecoveryLabels]
    BY <1>1, <1>t DEF Goto, RecoveryLabels
  <2> QED
    BY <1>2, <2>1, <2>2 DEF ShieldsInv, TypeOK, sandbox, files, state, timer
<1>4. Exclusion'
  BY <1>0, <1>1, <1>2, StaysAlone DEF files, timer
<1>5. RecoveryKnows'
  BY <1>0, <1>1, OthersKnow
<1>6. CommandKnows' /\ Covered'
  BY CommandFrame
<1>7. AttemptsCounted'
  BY <1>1, <1>2, AttemptsOf
<1> QED
  BY <1>3, <1>4, <1>5, <1>6, <1>7 DEF ShieldsInv

\* The restore: policy, lock, state, transition, marker.
LEMMA HardenStep ==
  ASSUME ShieldsInv, NEW r \in Recoveries, Harden(r), UNCHANGED <<command, igen, attempts>>
  PROVE  ShieldsInv'
<1> USE BoundsAssumption
      DEF sandbox, files, state, timer, gate, command, Save, TryClearTrans
<1>t. rpc \in [Recoveries -> RecoveryLabels]
  BY DEF ShieldsInv, TypeOK
<1>0. Held(r)
  BY DEF Held, Harden
<1>h. /\ rpc[r] \in {"lock", "save", "trans", "marker"} => policy # "permissive"
      /\ rpc[r] = "save" => config = "locked"
  BY DEF ShieldsInv, RecoveryKnows
<1>w. snapshot[Gen(r)] \in Policies /\ snapshot[Gen(r)] # "permissive"
  <2>1. Gen(r) \in Windows
    BY <1>0 DEF ShieldsInv, TypeOK, RecoveryKnows, Held, Gen, Recoveries, Inline, Windows
  <2> QED
    BY <2>1 DEF ShieldsInv, TypeOK, Covered, Snapshots
<1>s. UNCHANGED <<named, snapshot>>
  BY DEF Harden
<1>1. PICK l \in {"lock", "save", "trans", "marker", "retry", "idle"} : Goto(r, l)
  BY DEF Harden, Proceed, Finish
<1>l. rpc'[r] = l
  BY <1>1, <1>t DEF Goto
<1>2. \/ l = "idle" /\ timers' = timers \ {r} /\ lock' = "free"
      \/ l # "idle" /\ timers' = timers /\ lock' = lock /\ marker' = marker
  BY <1>l, <1>t DEF Harden, Proceed, Finish, Goto
<1>3. TypeOK'
  <2>1. expired' \in BOOLEAN
    BY Zenon DEF ShieldsInv, TypeOK, Harden, DropMarker
  <2>2. UNCHANGED <<bound, containment>>
    BY Zenon DEF Harden, Proceed
  <2>3. rpc' \in [Recoveries -> RecoveryLabels]
    BY <1>1, <1>t DEF Goto, RecoveryLabels
  <2>4. trans' \in [Windows -> {"none", "preparing", "active", "rejected"}]
    BY DEF ShieldsInv, TypeOK, Harden, SetTrans
  <2>5. marker' \in 0..MaxWindows /\ faults' \in 0..MaxFaults
    BY DEF ShieldsInv, TypeOK, Harden, DropMarker, Fault, NoFault
  <2>6. /\ sfile' \in {"none", "up", "down"} /\ policy' \in Policies
        /\ config' \in {"locked", "unlocked", "default"}
    BY <1>w DEF ShieldsInv, TypeOK, Harden
  <2> QED
    BY <1>s, <1>2, <2>1, <2>2, <2>3, <2>4, <2>5, <2>6 DEF ShieldsInv, TypeOK
<1>4. Exclusion'
  BY <1>0, <1>1, <1>2, StaysAlone
<1>5. RecoveryKnows'
  <2>1. l \in {"lock", "save", "trans", "marker"} => policy' # "permissive"
    BY <1>l, <1>t, <1>h, <1>w DEF Harden, Proceed, Finish, Goto
  <2>2. l = "save" => config' = "locked"
    BY <1>l, <1>t, <1>h DEF Harden, Proceed, Finish, Goto
  <2> QED
    BY <1>0, <1>1, <2>1, <2>2, OthersKnow
<1>6. CommandKnows'
  BY <1>0, HeldAlone DEF CommandKnows, Arming, SaidDown, Restricted, Numbered
<1>7. NoUntrackedWindow'
  BY <1>h, <1>w DEF ShieldsInv, Covered, NoUntrackedWindow, Harden
<1>8. UnlockedIsDown'
  BY <1>h DEF ShieldsInv, Covered, UnlockedIsDown, Harden
<1>9. AttemptsCounted'
  BY <1>0, <1>1, <1>2, AttemptsOf DEF Held
<1> QED
  BY <1>s, <1>3, <1>4, <1>5, <1>6, <1>7, <1>8, <1>9 DEF ShieldsInv, Covered, Snapshots

\* A timer that is not needed exits, and one whose deadline has passed wakes.
LEMMA TimerStep ==
  ASSUME ShieldsInv, NEW w \in Windows, TimerExits(w) \/ Wake(w)
  PROVE  ShieldsInv'
<1> USE DEF gate, command
<1>t. rpc \in [Recoveries -> RecoveryLabels] /\ w \in Recoveries
  BY DEF ShieldsInv, TypeOK, Recoveries
<1>0. /\ UNCHANGED <<sandbox, files, gate, command, igen, attempts, faults>>
      /\ timers' \subseteq timers /\ w \in timers /\ rpc[w] = "idle"
      /\ rpc' \in {rpc, [rpc EXCEPT ![w] = "wait"]}
  BY DEF TimerExits, Wake, Goto
<1>1. TypeOK'
  BY <1>0, <1>t DEF ShieldsInv, TypeOK, RecoveryLabels, sandbox, files, state, timer
<1>2. Exclusion'
  <2>1. \A s \in Recoveries : (Held(s)' => Held(s)) /\ Gen(s)' = Gen(s)
    BY <1>0, <1>t DEF Held, Gen
  <2> QED
    BY <1>0, <2>1 DEF ShieldsInv, Exclusion, files, timer
<1>3. RecoveryKnows'
  <2>1. Gen(w) # 0 /\ \A s \in Recoveries : Gen(s)' = Gen(s)
    BY <1>0 DEF Gen, Windows, Inline
  <2> QED
    BY <1>0, <1>t, <2>1 DEF ShieldsInv, RecoveryKnows, sandbox
<1>4. CommandKnows' /\ Covered'
  BY <1>0, CommandFrame
<1>5. AttemptsCounted'
  <2>1. ~Unforked(w) /\ attempts[w] = 0
    BY <1>0 DEF ShieldsInv, AttemptsCounted
  <2>2. \A v \in Windows : v \in Recoveries
    BY DEF Recoveries
  <2> QED
    BY <1>0, <1>t, <2>1, <2>2 DEF ShieldsInv, AttemptsCounted, Unforked
<1> QED
  BY <1>1, <1>2, <1>3, <1>4, <1>5 DEF ShieldsInv

\* A command finds an expired window and takes its recovery up.
LEMMA InlineStep == ASSUME ShieldsInv, StartInline PROVE ShieldsInv'
<1> USE BoundsAssumption DEF gate, command, StartInline, Goto
<1>t. rpc \in [Recoveries -> RecoveryLabels] /\ Inline \in Recoveries
  BY DEF ShieldsInv, TypeOK, Recoveries
<1>a. attempts \in [Recoveries -> 0..MaxAttempts] /\ Inline \notin Windows
  BY DEF ShieldsInv, TypeOK, Inline, Windows
<1>1. TypeOK'
  BY <1>t, <1>a DEF ShieldsInv, TypeOK, RecoveryLabels, sandbox, files, state, timer
<1>2. Exclusion'
  <2>1. \A s \in Recoveries : (Held(s)' => Held(s) /\ Gen(s)' = Gen(s))
    BY <1>t DEF Held, Gen
  <2> QED
    BY <2>1 DEF ShieldsInv, Exclusion, files, timer
<1>3. RecoveryKnows'
  BY <1>t DEF ShieldsInv, RecoveryKnows, sandbox, Gen, Over
<1>4. CommandKnows' /\ Covered'
  BY CommandFrame
<1>5. AttemptsCounted'
  <2>2. \A v \in Windows : v \in Recoveries
    BY DEF Recoveries
  <2> QED
    BY <1>t, <1>a, <2>2 DEF ShieldsInv, AttemptsCounted, Unforked
<1> QED
  BY <1>1, <1>2, <1>3, <1>4, <1>5 DEF ShieldsInv

---------------------------------------------------------------------------
(* Deaths and their discovery, deadlines and the operator.                 *)

\* Everybody is gone, but for what is on disk.
LEMMA AllGone ==
  ASSUME ShieldsInv, UNCHANGED <<sandbox, files, kind, mode0, win, igen, attempts>>,
         cmd' = "idle", timers' = {}, rpc' = [r \in Recoveries |-> "idle"]
  PROVE  /\ Exclusion' /\ CommandKnows' /\ RecoveryKnows' /\ AttemptsCounted' /\ Covered'
         /\ rpc' \in [Recoveries -> RecoveryLabels]
<1>1. Exclusion' /\ RecoveryKnows' /\ rpc' \in [Recoveries -> RecoveryLabels]
  BY DEF Exclusion, RecoveryKnows, Held, RecoveryLabels
<1>2. CommandKnows'
  BY DEF CommandKnows, Arming, SaidDown, Restricted, Numbered
<1>3. Covered'
  BY DEF ShieldsInv, Covered, NoUntrackedWindow, UnlockedIsDown, Snapshots, sandbox, files,
         state, timer
<1>4. AttemptsCounted'
  BY DEF ShieldsInv, AttemptsCounted, Unforked, Recoveries
<1> QED
  BY <1>1, <1>2, <1>3, <1>4

\* A reboot.
LEMMA RebootStep == ASSUME ShieldsInv, Reboot PROVE ShieldsInv'
<1>1. /\ Exclusion' /\ CommandKnows' /\ RecoveryKnows' /\ AttemptsCounted' /\ Covered'
      /\ rpc' \in [Recoveries -> RecoveryLabels]
  BY AllGone DEF Reboot
<1>2. lock' \in {"free", "command", "recovery", "dead_command", "dead_recovery"}
  BY DEF ShieldsInv, TypeOK, Reboot
<1>3. cmd' \in CommandLabels /\ timers' \subseteq Windows /\ faults' \in 0..MaxFaults
  BY BoundsAssumption DEF ShieldsInv, TypeOK, Reboot, CommandLabels, Fault
<1>4. TypeOK'
  BY <1>1, <1>2, <1>3 DEF ShieldsInv, TypeOK, Reboot, sandbox, files, state, timer
<1> QED
  BY <1>1, <1>4 DEF ShieldsInv

\* The operator.
LEMMA OperatorStep == ASSUME ShieldsInv, Operator PROVE ShieldsInv'
<1>1. /\ Exclusion' /\ CommandKnows' /\ RecoveryKnows' /\ AttemptsCounted' /\ Covered'
      /\ rpc' \in [Recoveries -> RecoveryLabels]
  BY AllGone DEF Operator
<1>2. cmd' \in CommandLabels /\ timers' \subseteq Windows
  BY DEF Operator, CommandLabels
<1>3. TypeOK'
  BY <1>1, <1>2 DEF ShieldsInv, TypeOK, Operator, sandbox, files, state, timer
<1> QED
  BY <1>1, <1>3 DEF ShieldsInv

\* A dead owner is found, a deadline passes.
LEMMA FindOrExpireStep == ASSUME ShieldsInv, FindDead \/ Expire PROVE ShieldsInv'
<1> USE DEF recovery, command, gate, sandbox, files, state, timer
<1>1. /\ UNCHANGED <<sandbox, state, marker, trans, bound, command, recovery, faults>>
      /\ lock' = lock \/ (lock' = "free" /\ lock \in {"dead_command", "dead_recovery"})
  BY DEF FindDead, Expire
<1>2. containment' \in BOOLEAN /\ expired' \in BOOLEAN
  BY Zenon DEF FindDead, Expire, ShieldsInv, TypeOK
<1>3. TypeOK'
  BY <1>1, <1>2 DEF ShieldsInv, TypeOK
<1>4. Exclusion' /\ RecoveryKnows'
  BY <1>1 DEF ShieldsInv, Exclusion, RecoveryKnows, Held, Gen
<1>5. CommandKnows' /\ Covered'
  BY <1>1 DEF ShieldsInv, CommandKnows, Covered, NoUntrackedWindow, UnlockedIsDown, Snapshots
<1>6. AttemptsCounted'
  BY <1>1, AttemptsFrame
<1> QED
  BY <1>3, <1>4, <1>5, <1>6 DEF ShieldsInv

\* A command is killed: what it leaves on disk is covered.
LEMMA KillCommandStep == ASSUME ShieldsInv, KillCommand PROVE ShieldsInv'
<1> USE DEF recovery, KillCommand, sandbox, files, state, timer
<1>1. Exclusion' /\ RecoveryKnows'
  BY CommandExcludes
<1>2. CommandKnows'
  BY DEF CommandKnows, Arming, SaidDown, Restricted, Numbered
<1>3. Covered'
  BY DEF ShieldsInv, Covered, NoUntrackedWindow, UnlockedIsDown, Snapshots
<1>4. AttemptsCounted'
  BY AttemptsFrame
<1>5. TypeOK'
  BY BoundsAssumption DEF ShieldsInv, TypeOK, CommandLabels, Fault
<1> QED
  BY <1>1, <1>2, <1>3, <1>4, <1>5 DEF ShieldsInv

\* A recovery is killed, waiting or at work.
LEMMA KillRecoveryStep ==
  ASSUME ShieldsInv, NEW r \in Recoveries, KillRecovery(r) PROVE ShieldsInv'
<1> USE DEF KillRecovery, Finish, Goto
<1>t. rpc \in [Recoveries -> RecoveryLabels]
  BY DEF ShieldsInv, TypeOK
<1>1. Exclusion'
  <2>1. \A s \in Recoveries : (Held(s)' => Held(s) /\ s # r) /\ Gen(s)' = Gen(s)
    BY <1>t DEF Held, Gen
  <2>2. CASE Held(r)
    BY <2>1, <2>2 DEF ShieldsInv, Exclusion, command
  <2>3. CASE ~Held(r)
    BY <2>1, <2>3 DEF ShieldsInv, Exclusion, command, files, timer
  <2> QED
    BY <2>2, <2>3
<1>2. RecoveryKnows'
  BY <1>t DEF ShieldsInv, RecoveryKnows, sandbox, Gen
<1>3. CommandKnows' /\ Covered'
  BY CommandFrame
<1>4. AttemptsCounted'
  <2>1. \A v \in Windows : v \in Recoveries
    BY DEF Recoveries
  <2> QED
    BY <1>t, <2>1 DEF ShieldsInv, AttemptsCounted, Unforked, command
<1>5. TypeOK'
  <2>1. faults' \in 0..MaxFaults
    BY BoundsAssumption DEF ShieldsInv, TypeOK, Fault
  <2>2. rpc' \in [Recoveries -> RecoveryLabels]
    BY <1>t DEF RecoveryLabels
  <2>3. lock' \in {"free", "command", "recovery", "dead_command", "dead_recovery"}
    BY DEF ShieldsInv, TypeOK
  <2> QED
    BY <2>1, <2>2, <2>3 DEF ShieldsInv, TypeOK, sandbox, files, state, timer, command
<1> QED
  BY <1>1, <1>2, <1>3, <1>4, <1>5 DEF ShieldsInv

---------------------------------------------------------------------------
(* Theorems.                                                               *)

\* Every step keeps the invariant.
LEMMA ShieldsStep == ShieldsInv /\ [Next]_vars => ShieldsInv'
<1> SUFFICES ASSUME ShieldsInv, [Next]_vars PROVE ShieldsInv'
  OBVIOUS
<1>1. CASE StartDown("down") \/ StartDown("rebuild") \/ StartUp
  BY <1>1, AcquireStep DEF StartDown, StartUp
<1>2. CASE CommandStep
  BY <1>2, ArmStep, DisarmStep, WeakenStep, RefusedStep, RollbackStep, UpStep DEF CommandStep
<1>3. ASSUME NEW r \in Recoveries, RecoveryStep(r) \/ KillRecovery(r) PROVE ShieldsInv'
  BY <1>3, FenceStep, PrepareStep, RetryStep, HardenStep, KillRecoveryStep DEF RecoveryStep
<1>4. ASSUME NEW w \in Windows, TimerExits(w) \/ Wake(w) PROVE ShieldsInv'
  BY <1>4, TimerStep
<1>5. CASE StartInline \/ FindDead \/ Operator \/ Expire \/ KillCommand \/ Reboot
  BY <1>5, InlineStep, FindOrExpireStep, OperatorStep, KillCommandStep, RebootStep
<1>6. CASE UNCHANGED vars
  <2>1. TypeOK' /\ Exclusion'
    BY <1>6 DEF ShieldsInv, TypeOK, Exclusion, Held, Gen, vars, sandbox, files, state,
                timer, gate, command, recovery
  <2>2. RecoveryKnows' /\ AttemptsCounted'
    BY <1>6 DEF ShieldsInv, RecoveryKnows, AttemptsCounted, Unforked, Gen, vars, sandbox,
                command, recovery
  <2>3. CommandKnows' /\ Covered'
    BY <1>6, CommandFrame DEF vars
  <2> QED
    BY <2>1, <2>2, <2>3 DEF ShieldsInv
<1> QED
  BY <1>1, <1>2, <1>3, <1>4, <1>5, <1>6 DEF Next

\* ShieldsInv is an invariant, whatever fails, is killed or rebooted.
THEOREM ShieldsInvCorrect == Spec => []ShieldsInv
BY ShieldsInit, ShieldsStep, PTL DEF Spec

\* Every variable keeps its type: in particular no restore makes more attempts
\* than its budget (runRestoreTimerWithBudget, retryInlineAutoRestore).
THEOREM TypeCorrect == Spec => []TypeOK
<1>1. ShieldsInv => TypeOK
  BY DEF ShieldsInv
<1> QED
  BY <1>1, ShieldsInvCorrect, PTL

\* A policy that a window has relaxed is always covered: the state file says DOWN
\* and the marker of a deadline is there (shieldsDownWithoutHostLock and its
\* rollback).  The policy of a push that took effect and reported failure is not
\* claimed to be.
THEOREM NoUntrackedWindowCorrect == Spec => []NoUntrackedWindow
<1>1. ShieldsInv => NoUntrackedWindow
  BY DEF ShieldsInv, Covered
<1> QED
  BY <1>1, ShieldsInvCorrect, PTL

\* Where the state file says UP no window's policy is in force and nothing that a
\* window unlocked is unlocked, even when each removal and each restore may fail.
THEOREM UpIsHardenedCorrect == Spec => []UpIsHardened
<1>1. ShieldsInv => UpIsHardened
  BY DEF ShieldsInv, Covered, NoUntrackedWindow, UnlockedIsDown, UpIsHardened
<1> QED
  BY <1>1, ShieldsInvCorrect, PTL

\* A recovery touches the sandbox or its files only while its own window is in
\* force, however long it waited for the lock (withMcpLifecycleDeadlineFence).
THEOREM OnlyOwnWindowCorrect == Spec => OnlyOwnWindow
<1>1. ShieldsInv /\ [Next]_vars =>
        [\A r \in Recoveries :
           Held(r) /\ rpc'[r] # rpc[r] /\ <<sandbox, files>>' # <<sandbox, files>>
             => marker = Gen(r)]_vars
  BY DEF ShieldsInv, Exclusion
<1> QED
  BY <1>1, ShieldsInvCorrect, PTL DEF Spec, OnlyOwnWindow
============================================================================
