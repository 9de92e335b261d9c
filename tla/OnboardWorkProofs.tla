------------------------- MODULE OnboardWorkProofs -------------------------
(***************************************************************************)
(* What a run has behind it: a session that says complete has done its     *)
(* work, and recovery enters before what is unfinished.  Every run goes    *)
(* through the three slices from the first one, reusing or redoing each    *)
(* phase, so what it has behind it depends on where it is and not on what  *)
(* earlier runs left; unless an exit listener of an earlier run has failed *)
(* the session under it, in which case no result of the run applies again. *)
(***************************************************************************)
EXTENDS OnboardProofs

---------------------------------------------------------------------------
(* The inductive invariant.                                                *)

InPhase == {"phase", "working", "apply", "check"}
AtWork == InPhase \cup {"slice"}
Starting == {"locked", "prepared", "armed"}

\* The phases of a slice.
Phases(slice, agent) ==
  CASE slice = "initial" -> {"init", "preflight", "gateway"}
    [] slice = "core"    -> {"provider_selection", "inference", "sandbox"}
    [] OTHER             -> {Branch(agent), "policies", "finalizing", "post_verify"}

\* A run begins with the first slice and stays within the phases of its slice;
\* the init hand-off is never a repair, and provider selection hands on to
\* inference before its results are looked at.
OnCourse ==
  \A p \in Procs :
    /\ pc[p] \in Starting => run[p].slice = "initial"
    /\ pc[p] \in InPhase =>
         /\ run[p].phase \in Phases(run[p].slice, run[p].agent)
         /\ run[p].repair \/ pc[p] = "check" => run[p].phase # "init"
         /\ pc[p] \in {"apply", "check"} => run[p].phase # "provider_selection"

\* The machine state that follows a phase.
Successor(phase, agent) ==
  CASE phase = "init"        -> "preflight"
    [] phase = "finalizing"  -> "post_verify"
    [] phase = "post_verify" -> "complete"
    [] OTHER -> nextMachineStateAfterCompletedStep(phase, agent)

\* Provider selection and inference hand over their results together, so that
\* only the last result of a handler leads out of it.
Selecting == {"provider_selection", "inference"}
InOrder(p) ==
  LET r == run[p]
      n == Len(r.results)
  IN  /\ pc[p] \in {"phase", "working"} =>
           \A i \in 1..n : r.phase \in Selecting /\ r.results[i] \in Selecting
      /\ pc[p] \in {"apply", "check"} =>
           /\ n > 0
           /\ r.results[n] = Successor(r.phase, r.agent)
           /\ \A i \in 1..(n - 1) : r.phase = "inference" /\ r.results[i] \in Selecting
ResultsInOrder == \A p \in Procs : InOrder(p)

\* The steps that a run which is about to work on a phase has behind it.
Behind(phase, agent) ==
  CASE phase = "gateway"            -> {"preflight"}
    [] phase = "provider_selection" -> {"preflight", "gateway"}
    [] phase = "inference"          -> {"preflight", "gateway", "provider_selection"}
    [] phase \in {"sandbox", "openclaw", "agent_setup"} ->
         {"preflight", "gateway", "provider_selection", "inference"}
    [] phase = "policies" ->
         {"preflight", "gateway", "provider_selection", "inference", Branch(agent)}
    [] phase \in {"finalizing", "post_verify"} -> BranchSteps(agent)
    [] OTHER -> {}

DoneSoFar(p) ==
  LET r == run[p]
  IN  CASE pc[p] = "slice" -> Behind(FirstPhase(r.slice, r.agent), r.agent)
        [] pc[p] \in {"phase", "working"} -> Behind(r.phase, r.agent)
        [] OTHER -> Behind(r.phase, r.agent) \cup ({r.phase} \cap BranchSteps(r.agent))

\* The session object in the flow context does not claim a reusable step that
\* the session file has lost.
SeenHolds(p) ==
  \A t \in {"preflight", "provider_selection"} :
    /\ run[p].seen.steps[t] = "complete"
    /\ ~(pc[p] = "working" /\ run[p].phase = t)
    => session.steps[t] = "complete"

Sound(p) ==
  /\ session.agent = run[p].agent
  /\ \A t \in DoneSoFar(p) : session.steps[t] = "complete"
  /\ SeenHolds(p)

WorkSound == \A p \in Procs : pc[p] \in AtWork => session.state = "failed" \/ Sound(p)

WorkInv == IndInv /\ OnCourse /\ ResultsInOrder /\ WorkSound /\ CompleteMeansDone

---------------------------------------------------------------------------
(* Who can change what a run at work relies on.                            *)

\* The steps of a run at work that leave it at work.
Working(p) ==
  \/ applySelectedAgentTransition(p) \/ EnterSlice(p)
  \/ ReusePhase(p) \/ StartPhase(p) \/ CompletePhase(p)
  \/ RetrySelection(p) \/ FinishStepless(p)
  \/ ApplyResult(p) \/ CheckRepair(p)

\* Somebody else's step, which can only fail the session.
Elsewhere(p) ==
  /\ pc'[p] = pc[p]
  /\ run'[p] = run[p]
  /\ session' = session \/ session'.state = "failed"

\* The exit listener leaves the session alone or fails it.
LEMMA BackstopFails ==
  ASSUME session \in Session
  PROVE  \/ markLastStartedStepFailed(session) = session
         \/ markLastStartedStepFailed(session).state = "failed"
<1>1. CASE session.lastStepStarted = None \/ session.state \in Terminal
  BY <1>1 DEF markLastStartedStepFailed, finalizeIncompleteOnboardStep
<1>2. CASE session.lastStepStarted # None /\ session.state \notin Terminal
  <2> DEFINE s == transitionMachineSnapshot(session, "failed")
             step == session.lastStepStarted
  <2>1. s \in Session /\ s.state = "failed"
    BY <1>2, SnapshotType
    DEF MachineStates, Terminal, transitionMachineSnapshot, snapshotFor, Session
  <2>2. markLastStartedStepFailed(session) =
          [s EXCEPT !.steps[step] = "failed", !.status = "failed",
                    !.failure = [step |-> step, interrupted |-> TRUE]]
    BY <1>2 DEF markLastStartedStepFailed, finalizeIncompleteOnboardStep
  <2> HIDE DEF s
  <2> QED BY <2>1, <2>2 DEF Session
<1> QED BY <1>1, <1>2

\* A step of process q.
StepOf(q) ==
  \/ \E resume \in BOOLEAN, agent \in Agents : Acquire(q, resume, agent)
  \/ Proceed(q)
  \/ Disturb(q)

\* A process moves nobody but itself.
LEMMA OthersMove ==
  ASSUME IndInv, NEW p \in Procs, NEW q \in Procs, q # p, StepOf(q)
  PROVE  pc'[p] = pc[p]
<1>0. pc \in [Procs -> PCs]
  BY DEF IndInv, TypeOK
<1> QED
  BY <1>0
  DEF StepOf, Acquire, Proceed, Disturb, PrepareFresh, PrepareResume, RefuseResume, Arm,
      applySelectedAgentTransition, EnterSlice, RejectSlice, ReusePhase, StartPhase,
      CompletePhase, RetrySelection, FinishStepless, ApplyResult, RejectResult,
      CheckRepair, RejectRepair, Finish, ExitBackstop, FinishPhase, EarlyExit,
      HandlerFails, FailAgentSetup, Pause, DeclineConfiguration, RollBackCancelled,
      Signal, Crash, Vanish, Unwind, Leave, Goto

\* While p is inside onboarding, nobody else is.
LEMMA OthersStep ==
  ASSUME IndInv, NEW p \in Procs, pc[p] \in Holding, NEW q \in Procs, q # p, StepOf(q)
  PROVE  Elsewhere(p)
<1>1. /\ session \in Session /\ pc \in [Procs -> PCs] /\ run \in [Procs -> Run]
      /\ lock = p /\ pc[q] \notin Holding /\ lock \notin {"free", "stale"}
  BY ProcsAssumption DEF IndInv, TypeOK, LockHeld
<1>2. \A resume \in BOOLEAN, agent \in Agents : ~Acquire(q, resume, agent)
  BY <1>1 DEF Acquire
<1>3. CASE Proceed(q)
  <2>1. ExitBackstop(q)
    BY <1>1, <1>3
    DEF Proceed, PrepareFresh, PrepareResume, RefuseResume, Arm,
        applySelectedAgentTransition, EnterSlice, RejectSlice, ReusePhase, StartPhase,
        CompletePhase, RetrySelection, FinishStepless, ApplyResult, RejectResult,
        CheckRepair, RejectRepair, Finish, Holding
  <2> QED BY <1>1, <2>1, BackstopFails DEF ExitBackstop, Goto, Elsewhere
<1>4. CASE Disturb(q)
  <2>1. Crash(q)
    BY <1>1, <1>4
    DEF Disturb, EarlyExit, HandlerFails, FailAgentSetup, Pause, DeclineConfiguration,
        RollBackCancelled, Signal, Holding, Armed
  <2> QED BY <1>1, <2>1 DEF Crash, Vanish, Goto, Elsewhere
<1> QED BY <1>2, <1>3, <1>4 DEF StepOf

\* A run that is at work after a step made the step itself or was left alone.
LEMMA WorkStep ==
  ASSUME IndInv, [Next]_vars, NEW p \in Procs, pc'[p] \in AtWork
  PROVE  Elsewhere(p) \/ Working(p)
<1>0. session \in Session /\ pc \in [Procs -> PCs] /\ run \in [Procs -> Run]
  BY DEF IndInv, TypeOK
<1>1. CASE UNCHANGED vars
  BY <1>1 DEF vars, Elsewhere
<1>2. ASSUME NEW q \in Procs, q # p, StepOf(q)
      PROVE  Elsewhere(p)
  <2>1. pc'[p] = pc[p]
    BY <1>2, OthersMove
  <2>2. pc[p] \in Holding
    BY <2>1 DEF AtWork, InPhase, Holding
  <2> QED BY <1>2, <2>2, OthersStep
<1>3. ASSUME NEW resume \in BOOLEAN, NEW agent \in Agents, Acquire(p, resume, agent)
      PROVE  FALSE
  BY <1>0, <1>3 DEF Acquire, Goto, AtWork, InPhase
<1>4. CASE Proceed(p)
  <2>1. CASE PrepareFresh(p) \/ PrepareResume(p) \/ RefuseResume(p) \/ Arm(p)
             \/ RejectSlice(p) \/ RejectResult(p) \/ RejectRepair(p) \/ Finish(p)
             \/ ExitBackstop(p)
    BY <1>0, <2>1
    DEF PrepareFresh, PrepareResume, RefuseResume, Arm, RejectSlice, RejectResult,
        RejectRepair, Finish, ExitBackstop, Unwind, Leave, Goto, AtWork, InPhase
  <2> QED BY <1>4, <2>1 DEF Proceed, Working
<1>5. CASE Disturb(p)
  BY <1>0, <1>5
  DEF Disturb, EarlyExit, HandlerFails, FailAgentSetup, Pause, DeclineConfiguration,
      RollBackCancelled, Signal, Crash, Vanish, Unwind, Leave, Goto, AtWork, InPhase
<1> QED BY <1>1, <1>2, <1>3, <1>4, <1>5 DEF Next, StepOf

---------------------------------------------------------------------------
(* Where a run is.                                                         *)

\* What finishing a phase does to the run.
LEMMA FinishPhaseLocal ==
  ASSUME TypeOK, NEW p \in Procs, NEW seen, FinishPhase(p, seen)
  PROVE  /\ run'[p].slice = run[p].slice
         /\ run'[p].agent = run[p].agent
         /\ run'[p].repair = run[p].repair
         /\ run'[p].seen = seen
         /\ run'[p].results =
              Append(run[p].results, Successor(run[p].phase, run[p].agent))
         /\ run'[p].phase = IF run[p].phase = "provider_selection"
                            THEN "inference" ELSE run[p].phase
         /\ pc'[p] = IF run[p].phase = "provider_selection" THEN "phase"
                     ELSE IF run[p].repair THEN "check" ELSE "apply"
<1>1. /\ pc \in [Procs -> PCs] /\ run \in [Procs -> Run]
      /\ run[p].results \in Seq(MachineStates)
  BY DEF TypeOK, Run
<1>2. HandlerResults(run[p]) =
        Append(run[p].results, Successor(run[p].phase, run[p].agent))
  BY DEF HandlerResults, Successor
<1> QED BY <1>1, <1>2 DEF FinishPhase, Goto, Run

\* The end of a result list, and the rest of it.
LEMMA ListFacts ==
  ASSUME NEW list \in Seq(MachineStates), NEW x \in MachineStates
  PROVE  /\ Len(Append(list, x)) = Len(list) + 1
         /\ Append(list, x)[Len(list) + 1] = x
         /\ \A i \in 1..Len(list) : Append(list, x)[i] = list[i]
         /\ list # <<>> =>
              /\ Len(list) > 0
              /\ Head(list) = list[1]
              /\ Len(Tail(list)) = Len(list) - 1
              /\ \A i \in 1..Len(Tail(list)) : Tail(list)[i] = list[i + 1]
OBVIOUS

\* A list with an empty rest has one element.
LEMMA TailFacts ==
  ASSUME NEW list \in Seq(MachineStates), Len(list) > 0
  PROVE  /\ Head(list) = list[1]
         /\ Tail(list) = <<>> => Len(list) = 1
         /\ Tail(list) # <<>> => Len(list) > 1
<1>1. list # <<>> /\ Len(list) \in Nat
  OBVIOUS
<1>2. Tail(list) \in Seq(MachineStates) /\ Len(Tail(list)) = Len(list) - 1
  BY <1>1
<1>3. Head(list) = list[1]
  BY <1>1
<1>4. Tail(list) = <<>> <=> Len(Tail(list)) = 0
  BY <1>2
<1> QED BY <1>1, <1>2, <1>3, <1>4

\* The successor of a phase is a machine state.
LEMMA SuccessorType ==
  ASSUME NEW phase \in NonTerminal, NEW agent
  PROVE  Successor(phase, agent) \in MachineStates
<1>1. CASE phase \in {"init", "finalizing", "post_verify"}
  BY <1>1 DEF Successor, MachineStates, NonTerminal, StepNames, Terminal
<1>2. CASE phase \notin {"init", "finalizing", "post_verify"}
  <2>1. phase \in StepNames
    BY <1>2 DEF NonTerminal
  <2> QED BY <1>2, <2>1, NextStateType DEF Successor, MachineStates
<1> QED BY <1>1, <1>2

\* A run that starts is at the first slice.
LEMMA StartingStep ==
  ASSUME IndInv, OnCourse, [Next]_vars, NEW p \in Procs, pc'[p] \in Starting
  PROVE  run'[p].slice = "initial"
<1>0. session \in Session /\ pc \in [Procs -> PCs] /\ run \in [Procs -> Run]
  BY DEF IndInv, TypeOK
<1>1. CASE UNCHANGED vars
  BY <1>1 DEF vars, OnCourse
<1>2. ASSUME NEW q \in Procs, q # p, StepOf(q)
      PROVE  run'[p].slice = "initial"
  <2>1. pc'[p] = pc[p]
    BY <1>2, OthersMove
  <2>2. pc[p] \in Holding
    BY <2>1 DEF Starting, Holding
  <2> QED BY <1>2, <2>1, <2>2, OthersStep DEF Elsewhere, OnCourse
<1>3. ASSUME NEW resume \in BOOLEAN, NEW agent \in Agents, Acquire(p, resume, agent)
      PROVE  run'[p].slice = "initial"
  BY <1>0, <1>3 DEF Acquire, NewRun
<1>4. CASE Proceed(p)
  <2>1. CASE PrepareFresh(p) \/ PrepareResume(p) \/ Arm(p)
    BY <1>0, <2>1 DEF PrepareFresh, PrepareResume, Arm, Goto, OnCourse, Starting
  <2>2. CASE RefuseResume(p) \/ RejectSlice(p) \/ RejectResult(p) \/ RejectRepair(p)
             \/ Finish(p) \/ ExitBackstop(p)
    BY <1>0, <2>2
    DEF RefuseResume, RejectSlice, RejectResult, RejectRepair, Finish, ExitBackstop,
        Unwind, Leave, Goto, Starting
  <2>3. CASE Working(p)
    <3>1. CASE CheckRepair(p)
      BY <1>0, <3>1 DEF CheckRepair, AfterRepair, Goto, Starting
    <3>2. CASE ~CheckRepair(p)
      BY <1>0, <2>3, <3>2
      DEF Working, applySelectedAgentTransition, EnterSlice, ReusePhase, StartPhase,
          CompletePhase, RetrySelection, FinishStepless, ApplyResult, FinishPhase, Goto,
          Starting
    <3> QED BY <3>1, <3>2
  <2> QED BY <1>4, <2>1, <2>2, <2>3 DEF Proceed, Working
<1>5. CASE Disturb(p)
  BY <1>0, <1>5
  DEF Disturb, EarlyExit, HandlerFails, FailAgentSetup, Pause, DeclineConfiguration,
      RollBackCancelled, Signal, Crash, Vanish, Unwind, Leave, Goto, Starting
<1> QED BY <1>1, <1>2, <1>3, <1>4, <1>5 DEF Next, StepOf

\* A result that is applied: the last one leads out of the phase, the others
\* stay within provider selection and inference.
LEMMA ApplyResultLocal ==
  ASSUME IndInv, OnCourse, ResultsInOrder, NEW p \in Procs, ApplyResult(p)
  PROVE  /\ pc[p] = "apply"
         /\ run'[p].agent = run[p].agent
         /\ run'[p].seen = run[p].seen
         /\ run'[p].repair = run[p].repair
         /\ run'[p].results = Tail(run[p].results)
         /\ \/ /\ Head(run[p].results) = Successor(run[p].phase, run[p].agent)
               /\ Tail(run[p].results) = <<>>
               /\ run[p].slice # "final"
               /\ Head(run[p].results) \in StopStates(run[p].slice)
               /\ pc'[p] = "slice"
               /\ run'[p].slice = NextSlice(run[p].slice)
            \/ /\ Head(run[p].results) = Successor(run[p].phase, run[p].agent)
               /\ Head(run[p].results) \in Terminal
               /\ pc'[p] = "done"
            \/ /\ Head(run[p].results) = Successor(run[p].phase, run[p].agent)
               /\ Head(run[p].results) \notin StopStates(run[p].slice) \cup Terminal
               /\ Tail(run[p].results) = <<>>
               /\ pc'[p] = "phase"
               /\ run'[p].slice = run[p].slice
               /\ run'[p].phase = Head(run[p].results)
            \/ /\ run[p].phase = "inference"
               /\ Tail(run[p].results) # <<>>
               /\ pc'[p] = "apply"
               /\ run'[p].slice = run[p].slice
               /\ run'[p].phase = run[p].phase
<1> DEFINE r == run[p]
           list == r.results
           to == Head(list)
<1>0. /\ TypeOK /\ pc \in [Procs -> PCs] /\ run \in [Procs -> Run] /\ r \in Run
      /\ list \in Seq(MachineStates) /\ to \in MachineStates
  <2>1. TypeOK /\ pc \in [Procs -> PCs] /\ run \in [Procs -> Run] /\ r \in Run
    BY DEF IndInv, TypeOK
  <2>2. list \in Seq(MachineStates)
    BY <2>1 DEF Run
  <2>3. list # <<>>
    BY DEF IndInv, WorkInHand, ApplyResult
  <2>4. to \in MachineStates
    <3> HIDE DEF list
    <3> QED BY <2>2, <2>3
  <2> QED BY <2>1, <2>2, <2>4
<1>1. pc[p] = "apply" /\ InOrder(p) /\ r.phase \in Phases(r.slice, r.agent)
  BY DEF ApplyResult, ResultsInOrder, OnCourse, InPhase
<1>2. /\ Len(list) > 0
      /\ list[Len(list)] = Successor(r.phase, r.agent)
      /\ \A i \in 1..(Len(list) - 1) : r.phase = "inference" /\ list[i] \in Selecting
  BY <1>1 DEF InOrder
<1>3. /\ to = list[1]
      /\ Tail(list) = <<>> => Len(list) = 1
      /\ Tail(list) # <<>> => Len(list) > 1
  BY <1>0, <1>2, TailFacts
<1>4. /\ run'[p].agent = r.agent /\ run'[p].seen = r.seen /\ run'[p].repair = r.repair
      /\ run'[p].results = Tail(list)
      /\ run'[p].slice = IF to \in StopStates(r.slice) THEN NextSlice(r.slice) ELSE r.slice
      /\ run'[p].phase = IF Tail(list) = <<>> /\ to \in NonTerminal THEN to ELSE r.phase
      /\ pc'[p] = IF to \in StopStates(r.slice) THEN "slice"
                  ELSE IF to \in Terminal THEN "done"
                  ELSE IF Tail(list) = <<>> THEN "phase" ELSE "apply"
  BY <1>0 DEF ApplyResult, Goto, Run
<1>5. CASE Tail(list) = <<>>
  <2>1. to = Successor(r.phase, r.agent)
    <3> HIDE DEF list, to
    <3> QED BY <1>2, <1>3, <1>5
  <2>2. to \in StopStates(r.slice) => r.slice # "final"
    BY DEF StopStates
  <2>3. to \notin Terminal => to \in NonTerminal
    BY <1>0 DEF MachineStates
  <2> QED BY <1>1, <1>4, <1>5, <2>1, <2>2, <2>3
<1>6. CASE Tail(list) # <<>>
  <2>1. r.phase = "inference" /\ to \in Selecting
    <3> HIDE DEF list, to
    <3> QED BY <1>2, <1>3, <1>6
  <2>2. r.slice = "core"
    BY <1>1, <2>1 DEF Phases, Branch
  <2>3. to \notin StopStates(r.slice) \cup Terminal
    BY <2>1, <2>2 DEF StopStates, Terminal, Selecting
  <2> QED BY <1>1, <1>4, <1>6, <2>1, <2>3
<1> QED BY <1>5, <1>6

\* What follows a repaired phase.
LEMMA CheckRepairLocal ==
  ASSUME TypeOK, NEW p \in Procs, CheckRepair(p)
  PROVE  /\ pc[p] = "check"
         /\ run'[p].agent = run[p].agent
         /\ run'[p].seen = run[p].seen
         /\ \/ /\ run[p].phase = "inference"
               /\ pc'[p] = "apply"
               /\ run'[p].slice = run[p].slice
               /\ run'[p].phase = "inference"
               /\ run'[p].repair = FALSE
               /\ run'[p].results = <<"sandbox">>
            \/ /\ run[p].phase \notin {"gateway", "sandbox"}
               /\ pc'[p] = "phase"
               /\ run'[p].slice = run[p].slice
               /\ run'[p].phase = Successor(run[p].phase, run[p].agent)
               /\ run'[p].results = <<>>
            \/ /\ run[p].phase \notin {"preflight", "inference", "openclaw", "agent_setup",
                                       "policies", "finalizing"}
               /\ pc'[p] = "slice"
               /\ run'[p].slice = NextSlice(run[p].slice)
               /\ run'[p].results = <<>>
<1> DEFINE r == run[p]
           a == AfterRepair(r)
<1>0. pc \in [Procs -> PCs] /\ run \in [Procs -> Run] /\ r \in Run
  BY DEF TypeOK
<1>1. /\ pc[p] = "check" /\ pc'[p] = a.to
      /\ run'[p].agent = r.agent /\ run'[p].seen = r.seen
      /\ run'[p].phase = a.phase /\ run'[p].repair = a.repair
      /\ run'[p].results = IF a.to = "apply" THEN <<"sandbox">> ELSE <<>>
      /\ run'[p].slice = IF a.to = "slice" THEN NextSlice(r.slice) ELSE r.slice
  BY <1>0 DEF CheckRepair, Goto, Run
<1>2. \/ r.phase = "inference" /\ a.to = "apply" /\ a.phase = "inference" /\ a.repair = FALSE
      \/ /\ r.phase \notin {"gateway", "sandbox"} /\ a.to = "phase"
         /\ a.phase = Successor(r.phase, r.agent)
      \/ /\ r.phase \notin {"preflight", "inference", "openclaw", "agent_setup",
                            "policies", "finalizing"}
         /\ a.to = "slice"
  BY DEF AfterRepair, Successor, nextMachineStateAfterCompletedStep
<1> HIDE DEF a
<1> QED BY <1>1, <1>2

\* What follows a phase within its slice.
LEMMA SuccessorInSlice ==
  ASSUME NEW slice \in Slices, NEW agent, NEW phase \in Phases(slice, agent),
         Successor(phase, agent) \notin StopStates(slice) \cup Terminal
  PROVE  /\ Successor(phase, agent) \in Phases(slice, agent)
         /\ Successor(phase, agent) # "init"
BY DEF Slices, Phases, Successor, nextMachineStateAfterCompletedStep, StopStates, Terminal,
       Branch

\* Every step keeps runs on course.
LEMMA CourseStep ==
  ASSUME IndInv, OnCourse, ResultsInOrder, [Next]_vars
  PROVE  OnCourse'
<1> SUFFICES ASSUME NEW p \in Procs, pc'[p] \in InPhase
             PROVE  /\ run'[p].phase \in Phases(run'[p].slice, run'[p].agent)
                    /\ run'[p].repair \/ pc'[p] = "check" => run'[p].phase # "init"
                    /\ pc'[p] \in {"apply", "check"} => run'[p].phase # "provider_selection"
  BY StartingStep DEF OnCourse
<1> DEFINE r == run[p]
<1>0. /\ TypeOK /\ pc \in [Procs -> PCs] /\ run \in [Procs -> Run] /\ r \in Run
      /\ r.results \in Seq(MachineStates)
  BY DEF IndInv, TypeOK, Run
<1>1. Elsewhere(p) \/ Working(p)
  BY WorkStep DEF AtWork
<1>2. CASE Elsewhere(p)
  BY <1>2 DEF Elsewhere, OnCourse
<1>3. ASSUME pc[p] \in InPhase
      PROVE  /\ r.phase \in Phases(r.slice, r.agent)
             /\ r.repair \/ pc[p] = "check" => r.phase # "init"
             /\ pc[p] \in {"apply", "check"} => r.phase # "provider_selection"
  BY <1>3 DEF OnCourse
<1>4. CASE applySelectedAgentTransition(p)
  BY <1>0, <1>4 DEF applySelectedAgentTransition, Goto, InPhase
<1>5. CASE EnterSlice(p)
  BY <1>0, <1>5 DEF EnterSlice, Goto, RunnerEntries, FirstPhase, Phases, Run, Slices, Branch
<1>6. CASE ReusePhase(p) \/ CompletePhase(p) \/ FinishStepless(p)
  <2>1. PICK seen : FinishPhase(p, seen)
    BY <1>6 DEF ReusePhase, CompletePhase, FinishStepless
  <2>2. pc[p] \in {"phase", "working"}
    BY <1>6 DEF ReusePhase, CompletePhase, FinishStepless
  <2> QED BY <1>0, <1>3, <2>1, <2>2, FinishPhaseLocal DEF InPhase, Phases, Branch
<1>7. CASE StartPhase(p)
  BY <1>0, <1>3, <1>7 DEF StartPhase, Goto, InPhase
<1>8. CASE RetrySelection(p)
  BY <1>0, <1>3, <1>8 DEF RetrySelection, Goto, InPhase, Phases, Branch
<1>9. CASE ApplyResult(p)
  <2>1. pc[p] \in InPhase
    BY <1>9 DEF ApplyResult, InPhase
  <2>2. r.slice \in Slices
    BY <1>0 DEF Run
  <2>3. run'[p].repair = r.repair /\ run'[p].agent = r.agent /\ pc'[p] # "check"
    BY <1>9, ApplyResultLocal
  <2>4. CASE pc'[p] = "phase"
    BY <1>3, <1>9, <2>1, <2>2, <2>3, <2>4, ApplyResultLocal, SuccessorInSlice
  <2>5. CASE pc'[p] = "apply"
    BY <1>3, <1>9, <2>1, <2>3, <2>5, ApplyResultLocal
  <2>6. pc'[p] \notin {"slice", "done"}
    BY DEF InPhase
  <2> QED BY <1>9, <2>4, <2>5, <2>6, ApplyResultLocal
<1>10. CASE CheckRepair(p)
  <2>1. pc[p] \in InPhase /\ r.slice \in Slices
    BY <1>0, <1>10 DEF CheckRepair, InPhase, Run
  <2>2. pc'[p] \in {"phase", "apply"} /\ run'[p].agent = r.agent
    BY <1>0, <1>10, CheckRepairLocal DEF InPhase
  <2>3. CASE pc'[p] = "apply"
    BY <1>0, <1>3, <1>10, <2>1, <2>2, <2>3, CheckRepairLocal
  <2>4. CASE pc'[p] = "phase"
    <3>1. /\ r.phase \notin {"gateway", "sandbox"}
          /\ run'[p].slice = r.slice /\ run'[p].phase = Successor(r.phase, r.agent)
      BY <1>0, <1>10, <2>4, CheckRepairLocal
    <3>2. r.phase # "post_verify"
      BY <1>10, <2>4, <1>0 DEF CheckRepair, AfterRepair, Goto
    <3>3. Successor(r.phase, r.agent) \notin StopStates(r.slice) \cup Terminal
      BY <1>3, <2>1, <3>1, <3>2
      DEF Slices, Phases, Successor, nextMachineStateAfterCompletedStep, StopStates,
          Terminal, Branch
    <3> QED BY <1>3, <2>1, <2>2, <2>4, <3>1, <3>3, SuccessorInSlice
  <2> QED BY <2>2, <2>3, <2>4
<1> QED
  BY <1>1, <1>2, <1>4, <1>5, <1>6, <1>7, <1>8, <1>9, <1>10 DEF Working

\* Every step keeps the results of a handler in order.
LEMMA OrderStep ==
  ASSUME IndInv, OnCourse, ResultsInOrder, [Next]_vars
  PROVE  ResultsInOrder'
<1> SUFFICES ASSUME NEW p \in Procs PROVE InOrder(p)'
  BY DEF ResultsInOrder
<1> DEFINE r == run[p]
           list == r.results
           next == Successor(r.phase, r.agent)
<1>0. /\ TypeOK /\ pc \in [Procs -> PCs] /\ run \in [Procs -> Run] /\ r \in Run
      /\ list \in Seq(MachineStates) /\ InOrder(p) /\ next \in MachineStates
  BY SuccessorType DEF IndInv, TypeOK, Run, ResultsInOrder
<1>1. CASE pc'[p] \notin AtWork
  BY <1>1 DEF InOrder, AtWork, InPhase
<1>2. CASE Elsewhere(p)
  BY <1>0, <1>2 DEF Elsewhere, InOrder
<1>3. CASE applySelectedAgentTransition(p)
  BY <1>0, <1>3 DEF applySelectedAgentTransition, Goto, InOrder
<1>4. CASE EnterSlice(p)
  <2>1. pc'[p] = "phase" /\ run'[p].results = <<>>
    BY <1>0, <1>4 DEF EnterSlice, Goto, Run
  <2> QED BY <2>1 DEF InOrder
<1>5. CASE ReusePhase(p) \/ CompletePhase(p) \/ FinishStepless(p)
  <2>1. PICK seen : FinishPhase(p, seen)
    BY <1>5 DEF ReusePhase, CompletePhase, FinishStepless
  <2>2. pc[p] \in {"phase", "working"}
    BY <1>5 DEF ReusePhase, CompletePhase, FinishStepless
  <2>3. /\ run'[p].results = Append(list, next)
        /\ run'[p].agent = r.agent
        /\ run'[p].phase = IF r.phase = "provider_selection" THEN "inference" ELSE r.phase
        /\ pc'[p] = IF r.phase = "provider_selection" THEN "phase"
                    ELSE IF r.repair THEN "check" ELSE "apply"
    BY <1>0, <2>1, FinishPhaseLocal
  <2>4. \A i \in 1..Len(list) : r.phase \in Selecting /\ list[i] \in Selecting
    BY <1>0, <2>2 DEF InOrder
  <2>5. /\ Len(Append(list, next)) = Len(list) + 1
        /\ Append(list, next)[Len(list) + 1] = next
        /\ \A i \in 1..Len(list) : Append(list, next)[i] = list[i]
        /\ Len(list) \in Nat
    BY <1>0, ListFacts
  <2>6. CASE r.phase = "provider_selection"
    <3>1. next = "inference"
      BY <2>6 DEF Successor, nextMachineStateAfterCompletedStep
    <3>2. \A i \in 1..Len(run'[p].results) : run'[p].results[i] \in Selecting
      <4> HIDE DEF list, next, r
      <4> QED BY <2>3, <2>4, <2>5, <3>1 DEF Selecting
    <3> QED BY <2>3, <2>6, <3>2 DEF InOrder, Selecting
  <2>7. CASE r.phase # "provider_selection"
    <3>1. run'[p].phase = r.phase /\ pc'[p] \in {"check", "apply"}
      BY <2>3, <2>7
    <3>2. \A i \in 1..Len(list) : r.phase = "inference"
      BY <2>4, <2>7 DEF Selecting
    <3>3. /\ Len(run'[p].results) > 0
          /\ run'[p].results[Len(run'[p].results)] = next
          /\ \A i \in 1..(Len(run'[p].results) - 1) :
               r.phase = "inference" /\ run'[p].results[i] \in Selecting
      <4> HIDE DEF list, next, r
      <4> QED BY <2>3, <2>4, <2>5, <3>2
    <3> QED BY <2>3, <3>1, <3>3 DEF InOrder
  <2> QED BY <2>6, <2>7
<1>6. CASE StartPhase(p)
  BY <1>0, <1>6 DEF StartPhase, Goto, InOrder
<1>7. CASE RetrySelection(p)
  <2>1. /\ pc[p] = "working" /\ pc'[p] = "phase"
        /\ run'[p].results = Append(list, "provider_selection")
        /\ run'[p].phase = "provider_selection"
    BY <1>0, <1>7 DEF RetrySelection, Goto, Run
  <2>2. \A i \in 1..Len(list) : list[i] \in Selecting
    BY <1>0, <2>1 DEF InOrder
  <2>3. /\ Len(Append(list, "provider_selection")) = Len(list) + 1
        /\ Append(list, "provider_selection")[Len(list) + 1] = "provider_selection"
        /\ \A i \in 1..Len(list) : Append(list, "provider_selection")[i] = list[i]
        /\ Len(list) \in Nat
    BY <1>0, ListFacts DEF MachineStates, NonTerminal, StepNames
  <2>4. \A i \in 1..Len(run'[p].results) : run'[p].results[i] \in Selecting
    <3> HIDE DEF list, r
    <3> QED BY <2>1, <2>2, <2>3 DEF Selecting
  <2> QED BY <2>1, <2>4 DEF InOrder, Selecting
<1>8. CASE ApplyResult(p)
  <2>1. CASE pc'[p] \in {"slice", "done"}
    BY <2>1 DEF InOrder
  <2>2. CASE pc'[p] = "phase"
    <3>1. run'[p].results = <<>>
      BY <1>8, <2>2, ApplyResultLocal
    <3> QED BY <2>2, <3>1 DEF InOrder
  <2>3. CASE pc'[p] = "apply"
    <3>1. /\ pc[p] = "apply" /\ Tail(list) # <<>>
          /\ run'[p].results = Tail(list)
          /\ run'[p].agent = r.agent /\ run'[p].phase = r.phase
      BY <1>8, <2>3, ApplyResultLocal
    <3>2. /\ Len(list) > 0
          /\ list[Len(list)] = next
          /\ \A i \in 1..(Len(list) - 1) : r.phase = "inference" /\ list[i] \in Selecting
      BY <1>0, <3>1 DEF InOrder
    <3>3. /\ Len(list) > 1 /\ Len(list) \in Nat
          /\ Len(Tail(list)) = Len(list) - 1
          /\ \A i \in 1..Len(Tail(list)) : Tail(list)[i] = list[i + 1]
      <4>1. list # <<>> /\ Len(list) \in Nat
        BY <1>0, <3>2
      <4>2. Len(list) > 1
        BY <1>0, <3>1, <3>2, TailFacts
      <4> QED BY <1>0, <4>1, <4>2, ListFacts
    <3>4. /\ Len(run'[p].results) > 0
          /\ run'[p].results[Len(run'[p].results)] = next
          /\ \A i \in 1..(Len(run'[p].results) - 1) :
               r.phase = "inference" /\ run'[p].results[i] \in Selecting
      <4> HIDE DEF list, next, r
      <4> QED BY <3>1, <3>2, <3>3
    <3> QED BY <2>3, <3>1, <3>4 DEF InOrder
  <2> QED BY <1>8, <2>1, <2>2, <2>3, ApplyResultLocal
<1>9. CASE CheckRepair(p)
  <2>1. CASE pc'[p] # "apply"
    <3>1. run'[p].results = <<>> /\ pc'[p] \in {"phase", "slice"}
      BY <1>0, <1>9, <2>1, CheckRepairLocal
    <3> QED BY <3>1 DEF InOrder
  <2>2. CASE pc'[p] = "apply"
    <3>1. run'[p].results = <<"sandbox">> /\ run'[p].phase = "inference"
      BY <1>0, <1>9, <2>2, CheckRepairLocal
    <3>2. Successor("inference", run'[p].agent) = "sandbox"
      BY DEF Successor, nextMachineStateAfterCompletedStep
    <3> QED BY <2>2, <3>1, <3>2 DEF InOrder
  <2> QED BY <2>1, <2>2
<1> QED
  BY <1>1, <1>2, <1>3, <1>4, <1>5, <1>6, <1>7, <1>8, <1>9, WorkStep DEF Working

---------------------------------------------------------------------------
(* What a run has done.                                                    *)

\* The branch steps, spelt out.
Branches == {"openclaw", "agent_setup"}
After(phase, agent) == Behind(phase, agent) \cup ({phase} \cap BranchSteps(agent))

\* What is behind a phase are steps, not the phase itself, and not the other
\* branch.
LEMMA BehindFacts ==
  ASSUME NEW slice \in Slices, NEW agent, NEW phase \in Phases(slice, agent)
  PROVE  /\ Behind(phase, agent) \subseteq BranchSteps(agent) \ {phase}
         /\ BranchSteps(agent) \subseteq StepNames
         /\ phase \in Branches => BranchSteps(agent) \cap Branches = {phase}
BY DEF Slices, Phases, Behind, BranchSteps, Branch, Branches, StepNames

\* What is behind the next phase, or the next slice, is behind or at this one.
LEMMA AfterFacts ==
  ASSUME NEW slice \in Slices, NEW agent, NEW phase \in Phases(slice, agent)
  PROVE  /\ Successor(phase, agent) \notin StopStates(slice) \cup Terminal =>
              Behind(Successor(phase, agent), agent) \subseteq After(phase, agent)
         /\ \/ Successor(phase, agent) \in StopStates(slice)
            \/ phase \notin {"init", "preflight", "provider_selection", "inference"}
            => Behind(FirstPhase(NextSlice(slice), agent), agent) \subseteq After(phase, agent)
         /\ phase \notin Stepless \cup {"sandbox"} => phase \in BranchSteps(agent)
<1>0. Branch(agent) \in Branches
  BY DEF Branch, Branches
<1>1. CASE slice = "initial"
  <2>1. phase \in {"init", "preflight", "gateway"}
    BY <1>1 DEF Phases
  <2>2. FirstPhase(NextSlice(slice), agent) = "provider_selection"
    BY <1>1 DEF NextSlice, FirstPhase
  <2>3. /\ phase = "init" => Successor(phase, agent) = "preflight"
        /\ phase = "preflight" => Successor(phase, agent) = "gateway"
        /\ phase = "gateway" => Successor(phase, agent) = "provider_selection"
    BY DEF Successor, nextMachineStateAfterCompletedStep
  <2>4. StopStates(slice) = {"provider_selection"}
    BY <1>1 DEF StopStates
  <2> QED
    BY <2>1, <2>2, <2>3, <2>4 DEF Behind, After, BranchSteps, Stepless
<1>2. CASE slice = "core"
  <2>1. phase \in {"provider_selection", "inference", "sandbox"}
    BY <1>2 DEF Phases
  <2>2. FirstPhase(NextSlice(slice), agent) = Branch(agent)
    BY <1>2 DEF NextSlice, FirstPhase
  <2>3. /\ phase = "provider_selection" => Successor(phase, agent) = "inference"
        /\ phase = "inference" => Successor(phase, agent) = "sandbox"
        /\ phase = "sandbox" => Successor(phase, agent) = Branch(agent)
    BY DEF Successor, nextMachineStateAfterCompletedStep
  <2>4. StopStates(slice) = Branches
    BY <1>2 DEF StopStates, Branches
  <2> QED
    BY <1>0, <2>1, <2>2, <2>3, <2>4 DEF Behind, After, BranchSteps, Stepless, Branches
<1>3. CASE slice = "final"
  <2>1. phase \in {Branch(agent), "policies", "finalizing", "post_verify"}
    BY <1>3 DEF Phases
  <2>2. FirstPhase(NextSlice(slice), agent) = Branch(agent)
    BY <1>3 DEF NextSlice, FirstPhase
  <2>3. /\ phase = Branch(agent) => Successor(phase, agent) = "policies"
        /\ phase = "policies" => Successor(phase, agent) = "finalizing"
        /\ phase = "finalizing" => Successor(phase, agent) = "post_verify"
        /\ phase = "post_verify" => Successor(phase, agent) = "complete"
    BY DEF Successor, nextMachineStateAfterCompletedStep, Branch
  <2>4. StopStates(slice) = {} /\ "complete" \in Terminal
    BY <1>3 DEF StopStates, Terminal
  <2>5. CASE phase = Branch(agent)
    BY <1>0, <2>2, <2>3, <2>4, <2>5 DEF Behind, After, BranchSteps, Stepless, Branches
  <2>6. CASE phase # Branch(agent)
    BY <1>0, <2>1, <2>2, <2>3, <2>4, <2>6
    DEF Behind, After, BranchSteps, Stepless, Branches
  <2> QED BY <2>5, <2>6
<1> QED BY <1>1, <1>2, <1>3 DEF Slices

\* Starting to work marks one step.
LEMMA StartedSteps ==
  ASSUME NEW s \in Session, NEW step \in StepNames
  PROVE  /\ markStepStarted(s, step).agent = s.agent
         /\ \A t \in StepNames \ {step} : markStepStarted(s, step).steps[t] = s.steps[t]
BY DEF markStepStarted, Session

\* Completing a step marks it, and may skip the other branch.
LEMMA CompletedSteps ==
  ASSUME NEW s \in Session, NEW step \in StepNames, NEW u,
         u = SkipOtherBranch(markStepComplete(s, step), step)
  PROVE  /\ u \in Session
         /\ u.agent = s.agent /\ u.state = s.state
         /\ u.steps[step] = "complete"
         /\ \A t \in StepNames \ {step} :
              ~(step \in Branches /\ t \in Branches) => u.steps[t] = s.steps[t]
<1> DEFINE c == markStepComplete(s, step)
<1>0. c \in Session
  BY MarkType
<1>1. /\ c.agent = s.agent /\ c.state = s.state
      /\ c.steps[step] = "complete"
      /\ \A t \in StepNames \ {step} : c.steps[t] = s.steps[t]
  BY DEF markStepComplete, Session
<1>2. ASSUME NEW other \in StepNames \ {step}
      PROVE  /\ markStepSkipped(c, other).agent = c.agent
             /\ markStepSkipped(c, other).state = c.state
             /\ \A t \in StepNames \ {other} :
                  markStepSkipped(c, other).steps[t] = c.steps[t]
  <2> HIDE DEF c
  <2> QED BY <1>0 DEF markStepSkipped, Session
<1>3. u \in Session
  BY <1>0, SkipOtherBranchType
<1>4. Branches \subseteq StepNames
  BY DEF Branches, StepNames
<1>5. CASE step \in Branches
  <2>1. PICK other \in Branches \ {step} : u = markStepSkipped(c, other)
    <3>1. CASE step = "openclaw"
      BY <3>1 DEF SkipOtherBranch, Branches
    <3>2. CASE step = "agent_setup"
      BY <3>2 DEF SkipOtherBranch, Branches
    <3> QED BY <1>5, <3>1, <3>2 DEF Branches
  <2>2. other \in StepNames \ {step} /\ step \in StepNames \ {other}
    BY <1>4, <2>1
  <2>3. /\ u.agent = c.agent /\ u.state = c.state
        /\ \A t \in StepNames \ {other} : u.steps[t] = c.steps[t]
    BY <1>2, <2>1, <2>2
  <2> HIDE DEF c
  <2> QED BY <1>1, <1>3, <1>5, <2>1, <2>2, <2>3
<1>6. CASE step \notin Branches
  <2>1. u = c
    BY <1>6 DEF SkipOtherBranch, Branches
  <2> HIDE DEF c
  <2> QED BY <1>1, <1>3, <2>1, <1>6
<1> QED BY <1>5, <1>6

\* A failed session stays failed as long as the run is at work.
LEMMA StaysFailed ==
  ASSUME IndInv, [Next]_vars, NEW p \in Procs, Working(p), session.state = "failed"
  PROVE  session'.state = "failed"
<1>0. session \in Session /\ pc \in [Procs -> PCs] /\ run \in [Procs -> Run] /\ Typed
  BY DEF IndInv, TypeOK, Typed
<1>1. ~ApplyResult(p)
  BY DEF ApplyResult, ResultApplies, canTransitionOnboardMachineState,
         ONBOARD_MACHINE_DIRECT_TRANSITIONS, NonTerminal, StepNames
<1>2. CASE EnterSlice(p) \/ RetrySelection(p) \/ FinishStepless(p) \/ CheckRepair(p)
  BY <1>2 DEF EnterSlice, RetrySelection, FinishStepless, CheckRepair
<1>3. CASE applySelectedAgentTransition(p)
  BY <1>0, <1>3 DEF applySelectedAgentTransition, clearAgentScopedResumeState, Session
<1>4. CASE StartPhase(p)
  <2>1. run[p].phase \in StepNames
    BY <1>0, <1>4 DEF StartPhase, Run, Stepless, NonTerminal
  <2> QED BY <1>0, <1>4, <2>1, MarkKeepsSnapshot DEF StartPhase
<1>5. CASE CompletePhase(p)
  <2>1. run[p].phase \in StepNames
    BY <1>0, <1>5 DEF CompletePhase, Typed, WorkInHand
  <2> QED BY <1>0, <1>5, <2>1, CompletedSteps DEF CompletePhase
<1>6. CASE ReusePhase(p)
  <2>1. run[p].phase \in StepNames
    BY <1>0, <1>6 DEF ReusePhase, Run, Stepless, NonTerminal
  <2> QED BY <1>0, <1>6, <2>1, CompletedSteps DEF ReusePhase
<1> QED BY <1>1, <1>2, <1>3, <1>4, <1>5, <1>6 DEF Working

\* A machine transition leaves the step marks, the last start and the agent alone.
LEMMA TransitionKeeps ==
  ASSUME NEW s \in Session, NEW to \in MachineStates
  PROVE  /\ transition(s, to).steps = s.steps
         /\ transition(s, to).agent = s.agent
         /\ transition(s, to).lastStepStarted = s.lastStepStarted
<1> DEFINE m == transitionMachineSnapshot(s, to)
           n == snapshotFor(s, to)
<1>1. m \in Session /\ n \in Session
  BY SnapshotType
<1>2. /\ n.steps = s.steps /\ n.agent = s.agent /\ n.lastStepStarted = s.lastStepStarted
      /\ m.steps = s.steps /\ m.agent = s.agent /\ m.lastStepStarted = s.lastStepStarted
  BY DEF snapshotFor, transitionMachineSnapshot, Session
<1>3. transition(s, to) =
        IF to = "complete"
        THEN [m EXCEPT !.status = "complete", !.resumable = FALSE, !.failure = NoFailure]
        ELSE [n EXCEPT !.status = IF n.status = "failed" THEN n.status ELSE "in_progress"]
  BY <1>1 DEF transition, Session
<1> HIDE DEF m, n
<1> QED BY <1>1, <1>2, <1>3 DEF Session

\* Finishing a phase whose step is recorded keeps what the run relies on.
LEMMA FinishSound ==
  ASSUME IndInv, OnCourse, NEW p \in Procs, NEW seen, FinishPhase(p, seen),
         pc[p] \in {"phase", "working"},
         session'.agent = run[p].agent,
         \A t \in Behind(run[p].phase, run[p].agent) : session'.steps[t] = "complete",
         run[p].phase \in BranchSteps(run[p].agent) =>
           session'.steps[run[p].phase] = "complete",
         \A t \in {"preflight", "provider_selection"} :
           seen.steps[t] = "complete" => session'.steps[t] = "complete"
  PROVE  Sound(p)'
<1> DEFINE r == run[p]
<1>1. /\ run'[p].agent = r.agent
      /\ run'[p].seen = seen
      /\ run'[p].phase = IF r.phase = "provider_selection" THEN "inference" ELSE r.phase
      /\ pc'[p] = IF r.phase = "provider_selection" THEN "phase"
                  ELSE IF r.repair THEN "check" ELSE "apply"
  BY FinishPhaseLocal DEF IndInv
<1>2. \A t \in Behind(r.phase, r.agent) \cup ({r.phase} \cap BranchSteps(r.agent)) :
        session'.steps[t] = "complete"
  OBVIOUS
<1>3. DoneSoFar(p)' \subseteq
        Behind(r.phase, r.agent) \cup ({r.phase} \cap BranchSteps(r.agent))
  <2>1. CASE r.phase = "provider_selection"
    BY <1>1, <2>1 DEF DoneSoFar, Behind, BranchSteps
  <2>2. CASE r.phase # "provider_selection"
    <3>1. pc'[p] \in {"check", "apply"} /\ run'[p].phase = r.phase
      BY <1>1, <2>2
    <3> QED BY <1>1, <3>1 DEF DoneSoFar
  <2> QED BY <2>1, <2>2
<1>4. SeenHolds(p)'
  BY <1>1 DEF SeenHolds
<1> QED BY <1>1, <1>2, <1>3, <1>4 DEF Sound

\* Recording the step of the current phase as complete keeps what is behind it.
LEMMA RecordedSound ==
  ASSUME IndInv, OnCourse, NEW p \in Procs, Sound(p),
         pc[p] \in {"phase", "working"}, run[p].phase \in StepNames,
         session' = SkipOtherBranch(markStepComplete(session, run[p].phase), run[p].phase)
  PROVE  /\ session'.agent = run[p].agent
         /\ session'.steps[run[p].phase] = "complete"
         /\ \A t \in Behind(run[p].phase, run[p].agent) : session'.steps[t] = "complete"
         /\ Seen(session').steps = session'.steps
<1> DEFINE r == run[p]
<1>0. session \in Session /\ r \in Run
  BY DEF IndInv, TypeOK
<1>1. r.slice \in Slices /\ r.phase \in Phases(r.slice, r.agent)
  BY <1>0 DEF OnCourse, InPhase, Run
<1>2. /\ session'.agent = session.agent
      /\ session'.steps[r.phase] = "complete"
      /\ \A t \in StepNames \ {r.phase} :
           ~(r.phase \in Branches /\ t \in Branches) => session'.steps[t] = session.steps[t]
  BY <1>0, CompletedSteps
<1>3. /\ Behind(r.phase, r.agent) \subseteq BranchSteps(r.agent) \ {r.phase}
      /\ BranchSteps(r.agent) \subseteq StepNames
      /\ r.phase \in Branches => BranchSteps(r.agent) \cap Branches = {r.phase}
  BY <1>1, BehindFacts
<1>4. \A t \in Behind(r.phase, r.agent) : session.steps[t] = "complete"
  BY DEF Sound, DoneSoFar
<1>5. session.agent = r.agent
  BY DEF Sound
<1>6. Seen(session').steps = session'.steps
  BY DEF Seen
<1> HIDE DEF r
<1> QED BY <1>2, <1>3, <1>4, <1>5, <1>6 DEF r

\* A run at work keeps what it relies on.
LEMMA SoundStep ==
  ASSUME IndInv, OnCourse, ResultsInOrder, NEW p \in Procs, Working(p),
         pc'[p] \in AtWork, pc[p] \in AtWork => Sound(p)
  PROVE  Sound(p)'
<1> DEFINE r == run[p]
<1>0. /\ TypeOK /\ session \in Session /\ pc \in [Procs -> PCs] /\ run \in [Procs -> Run]
      /\ r \in Run /\ r.slice \in Slices /\ r.agent \in Agents /\ r.phase \in NonTerminal
      /\ r.results \in Seq(MachineStates)
  BY DEF IndInv, TypeOK, Run
<1>1. ASSUME pc[p] \in InPhase
      PROVE  Sound(p) /\ r.phase \in Phases(r.slice, r.agent)
  BY <1>1 DEF OnCourse, AtWork
<1>2. CASE applySelectedAgentTransition(p)
  <2> DEFINE changed == r.resume /\ session.agent # r.agent
             s == IF changed THEN clearAgentScopedResumeState(session, r.agent)
                             ELSE [session EXCEPT !.agent = r.agent]
  <2>1. session' = s /\ run' = [run EXCEPT ![p].changed = changed, ![p].seen = Seen(s)]
        /\ pc[p] = "armed" /\ pc'[p] = "slice"
    BY <1>0, <1>2 DEF applySelectedAgentTransition, Goto
  <2>2. s.agent = r.agent
    BY <1>0 DEF clearAgentScopedResumeState, Session
  <2>3. run'[p].agent = r.agent /\ run'[p].slice = "initial" /\ run'[p].seen = Seen(s)
    BY <1>0, <2>1 DEF Run, OnCourse, Starting
  <2>4. Seen(s).steps = s.steps
    BY DEF Seen
  <2> HIDE DEF s
  <2>5. DoneSoFar(p)' = {}
    BY <2>1, <2>3 DEF DoneSoFar, FirstPhase, Behind
  <2> QED BY <2>1, <2>2, <2>3, <2>4, <2>5 DEF Sound, SeenHolds
<1>3. CASE EnterSlice(p)
  <2>1. /\ session' = session /\ pc[p] = "slice" /\ pc'[p] = "phase"
        /\ run'[p].agent = r.agent /\ run'[p].seen = r.seen
        /\ run'[p].phase \in
             RunnerEntries(r.slice, r.agent) \cup {FirstPhase(r.slice, r.agent)}
    BY <1>0, <1>3 DEF EnterSlice, Goto, Run
  <2>2. Behind(run'[p].phase, r.agent) \subseteq Behind(FirstPhase(r.slice, r.agent), r.agent)
    BY <1>0, <2>1 DEF RunnerEntries, FirstPhase, Behind, Slices
  <2>3. Sound(p)
    BY <2>1 DEF AtWork
  <2> QED BY <2>1, <2>2, <2>3 DEF Sound, SeenHolds, DoneSoFar
<1>4. CASE ReusePhase(p)
  <2>1. pc[p] = "phase" /\ r.phase \in StepNames /\ MayReuse(r)
    BY <1>0, <1>4 DEF ReusePhase, Stepless, NonTerminal
  <2>2. Sound(p)
    BY <1>1, <2>1 DEF InPhase
  <2>3. CASE r.phase \in {"preflight", "provider_selection", "sandbox"}
    <3>1. /\ session' = session
          /\ FinishPhase(p, IF r.phase = "sandbox" THEN Seen(session) ELSE r.seen)
      BY <1>4, <2>3 DEF ReusePhase
    <3>2. r.phase # "sandbox" => r.seen.steps[r.phase] = "complete"
      BY <2>1, <2>3 DEF MayReuse
    <3>3. r.phase # "sandbox" => session.steps[r.phase] = "complete"
      BY <2>1, <2>2, <2>3, <3>2 DEF Sound, SeenHolds
    <3>4. /\ session.agent = r.agent
          /\ \A t \in Behind(r.phase, r.agent) : session.steps[t] = "complete"
          /\ \A t \in {"preflight", "provider_selection"} :
               r.seen.steps[t] = "complete" => session.steps[t] = "complete"
          /\ Seen(session).steps = session.steps
      BY <2>1, <2>2 DEF Sound, SeenHolds, DoneSoFar, Seen
    <3>5. "sandbox" \notin BranchSteps(r.agent)
      BY DEF BranchSteps, Branch
    <3> QED BY <2>1, <3>1, <3>3, <3>4, <3>5, FinishSound
  <2>4. CASE r.phase \notin {"preflight", "provider_selection", "sandbox"}
    <3>1. /\ session' = SkipOtherBranch(markStepComplete(session, r.phase), r.phase)
          /\ FinishPhase(p, Seen(session'))
      BY <1>4, <2>4 DEF ReusePhase
    <3> QED BY <2>1, <2>2, <3>1, RecordedSound, FinishSound
  <2> QED BY <2>3, <2>4
<1>5. CASE CompletePhase(p)
  <2>1. pc[p] = "working" /\ r.phase \in StepNames
    BY <1>5 DEF CompletePhase, IndInv, WorkInHand
  <2>2. Sound(p)
    BY <1>1, <2>1 DEF InPhase
  <2>3. /\ session' = SkipOtherBranch(markStepComplete(session, r.phase), r.phase)
        /\ FinishPhase(p, Seen(session'))
    BY <1>5 DEF CompletePhase
  <2> QED BY <2>1, <2>2, <2>3, RecordedSound, FinishSound
<1>6. CASE FinishStepless(p)
  <2>1. pc[p] = "phase" /\ r.phase \in Stepless /\ session' = session
        /\ FinishPhase(p, r.seen)
    BY <1>6 DEF FinishStepless
  <2>2. Sound(p)
    BY <1>1, <2>1 DEF InPhase
  <2>3. r.phase \notin BranchSteps(r.agent)
    BY <2>1 DEF BranchSteps, Branch, Stepless
  <2>4. /\ session.agent = r.agent
        /\ \A t \in Behind(r.phase, r.agent) : session.steps[t] = "complete"
        /\ \A t \in {"preflight", "provider_selection"} :
             r.seen.steps[t] = "complete" => session.steps[t] = "complete"
    BY <2>1, <2>2 DEF Sound, SeenHolds, DoneSoFar
  <2> QED BY <2>1, <2>3, <2>4, FinishSound
<1>7. CASE StartPhase(p)
  <2>1. /\ pc[p] = "phase" /\ pc'[p] = "working" /\ run' = run /\ r.phase \in StepNames
        /\ session' = markStepStarted(session, r.phase)
    BY <1>0, <1>7 DEF StartPhase, Goto, Stepless, NonTerminal
  <2>2. Sound(p) /\ r.phase \in Phases(r.slice, r.agent)
    BY <1>1, <2>1 DEF InPhase
  <2>3. /\ session'.agent = session.agent
        /\ \A t \in StepNames \ {r.phase} : session'.steps[t] = session.steps[t]
    BY <1>0, <2>1, StartedSteps
  <2>4. Behind(r.phase, r.agent) \subseteq StepNames \ {r.phase}
    BY <1>0, <2>2, BehindFacts
  <2>5. DoneSoFar(p) = Behind(r.phase, r.agent) /\ DoneSoFar(p)' = Behind(r.phase, r.agent)
    BY <2>1 DEF DoneSoFar
  <2>6. SeenHolds(p)'
    BY <2>1, <2>2, <2>3 DEF Sound, SeenHolds, StepNames
  <2> QED BY <2>1, <2>2, <2>3, <2>4, <2>5, <2>6 DEF Sound
<1>8. CASE RetrySelection(p)
  <2>1. /\ pc[p] = "working" /\ pc'[p] = "phase" /\ session' = session
        /\ r.phase = "inference" /\ run'[p].phase = "provider_selection"
        /\ run'[p].agent = r.agent /\ run'[p].seen = r.seen
    BY <1>0, <1>8 DEF RetrySelection, Goto, Run
  <2>2. Sound(p)
    BY <1>1, <2>1 DEF InPhase
  <2>3. DoneSoFar(p)' \subseteq DoneSoFar(p)
    BY <2>1 DEF DoneSoFar, Behind
  <2>4. SeenHolds(p)'
    BY <2>1, <2>2 DEF Sound, SeenHolds
  <2> QED BY <2>1, <2>2, <2>3, <2>4 DEF Sound
<1>9. ASSUME pc[p] \in {"apply", "check"}, pc'[p] \in {"slice", "phase", "apply"},
             session'.steps = session.steps, session'.agent = session.agent,
             run'[p].agent = r.agent, run'[p].seen = r.seen,
             DoneSoFar(p)' \subseteq After(r.phase, r.agent)
      PROVE  Sound(p)'
  <2>1. Sound(p)
    BY <1>1, <1>9 DEF InPhase
  <2>2. DoneSoFar(p) = After(r.phase, r.agent)
    BY <1>9 DEF DoneSoFar, After
  <2>3. SeenHolds(p)'
    BY <1>9, <2>1 DEF Sound, SeenHolds
  <2> QED BY <1>9, <2>1, <2>2, <2>3 DEF Sound
<1>10. CASE ApplyResult(p)
  <2> DEFINE to == Head(r.results)
  <2>1. /\ pc[p] = "apply" /\ run'[p].agent = r.agent /\ run'[p].seen = r.seen
        /\ pc'[p] \in {"slice", "phase", "apply"}
    BY <1>10, ApplyResultLocal DEF AtWork, InPhase
  <2>2. r.phase \in Phases(r.slice, r.agent)
    BY <1>1, <2>1 DEF InPhase
  <2>3. to \in MachineStates
    <3>1. r.results # <<>>
      BY <2>1 DEF IndInv, WorkInHand
    <3> QED BY <1>0, <3>1
  <2>4. session'.steps = session.steps /\ session'.agent = session.agent
    BY <1>0, <1>10, <2>3, TransitionKeeps DEF ApplyResult
  <2>5. DoneSoFar(p)' \subseteq After(r.phase, r.agent)
    <3>1. CASE pc'[p] = "slice"
      <4>1. Successor(r.phase, r.agent) \in StopStates(r.slice)
            /\ run'[p].slice = NextSlice(r.slice)
        BY <1>10, <3>1, ApplyResultLocal
      <4>2. DoneSoFar(p)' = Behind(FirstPhase(NextSlice(r.slice), r.agent), r.agent)
        BY <2>1, <3>1, <4>1 DEF DoneSoFar
      <4> QED BY <1>0, <2>2, <4>1, <4>2, AfterFacts
    <3>2. CASE pc'[p] = "phase"
      <4>1. /\ Successor(r.phase, r.agent) \notin StopStates(r.slice) \cup Terminal
            /\ run'[p].phase = Successor(r.phase, r.agent)
        BY <1>10, <3>2, ApplyResultLocal
      <4>2. DoneSoFar(p)' = Behind(Successor(r.phase, r.agent), r.agent)
        BY <2>1, <3>2, <4>1 DEF DoneSoFar
      <4> QED BY <1>0, <2>2, <4>1, <4>2, AfterFacts
    <3>3. CASE pc'[p] = "apply"
      <4>1. run'[p].phase = r.phase
        BY <1>10, <3>3, ApplyResultLocal
      <4> QED BY <2>1, <3>3, <4>1 DEF DoneSoFar, After
    <3> QED BY <2>1, <3>1, <3>2, <3>3
  <2> QED BY <1>9, <2>1, <2>4, <2>5
<1>11. CASE CheckRepair(p)
  <2>1. /\ pc[p] = "check" /\ run'[p].agent = r.agent /\ run'[p].seen = r.seen
        /\ pc'[p] \in {"slice", "phase", "apply"}
    BY <1>0, <1>11, CheckRepairLocal
  <2>2. /\ r.phase \in Phases(r.slice, r.agent) /\ r.phase # "init"
        /\ r.phase # "provider_selection"
    BY <2>1 DEF OnCourse, InPhase
  <2>3. session' = session
    BY <1>11 DEF CheckRepair
  <2>4. DoneSoFar(p)' \subseteq After(r.phase, r.agent)
    <3>1. CASE pc'[p] = "slice"
      <4>1. /\ r.phase \notin {"preflight", "inference"}
            /\ run'[p].slice = NextSlice(r.slice)
        BY <1>0, <1>11, <3>1, CheckRepairLocal
      <4>2. DoneSoFar(p)' = Behind(FirstPhase(NextSlice(r.slice), r.agent), r.agent)
        BY <2>1, <3>1, <4>1 DEF DoneSoFar
      <4>3. r.phase \notin {"init", "preflight", "provider_selection", "inference"}
        BY <2>2, <4>1
      <4> QED BY <1>0, <2>2, <4>2, <4>3, AfterFacts
    <3>2. CASE pc'[p] = "phase"
      <4>1. /\ r.phase \notin {"gateway", "sandbox"}
            /\ run'[p].phase = Successor(r.phase, r.agent)
        BY <1>0, <1>11, <3>2, CheckRepairLocal
      <4>2. r.phase # "post_verify"
        BY <1>0, <1>11, <3>2 DEF CheckRepair, AfterRepair, Goto
      <4>3. Successor(r.phase, r.agent) \notin StopStates(r.slice) \cup Terminal
        BY <1>0, <2>2, <4>1, <4>2
        DEF Slices, Phases, Successor, nextMachineStateAfterCompletedStep, StopStates,
            Terminal, Branch
      <4>4. DoneSoFar(p)' = Behind(Successor(r.phase, r.agent), r.agent)
        BY <2>1, <3>2, <4>1 DEF DoneSoFar
      <4> QED BY <1>0, <2>2, <4>3, <4>4, AfterFacts
    <3>3. CASE pc'[p] = "apply"
      <4>1. run'[p].phase = r.phase
        BY <1>0, <1>11, <3>3, CheckRepairLocal
      <4> QED BY <2>1, <3>3, <4>1 DEF DoneSoFar, After
    <3> QED BY <2>1, <3>1, <3>2, <3>3
  <2> QED BY <1>9, <2>1, <2>3, <2>4
<1> QED
  BY <1>2, <1>3, <1>4, <1>5, <1>6, <1>7, <1>8, <1>10, <1>11 DEF Working

\* Every step keeps what the runs at work rely on.
LEMMA WorkSoundStep ==
  ASSUME IndInv, OnCourse, ResultsInOrder, WorkSound, [Next]_vars
  PROVE  WorkSound'
<1> SUFFICES ASSUME NEW p \in Procs, pc'[p] \in AtWork, session'.state # "failed"
             PROVE  Sound(p)'
  BY DEF WorkSound
<1>1. CASE Elsewhere(p)
  <2>1. session' = session /\ pc'[p] = pc[p] /\ run'[p] = run[p]
    BY <1>1 DEF Elsewhere
  <2>2. Sound(p)
    BY <2>1 DEF WorkSound
  <2> QED BY <2>1, <2>2 DEF Sound, SeenHolds, DoneSoFar
<1>2. CASE Working(p)
  <2>1. session.state # "failed"
    BY <1>2, StaysFailed
  <2> QED BY <1>2, <2>1, SoundStep DEF WorkSound
<1> QED BY <1>1, <1>2, WorkStep

\* A step that completes the session applies the result of post_verify.
LEMMA CompletingStep ==
  ASSUME IndInv, [Next]_vars, session'.state = "complete"
  PROVE  \/ session' = session
         \/ \E p \in Procs : ApplyResult(p)
<1>1. SessionStep
  BY NextSessionStep DEF IndInv, Typed
<1>2. ~Reseated /\ ~Renewed /\ ~Discarded
  BY NewSessionSnapshot DEF Reseated, Renewed, Discarded, NonTerminal, StepNames
<1>3. CASE Marked \/ Resumed
  <2>1. session.state = "complete"
    BY <1>3 DEF Marked, Resumed, SameSnapshot
  <2> QED BY <1>3, <2>1 DEF Marked, Resumed, IndInv, CompleteIsQuiet, CompleteIsClosed
<1>4. CASE Moved
  BY <1>4 DEF Moved
<1> QED BY <1>1, <1>2, <1>3, <1>4 DEF SessionStep

\* Every step keeps CompleteMeansDone.
LEMMA DoneStep ==
  ASSUME IndInv, OnCourse, ResultsInOrder, WorkSound, CompleteMeansDone, [Next]_vars
  PROVE  CompleteMeansDone'
<1> SUFFICES ASSUME session'.state = "complete"
             PROVE  \A step \in BranchSteps(session'.agent) :
                      session'.steps[step] = "complete"
  BY DEF CompleteMeansDone
<1>1. CASE session' = session
  BY <1>1 DEF CompleteMeansDone
<1>2. ASSUME NEW p \in Procs, ApplyResult(p)
      PROVE  \A step \in BranchSteps(session'.agent) : session'.steps[step] = "complete"
  <2> DEFINE r == run[p]
             to == Head(r.results)
  <2>0. /\ Typed /\ session \in Session /\ r \in Run /\ r.slice \in Slices
        /\ r.phase \in NonTerminal
    BY DEF IndInv, Typed, TypeOK, Run
  <2>1. to = "complete" /\ pc[p] = "apply"
    BY <1>2, <2>0, ApplyResultMoves DEF ApplyResult
  <2>2. session.state # "failed"
    BY <1>2
    DEF ApplyResult, ResultApplies, canTransitionOnboardMachineState,
        ONBOARD_MACHINE_DIRECT_TRANSITIONS, NonTerminal, StepNames
  <2>3. Sound(p)
    BY <2>1, <2>2 DEF WorkSound, AtWork, InPhase
  <2>4. to = Successor(r.phase, r.agent)
    <3>1. pc'[p] = "done"
      BY <1>2, <2>0, <2>1 DEF ApplyResult, Goto, StopStates, Terminal, Typed, TypeOK
    <3> QED BY <1>2, <3>1, ApplyResultLocal
  <2>5. r.phase = "post_verify"
    <3>1. CASE r.phase \in {"init", "finalizing"}
      BY <2>1, <2>4, <3>1 DEF Successor
    <3>2. CASE r.phase \in StepNames
      <4>1. r.phase \notin {"init", "finalizing", "post_verify"}
        BY <3>2 DEF StepNames
      <4>2. to \in NonTerminal
        BY <2>4, <3>2, <4>1, NextStateType DEF Successor
      <4> QED BY <2>1, <4>2 DEF NonTerminal, StepNames
    <3> QED BY <2>0, <3>1, <3>2 DEF NonTerminal
  <2>6. \A t \in BranchSteps(r.agent) : session.steps[t] = "complete"
    BY <2>1, <2>3, <2>5 DEF Sound, DoneSoFar, Behind
  <2>7. session'.steps = session.steps /\ session'.agent = session.agent
    <3>1. session' = transition(session, "complete") /\ "complete" \in MachineStates
      BY <1>2, <2>1 DEF ApplyResult, MachineStates, Terminal
    <3> QED BY <2>0, <3>1, TransitionKeeps
  <2>8. session.agent = r.agent
    BY <2>3 DEF Sound
  <2> QED BY <2>6, <2>7, <2>8
<1> QED BY <1>1, <1>2, CompletingStep

\* The invariant holds initially.
LEMMA InitWorkInv == Init => WorkInv
<1> SUFFICES ASSUME Init PROVE WorkInv
  OBVIOUS
<1>1. \A p \in Procs : pc[p] = "idle"
  BY DEF Init
<1>2. session.state = "init"
  BY NewSessionSnapshot DEF Init
<1>3. OnCourse /\ ResultsInOrder /\ WorkSound
  BY <1>1 DEF OnCourse, ResultsInOrder, InOrder, WorkSound, Starting, InPhase, AtWork
<1> QED BY <1>2, <1>3, InitIndInv DEF WorkInv, CompleteMeansDone

\* Every step keeps the invariant.
LEMMA NextWorkInv == WorkInv /\ [Next]_vars => WorkInv'
BY NextIndInv, CourseStep, OrderStep, WorkSoundStep, DoneStep DEF WorkInv

\* In every reachable state each run at work has the steps behind it recorded
\* complete for its own agent, or works on a session that was failed under it.
THEOREM WorkInvCorrect == Spec => []WorkInv
BY InitWorkInv, NextWorkInv, PTL DEF Spec

\* A session that says complete has every step of its agent's branch recorded
\* complete: no run completes the work of another one halfway, whatever crashes,
\* signals, late exit listeners, repairs and agent changes lie in between.
THEOREM CompleteDone == Spec => []CompleteMeansDone
<1>1. WorkInv => CompleteMeansDone
  BY DEF WorkInv
<1> QED BY <1>1, WorkInvCorrect, PTL

---------------------------------------------------------------------------
(* Recovery.  The one way to leave unfinished work behind the entry of a   *)
(* recovery is an exit listener that fires while another run is under way: *)
(* it fails a step of that run, which goes on and starts a later one.      *)

\* Between preparing the session and the end of the flow.
Underway == Holding \ {"locked", "done"}

LateListener == \E p, q \in Procs : ExitBackstop(p) /\ pc[q] \in Underway

\* The step started last has nothing unfinished before it.
InStartOrder(s) ==
  s.lastStepStarted # None => \A t \in Before(s.lastStepStarted) : ~Unfinished(s, t)

\* A failed session names the step started last as its failure, and nobody is
\* at work on it.
FailedIsRecorded ==
  session.state = "failed" =>
    /\ session.lastStepStarted # None
    /\ session.failure.step = session.lastStepStarted
    /\ Unfinished(session, session.lastStepStarted)
    /\ \A p \in Procs : pc[p] \notin Underway

RecoveryInv == WorkInv /\ InStartOrder(session) /\ FailedIsRecorded

\* What comes before a step are earlier steps, which a run that is about to
\* work on it has behind it.
LEMMA BeforeFacts ==
  ASSUME NEW step \in StepNames
  PROVE  /\ Before(step) \subseteq {"preflight", "gateway", "provider_selection", "inference"}
         /\ Before(step) \subseteq StepNames \ {step, "agent_setup", "openclaw"}
         /\ \A agent : Before(step) \subseteq Behind(step, agent)
BY DEF Before, Behind, StepNames

\* Marks other than a start leave the order of starts alone.
LEMMA OrderKept ==
  ASSUME NEW s \in Session, NEW u, InStartOrder(s),
         u.lastStepStarted \in {s.lastStepStarted, None},
         \A t \in StepNames \ {"agent_setup", "openclaw", s.lastStepStarted} :
           u.steps[t] = s.steps[t] \/ u.steps[t] \in {"complete", "pending", "skipped"}
  PROVE  InStartOrder(u)
<1> SUFFICES ASSUME u.lastStepStarted # None,
                    NEW t \in Before(u.lastStepStarted), Unfinished(u, t)
             PROVE  FALSE
  BY DEF InStartOrder
<1>1. u.lastStepStarted = s.lastStepStarted /\ s.lastStepStarted \in StepNames
  BY DEF Session
<1>2. t \in StepNames \ {"agent_setup", "openclaw", s.lastStepStarted}
  BY <1>1, BeforeFacts
<1>3. ~Unfinished(s, t) /\ t # None
  BY <1>1 DEF InStartOrder, Unfinished
<1> QED BY <1>2, <1>3 DEF Unfinished

\* Completing the step of a phase leaves the order of starts alone.
LEMMA CompletionInOrder ==
  ASSUME NEW s \in Session, NEW step \in StepNames, InStartOrder(s)
  PROVE  InStartOrder(SkipOtherBranch(markStepComplete(s, step), step))
<1> DEFINE c == markStepComplete(s, step)
           u == SkipOtherBranch(c, step)
<1>1. c \in Session /\ c.lastStepStarted = s.lastStepStarted
  BY MarkType DEF markStepComplete, Session
<1>2. \A t \in StepNames : c.steps[t] = s.steps[t] \/ c.steps[t] = "complete"
  BY DEF markStepComplete, Session
<1>3. ASSUME NEW other \in StepNames
      PROVE  /\ markStepSkipped(c, other).lastStepStarted = c.lastStepStarted
             /\ \A t \in StepNames :
                  \/ markStepSkipped(c, other).steps[t] = c.steps[t]
                  \/ markStepSkipped(c, other).steps[t] = "skipped"
  <2> HIDE DEF c
  <2> QED BY <1>1 DEF markStepSkipped, Session
<1>4. /\ u.lastStepStarted = c.lastStepStarted
      /\ \A t \in StepNames : u.steps[t] = c.steps[t] \/ u.steps[t] = "skipped"
  <2>1. \/ u = c \/ u = markStepSkipped(c, "agent_setup") \/ u = markStepSkipped(c, "openclaw")
    BY DEF SkipOtherBranch
  <2>2. "agent_setup" \in StepNames /\ "openclaw" \in StepNames
    BY DEF StepNames
  <2> HIDE DEF u, c
  <2> QED BY <1>3, <2>1, <2>2
<1> HIDE DEF u, c
<1>5. u.lastStepStarted = s.lastStepStarted
  BY <1>1, <1>4
<1>6. \A t \in StepNames : u.steps[t] = s.steps[t] \/ u.steps[t] \in {"complete", "skipped"}
  BY <1>2, <1>4
<1>7. InStartOrder(u)
  BY <1>5, <1>6, OrderKept
<1> QED BY <1>7 DEF u, c

\* A step that starts when all before it are complete starts in order.
LEMMA StartInOrder ==
  ASSUME NEW s \in Session, NEW step \in StepNames,
         \A t \in Before(step) : s.steps[t] = "complete"
  PROVE  InStartOrder(markStepStarted(s, step))
<1>1. markStepStarted(s, step).lastStepStarted = step
  BY DEF markStepStarted, Session
<1>2. \A t \in Before(step) : markStepStarted(s, step).steps[t] = "complete"
  BY StartedSteps, BeforeFacts
<1> QED BY <1>1, <1>2 DEF InStartOrder, Unfinished

\* What the exit listener writes when it fails the session.
LEMMA BackstopRecords ==
  ASSUME NEW s \in Session, NEW u, u = markLastStartedStepFailed(s), u # s
  PROVE  /\ u.state = "failed" /\ s.state \notin Terminal
         /\ s.lastStepStarted # None /\ u.lastStepStarted = s.lastStepStarted
         /\ u.failure.step = s.lastStepStarted
         /\ u.steps[s.lastStepStarted] = "failed"
         /\ \A t \in StepNames \ {s.lastStepStarted} : u.steps[t] = s.steps[t]
<1> DEFINE m == transitionMachineSnapshot(s, "failed")
           step == s.lastStepStarted
<1>1. s.state \notin Terminal /\ step # None /\ step \in StepNames
  BY DEF markLastStartedStepFailed, finalizeIncompleteOnboardStep, Session
<1>2. /\ m \in Session /\ m.state = "failed"
      /\ m.steps = s.steps /\ m.lastStepStarted = step
  BY <1>1, SnapshotType
  DEF MachineStates, Terminal, transitionMachineSnapshot, snapshotFor, Session
<1>3. u = [m EXCEPT !.steps[step] = "failed", !.status = "failed",
                    !.failure = [step |-> step, interrupted |-> TRUE]]
  BY <1>1 DEF markLastStartedStepFailed, finalizeIncompleteOnboardStep
<1> HIDE DEF m
<1>4. m.steps \in [StepNames -> StepStatus]
  BY <1>2 DEF Session
<1>5. u.state = m.state /\ u.lastStepStarted = m.lastStepStarted /\ u.failure.step = step
  BY <1>2, <1>3 DEF Session
<1>6. u.steps = [m.steps EXCEPT ![step] = "failed"]
  BY <1>2, <1>3 DEF Session
<1> QED BY <1>1, <1>2, <1>4, <1>5, <1>6

\* The session a resumed run prepares, seen from its step marks.
LEMMA ResumeKeepsSteps ==
  ASSUME NEW s \in Session, NEW u,
         u = [applySessionRecovery(s) EXCEPT !.failure = NoFailure, !.status = "in_progress"]
  PROVE  /\ u.steps = s.steps /\ u.lastStepStarted = s.lastStepStarted
         /\ s.state = "failed" => u.state \in NonTerminal
<1> DEFINE a == applySessionRecovery(s)
<1>1. a \in Session
  BY RecoveryType
<1>2. a.steps = s.steps /\ a.lastStepStarted = s.lastStepStarted
  BY DEF applySessionRecovery, Session
<1>3. s.state = "failed" => a.state = resumeMachineState(s)
  BY DEF applySessionRecovery, classifyResumeMachineRepair, Session
<1>4. resumeMachineState(s) \in NonTerminal
  BY ResumeStateType
<1>5. u.steps = a.steps /\ u.lastStepStarted = a.lastStepStarted /\ u.state = a.state
  <2> HIDE DEF a
  <2> QED BY <1>1 DEF a, Session
<1> QED BY <1>2, <1>3, <1>4, <1>5

\* Steps are started in order.
LEMMA StartsStep ==
  ASSUME RecoveryInv, [Next]_vars
  PROVE  InStartOrder(session')
<1>0. /\ IndInv /\ session \in Session /\ pc \in [Procs -> PCs] /\ run \in [Procs -> Run]
      /\ InStartOrder(session) /\ OnCourse /\ WorkSound /\ FailedIsRecorded
  BY DEF RecoveryInv, WorkInv, IndInv, TypeOK
<1>1. CASE UNCHANGED session
  BY <1>0, <1>1
<1>2. ASSUME NEW p \in Procs, Proceed(p), session' # session
      PROVE  InStartOrder(session')
  <2> DEFINE r == run[p]
  <2>0. r \in Run /\ r.agent \in Agents /\ r.slice \in Slices
    BY <1>0 DEF Run
  <2>1. CASE PrepareFresh(p)
    <3>1. session'.lastStepStarted = None
      BY <2>1 DEF PrepareFresh, createSession
    <3> QED BY <3>1 DEF InStartOrder
  <2>2. CASE PrepareResume(p)
    <3>1. session'.steps = session.steps
          /\ session'.lastStepStarted = session.lastStepStarted
      BY <1>0, <2>2, ResumeKeepsSteps DEF PrepareResume
    <3> QED BY <1>0, <3>1, OrderKept
  <2>3. CASE applySelectedAgentTransition(p)
    <3>1. session' \in {clearAgentScopedResumeState(session, r.agent),
                        [session EXCEPT !.agent = r.agent]}
      BY <2>3 DEF applySelectedAgentTransition
    <3>2. CASE session' = clearAgentScopedResumeState(session, r.agent)
      <4>1. session'.lastStepStarted \in {session.lastStepStarted, None}
        BY <1>0, <3>2 DEF clearAgentScopedResumeState, Session
      <4>2. \A t \in StepNames :
              session'.steps[t] = session.steps[t] \/ session'.steps[t] = "pending"
        BY <1>0, <3>2 DEF clearAgentScopedResumeState, Session
      <4> QED BY <1>0, <4>1, <4>2, OrderKept
    <3>3. CASE session' = [session EXCEPT !.agent = r.agent]
      <4>1. session'.steps = session.steps
            /\ session'.lastStepStarted = session.lastStepStarted
        BY <1>0, <3>3 DEF Session
      <4> QED BY <1>0, <4>1, OrderKept
    <3> QED BY <3>1, <3>2, <3>3
  <2>4. CASE ReusePhase(p)
    <3>1. r.phase \in StepNames
      BY <2>0, <2>4 DEF ReusePhase, Run, Stepless, NonTerminal
    <3>2. session' = SkipOtherBranch(markStepComplete(session, r.phase), r.phase)
      BY <1>2, <2>4 DEF ReusePhase
    <3> QED BY <1>0, <3>1, <3>2, CompletionInOrder
  <2>5. CASE StartPhase(p)
    <3>1. /\ pc[p] = "phase" /\ r.phase \in StepNames
          /\ session' = markStepStarted(session, r.phase)
      BY <2>0, <2>5 DEF StartPhase, Run, Stepless, NonTerminal
    <3>2. session.state # "failed"
      BY <1>0, <3>1 DEF FailedIsRecorded, Underway, Holding
    <3>3. Sound(p)
      BY <1>0, <3>1, <3>2 DEF WorkSound, AtWork, InPhase
    <3>4. \A t \in Behind(r.phase, r.agent) : session.steps[t] = "complete"
      BY <3>1, <3>3 DEF Sound, DoneSoFar
    <3>5. \A t \in Before(r.phase) : session.steps[t] = "complete"
      BY <3>1, <3>4, BeforeFacts
    <3> QED BY <1>0, <3>1, <3>5, StartInOrder
  <2>6. CASE CompletePhase(p)
    <3>1. r.phase \in StepNames
      BY <1>0, <2>6 DEF CompletePhase, IndInv, WorkInHand
    <3>2. session' = SkipOtherBranch(markStepComplete(session, r.phase), r.phase)
      BY <2>6 DEF CompletePhase
    <3> QED BY <1>0, <3>1, <3>2, CompletionInOrder
  <2>7. CASE ApplyResult(p)
    <3> DEFINE to == Head(r.results)
    <3>1. to \in MachineStates
      <4>1. r.results # <<>> /\ r.results \in Seq(MachineStates)
        BY <1>0, <2>0, <2>7 DEF ApplyResult, IndInv, WorkInHand, Run
      <4> QED BY <4>1
    <3>2. session' = transition(session, to)
      BY <2>7 DEF ApplyResult
    <3>3. session'.steps = session.steps
          /\ session'.lastStepStarted = session.lastStepStarted
      BY <1>0, <3>1, <3>2, TransitionKeeps
    <3> QED BY <1>0, <3>3, OrderKept
  <2>8. CASE ExitBackstop(p)
    <3>1. /\ session'.lastStepStarted = session.lastStepStarted
          /\ \A t \in StepNames \ {session.lastStepStarted} :
               session'.steps[t] = session.steps[t]
      BY <1>0, <1>2, <2>8, BackstopRecords DEF ExitBackstop
    <3> QED BY <1>0, <3>1, OrderKept
  <2> QED
    BY <1>2, <2>1, <2>2, <2>3, <2>4, <2>5, <2>6, <2>7, <2>8
    DEF Proceed, RefuseResume, Arm, EnterSlice, RejectSlice, RetrySelection,
        FinishStepless, RejectResult, CheckRepair, RejectRepair, Finish
<1>3. ASSUME NEW p \in Procs, Disturb(p), session' # session
      PROVE  InStartOrder(session')
  <2>1. CASE FailAgentSetup(p)
    <3>1. /\ session'.lastStepStarted = session.lastStepStarted
          /\ \A t \in StepNames \ {"agent_setup"} : session'.steps[t] = session.steps[t]
      BY <1>0, <2>1 DEF FailAgentSetup, markStepFailed, Session
    <3> QED BY <1>0, <3>1, OrderKept
  <2>2. CASE RollBackCancelled(p)
    <3>1. session' = NoSession
      BY <2>2 DEF RollBackCancelled
    <3>2. NoSession.lastStepStarted = None
      BY DEF NoSession, createSession
    <3> QED BY <3>1, <3>2 DEF InStartOrder
  <2>3. CASE Signal(p)
    <3>1. /\ session'.lastStepStarted = session.lastStepStarted
          /\ \A t \in StepNames \ {session.lastStepStarted} :
               session'.steps[t] = session.steps[t]
      BY <1>0, <1>3, <2>3, BackstopRecords DEF Signal
    <3> QED BY <1>0, <3>1, OrderKept
  <2> QED
    BY <1>3, <2>1, <2>2, <2>3
    DEF Disturb, EarlyExit, HandlerFails, Pause, DeclineConfiguration, Crash
<1>4. ASSUME NEW p \in Procs, NEW resume \in BOOLEAN, NEW agent \in Agents,
             Acquire(p, resume, agent)
      PROVE  UNCHANGED session
  BY <1>4 DEF Acquire
<1> QED BY <1>1, <1>2, <1>3, <1>4 DEF Next, vars

\* Nothing but a signal or an exit listener fails a session.
LEMMA FailingStep ==
  ASSUME IndInv, OnCourse, ResultsInOrder, [Next]_vars,
         session.state # "failed", session'.state = "failed"
  PROVE  /\ session' = markLastStartedStepFailed(session)
         /\ \E p \in Procs : ExitBackstop(p) \/ Signal(p)
<1>0. Typed /\ session \in Session /\ pc \in [Procs -> PCs] /\ run \in [Procs -> Run]
  BY DEF IndInv, Typed, TypeOK
<1>1. ASSUME NEW p \in Procs, NEW resume \in BOOLEAN, NEW agent \in Agents,
             Acquire(p, resume, agent)
      PROVE  FALSE
  BY <1>1 DEF Acquire
<1>2. ASSUME NEW p \in Procs, ApplyResult(p)
      PROVE  FALSE
  <2> DEFINE r == run[p]
             to == Head(r.results)
  <2>1. to = "failed" /\ r.phase \in NonTerminal
    BY <1>0, <1>2, ApplyResultMoves DEF Run
  <2>2. pc'[p] = "done"
    BY <1>0, <1>2, <2>1 DEF ApplyResult, Goto, StopStates, Terminal
  <2>3. to = Successor(r.phase, r.agent)
    BY <1>2, <2>2, ApplyResultLocal
  <2>4. CASE r.phase \in {"init", "finalizing", "post_verify"}
    BY <2>1, <2>3, <2>4 DEF Successor
  <2>5. CASE r.phase \in StepNames
    <3>1. r.phase \notin {"init", "finalizing", "post_verify"}
      BY <2>5 DEF StepNames
    <3>2. to \in NonTerminal
      BY <2>3, <2>5, <3>1, NextStateType DEF Successor
    <3> QED BY <2>1, <3>2 DEF NonTerminal, StepNames
  <2> QED BY <2>1, <2>4, <2>5 DEF NonTerminal
<1>3. ASSUME NEW p \in Procs, Proceed(p)
      PROVE  ExitBackstop(p)
  <2> DEFINE r == run[p]
  <2>1. CASE PrepareFresh(p)
    BY <2>1, NewSessionSnapshot DEF PrepareFresh
  <2>2. CASE PrepareResume(p)
    <3>1. Resumed \/ Reseated
      BY <1>0, <2>2, ReseatMoves
    <3> QED BY <3>1 DEF Resumed, Reseated, SameSnapshot, NonTerminal, StepNames
  <2>3. CASE applySelectedAgentTransition(p)
    BY <1>0, <2>3 DEF applySelectedAgentTransition, clearAgentScopedResumeState, Session
  <2>4. CASE ReusePhase(p)
    <3>1. r.phase \in StepNames
      BY <1>0, <2>4 DEF ReusePhase, Run, Stepless, NonTerminal
    <3> QED BY <1>0, <2>4, <3>1, CompletedSteps DEF ReusePhase
  <2>5. CASE StartPhase(p)
    <3>1. r.phase \in StepNames
      BY <1>0, <2>5 DEF StartPhase, Run, Stepless, NonTerminal
    <3> QED BY <1>0, <2>5, <3>1, MarkKeepsSnapshot DEF StartPhase
  <2>6. CASE CompletePhase(p)
    <3>1. r.phase \in StepNames
      BY <1>0, <2>6 DEF CompletePhase, Typed, WorkInHand
    <3> QED BY <1>0, <2>6, <3>1, CompletedSteps DEF CompletePhase
  <2>7. CASE RefuseResume(p) \/ Arm(p) \/ EnterSlice(p) \/ RejectSlice(p)
             \/ RetrySelection(p) \/ FinishStepless(p) \/ RejectResult(p)
             \/ CheckRepair(p) \/ RejectRepair(p) \/ Finish(p)
    BY <2>7
    DEF RefuseResume, Arm, EnterSlice, RejectSlice, RetrySelection,
        FinishStepless, RejectResult, CheckRepair, RejectRepair, Finish
  <2> QED
    BY <1>2, <1>3, <2>1, <2>2, <2>3, <2>4, <2>5, <2>6, <2>7 DEF Proceed
<1>4. ASSUME NEW p \in Procs, Disturb(p)
      PROVE  Signal(p)
  <2>1. CASE FailAgentSetup(p)
    <3>1. "agent_setup" \in StepNames
      BY DEF StepNames
    <3> QED BY <1>0, <2>1, <3>1, MarkKeepsSnapshot DEF FailAgentSetup
  <2>2. CASE RollBackCancelled(p)
    BY <2>2, NewSessionSnapshot DEF RollBackCancelled
  <2>3. CASE EarlyExit(p) \/ HandlerFails(p) \/ Pause(p) \/ DeclineConfiguration(p) \/ Crash(p)
    BY <2>3 DEF EarlyExit, HandlerFails, Pause, DeclineConfiguration, Crash
  <2> QED BY <1>4, <2>1, <2>2, <2>3 DEF Disturb
<1>5. \E p \in Procs : ExitBackstop(p) \/ Signal(p)
  BY <1>1, <1>3, <1>4 DEF Next, vars
<1> QED BY <1>5 DEF ExitBackstop, Signal

\* A failed session is left alone until a run replaces or re-seats it.
LEMMA FailedIsLeftAlone ==
  ASSUME IndInv, FailedIsRecorded, [Next]_vars,
         session.state = "failed", session'.state = "failed"
  PROVE  session' = session /\ \A q \in Procs : pc'[q] \notin Underway
<1>0. session \in Session /\ pc \in [Procs -> PCs] /\ run \in [Procs -> Run]
  BY DEF IndInv, TypeOK
<1>1. \A q \in Procs : pc[q] \notin Underway
  BY DEF FailedIsRecorded
<1>2. CASE UNCHANGED vars
  BY <1>1, <1>2 DEF vars
<1>3. ASSUME NEW p \in Procs, NEW resume \in BOOLEAN, NEW agent \in Agents,
             Acquire(p, resume, agent)
      PROVE  session' = session /\ \A q \in Procs : pc'[q] \notin Underway
  BY <1>0, <1>1, <1>3 DEF Acquire, Goto, Underway
<1>4. ASSUME NEW p \in Procs, Proceed(p)
      PROVE  session' = session /\ \A q \in Procs : pc'[q] \notin Underway
  <2>1. ~PrepareFresh(p)
    BY NewSessionSnapshot DEF PrepareFresh
  <2>2. ~PrepareResume(p)
    <3>1. SUFFICES ASSUME PrepareResume(p) PROVE FALSE
      OBVIOUS
    <3>2. session'.state \in NonTerminal
      BY <1>0, <3>1, ResumeKeepsSteps DEF PrepareResume
    <3> QED BY <3>2 DEF NonTerminal, StepNames
  <2>3. RefuseResume(p) \/ Finish(p) \/ ExitBackstop(p)
    BY <1>1, <1>4, <2>1, <2>2
    DEF Proceed, Arm, applySelectedAgentTransition, EnterSlice, RejectSlice, ReusePhase,
        StartPhase, CompletePhase, RetrySelection, FinishStepless, ApplyResult,
        RejectResult, CheckRepair, RejectRepair, Underway, Holding
  <2>4. session' = session
    BY <2>3
    DEF RefuseResume, Finish, ExitBackstop, markLastStartedStepFailed,
        finalizeIncompleteOnboardStep, Terminal
  <2>5. pc' = [pc EXCEPT ![p] = "idle"]
    BY <2>3 DEF RefuseResume, Finish, ExitBackstop, Leave, Goto
  <2> QED BY <1>0, <1>1, <2>4, <2>5 DEF Underway, Holding
<1>5. ASSUME NEW p \in Procs, Disturb(p)
      PROVE  session' = session /\ \A q \in Procs : pc'[q] \notin Underway
  <2>1. EarlyExit(p) \/ Crash(p)
    BY <1>1, <1>5
    DEF Disturb, HandlerFails, FailAgentSetup, Pause, DeclineConfiguration,
        RollBackCancelled, Signal, Armed, Underway, Holding
  <2>2. session' = session /\ pc' = [pc EXCEPT ![p] = "idle"]
    BY <2>1 DEF EarlyExit, Crash, Leave, Vanish, Goto
  <2> QED BY <1>0, <1>1, <2>2 DEF Underway, Holding
<1> QED BY <1>2, <1>3, <1>4, <1>5 DEF Next

\* As long as no exit listener fires under another run, failures are recorded
\* where the work stopped.
LEMMA FailedStep ==
  ASSUME RecoveryInv, [Next]_vars, ~LateListener
  PROVE  FailedIsRecorded'
<1> SUFFICES ASSUME session'.state = "failed"
             PROVE  /\ session'.lastStepStarted # None
                    /\ session'.failure.step = session'.lastStepStarted
                    /\ Unfinished(session', session'.lastStepStarted)
                    /\ \A q \in Procs : pc'[q] \notin Underway
  BY DEF FailedIsRecorded
<1>0. /\ IndInv /\ OnCourse /\ ResultsInOrder /\ FailedIsRecorded
      /\ session \in Session /\ pc \in [Procs -> PCs]
  BY DEF RecoveryInv, WorkInv, IndInv, TypeOK
<1>1. CASE session.state = "failed"
  BY <1>0, <1>1, FailedIsLeftAlone DEF FailedIsRecorded
<1>2. CASE session.state # "failed"
  <2>1. /\ session' = markLastStartedStepFailed(session)
        /\ \E p \in Procs : ExitBackstop(p) \/ Signal(p)
    BY <1>0, <1>2, FailingStep
  <2>2. session' # session
    BY <1>2
  <2>3. /\ session'.lastStepStarted # None
        /\ session'.failure.step = session'.lastStepStarted
        /\ session'.steps[session'.lastStepStarted] = "failed"
    BY <1>0, <2>1, <2>2, BackstopRecords
  <2>4. ASSUME NEW p \in Procs, ExitBackstop(p), NEW q \in Procs
        PROVE  pc'[q] \notin Underway
    <3>1. pc[q] \notin Underway
      BY <2>4 DEF LateListener
    <3> QED BY <1>0, <2>4, <3>1 DEF ExitBackstop, Goto, Underway, Holding
  <2>5. ASSUME NEW p \in Procs, Signal(p), NEW q \in Procs
        PROVE  pc'[q] \notin Underway
    <3>1. pc[p] \in Holding /\ pc' = [pc EXCEPT ![p] = "idle"]
      BY <2>5 DEF Signal, Vanish, Goto, Armed
    <3>2. q # p => pc[q] \notin Holding
      BY <1>0, <3>1 DEF IndInv, LockHeld
    <3> QED BY <1>0, <3>1, <3>2 DEF Underway, Holding
  <2> QED BY <2>1, <2>3, <2>4, <2>5 DEF Unfinished
<1> QED BY <1>1, <1>2

\* Recovery enters at the step started last.
LEMMA RecoveryFollows ==
  ASSUME RecoveryInv
  PROVE  RecoveryEntersBeforeUnfinishedWork
<1> SUFFICES ASSUME classifyResumeMachineRepair(session)
             PROVE  \A step \in Before(resumeMachineState(session)) :
                      ~Unfinished(session, step)
  BY DEF RecoveryEntersBeforeUnfinishedWork
<1>1. session.state = "failed"
  BY DEF classifyResumeMachineRepair, RecoveryInv, WorkInv, IndInv, CompleteIsClosed
<1>2. resumeMachineState(session) = session.lastStepStarted
      /\ session.lastStepStarted # None
  BY <1>1 DEF RecoveryInv, FailedIsRecorded, resumeMachineState, activeStepMachineState
<1> QED BY <1>2 DEF RecoveryInv, InStartOrder

\* The invariant holds initially.
LEMMA InitRecoveryInv == Init => RecoveryInv
<1> SUFFICES ASSUME Init PROVE RecoveryInv
  OBVIOUS
<1>1. session.state = "init" /\ session.lastStepStarted = None
  BY DEF Init, NoSession, createSession
<1> QED
  BY <1>1, InitWorkInv DEF RecoveryInv, InStartOrder, FailedIsRecorded

\* Every step but a late exit listener keeps the invariant.
LEMMA NextRecoveryInv == RecoveryInv /\ [Next /\ ~LateListener]_vars => RecoveryInv'
<1> SUFFICES ASSUME RecoveryInv, [Next /\ ~LateListener]_vars PROVE RecoveryInv'
  OBVIOUS
<1>1. CASE UNCHANGED vars
  <2>1. session' = session /\ pc' = pc /\ [Next]_vars
    BY <1>1 DEF vars
  <2>2. WorkInv'
    BY <2>1, NextWorkInv DEF RecoveryInv
  <2> QED BY <2>1, <2>2 DEF RecoveryInv, FailedIsRecorded
<1>2. CASE Next /\ ~LateListener
  <2>1. WorkInv'
    BY <1>2, NextWorkInv DEF RecoveryInv
  <2> QED BY <1>2, <2>1, StartsStep, FailedStep DEF RecoveryInv
<1> QED BY <1>1, <1>2

\* Recovery never enters behind unfinished work, for any number of processes,
\* as long as no exit listener of an earlier run fires while another run is
\* under way.
THEOREM RecoveryEntersRight ==
  Spec /\ [][~LateListener]_vars => []RecoveryEntersBeforeUnfinishedWork
<1>1. [Next]_vars /\ [~LateListener]_vars => [Next /\ ~LateListener]_vars
  OBVIOUS
<1>2. RecoveryInv => RecoveryEntersBeforeUnfinishedWork
  BY RecoveryFollows
<1> QED BY <1>1, <1>2, InitRecoveryInv, NextRecoveryInv, PTL DEF Spec

\* A user who runs one onboarding at a time never meets a late listener:
\* recovery then always enters before what is unfinished.
THEOREM RecoveryEntersRightAlone ==
  ASSUME \A p, q \in Procs : p = q
  PROVE  Spec => []RecoveryEntersBeforeUnfinishedWork
<1>1. ~LateListener
  BY DEF LateListener, ExitBackstop, Underway, Holding
<1>2. RecoveryInv /\ [Next]_vars => RecoveryInv'
  BY <1>1, NextRecoveryInv
<1>3. RecoveryInv => RecoveryEntersBeforeUnfinishedWork
  BY RecoveryFollows
<1> QED BY <1>2, <1>3, InitRecoveryInv, PTL DEF Spec

============================================================================
