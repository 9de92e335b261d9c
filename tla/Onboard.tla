------------------------------ MODULE Onboard ------------------------------
(***************************************************************************)
(* Onboarding runs of `nemoclaw onboard`: processes that take the onboard  *)
(* lock, prepare or recover the durable session, and drive the onboarding  *)
(* machine through its three flow slices (onboard.ts, session-bootstrap.ts,*)
(* machine/runner.ts, machine/*-flow-phases.ts, machine/handlers/*.ts).    *)
(*                                                                         *)
(* A run may be killed, may be interrupted by a signal (the handler of     *)
(* exit-step-failure.ts records the failure and re-raises), and may throw, *)
(* in which case the lock is released before the exit backstop writes the  *)
(* session: by then another run may hold the lock and be under way.  The   *)
(* lock itself is abstract here; OnboardLock models its file protocol.     *)
(*                                                                         *)
(* updateSession (load, mutate, atomic rename) is one step: it contains no *)
(* await, and the file is replaced by rename.                              *)
(***************************************************************************)
EXTENDS OnboardFsm, Sequences

CONSTANTS Procs,           \* onboarding processes
          MaxRuns,         \* bound on runs that are not plain resumes
          MaxDisruptions,  \* bound on crashes, signals, errors and restarts
          MaxRetries       \* bound on inference -> provider_selection retries

ASSUME BoundsAssumption ==
  MaxRuns \in Nat /\ MaxDisruptions \in Nat /\ MaxRetries \in Nat
ASSUME ProcsAssumption == "free" \notin Procs /\ "stale" \notin Procs

VARIABLES session,      \* the session file
          lock,         \* holder of the onboard lock, "free", or "stale"
          pc,           \* where each process is
          run,          \* the local state of each process
          runs,         \* runs so far, plain resumes not counted
          disruptions   \* disruptions so far

vars == <<session, lock, pc, run, runs, disruptions>>

Slices == {"initial", "core", "final"}

(* A process's local state.  `seen' is the session object in the flow      *)
(* context, refreshed only by the calls that return a session; `entry' is  *)
(* the durable state at slice entry; `source' the state the next result    *)
(* must start from; `force' is forceProviderSelection; `created' says that *)
(* this run built the sandbox.                                             *)
Run ==
  [resume    : BOOLEAN,
   agent     : Agents,
   changed   : BOOLEAN,
   seen      : [steps : [StepNames -> StepStatus], state : MachineStates],
   slice     : Slices,
   entry     : MachineStates,
   repair    : BOOLEAN,
   phase     : NonTerminal,
   results   : Seq(MachineStates),
   source    : MachineStates,
   force     : BOOLEAN,
   retries   : Nat,
   created   : BOOLEAN]

Seen(s) == [steps |-> s.steps, state |-> s.state]

NewRun(resume, agent) ==
  [resume |-> resume, agent |-> agent, changed |-> FALSE,
   seen |-> Seen(NoSession), slice |-> "initial", entry |-> "init",
   repair |-> FALSE, phase |-> "init", results |-> <<>>, source |-> "init",
   force |-> FALSE, retries |-> 0, created |-> FALSE]

\* Between lock acquisition and release, and with the exit backstop armed.
Holding == {"locked", "prepared", "armed", "slice", "phase", "working",
            "apply", "check", "done"}
Armed == Holding \ {"locked", "prepared", "done"}
PCs == Holding \cup {"idle", "unwinding"}

Init ==
  /\ session = NoSession
  /\ lock = "free"
  /\ pc = [p \in Procs |-> "idle"]
  /\ run = [p \in Procs |-> NewRun(FALSE, DefaultAgent)]
  /\ runs = 0
  /\ disruptions = 0

---------------------------------------------------------------------------
(* Small steps shared by the actions.                                      *)

Goto(p, label) == pc' = [pc EXCEPT ![p] = label]
Disrupt == disruptions < MaxDisruptions /\ disruptions' = disruptions + 1

\* Leaving onboard(): `finally', or the first exit listener, releases the
\* lock, and the local state is gone.
Leave(p, label) ==
  /\ Goto(p, label)
  /\ lock' = IF lock = p THEN "free" ELSE lock
  /\ run' = [run EXCEPT ![p] = NewRun(FALSE, DefaultAgent)]

\* By an exception or process.exit(1): the exit backstop is still to come.
Unwind(p) == Leave(p, "unwinding")

NextSlice(slice) == IF slice = "initial" THEN "core" ELSE "final"

---------------------------------------------------------------------------
(* Starting a run.                                                         *)

\* Resuming a recorded session with the agent it records while no other
\* process is alive: not bounded, since such a run either completes the
\* session or is disrupted.
PlainResume(resume, agent) ==
  /\ resume
  /\ session.resumable
  /\ session.agent = agent
  /\ \A p \in Procs : pc[p] = "idle"

\* acquireOnboardLock; a process that finds a live holder exits unchanged.
Acquire(p, resume, agent) ==
  /\ pc[p] = "idle"
  /\ lock \in {"free", "stale"}
  /\ lock' = p
  /\ IF PlainResume(resume, agent)
     THEN UNCHANGED runs ELSE runs < MaxRuns /\ runs' = runs + 1
  /\ run' = [run EXCEPT ![p] = NewRun(resume, agent)]
  /\ Goto(p, "locked")
  /\ UNCHANGED <<session, disruptions>>

\* prepareFreshSession replaces whatever session is recorded.
PrepareFresh(p) ==
  /\ pc[p] = "locked"
  /\ ~run[p].resume
  /\ session' = createSession
  /\ Goto(p, "prepared")
  /\ UNCHANGED <<lock, run, runs, disruptions>>

PrepareResume(p) ==
  /\ pc[p] = "locked"
  /\ run[p].resume
  /\ session.resumable
  /\ session' = [applySessionRecovery(session) EXCEPT
                   !.failure = NoFailure, !.status = "in_progress"]
  /\ Goto(p, "prepared")
  /\ UNCHANGED <<lock, run, runs, disruptions>>

\* reportMissingResumeSession: no session, or one that is not resumable.
RefuseResume(p) ==
  /\ pc[p] = "locked"
  /\ run[p].resume
  /\ ~session.resumable
  /\ Leave(p, "idle")
  /\ UNCHANGED <<session, runs, disruptions>>

\* Resume conflicts, a missing sandbox name, a checkpoint that cannot be read:
\* process.exit(1) before the exit backstop is registered.
EarlyExit(p) ==
  /\ pc[p] \in {"locked", "prepared"}
  /\ Disrupt
  /\ Leave(p, "idle")
  /\ UNCHANGED <<session, runs>>

\* registerIncompleteOnboardExitHandlerForSession
Arm(p) ==
  /\ pc[p] = "prepared"
  /\ Goto(p, "armed")
  /\ UNCHANGED <<session, lock, run, runs, disruptions>>

applySelectedAgentTransition(p) ==
  LET changed == run[p].resume /\ session.agent # run[p].agent
      s == IF changed THEN clearAgentScopedResumeState(session, run[p].agent)
                      ELSE [session EXCEPT !.agent = run[p].agent]
  IN  /\ pc[p] = "armed"
      /\ session' = s
      /\ run' = [run EXCEPT ![p].changed = changed, ![p].seen = Seen(s)]
      /\ Goto(p, "slice")
      /\ UNCHANGED <<lock, runs, disruptions>>

---------------------------------------------------------------------------
(* Flow slices: where a run starts and which phases it repairs first.      *)

AllowedStates(slice, r) ==
  CASE slice = "initial" ->
         IF r.resume THEN NonTerminal
         ELSE {"init", "preflight", "gateway", "provider_selection"}
    [] slice = "core" ->
         {"provider_selection", "inference", "sandbox", "openclaw", "agent_setup"}
         \cup (IF r.resume THEN {"policies", "finalizing", "post_verify"} ELSE {})
    [] OTHER -> {Branch(r.agent), "policies", "finalizing", "post_verify"}

\* Mutant: the final slice starts at its recorded state.
RunnerEntriesAnywhere(slice, agent) ==
  CASE slice = "initial" -> {"init", "preflight"}
    [] slice = "core"    -> {"provider_selection"}
    [] OTHER             -> {Branch(agent), "policies", "finalizing", "post_verify"}

\* Durable states at which a slice's runner starts without any repair.
RunnerEntries(slice, agent) ==
  CASE slice = "initial" -> {"init", "preflight"}
    [] slice = "core"    -> {"provider_selection"}
    [] OTHER             -> {Branch(agent)}

FirstPhase(slice, agent) ==
  CASE slice = "initial" -> "preflight"
    [] slice = "core"    -> "provider_selection"
    [] OTHER             -> Branch(agent)

StopStates(slice) ==
  CASE slice = "initial" -> {"provider_selection"}
    [] slice = "core"    -> {"openclaw", "agent_setup"}
    [] OTHER             -> {}

EnterSlice(p) ==
  LET r == run[p]
      direct == session.state \in RunnerEntries(r.slice, r.agent)
  IN  /\ pc[p] = "slice"
      /\ session.state \in AllowedStates(r.slice, r)
      /\ run' = [run EXCEPT
           ![p].entry = session.state,
           ![p].repair = ~direct,
           ![p].phase = IF direct THEN session.state
                                  ELSE FirstPhase(r.slice, r.agent),
           ![p].results = <<>>,
           ![p].force = r.changed,
           ![p].retries = 0]
      /\ Goto(p, "phase")
      /\ UNCHANGED <<session, lock, runs, disruptions>>

\* UnexpectedOnboardFlowSliceStateError
RejectSlice(p) ==
  /\ pc[p] = "slice"
  /\ session.state \notin AllowedStates(run[p].slice, run[p])
  /\ Unwind(p)
  /\ UNCHANGED <<session, runs, disruptions>>

---------------------------------------------------------------------------
(* Phase handlers.                                                         *)

\* Phases that record no step: the init hand-off, finalizing and post_verify.
Stepless == {"init", "finalizing", "post_verify"}

\* The result(s) a handler returns once `phase' is finished.
HandlerResults(r) ==
  LET next == CASE r.phase = "init"        -> "preflight"
                [] r.phase = "finalizing"  -> "post_verify"
                [] r.phase = "post_verify" -> "complete"
                [] OTHER -> nextMachineStateAfterCompletedStep(r.phase, r.agent)
  IN  Append(r.results, next)

\* Advance the handler of p past its current phase.  provider_selection and
\* inference are one handler: its results are returned together.
FinishPhase(p, seen) ==
  LET r == run[p]
      inner == r.phase = "provider_selection"
  IN  /\ run' = [run EXCEPT
           ![p].seen = seen,
           ![p].results = HandlerResults(r),
           ![p].created = @ \/ (r.phase = "sandbox" /\ pc[p] = "working"),
           ![p].phase = IF inner THEN "inference" ELSE r.phase,
           ![p].source = IF inner THEN r.source
                         ELSE IF r.phase = "inference" THEN "provider_selection"
                         ELSE r.phase]
      /\ Goto(p, IF inner THEN "phase" ELSE IF r.repair THEN "check" ELSE "apply")

\* The other agent branch is recorded as skipped.
SkipOtherBranch(s, phase) ==
  CASE phase = "openclaw"    -> markStepSkipped(s, "agent_setup")
    [] phase = "agent_setup" -> markStepSkipped(s, "openclaw")
    [] OTHER                 -> s

\* Mutant: a resumed provider selection is reused whatever its mark says.
MayReuseAnySelection(r) ==
  CASE r.phase = "preflight" ->
         r.resume /\ r.seen.steps["preflight"] = "complete"
    [] r.phase = "provider_selection" -> ~r.force /\ r.resume
    [] r.phase = "inference" -> ~r.force /\ r.resume
    [] r.phase = "sandbox" ->
         r.resume /\ ~r.changed /\ r.seen.state \in PastSandbox
    [] r.phase = "gateway" -> TRUE
    [] OTHER -> r.resume

\* A handler may find its work already done.  Reuse of a recorded preflight,
\* provider selection or sandbox leaves the step marks alone; the others
\* record the step complete again without starting it.
MayReuse(r) ==
  CASE r.phase = "preflight" ->
         r.resume /\ r.seen.steps["preflight"] = "complete"
    [] r.phase = "provider_selection" ->
         ~r.force /\ r.resume /\ r.seen.steps["provider_selection"] = "complete"
    [] r.phase = "inference" -> ~r.force /\ r.resume
    [] r.phase = "sandbox" ->
         r.resume /\ ~r.changed /\ r.seen.state \in PastSandbox
    [] r.phase = "gateway" -> TRUE
    [] OTHER -> r.resume

ReusePhase(p) ==
  LET r == run[p]
      s == IF r.phase \in {"preflight", "provider_selection", "sandbox"}
           THEN session
           ELSE SkipOtherBranch(markStepComplete(session, r.phase), r.phase)
  IN  /\ pc[p] = "phase"
      /\ r.phase \notin Stepless
      /\ MayReuse(r)
      /\ session' = s
      /\ FinishPhase(p, IF r.phase \in {"preflight", "provider_selection"}
                        THEN r.seen ELSE Seen(s))
      /\ UNCHANGED <<lock, runs, disruptions>>

\* startRecordedStep.  A cached preflight is never started again.
StartPhase(p) ==
  LET r == run[p]
  IN  /\ pc[p] = "phase"
      /\ r.phase \notin Stepless
      /\ r.phase = "preflight" => ~MayReuse(r)
      /\ session' = markStepStarted(session, r.phase)
      /\ Goto(p, "working")
      /\ UNCHANGED <<lock, run, runs, disruptions>>

\* recordStepComplete
CompletePhase(p) ==
  LET r == run[p]
      s == SkipOtherBranch(markStepComplete(session, r.phase), r.phase)
  IN  /\ pc[p] = "working"
      /\ session' = s
      /\ FinishPhase(p, Seen(s))
      /\ UNCHANGED <<lock, runs, disruptions>>

\* setupInference asks for another selection.
RetrySelection(p) ==
  LET r == run[p]
  IN  /\ pc[p] = "working"
      /\ r.phase = "inference"
      /\ r.retries < MaxRetries
      /\ run' = [run EXCEPT ![p].results = Append(@, "provider_selection"),
                            ![p].phase = "provider_selection",
                            ![p].force = TRUE,
                            ![p].retries = @ + 1]
      /\ Goto(p, "phase")
      /\ UNCHANGED <<session, lock, runs, disruptions>>

\* init, finalizing and post_verify.
FinishStepless(p) ==
  /\ pc[p] = "phase"
  /\ run[p].phase \in Stepless
  /\ FinishPhase(p, run[p].seen)
  /\ UNCHANGED <<session, lock, runs, disruptions>>

\* handlePostVerifyState pauses when the deployment is not ready.  Pausing a
\* session that left post_verify is refused like any other stale result.
Pause(p) ==
  /\ pc[p] = "phase"
  /\ run[p].phase = "post_verify"
  /\ Disrupt
  /\ IF session.state = "post_verify"
     THEN Goto(p, "done") /\ UNCHANGED <<lock, run>>
     ELSE Unwind(p)
  /\ UNCHANGED <<session, runs>>

---------------------------------------------------------------------------
(* Results: applied by the runner, or only validated by a repair.          *)

\* assertResultWillApply and the checks of applyResult.
ResultApplies(p) ==
  /\ session.state = run[p].source
  /\ canTransitionOnboardMachineState(session.state, Head(run[p].results))

ApplyResult(p) ==
  LET r == run[p]
      to == Head(r.results)
      last == Tail(r.results) = <<>>
      stop == to \in StopStates(r.slice)
  IN  /\ pc[p] = "apply"
      /\ ResultApplies(p)
      /\ session' = transition(session, to)
      /\ run' = [run EXCEPT
           ![p].results = Tail(@),
           ![p].source = to,
           ![p].phase = IF last /\ to \in NonTerminal THEN to ELSE @,
           ![p].slice = IF stop THEN NextSlice(@) ELSE @]
      /\ Goto(p, IF stop THEN "slice"
                 ELSE IF to \in Terminal THEN "done"
                 ELSE IF last THEN "phase" ELSE "apply")
      /\ UNCHANGED <<lock, runs, disruptions>>

\* OnboardInterruptedError or InvalidOnboardMachineTransitionError.
RejectResult(p) ==
  /\ pc[p] = "apply"
  /\ ~ResultApplies(p)
  /\ Unwind(p)
  /\ UNCHANGED <<session, runs, disruptions>>

\* What follows a repaired phase: another repair, the runner, or the end of
\* the slice.
AfterRepair(r) ==
  CASE r.phase = "preflight" ->
         [to |-> "phase", phase |-> "gateway", repair |-> r.entry # "gateway"]
    [] r.phase = "inference" /\ r.entry = "inference" ->
         [to |-> "apply", phase |-> "inference", repair |-> FALSE]
    [] r.phase = "inference" /\ r.entry # "inference" ->
         [to |-> "phase", phase |-> "sandbox", repair |-> r.entry # "sandbox"]
    [] r.phase \in {"openclaw", "agent_setup"} ->
         [to |-> "phase", phase |-> "policies", repair |-> r.entry # "policies"]
    [] r.phase = "policies" ->
         [to |-> "phase", phase |-> "finalizing", repair |-> r.entry # "finalizing"]
    [] r.phase = "finalizing" ->
         [to |-> "phase", phase |-> "post_verify", repair |-> FALSE]
    [] OTHER -> [to |-> "slice", phase |-> r.phase, repair |-> FALSE]

\* The durable entry state must not have moved, and a repaired sandbox must
\* select the recorded agent branch.
RepairAccepted(p) ==
  LET r == run[p]
  IN  /\ session.state = r.entry
      /\ r.phase = "sandbox" /\ r.entry \in {"openclaw", "agent_setup"}
           => Branch(r.agent) = r.entry

CheckRepair(p) ==
  LET r == run[p]
      a == AfterRepair(r)
  IN  /\ pc[p] = "check"
      /\ RepairAccepted(p)
      /\ run' = [run EXCEPT
           ![p].phase = a.phase,
           ![p].repair = a.repair,
           ![p].results = IF a.to = "apply" THEN <<"sandbox">> ELSE <<>>,
           ![p].source = IF a.to = "apply" THEN "inference" ELSE @,
           ![p].slice = IF a.to = "slice" THEN NextSlice(@) ELSE @]
      /\ Goto(p, a.to)
      /\ UNCHANGED <<session, lock, runs, disruptions>>

RejectRepair(p) ==
  /\ pc[p] = "check"
  /\ ~RepairAccepted(p)
  /\ Unwind(p)
  /\ UNCHANGED <<session, runs, disruptions>>

---------------------------------------------------------------------------
(* Ending a run.                                                           *)

\* onboard() returned: completed = true, then `finally' releases the lock.
Finish(p) ==
  /\ pc[p] = "done"
  /\ Leave(p, "idle")
  /\ UNCHANGED <<session, runs, disruptions>>

\* A prompt, a handler or an external effect throws or exits nonzero.
HandlerFails(p) ==
  /\ pc[p] \in {"armed", "phase", "working"}
  /\ Disrupt
  /\ Unwind(p)
  /\ UNCHANGED <<session, runs>>

\* failAgentSetup records the step failed before it exits.
FailAgentSetup(p) ==
  /\ pc[p] = "working"
  /\ run[p].phase = "agent_setup"
  /\ Disrupt
  /\ session' = markStepFailed(session, "agent_setup")
  /\ Unwind(p)
  /\ UNCHANGED runs

\* "Apply this configuration?" answered no: process.exit(0).
DeclineConfiguration(p) ==
  /\ pc[p] = "phase"
  /\ run[p].phase = "inference"
  /\ Disrupt
  /\ Leave(p, "idle")
  /\ UNCHANGED <<session, runs>>

\* Ctrl+C at the policy prompts of a run that created the sandbox: the exit
\* listener installed first deletes the sandbox and clears the session.
RollBackCancelled(p) ==
  /\ pc[p] = "working"
  /\ run[p].phase = "policies"
  /\ run[p].created
  /\ Disrupt
  /\ session' = NoSession
  /\ Unwind(p)
  /\ UNCHANGED runs

\* The exit listener with a nonzero code.  It reads whatever session is on
\* disk now; the lock was released by an earlier step.
ExitBackstop(p) ==
  /\ pc[p] = "unwinding"
  /\ session' = markLastStartedStepFailed(session)
  /\ Goto(p, "idle")
  /\ UNCHANGED <<lock, run, runs, disruptions>>

Vanish(p) ==
  /\ Goto(p, "idle")
  /\ lock' = IF lock = p THEN "stale" ELSE lock
  /\ run' = [run EXCEPT ![p] = NewRun(FALSE, DefaultAgent)]

\* SIGINT or SIGTERM: the deferred handler records the failure with the lock
\* held and re-raises; the lock file stays behind.
Signal(p) ==
  /\ pc[p] \in Armed
  /\ Disrupt
  /\ session' = markLastStartedStepFailed(session)
  /\ Vanish(p)
  /\ UNCHANGED runs

\* SIGKILL, power loss, or a signal before the handler is installed.
Crash(p) ==
  /\ pc[p] # "idle"
  /\ Disrupt
  /\ Vanish(p)
  /\ UNCHANGED <<session, runs>>

---------------------------------------------------------------------------

\* The steps a running process takes by itself.
Proceed(p) ==
  \/ PrepareFresh(p)   \/ PrepareResume(p) \/ RefuseResume(p)
  \/ Arm(p)            \/ applySelectedAgentTransition(p)
  \/ EnterSlice(p)     \/ RejectSlice(p)
  \/ ReusePhase(p)     \/ StartPhase(p)    \/ CompletePhase(p)
  \/ RetrySelection(p) \/ FinishStepless(p)
  \/ ApplyResult(p)    \/ RejectResult(p)
  \/ CheckRepair(p)    \/ RejectRepair(p)
  \/ Finish(p)         \/ ExitBackstop(p)

\* What the host, the user or an external effect may do to a run.
Disturb(p) ==
  \/ EarlyExit(p) \/ HandlerFails(p) \/ FailAgentSetup(p) \/ Pause(p)
  \/ DeclineConfiguration(p) \/ RollBackCancelled(p) \/ Signal(p) \/ Crash(p)

Next ==
  \E p \in Procs :
    \/ \E resume \in BOOLEAN, agent \in Agents : Acquire(p, resume, agent)
    \/ Proceed(p)
    \/ Disturb(p)

Spec == Init /\ [][Next]_vars

---------------------------------------------------------------------------
(* Properties.                                                             *)

\* Every variable has its type, in particular the session file always
\* parses to a well-formed session (normalizeSession never rejects it).
TypeOK ==
  /\ session \in Session
  /\ lock \in Procs \cup {"free", "stale"}
  /\ pc \in [Procs -> PCs]
  /\ run \in [Procs -> Run]
  /\ runs \in Nat
  /\ disruptions \in Nat

\* The steps of the branch the session's agent takes.
BranchSteps(agent) ==
  {"preflight", "gateway", "provider_selection", "inference", "policies",
   Branch(agent)}

\* A session that says complete has done all of its work: every step of the
\* selected agent's branch is recorded complete, whatever mixture of crashes,
\* signals, retries, repairs and agent changes led there.  (The sandbox step
\* is judged by the checkpoint, not by its mark: see README.)
CompleteMeansDone ==
  session.state = "complete" =>
    \A step \in BranchSteps(session.agent) : session.steps[step] = "complete"

\* Complete sessions are closed: not resumable, no failure, status complete
\* (completeSession), so that --resume always refuses them.
CompleteIsClosed ==
  session.state = "complete" =>
    /\ ~session.resumable
    /\ session.status = "complete"
    /\ session.failure = NoFailure

\* The recovery receipt, when there is one, describes the snapshot it is
\* stored in: it is dropped by the first transition after the recovery
\* (parseSessionRecoveryReceipt would otherwise discard it on load).
ReceiptDescribesSnapshot ==
  session.receipt # NoReceipt =>
    /\ session.receipt.entry = session.state
    /\ session.receipt.revision = session.revision

\* Steps whose work a run that enters at `step' takes for granted.
Before(step) ==
  CASE step = "gateway"            -> {"preflight"}
    [] step = "provider_selection" -> {"preflight", "gateway"}
    [] step = "inference"          -> {"preflight", "gateway", "provider_selection"}
    [] step \in {"sandbox", "openclaw", "agent_setup", "policies"} ->
         {"preflight", "gateway", "provider_selection", "inference"}
    [] step \in {"finalizing", "post_verify"} ->
         {"preflight", "gateway", "provider_selection", "inference", "policies"}
    [] OTHER -> {}

\* Recovery never enters behind unfinished work: when --resume re-seats a
\* failed machine, no step before the entry is marked failed or in progress
\* (sandbox excepted, which every resume re-examines).
RecoveryEntersBeforeUnfinishedWork ==
  classifyResumeMachineRepair(session) =>
    \A step \in Before(resumeMachineState(session)) : ~Unfinished(session, step)

\* The holder of the lock prepares the session.
Preparing == \E p \in Procs : pc[p] = "locked" /\ pc'[p] = "prepared" /\ lock = p

\* The machine moves only along the transition graph, except that a run that
\* prepares the session may re-seat a terminal snapshot at a non-terminal
\* entry under a new revision or start a new session, and a cancelled run
\* discards its own (transitions.ts: terminality invariant, recovery model).
MachineMovesLegally ==
  [][session'.state # session.state =>
       \/ /\ canTransitionOnboardMachineState(session.state, session'.state)
          /\ session'.revision = session.revision + 1
       \/ /\ Preparing
          /\ session.state \in Terminal
          /\ session'.revision = session.revision + 1
          /\ session'.receipt # NoReceipt
       \/ Preparing /\ session' = createSession
       \/ session' = NoSession /\ \E p \in Procs : lock = p /\ pc'[p] = "unwinding"]_vars

\* A complete session stays complete until a run starts a new session.
CompletedStaysCompleted ==
  [][session.state = "complete" /\ session'.state # "complete" =>
       session' = createSession]_vars

---------------------------------------------------------------------------
(* The inductive invariant behind the theorems of OnboardProofs.           *)

\* A process between acquisition and release holds the lock.
LockHeld == \A p \in Procs : pc[p] \in Holding => lock = p

\* A process that works records a step, and one that applies has a result.
WorkInHand ==
  \A p \in Procs :
    /\ pc[p] = "working" => run[p].phase \in StepNames
    /\ pc[p] = "apply" => run[p].results # <<>>

\* Nobody works on a complete session.
CompleteIsQuiet ==
  session.state = "complete" =>
    \A p \in Procs : pc[p] \in {"idle", "unwinding", "locked", "done"}

IndInv ==
  /\ TypeOK
  /\ LockHeld
  /\ WorkInHand
  /\ CompleteIsQuiet
  /\ CompleteIsClosed
  /\ ReceiptDescribesSnapshot

---------------------------------------------------------------------------
(* Liveness: a user who resumes until onboarding is complete gets there.   *)

\* Scheduling: a live process takes its next step,
\* and whoever sees an incomplete session runs `onboard --resume' again.
Fairness ==
  \A p \in Procs :
    /\ WF_vars(Proceed(p))
    /\ WF_vars(\E agent \in Agents :
                 PlainResume(TRUE, agent) /\ Acquire(p, TRUE, agent))

FairSpec == Spec /\ Fairness

\* Every session that was started is eventually complete, or discarded by its
\* user: no crash, signal, error, repair or agent change leaves one that each
\* resume rejects again.
ResumeConverges ==
  (session.status # "absent") ~>
    (session.state = "complete" \/ session.status = "absent")
============================================================================
