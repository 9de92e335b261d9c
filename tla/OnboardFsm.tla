---------------------------- MODULE OnboardFsm ----------------------------
(***************************************************************************)
(* The durable onboarding session and the pure functions on it: the        *)
(* transition graph (onboard/machine/transitions.ts), the step marks of    *)
(* state/onboard-session.ts, the recovery planner of                       *)
(* onboard/session-recovery.ts and the terminal-failure owner              *)
(* finalizeIncompleteOnboardStep.  A session is a record; timestamps,      *)
(* configuration values and error texts are left out.                      *)
(***************************************************************************)
EXTENDS Naturals

CONSTANTS Agents,        \* agents a run may select
          DefaultAgent   \* OpenClaw, recorded in the session as agent = null

ASSUME AgentsAssumption == DefaultAgent \in Agents

None == "none"

StepNames == {"preflight", "gateway", "provider_selection", "inference",
              "sandbox", "agent_setup", "openclaw", "policies"}
Terminal == {"complete", "failed"}
NonTerminal == StepNames \cup {"init", "finalizing", "post_verify"}
MachineStates == NonTerminal \cup Terminal

\* ONBOARD_MACHINE_STATES behind "sandbox" in declaration order.
PastSandbox == {"agent_setup", "openclaw", "policies", "finalizing",
                "post_verify"} \cup Terminal

StepStatus == {"pending", "in_progress", "complete", "failed", "skipped"}
SessionStatus == {"absent", "in_progress", "complete", "failed"}

NoReceipt == [revision |-> 0, entry |-> None]
NoFailure == [step |-> None, interrupted |-> FALSE]

Session ==
  [state             : MachineStates,
   revision          : Nat,
   receipt           : [revision : Nat, entry : NonTerminal \cup {None}],
   steps             : [StepNames -> StepStatus],
   lastStepStarted   : StepNames \cup {None},
   lastCompletedStep : StepNames \cup {None},
   failure           : [step : StepNames \cup {None}, interrupted : BOOLEAN],
   status            : SessionStatus,
   resumable         : BOOLEAN,
   agent             : Agents]

---------------------------------------------------------------------------
(* The transition graph.                                                   *)

ONBOARD_MACHINE_DIRECT_TRANSITIONS ==
  {<<"init", "preflight">>, <<"preflight", "gateway">>,
   <<"gateway", "provider_selection">>, <<"provider_selection", "inference">>,
   <<"inference", "provider_selection">>, <<"inference", "sandbox">>,
   <<"sandbox", "openclaw">>, <<"sandbox", "agent_setup">>,
   <<"openclaw", "policies">>, <<"agent_setup", "policies">>,
   <<"policies", "finalizing">>, <<"finalizing", "post_verify">>,
   <<"post_verify", "complete">>}

canTransitionOnboardMachineState(from, to) ==
  \/ <<from, to>> \in ONBOARD_MACHINE_DIRECT_TRANSITIONS
  \/ from \in NonTerminal /\ to = "failed"

\* The agent branch: agent_setup for a named agent, openclaw otherwise.
Branch(agent) == IF agent = DefaultAgent THEN "openclaw" ELSE "agent_setup"

\* Mutant: the last step has no successor.
nextWithoutFinalizing(step, agent) ==
  CASE step = "preflight"                   -> "gateway"
    [] step = "gateway"                     -> "provider_selection"
    [] step = "provider_selection"          -> "inference"
    [] step = "inference"                   -> "sandbox"
    [] step = "sandbox"                     -> Branch(agent)
    [] step \in {"openclaw", "agent_setup"} -> "policies"
    [] OTHER                                -> None

nextMachineStateAfterCompletedStep(step, agent) ==
  CASE step = "preflight"                   -> "gateway"
    [] step = "gateway"                     -> "provider_selection"
    [] step = "provider_selection"          -> "inference"
    [] step = "inference"                   -> "sandbox"
    [] step = "sandbox"                     -> Branch(agent)
    [] step \in {"openclaw", "agent_setup"} -> "policies"
    [] step = "policies"                    -> "finalizing"
    [] OTHER                                -> None

---------------------------------------------------------------------------
(* Creating and marking a session.                                         *)

createSession ==
  [state |-> "init", revision |-> 0, receipt |-> NoReceipt,
   steps |-> [s \in StepNames |-> "pending"],
   lastStepStarted |-> None, lastCompletedStep |-> None,
   failure |-> NoFailure, status |-> "in_progress", resumable |-> TRUE,
   agent |-> DefaultAgent]

\* loadSession() = null: no session file.
NoSession == [createSession EXCEPT !.status = "absent", !.resumable = FALSE]

\* Mutant: the receipt survives the transition.
snapshotForKeepingReceipt(s, to) == [s EXCEPT !.state = to, !.revision = @ + 1]

\* createMachineSnapshot at the next revision: a new snapshot has no receipt.
snapshotFor(s, to) ==
  [s EXCEPT !.state = to, !.revision = @ + 1, !.receipt = NoReceipt]

transitionMachineSnapshot(s, to) ==
  IF s.state = to THEN s ELSE snapshotFor(s, to)

markStepStarted(s, step) ==
  [s EXCEPT !.steps[step] = "in_progress", !.lastStepStarted = step,
            !.failure = NoFailure, !.status = "in_progress"]

markStepComplete(s, step) ==
  [s EXCEPT !.steps[step] = "complete", !.lastCompletedStep = step,
            !.failure = NoFailure]

markStepSkipped(s, step) ==
  IF s.steps[step] \in {"complete", "failed", "skipped"}
  THEN s ELSE [s EXCEPT !.steps[step] = "skipped"]

markStepFailed(s, step) == [s EXCEPT !.steps[step] = "failed"]

\* Mutant: completing leaves the session resumable.
transitionLeavingOpen(s, to) ==
  IF to = "complete"
  THEN [transitionMachineSnapshot(s, to) EXCEPT
          !.status = "complete", !.failure = NoFailure]
  ELSE [snapshotFor(s, to) EXCEPT
          !.status = IF @ = "failed" THEN @ ELSE "in_progress"]

\* OnboardRuntime.transition, and OnboardRuntime.complete with completeSession.
transition(s, to) ==
  IF to = "complete"
  THEN [transitionMachineSnapshot(s, to) EXCEPT
          !.status = "complete", !.resumable = FALSE, !.failure = NoFailure]
  ELSE [snapshotFor(s, to) EXCEPT
          !.status = IF @ = "failed" THEN @ ELSE "in_progress"]

\* Mutant: only a failed session is left alone.
finalizeCompleteToo(s, step) ==
  IF s.state = "failed"
  THEN s
  ELSE [transitionMachineSnapshot(s, "failed") EXCEPT
          !.steps[step] = "failed", !.status = "failed",
          !.failure = [step |-> step, interrupted |-> TRUE]]

\* finalizeIncompleteOnboardStep(step, message, interrupted = true).
finalizeIncompleteOnboardStep(s, step) ==
  IF s.state \in Terminal
  THEN s
  ELSE [transitionMachineSnapshot(s, "failed") EXCEPT
          !.steps[step] = "failed", !.status = "failed",
          !.failure = [step |-> step, interrupted |-> TRUE]]

markLastStartedStepFailed(s) ==
  IF s.lastStepStarted = None
  THEN s ELSE finalizeIncompleteOnboardStep(s, s.lastStepStarted)

---------------------------------------------------------------------------
(* Recovery on --resume.                                                   *)

Unfinished(s, step) ==
  step # None /\ s.steps[step] \in {"failed", "in_progress"}

activeStepMachineState(s) ==
  IF Unfinished(s, s.failure.step) THEN s.failure.step
  ELSE IF Unfinished(s, s.lastStepStarted) THEN s.lastStepStarted
  ELSE None

\* Mutant: completed work looked at before active work.
resumeAfterCompleted(s) ==
  LET active == activeStepMachineState(s)
      next   == nextMachineStateAfterCompletedStep(s.lastCompletedStep, s.agent)
  IN  IF next # None THEN next ELSE IF active # None THEN active ELSE "init"

resumeMachineState(s) ==
  LET active == activeStepMachineState(s)
      next   == nextMachineStateAfterCompletedStep(s.lastCompletedStep, s.agent)
  IN  IF active # None THEN active ELSE IF next # None THEN next ELSE "init"

\* Mutant: a failed machine is not repaired.
classifyOnlyComplete(s) ==
  s.state = "complete" /\ (s.status # "complete" \/ s.resumable)

\* classifyResumeMachineRepair(s).action = "repair"
classifyResumeMachineRepair(s) ==
  \/ s.state = "failed"
  \/ s.state = "complete" /\ (s.status # "complete" \/ s.resumable)

applySessionRecovery(s) ==
  IF classifyResumeMachineRepair(s)
  THEN [s EXCEPT !.state = resumeMachineState(s), !.revision = @ + 1,
                 !.receipt = [revision |-> s.revision + 1,
                              entry |-> resumeMachineState(s)]]
  ELSE s

\* Steps that an agent change sends back to pending.
AgentScopedSteps == StepNames \ {"preflight", "gateway"}

clearAgentScopedResumeState(s, agent) ==
  [s EXCEPT
     !.agent = agent,
     !.steps = [t \in StepNames |->
                  IF t \in AgentScopedSteps THEN "pending" ELSE s.steps[t]],
     !.lastCompletedStep =
        IF @ \notin AgentScopedSteps THEN @
        ELSE IF s.steps["gateway"] = "complete" THEN "gateway"
        ELSE IF s.steps["preflight"] = "complete" THEN "preflight"
        ELSE None,
     !.lastStepStarted = IF @ \in AgentScopedSteps THEN None ELSE @]
============================================================================
