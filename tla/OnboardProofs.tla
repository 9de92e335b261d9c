--------------------------- MODULE OnboardProofs ---------------------------
(* Proofs about Onboard, for every set of processes and agents and every   *)
(* bound on runs, disruptions and retries.                                 *)
EXTENDS Onboard, TLAPS

---------------------------------------------------------------------------
(* The session operators map sessions to sessions.                         *)

\* Completing a step leads to a non-terminal machine state.
LEMMA NextStateType ==
  ASSUME NEW step \in StepNames, NEW agent
  PROVE  nextMachineStateAfterCompletedStep(step, agent) \in NonTerminal
BY DEF nextMachineStateAfterCompletedStep, StepNames, NonTerminal, Branch

\* The placeholder None is none of the machine's states.
LEMMA NoneIsNoState == None \notin MachineStates
BY DEF None, MachineStates, NonTerminal, Terminal, StepNames

\* createSession and the absent session are sessions.
LEMMA NewSessionType == createSession \in Session /\ NoSession \in Session
BY AgentsAssumption
DEF createSession, NoSession, Session, NoReceipt, NoFailure, MachineStates,
    NonTerminal, StepStatus, SessionStatus, None

\* A new and an absent session are at "init", without a receipt.
LEMMA NewSessionSnapshot ==
  /\ createSession.state = "init" /\ createSession.receipt = NoReceipt
  /\ NoSession.state = "init" /\ NoSession.receipt = NoReceipt
<1>1. createSession.state = "init" /\ createSession.receipt = NoReceipt
  BY DEF createSession
<1>2. createSession \in Session
  BY NewSessionType
<1>3. /\ NoSession.state = createSession.state
      /\ NoSession.receipt = createSession.receipt
  BY <1>2 DEF NoSession, Session
<1> QED BY <1>1, <1>3

\* A new snapshot of a session is a session.
LEMMA SnapshotType ==
  ASSUME NEW s \in Session, NEW to \in MachineStates
  PROVE  /\ snapshotFor(s, to) \in Session
         /\ transitionMachineSnapshot(s, to) \in Session
<1>1. NoReceipt \in [revision : Nat, entry : NonTerminal \cup {None}]
  BY DEF NoReceipt
<1>2. s.revision + 1 \in Nat
  BY DEF Session
<1>3. snapshotFor(s, to) \in Session
  BY <1>1, <1>2 DEF snapshotFor, Session
<1> QED BY <1>3 DEF transitionMachineSnapshot

\* The four step markers yield sessions.
LEMMA MarkType ==
  ASSUME NEW s \in Session, NEW step \in StepNames
  PROVE  /\ markStepStarted(s, step) \in Session
         /\ markStepComplete(s, step) \in Session
         /\ markStepSkipped(s, step) \in Session
         /\ markStepFailed(s, step) \in Session
BY DEF markStepStarted, markStepComplete, markStepSkipped, markStepFailed,
       Session, NoFailure, None, StepStatus, SessionStatus

\* A machine transition yields a session.
LEMMA TransitionType ==
  ASSUME NEW s \in Session, NEW to \in MachineStates
  PROVE  transition(s, to) \in Session
<1>1. CASE to = "complete"
  <2>1. transitionMachineSnapshot(s, to) \in Session
    BY SnapshotType
  <2>2. NoFailure \in [step : StepNames \cup {None}, interrupted : BOOLEAN]
    BY DEF NoFailure
  <2>3. transition(s, to) =
          [transitionMachineSnapshot(s, to) EXCEPT
             !.status = "complete", !.resumable = FALSE, !.failure = NoFailure]
    BY <1>1 DEF transition
  <2> QED BY <2>1, <2>2, <2>3 DEF Session, SessionStatus
<1>2. CASE to # "complete"
  <2> DEFINE t == snapshotFor(s, to)
             status == IF t.status = "failed" THEN t.status ELSE "in_progress"
  <2>1. t \in Session
    BY SnapshotType
  <2>2. status \in SessionStatus
    BY DEF SessionStatus
  <2>3. transition(s, to) = [t EXCEPT !.status = status]
    BY <1>2 DEF transition
  <2> HIDE DEF t, status
  <2> QED BY <2>1, <2>2, <2>3 DEF Session
<1> QED BY <1>1, <1>2

\* Recording an interrupted step as failed yields a session.
LEMMA FinalizeType ==
  ASSUME NEW s \in Session
  PROVE  markLastStartedStepFailed(s) \in Session
<1>1. CASE s.lastStepStarted = None \/ s.state \in Terminal
  BY <1>1 DEF markLastStartedStepFailed, finalizeIncompleteOnboardStep
<1>2. CASE s.lastStepStarted # None /\ s.state \notin Terminal
  <2>1. transitionMachineSnapshot(s, "failed") \in Session
    BY SnapshotType DEF MachineStates, Terminal
  <2>2. s.lastStepStarted \in StepNames
    BY <1>2 DEF Session
  <2> QED
    BY <1>2, <2>1, <2>2
    DEF markLastStartedStepFailed, finalizeIncompleteOnboardStep, Session,
        StepStatus, SessionStatus
<1> QED BY <1>1, <1>2

\* The state a resume enters is a state of the machine.
LEMMA ResumeStateType ==
  ASSUME NEW s \in Session
  PROVE  resumeMachineState(s) \in NonTerminal
<1>1. activeStepMachineState(s) \in StepNames \cup {None}
  BY DEF activeStepMachineState, Session, Unfinished
<1>2. nextMachineStateAfterCompletedStep(s.lastCompletedStep, s.agent)
        \in NonTerminal \cup {None}
  BY DEF nextMachineStateAfterCompletedStep, Session, NonTerminal, StepNames,
         Branch, None
<1> QED BY <1>1, <1>2 DEF resumeMachineState, NonTerminal

\* A recovered session is a session.
LEMMA RecoveryType ==
  ASSUME NEW s \in Session
  PROVE  applySessionRecovery(s) \in Session
<1> DEFINE entry == resumeMachineState(s)
           receipt == [revision |-> s.revision + 1, entry |-> entry]
<1>1. entry \in NonTerminal /\ entry \in MachineStates
  BY ResumeStateType DEF MachineStates
<1>2. s.revision + 1 \in Nat
  BY DEF Session
<1>3. receipt \in [revision : Nat, entry : NonTerminal \cup {None}]
  BY <1>1, <1>2
<1>4. applySessionRecovery(s) \in
        {s, [s EXCEPT !.state = entry, !.revision = s.revision + 1,
                      !.receipt = receipt]}
  BY DEF applySessionRecovery
<1> HIDE DEF entry, receipt
<1> QED BY <1>1, <1>2, <1>3, <1>4 DEF Session

\* Clearing the agent-scoped steps yields a session.
LEMMA ClearAgentType ==
  ASSUME NEW s \in Session, NEW agent \in Agents
  PROVE  clearAgentScopedResumeState(s, agent) \in Session
BY DEF clearAgentScopedResumeState, Session, AgentScopedSteps, StepNames,
       StepStatus, None

---------------------------------------------------------------------------
(* Type correctness.                                                       *)

\* The view a run keeps of a session is well typed.
LEMMA SeenType ==
  ASSUME NEW s \in Session
  PROVE  Seen(s) \in [steps : [StepNames -> StepStatus], state : MachineStates]
BY DEF Seen, Session

\* A starting run is well typed.
LEMMA NewRunType ==
  ASSUME NEW resume \in BOOLEAN, NEW agent \in Agents
  PROVE  NewRun(resume, agent) \in Run
BY SeenType, NewSessionType
DEF NewRun, Run, Slices, MachineStates, NonTerminal

\* Leaving onboarding keeps the run and the lock in range.
LEMMA LeaveType ==
  ASSUME TypeOK, NEW p \in Procs, NEW label \in PCs, Leave(p, label)
  PROVE  /\ pc' \in [Procs -> PCs]
         /\ lock' \in Procs \cup {"free", "stale"}
         /\ run' \in [Procs -> Run]
BY NewRunType, AgentsAssumption DEF TypeOK, Leave, Goto

\* Handing on a phase result keeps the run in range.
LEMMA FinishPhaseType ==
  ASSUME TypeOK, NEW p \in Procs,
         NEW seen \in [steps : [StepNames -> StepStatus], state : MachineStates],
         FinishPhase(p, seen)
  PROVE  /\ pc' \in [Procs -> PCs]
         /\ run' \in [Procs -> Run]
         /\ run'[p].results # <<>>
<1> DEFINE r == run[p]
           inner == r.phase = "provider_selection"
           results == HandlerResults(r)
           phase == IF inner THEN "inference" ELSE r.phase
           source == IF inner THEN r.source
                     ELSE IF r.phase = "inference" THEN "provider_selection"
                     ELSE r.phase
           created == r.created \/ (r.phase = "sandbox" /\ pc[p] = "working")
<1>1. r \in Run
  BY DEF TypeOK
<1>2. results \in Seq(MachineStates) /\ results # <<>>
  <2> DEFINE next ==
        CASE r.phase = "init"        -> "preflight"
          [] r.phase = "finalizing"  -> "post_verify"
          [] r.phase = "post_verify" -> "complete"
          [] OTHER -> nextMachineStateAfterCompletedStep(r.phase, r.agent)
  <2>1. r.phase \in NonTerminal /\ r.results \in Seq(MachineStates)
    BY <1>1 DEF Run
  <2>2. next \in MachineStates
    BY <2>1, NextStateType DEF NonTerminal, MachineStates, StepNames, Terminal
  <2>3. results = Append(r.results, next)
    BY DEF HandlerResults
  <2> HIDE DEF r, next, results
  <2> QED BY <2>1, <2>2, <2>3
<1>3. phase \in NonTerminal /\ source \in MachineStates /\ created \in BOOLEAN
  BY <1>1 DEF Run, NonTerminal, MachineStates, StepNames
<1>4. run' = [run EXCEPT ![p] = [r EXCEPT !.seen = seen, !.results = results,
                !.created = created, !.phase = phase, !.source = source]]
  BY <1>1 DEF FinishPhase, TypeOK, Run
<1>5. [r EXCEPT !.seen = seen, !.results = results, !.created = created,
                !.phase = phase, !.source = source] \in Run
  <2> HIDE DEF r, results, phase, source, created
  <2> QED BY <1>1, <1>2, <1>3 DEF Run
<1>6. run' \in [Procs -> Run] /\ run'[p].results = results
  <2> HIDE DEF results, phase, source, created
  <2> QED BY <1>4, <1>5, <1>1 DEF TypeOK, Run
<1>7. pc' \in [Procs -> PCs]
  BY DEF FinishPhase, Goto, TypeOK, PCs, Holding
<1> QED BY <1>2, <1>6, <1>7

\* The part of the inductive invariant that type correctness needs.
Typed == TypeOK /\ WorkInHand

\* Leaving replaces the run of p alone.
LEMMA LeaveStep ==
  ASSUME Typed, NEW p \in Procs, NEW label \in {"idle", "unwinding"},
         Leave(p, label), session' \in Session, runs' \in Nat,
         disruptions' \in Nat
  PROVE  Typed'
<1>1. label \in PCs
  BY DEF PCs
<1>2. TypeOK'
  BY <1>1, LeaveType DEF Typed, TypeOK
<1>3. WorkInHand'
  BY DEF Typed, TypeOK, WorkInHand, Leave, Goto
<1> QED BY <1>2, <1>3 DEF Typed

\* A process that disappears replaces its own run alone.
LEMMA VanishStep ==
  ASSUME Typed, NEW p \in Procs, Vanish(p), session' \in Session,
         runs' \in Nat, disruptions' \in Nat
  PROVE  Typed'
<1>1. NewRun(FALSE, DefaultAgent) \in Run
  BY NewRunType, AgentsAssumption
<1>2. TypeOK'
  BY <1>1 DEF Typed, TypeOK, Vanish, Goto, PCs
<1>3. WorkInHand'
  BY DEF Typed, TypeOK, WorkInHand, Vanish, Goto
<1> QED BY <1>2, <1>3 DEF Typed

\* A step that ends in FinishPhase keeps the types.
LEMMA FinishPhaseStep ==
  ASSUME Typed, NEW p \in Procs,
         NEW seen \in [steps : [StepNames -> StepStatus], state : MachineStates],
         FinishPhase(p, seen), session' \in Session,
         UNCHANGED <<lock, runs, disruptions>>
  PROVE  Typed'
<1>1. TypeOK'
  BY FinishPhaseType DEF Typed, TypeOK
<1>2. run'[p].results # <<>>
  BY FinishPhaseType DEF Typed
<1>3. \A q \in Procs \ {p} : pc'[q] = pc[q] /\ run'[q] = run[q]
  BY DEF FinishPhase, Goto, Typed, TypeOK
<1>4. WorkInHand'
  BY <1>2, <1>3 DEF WorkInHand, Typed, FinishPhase, Goto, TypeOK
<1> QED BY <1>1, <1>4 DEF Typed

\* A step that leaves the local state of every process alone.
LEMMA PlainStep ==
  ASSUME Typed, NEW p \in Procs, NEW label \in PCs \ {"apply", "working"},
         Goto(p, label), UNCHANGED <<lock, run>>, session' \in Session,
         runs' \in Nat, disruptions' \in Nat
  PROVE  Typed'
BY DEF Typed, TypeOK, WorkInHand, Goto

\* A step that replaces the local state of p.
LEMMA LocalStep ==
  ASSUME Typed, NEW p \in Procs, NEW label \in PCs, NEW r \in Run,
         Goto(p, label), run' = [run EXCEPT ![p] = r],
         label = "apply" => r.results # <<>>,
         label = "working" => r.phase \in StepNames,
         session' \in Session, lock' \in Procs \cup {"free", "stale"},
         runs' \in Nat, disruptions' \in Nat
  PROVE  Typed'
BY DEF Typed, TypeOK, WorkInHand, Goto

\* Skipping the step of the branch not taken yields a session.
LEMMA SkipOtherBranchType ==
  ASSUME NEW s \in Session, NEW phase
  PROVE  SkipOtherBranch(s, phase) \in Session
<1>1. {"agent_setup", "openclaw"} \subseteq StepNames
  BY DEF StepNames
<1> QED BY <1>1, MarkType DEF SkipOtherBranch

\* The initial state is well typed.
LEMMA InitTyped == Init => Typed
<1> SUFFICES ASSUME Init PROVE Typed
  OBVIOUS
<1>1. NewRun(FALSE, DefaultAgent) \in Run
  BY NewRunType, AgentsAssumption
<1>2. TypeOK
  BY <1>1, NewSessionType DEF Init, TypeOK, PCs
<1>3. WorkInHand
  BY DEF Init, WorkInHand
<1> QED BY <1>2, <1>3 DEF Typed

\* Applying a handler's result keeps the types.
LEMMA ApplyResultTyped ==
  ASSUME Typed, NEW p \in Procs, ApplyResult(p)
  PROVE  Typed'
<1> DEFINE r == run[p]
           to == Head(r.results)
           last == Tail(r.results) = <<>>
           stop == to \in StopStates(r.slice)
           phase == IF last /\ to \in NonTerminal THEN to ELSE r.phase
           slice == IF stop THEN NextSlice(r.slice) ELSE r.slice
           label == IF stop THEN "slice"
                    ELSE IF to \in Terminal THEN "done"
                    ELSE IF last THEN "phase" ELSE "apply"
           new == [r EXCEPT !.results = Tail(r.results), !.source = to,
                            !.phase = phase, !.slice = slice]
<1>1. r \in Run /\ r.results # <<>>
  BY DEF Typed, TypeOK, WorkInHand, ApplyResult
<1>2. r.results \in Seq(MachineStates)
  BY <1>1 DEF Run
<1>3. to \in MachineStates /\ Tail(r.results) \in Seq(MachineStates)
  <2> HIDE DEF r
  <2> QED BY <1>1, <1>2
<1>4. phase \in NonTerminal /\ slice \in Slices /\ label \in PCs
  <2>1. r.phase \in NonTerminal /\ r.slice \in Slices
    BY <1>1 DEF Run
  <2> HIDE DEF r, last, stop
  <2> QED BY <2>1 DEF NextSlice, Slices, PCs, Holding
<1>5. /\ label = "apply" => Tail(r.results) # <<>>
      /\ label # "working"
  <2> HIDE DEF r, stop
  <2> QED OBVIOUS
<1>6. new \in Run /\ new.results = Tail(r.results)
  <2> HIDE DEF r, to, phase, slice
  <2> QED BY <1>1, <1>3, <1>4 DEF Run
<1>7. Goto(p, label) /\ run' = [run EXCEPT ![p] = new]
  BY <1>1 DEF ApplyResult, Typed, TypeOK, Run
<1>8. session' \in Session
  <2>1. session' = transition(session, to)
    BY DEF ApplyResult
  <2> HIDE DEF to
  <2> QED BY <2>1, <1>3, TransitionType DEF Typed, TypeOK
<1>9. UNCHANGED <<lock, runs, disruptions>>
  BY DEF ApplyResult
<1> HIDE DEF label, new
<1> QED
  BY <1>4, <1>5, <1>6, <1>7, <1>8, <1>9, LocalStep DEF Typed, TypeOK

\* Checking a repaired prerequisite keeps the types.
LEMMA CheckRepairTyped ==
  ASSUME Typed, NEW p \in Procs, CheckRepair(p)
  PROVE  Typed'
<1> DEFINE r == run[p]
           a == AfterRepair(r)
           results == IF a.to = "apply" THEN <<"sandbox">> ELSE <<>>
           source == IF a.to = "apply" THEN "inference" ELSE r.source
           slice == IF a.to = "slice" THEN NextSlice(r.slice) ELSE r.slice
           new == [r EXCEPT !.phase = a.phase, !.repair = a.repair,
                            !.results = results, !.source = source,
                            !.slice = slice]
<1>1. r \in Run
  BY DEF Typed, TypeOK
<1>2. /\ a.to \in {"phase", "apply", "slice"}
      /\ a.phase \in NonTerminal
      /\ a.repair \in BOOLEAN
  <2>1. r.phase \in NonTerminal
    BY <1>1 DEF Run
  <2> HIDE DEF r
  <2> QED BY <2>1 DEF AfterRepair, NonTerminal, StepNames
<1>3. /\ results \in Seq(MachineStates)
      /\ source \in MachineStates
      /\ slice \in Slices
      /\ a.to = "apply" => results # <<>>
  <2>1. r.source \in MachineStates /\ r.slice \in Slices
    BY <1>1 DEF Run
  <2>2. /\ <<"sandbox">> \in Seq(MachineStates)
        /\ <<>> \in Seq(MachineStates)
        /\ <<"sandbox">> # <<>>
        /\ "inference" \in MachineStates
    BY DEF MachineStates, NonTerminal, StepNames
  <2> HIDE DEF r, a
  <2> QED BY <2>1, <2>2 DEF Slices, NextSlice
<1>4. new \in Run /\ new.results = results
  <2> HIDE DEF r, a, results, source, slice
  <2> QED BY <1>1, <1>2, <1>3 DEF Run
<1>5. Goto(p, a.to) /\ run' = [run EXCEPT ![p] = new]
  BY <1>1 DEF CheckRepair, Typed, TypeOK, Run
<1>6. UNCHANGED <<session, lock, runs, disruptions>>
  BY DEF CheckRepair
<1>7. a.to \in PCs /\ a.to # "working"
  BY <1>2 DEF PCs, Holding
<1> HIDE DEF a, new
<1> QED
  BY <1>3, <1>4, <1>5, <1>6, <1>7, LocalStep DEF Typed, TypeOK

\* Taking the lock keeps the types.
LEMMA AcquireTyped ==
  ASSUME Typed, NEW p \in Procs, NEW resume \in BOOLEAN, NEW agent \in Agents,
         Acquire(p, resume, agent)
  PROVE  Typed'
<1>1. NewRun(resume, agent) \in Run
  BY NewRunType
<1>2. runs' \in Nat
  BY DEF Acquire, Typed, TypeOK
<1> QED
  BY <1>1, <1>2, LocalStep DEF Acquire, Typed, TypeOK, PCs, Holding

\* Every step a running process takes keeps the types.
LEMMA ProceedTyped ==
  ASSUME Typed, NEW p \in Procs, Proceed(p)
  PROVE  Typed'
<1> DEFINE r == run[p]
<1>0. session \in Session /\ r \in Run /\ runs \in Nat /\ disruptions \in Nat
  BY DEF Typed, TypeOK
<1>1. CASE PrepareFresh(p)
  BY <1>0, <1>1, NewSessionType, PlainStep DEF PrepareFresh, PCs, Holding
<1>2. CASE PrepareResume(p)
  <2>1. applySessionRecovery(session) \in Session
    BY <1>0, RecoveryType
  <2>2. NoFailure \in [step : StepNames \cup {None}, interrupted : BOOLEAN]
    BY DEF NoFailure
  <2>3. session' \in Session
    BY <1>2, <2>1, <2>2 DEF PrepareResume, Session, SessionStatus
  <2> QED BY <1>0, <1>2, <2>3, PlainStep DEF PrepareResume, PCs, Holding
<1>3. CASE RefuseResume(p)
  BY <1>0, <1>3, LeaveStep DEF RefuseResume
<1>4. CASE Arm(p)
  BY <1>0, <1>4, PlainStep DEF Arm, PCs, Holding
<1>5. CASE applySelectedAgentTransition(p)
  <2> DEFINE changed == r.resume /\ session.agent # r.agent
             s == IF changed THEN clearAgentScopedResumeState(session, r.agent)
                  ELSE [session EXCEPT !.agent = r.agent]
             new == [r EXCEPT !.changed = changed, !.seen = Seen(s)]
  <2>1. changed \in BOOLEAN /\ r.agent \in Agents
    BY <1>0 DEF Run
  <2>2. s \in Session
    <3>1. clearAgentScopedResumeState(session, r.agent) \in Session
      BY <1>0, <2>1, ClearAgentType
    <3>2. [session EXCEPT !.agent = r.agent] \in Session
      BY <1>0, <2>1 DEF Session
    <3> QED BY <3>1, <3>2
  <2>3. new \in Run
    <3>1. Seen(s) \in [steps : [StepNames -> StepStatus], state : MachineStates]
      BY <2>2, SeenType
    <3> HIDE DEF s, changed, r
    <3> QED BY <1>0, <2>1, <3>1 DEF Run
  <2>4. /\ session' = s
        /\ run' = [run EXCEPT ![p] = new]
        /\ Goto(p, "slice")
        /\ UNCHANGED <<lock, runs, disruptions>>
    BY <1>0, <1>5 DEF applySelectedAgentTransition, Typed, TypeOK, Run
  <2> HIDE DEF s, new
  <2> QED
    BY <2>2, <2>3, <2>4, LocalStep DEF Typed, TypeOK, PCs, Holding
<1>6. CASE EnterSlice(p)
  <2> DEFINE direct == session.state \in RunnerEntries(r.slice, r.agent)
             phase == IF direct THEN session.state
                      ELSE FirstPhase(r.slice, r.agent)
             new == [r EXCEPT !.entry = session.state, !.repair = ~direct,
                              !.phase = phase, !.results = <<>>,
                              !.force = r.changed, !.retries = 0]
  <2>1. session.state \in MachineStates /\ r.changed \in BOOLEAN
    BY <1>0 DEF Session, Run
  <2>2. phase \in NonTerminal
    BY DEF RunnerEntries, FirstPhase, Branch, NonTerminal, StepNames
  <2>3. new \in Run
    <3>1. (~direct) \in BOOLEAN /\ <<>> \in Seq(MachineStates) /\ 0 \in Nat
      OBVIOUS
    <3> HIDE DEF r, direct, phase
    <3> QED BY <1>0, <2>1, <2>2, <3>1 DEF Run
  <2>4. /\ run' = [run EXCEPT ![p] = new]
        /\ Goto(p, "phase")
        /\ UNCHANGED <<session, lock, runs, disruptions>>
    BY <1>0, <1>6 DEF EnterSlice, Typed, TypeOK, Run
  <2> HIDE DEF new
  <2> QED
    BY <1>0, <2>3, <2>4, LocalStep DEF Typed, TypeOK, PCs, Holding
<1>7. CASE RejectSlice(p)
  BY <1>0, <1>7, LeaveStep DEF RejectSlice, Unwind
<1>8. CASE ReusePhase(p)
  <2> DEFINE s == IF r.phase \in {"preflight", "provider_selection", "sandbox"}
                  THEN session
                  ELSE SkipOtherBranch(markStepComplete(session, r.phase), r.phase)
             seen == IF r.phase \in {"preflight", "provider_selection"}
                     THEN r.seen ELSE Seen(s)
  <2>1. r.phase \in StepNames
    BY <1>0, <1>8 DEF ReusePhase, Run, Stepless, NonTerminal
  <2>2. s \in Session
    BY <1>0, <2>1, MarkType, SkipOtherBranchType
  <2>3. seen \in [steps : [StepNames -> StepStatus], state : MachineStates]
    <3>1. Seen(s) \in [steps : [StepNames -> StepStatus], state : MachineStates]
      BY <2>2, SeenType
    <3>2. r.seen \in [steps : [StepNames -> StepStatus], state : MachineStates]
      BY <1>0 DEF Run
    <3> QED BY <3>1, <3>2
  <2>4. session' = s /\ FinishPhase(p, seen) /\ UNCHANGED <<lock, runs, disruptions>>
    BY <1>8 DEF ReusePhase
  <2> HIDE DEF s, seen
  <2> QED BY <2>2, <2>3, <2>4, FinishPhaseStep
<1>9. CASE StartPhase(p)
  <2>1. r.phase \in StepNames
    BY <1>0, <1>9 DEF StartPhase, Run, Stepless, NonTerminal
  <2>2. session' \in Session
    BY <1>0, <1>9, <2>1, MarkType DEF StartPhase
  <2>3. run' = [run EXCEPT ![p] = r]
    BY <1>9 DEF StartPhase, Typed, TypeOK
  <2> QED
    BY <1>0, <1>9, <2>1, <2>2, <2>3, LocalStep
    DEF StartPhase, Typed, TypeOK, PCs, Holding
<1>10. CASE CompletePhase(p)
  <2> DEFINE s == SkipOtherBranch(markStepComplete(session, r.phase), r.phase)
  <2>1. s \in Session
    BY <1>0, <1>10, MarkType, SkipOtherBranchType
    DEF CompletePhase, Typed, WorkInHand
  <2>2. Seen(s) \in [steps : [StepNames -> StepStatus], state : MachineStates]
    BY <2>1, SeenType
  <2>3. session' = s /\ FinishPhase(p, Seen(s)) /\ UNCHANGED <<lock, runs, disruptions>>
    BY <1>10 DEF CompletePhase
  <2> HIDE DEF s
  <2> QED BY <2>1, <2>2, <2>3, FinishPhaseStep
<1>11. CASE RetrySelection(p)
  <2> DEFINE results == Append(r.results, "provider_selection")
             retries == r.retries + 1
             new == [r EXCEPT !.results = results, !.phase = "provider_selection",
                              !.force = TRUE, !.retries = retries]
  <2>1. r.results \in Seq(MachineStates) /\ r.retries \in Nat
    BY <1>0 DEF Run
  <2>2. /\ "provider_selection" \in NonTerminal
        /\ "provider_selection" \in MachineStates
    BY DEF NonTerminal, StepNames, MachineStates
  <2>3. results \in Seq(MachineStates) /\ retries \in Nat
    BY <2>1, <2>2
  <2>4. new \in Run
    <3> HIDE DEF r, results, retries
    <3> QED BY <1>0, <2>1, <2>2, <2>3 DEF Run
  <2>5. /\ run' = [run EXCEPT ![p] = new]
        /\ Goto(p, "phase")
        /\ UNCHANGED <<session, lock, runs, disruptions>>
    BY <1>0, <1>11 DEF RetrySelection, Typed, TypeOK, Run
  <2> HIDE DEF new
  <2> QED
    BY <1>0, <2>4, <2>5, LocalStep DEF Typed, TypeOK, PCs, Holding
<1>12. CASE FinishStepless(p)
  <2>1. r.seen \in [steps : [StepNames -> StepStatus], state : MachineStates]
    BY <1>0 DEF Run
  <2> QED BY <1>0, <1>12, <2>1, FinishPhaseStep DEF FinishStepless
<1>13. CASE ApplyResult(p)
  BY <1>13, ApplyResultTyped
<1>14. CASE RejectResult(p)
  BY <1>0, <1>14, LeaveStep DEF RejectResult, Unwind
<1>15. CASE CheckRepair(p)
  BY <1>15, CheckRepairTyped
<1>16. CASE RejectRepair(p)
  BY <1>0, <1>16, LeaveStep DEF RejectRepair, Unwind
<1>17. CASE Finish(p)
  BY <1>0, <1>17, LeaveStep DEF Finish
<1>18. CASE ExitBackstop(p)
  BY <1>0, <1>18, FinalizeType, PlainStep DEF ExitBackstop, PCs
<1> QED
  BY <1>1, <1>2, <1>3, <1>4, <1>5, <1>6, <1>7, <1>8, <1>9, <1>10, <1>11,
     <1>12, <1>13, <1>14, <1>15, <1>16, <1>17, <1>18 DEF Proceed

\* Every failure, signal or crash keeps the types.
LEMMA DisturbTyped ==
  ASSUME Typed, NEW p \in Procs, Disturb(p)
  PROVE  Typed'
<1>0. session \in Session /\ runs \in Nat /\ disruptions \in Nat
  BY DEF Typed, TypeOK
<1>1. CASE EarlyExit(p)
  BY <1>0, <1>1, LeaveStep DEF EarlyExit, Disrupt
<1>2. CASE HandlerFails(p)
  BY <1>0, <1>2, LeaveStep DEF HandlerFails, Disrupt, Unwind
<1>3. CASE FailAgentSetup(p)
  <2>1. session' \in Session
    BY <1>0, <1>3, MarkType DEF FailAgentSetup, StepNames
  <2> QED BY <1>0, <1>3, <2>1, LeaveStep DEF FailAgentSetup, Disrupt, Unwind
<1>4. CASE Pause(p)
  <2>1. CASE session.state = "post_verify"
    BY <1>0, <1>4, <2>1, PlainStep DEF Pause, Disrupt, PCs, Holding
  <2>2. CASE session.state # "post_verify"
    BY <1>0, <1>4, <2>2, LeaveStep DEF Pause, Disrupt, Unwind
  <2> QED BY <2>1, <2>2
<1>5. CASE DeclineConfiguration(p)
  BY <1>0, <1>5, LeaveStep DEF DeclineConfiguration, Disrupt
<1>6. CASE RollBackCancelled(p)
  BY <1>0, <1>6, NewSessionType, LeaveStep DEF RollBackCancelled, Disrupt, Unwind
<1>7. CASE Signal(p)
  BY <1>0, <1>7, FinalizeType, VanishStep DEF Signal, Disrupt
<1>8. CASE Crash(p)
  BY <1>0, <1>8, VanishStep DEF Crash, Disrupt
<1> QED
  BY <1>1, <1>2, <1>3, <1>4, <1>5, <1>6, <1>7, <1>8 DEF Disturb

\* Every step keeps the types.
LEMMA NextTyped == Typed /\ [Next]_vars => Typed'
<1> SUFFICES ASSUME Typed, [Next]_vars PROVE Typed'
  OBVIOUS
<1>1. CASE UNCHANGED vars
  BY <1>1 DEF vars, Typed, TypeOK, WorkInHand
<1>2. CASE Next
  BY <1>2, AcquireTyped, ProceedTyped, DisturbTyped DEF Next
<1> QED BY <1>1, <1>2

\* Every reachable state is well typed.
THEOREM TypeCorrect == Spec => []TypeOK
<1>1. Typed => TypeOK
  BY DEF Typed
<1> QED BY <1>1, InitTyped, NextTyped, PTL DEF Spec

---------------------------------------------------------------------------
(* The lock: who is between acquisition and release holds it.              *)

\* A step that changes only the run of p, inside the lock, keeps LockHeld.
LEMMA LockStep ==
  ASSUME Typed, LockHeld, NEW p \in Procs,
         \/ pc[p] \in Holding /\ UNCHANGED lock
         \/ pc'[p] \notin Holding
            /\ lock' \in {lock, IF lock = p THEN "free" ELSE lock,
                                 IF lock = p THEN "stale" ELSE lock},
         NEW label \in PCs, Goto(p, label)
  PROVE  LockHeld'
<1>1. \A q \in Procs \ {p} : pc'[q] = pc[q]
  BY DEF Goto, Typed, TypeOK
<1> QED BY <1>1 DEF LockHeld

\* Every step keeps the lock with the processes inside onboarding.
LEMMA NextLockHeld == Typed /\ LockHeld /\ [Next]_vars => LockHeld'
<1> SUFFICES ASSUME Typed, LockHeld, [Next]_vars PROVE LockHeld'
  OBVIOUS
<1>1. CASE UNCHANGED vars
  BY <1>1 DEF vars, LockHeld
<1>2. ASSUME NEW p \in Procs, NEW resume \in BOOLEAN, NEW agent \in Agents,
             Acquire(p, resume, agent)
      PROVE  LockHeld'
  <2>1. \A q \in Procs : pc[q] \notin Holding
    BY <1>2, ProcsAssumption DEF Acquire, LockHeld
  <2> QED BY <1>2, <2>1 DEF Acquire, Goto, LockHeld, Typed, TypeOK
<1>3. ASSUME NEW p \in Procs, Proceed(p)
      PROVE  LockHeld'
  <2>0. ASSUME NEW label \in {"idle", "unwinding"}, Leave(p, label)
        PROVE  LockHeld'
    BY <2>0, LockStep DEF Leave, Goto, Typed, TypeOK, PCs, Holding
  <2>1. CASE PrepareFresh(p) \/ PrepareResume(p) \/ Arm(p)
    BY <2>1, LockStep DEF PrepareFresh, PrepareResume, Arm, PCs, Holding
  <2>2. CASE applySelectedAgentTransition(p) \/ EnterSlice(p)
    BY <2>2, LockStep DEF applySelectedAgentTransition, EnterSlice, PCs, Holding
  <2>3. CASE RefuseResume(p) \/ RejectSlice(p) \/ RejectResult(p)
             \/ RejectRepair(p) \/ Finish(p)
    BY <2>3, <2>0
    DEF RefuseResume, RejectSlice, RejectResult, RejectRepair, Finish, Unwind
  <2>4. CASE ReusePhase(p) \/ CompletePhase(p) \/ FinishStepless(p)
    BY <2>4, LockStep
    DEF ReusePhase, CompletePhase, FinishStepless, FinishPhase, PCs, Holding
  <2>5. CASE StartPhase(p) \/ RetrySelection(p)
    BY <2>5, LockStep DEF StartPhase, RetrySelection, PCs, Holding
  <2>6. CASE ApplyResult(p)
    BY <2>6, LockStep DEF ApplyResult, PCs, Holding
  <2>7. CASE CheckRepair(p)
    <3>1. AfterRepair(run[p]).to \in PCs
      BY DEF AfterRepair, PCs, Holding
    <3> QED BY <2>7, <3>1, LockStep DEF CheckRepair, Holding
  <2>8. CASE ExitBackstop(p)
    BY <2>8, LockStep DEF ExitBackstop, Goto, Typed, TypeOK, PCs, Holding
  <2> QED
    BY <1>3, <2>1, <2>2, <2>3, <2>4, <2>5, <2>6, <2>7, <2>8 DEF Proceed
<1>4. ASSUME NEW p \in Procs, Disturb(p)
      PROVE  LockHeld'
  <2>0. ASSUME NEW label \in {"idle", "unwinding"}, Leave(p, label)
        PROVE  LockHeld'
    BY <2>0, LockStep DEF Leave, Goto, Typed, TypeOK, PCs, Holding
  <2>1. CASE EarlyExit(p) \/ HandlerFails(p) \/ FailAgentSetup(p)
             \/ DeclineConfiguration(p) \/ RollBackCancelled(p)
    BY <2>1, <2>0
    DEF EarlyExit, HandlerFails, FailAgentSetup, DeclineConfiguration,
        RollBackCancelled, Unwind
  <2>2. CASE Pause(p)
    <3>1. CASE session.state = "post_verify"
      BY <2>2, <3>1, LockStep DEF Pause, PCs, Holding
    <3>2. CASE session.state # "post_verify"
      BY <2>2, <3>2, <2>0 DEF Pause, Unwind
    <3> QED BY <3>1, <3>2
  <2>3. CASE Signal(p) \/ Crash(p)
    BY <2>3, LockStep DEF Signal, Crash, Vanish, Goto, Typed, TypeOK, PCs, Holding
  <2> QED BY <1>4, <2>1, <2>2, <2>3 DEF Disturb
<1> QED BY <1>1, <1>2, <1>3, <1>4 DEF Next

---------------------------------------------------------------------------
(* The ways in which a step of the program can change the session file.    *)

SameSnapshot ==
  /\ session'.state = session.state
  /\ session'.revision = session.revision
  /\ session'.receipt = session.receipt

\* A handler records step marks or the agent of the running session.
Marked ==
  /\ SameSnapshot
  /\ \E p \in Procs : pc[p] \in {"armed", "phase", "working"}

\* A legal transition: a result, or the failure of a live session.
Moved ==
  /\ canTransitionOnboardMachineState(session.state, session'.state)
  /\ session'.revision = session.revision + 1
  /\ session'.receipt = NoReceipt
  /\ session'.state = "complete" =>
       /\ ~session'.resumable
       /\ session'.status = "complete"
       /\ session'.failure = NoFailure
       /\ \E p \in Procs : ApplyResult(p)

Entering(p) == pc[p] = "locked" /\ pc'[p] = "prepared"

\* --resume takes a live snapshot over, or re-seats a terminal one.
Resumed ==
  /\ SameSnapshot
  /\ session.resumable
Reseated ==
  /\ \E p \in Procs : Entering(p)
  /\ session.resumable
  /\ session.state \in Terminal
  /\ session'.state \in NonTerminal
  /\ session'.revision = session.revision + 1
  /\ session'.receipt = [revision |-> session'.revision, entry |-> session'.state]

Renewed == session' = createSession /\ \E p \in Procs : Entering(p)

Discarded ==
  /\ session' = NoSession
  /\ \E p \in Procs : pc[p] = "working" /\ pc'[p] = "unwinding"

SessionStep ==
  \/ UNCHANGED session \/ Marked \/ Moved
  \/ Resumed \/ Reseated \/ Renewed \/ Discarded

\* The step markers leave the state, the revision and the receipt alone.
LEMMA MarkKeepsSnapshot ==
  ASSUME NEW s \in Session, NEW step \in StepNames
  PROVE  /\ markStepStarted(s, step).state = s.state
         /\ markStepStarted(s, step).revision = s.revision
         /\ markStepStarted(s, step).receipt = s.receipt
         /\ markStepComplete(s, step).state = s.state
         /\ markStepComplete(s, step).revision = s.revision
         /\ markStepComplete(s, step).receipt = s.receipt
         /\ markStepSkipped(s, step).state = s.state
         /\ markStepSkipped(s, step).revision = s.revision
         /\ markStepSkipped(s, step).receipt = s.receipt
         /\ markStepFailed(s, step).state = s.state
         /\ markStepFailed(s, step).revision = s.revision
         /\ markStepFailed(s, step).receipt = s.receipt
BY DEF markStepStarted, markStepComplete, markStepSkipped, markStepFailed, Session

\* Skipping the other branch leaves the snapshot alone.
LEMMA SkipKeepsSnapshot ==
  ASSUME NEW s \in Session, NEW phase
  PROVE  /\ SkipOtherBranch(s, phase).state = s.state
         /\ SkipOtherBranch(s, phase).revision = s.revision
         /\ SkipOtherBranch(s, phase).receipt = s.receipt
<1>1. {"agent_setup", "openclaw"} \subseteq StepNames
  BY DEF StepNames
<1> QED BY <1>1, MarkKeepsSnapshot DEF SkipOtherBranch

\* Completing a step of the current phase leaves the snapshot alone.
LEMMA CompletionKeepsSnapshot ==
  ASSUME NEW s \in Session, NEW step \in StepNames,
         session = s, session' = SkipOtherBranch(markStepComplete(s, step), step)
  PROVE  SameSnapshot
<1> DEFINE t == markStepComplete(s, step)
<1>1. t \in Session
  BY MarkType
<1>2. t.state = s.state /\ t.revision = s.revision /\ t.receipt = s.receipt
  BY MarkKeepsSnapshot
<1>3. session' = SkipOtherBranch(t, step)
  OBVIOUS
<1> HIDE DEF t
<1> QED BY <1>1, <1>2, <1>3, SkipKeepsSnapshot DEF SameSnapshot

\* The exit handler and the signal handler fail an open machine or leave it alone.
LEMMA BackstopMoves ==
  ASSUME Typed, session' = markLastStartedStepFailed(session)
  PROVE  SessionStep
<1>1. CASE session.lastStepStarted = None \/ session.state \in Terminal
  BY <1>1 DEF markLastStartedStepFailed, finalizeIncompleteOnboardStep, SessionStep
<1>2. CASE session.lastStepStarted # None /\ session.state \notin Terminal
  <2> DEFINE s == transitionMachineSnapshot(session, "failed")
             step == session.lastStepStarted
  <2>1. /\ session \in Session
        /\ session.state \in NonTerminal
        /\ session.state # "failed"
    BY <1>2 DEF Typed, TypeOK, Session, MachineStates, Terminal
  <2>2. s \in Session
    BY <2>1, SnapshotType DEF MachineStates, Terminal
  <2>3. /\ s.state = "failed"
        /\ s.revision = session.revision + 1
        /\ s.receipt = NoReceipt
    BY <2>1 DEF transitionMachineSnapshot, snapshotFor, Session
  <2>4. session' = [s EXCEPT !.steps[step] = "failed", !.status = "failed",
                             !.failure = [step |-> step, interrupted |-> TRUE]]
    BY <1>2 DEF markLastStartedStepFailed, finalizeIncompleteOnboardStep
  <2>5. /\ session'.state = s.state
        /\ session'.revision = s.revision
        /\ session'.receipt = s.receipt
    <3> HIDE DEF s
    <3> QED BY <2>2, <2>4 DEF Session
  <2>6. canTransitionOnboardMachineState(session.state, session'.state)
    BY <2>1, <2>3, <2>5 DEF canTransitionOnboardMachineState
  <2> QED BY <2>3, <2>5, <2>6 DEF Moved, SessionStep
<1> QED BY <1>1, <1>2

\* Applying a result moves the machine along a permitted edge.
LEMMA ApplyResultMoves ==
  ASSUME Typed, NEW p \in Procs, ApplyResult(p)
  PROVE  Moved /\ session'.state = Head(run[p].results)
<1> DEFINE to == Head(run[p].results)
<1>1. /\ session \in Session
      /\ session' = transition(session, to)
      /\ canTransitionOnboardMachineState(session.state, to)
  BY DEF Typed, TypeOK, ApplyResult, ResultApplies
<1> HIDE DEF to
<1>2. to \in MachineStates /\ session.state # to
  BY <1>1
  DEF canTransitionOnboardMachineState, ONBOARD_MACHINE_DIRECT_TRANSITIONS,
      MachineStates, NonTerminal, Terminal, StepNames
<1>3. snapshotFor(session, to) \in Session
  BY <1>1, <1>2, SnapshotType
<1>4. /\ snapshotFor(session, to).state = to
      /\ snapshotFor(session, to).revision = session.revision + 1
      /\ snapshotFor(session, to).receipt = NoReceipt
  BY <1>1 DEF snapshotFor, Session
<1>5. CASE to = "complete"
  <2>1. session' = [snapshotFor(session, to) EXCEPT
          !.status = "complete", !.resumable = FALSE, !.failure = NoFailure]
    BY <1>1, <1>2, <1>5 DEF transition, transitionMachineSnapshot
  <2>2. /\ session'.state = to
        /\ session'.revision = session.revision + 1
        /\ session'.receipt = NoReceipt
        /\ session'.status = "complete"
        /\ session'.resumable = FALSE
        /\ session'.failure = NoFailure
    BY <1>3, <1>4, <2>1 DEF Session
  <2> QED BY <1>1, <2>2 DEF Moved, to
<1>6. CASE to # "complete"
  <2>1. /\ session'.state = to
        /\ session'.revision = session.revision + 1
        /\ session'.receipt = NoReceipt
    BY <1>1, <1>3, <1>4, <1>6 DEF transition, Session
  <2> QED BY <1>1, <1>6, <2>1 DEF Moved, to
<1> QED BY <1>5, <1>6

\* Preparing a resume keeps the snapshot or re-seats it with a matching receipt.
LEMMA ReseatMoves ==
  ASSUME Typed, NEW p \in Procs, PrepareResume(p)
  PROVE  Resumed \/ Reseated
<1> DEFINE s == applySessionRecovery(session)
           entry == resumeMachineState(session)
<1>1. session \in Session /\ session.resumable /\ s \in Session
  BY RecoveryType DEF Typed, TypeOK, PrepareResume
<1>2. /\ session'.state = s.state
      /\ session'.revision = s.revision
      /\ session'.receipt = s.receipt
  <2>1. session' = [s EXCEPT !.failure = NoFailure, !.status = "in_progress"]
    BY DEF PrepareResume
  <2> HIDE DEF s
  <2> QED BY <1>1, <2>1 DEF Session
<1>3. CASE ~classifyResumeMachineRepair(session)
  BY <1>1, <1>2, <1>3 DEF applySessionRecovery, Resumed, SameSnapshot
<1>4. CASE classifyResumeMachineRepair(session)
  <2>1. /\ s.state = entry
        /\ s.revision = session.revision + 1
        /\ s.receipt = [revision |-> session.revision + 1, entry |-> entry]
    <3>1. s = [session EXCEPT !.state = entry, !.revision = session.revision + 1,
                 !.receipt = [revision |-> session.revision + 1, entry |-> entry]]
      BY <1>4 DEF applySessionRecovery
    <3> HIDE DEF s, entry
    <3> QED BY <1>1, <3>1 DEF Session
  <2>2. session.state \in Terminal
    BY <1>4 DEF classifyResumeMachineRepair, Terminal
  <2>3. entry \in NonTerminal
    BY <1>1, ResumeStateType
  <2>4. Entering(p)
    BY DEF PrepareResume, Goto, Entering, Typed, TypeOK
  <2> HIDE DEF s, entry
  <2> QED BY <1>1, <1>2, <2>1, <2>2, <2>3, <2>4 DEF Reseated
<1> QED BY <1>3, <1>4

\* Every step changes the session in one of the ways SessionStep lists.
LEMMA NextSessionStep == Typed /\ [Next]_vars => SessionStep
<1> SUFFICES ASSUME Typed, [Next]_vars PROVE SessionStep
  OBVIOUS
<1>0. session \in Session /\ pc \in [Procs -> PCs] /\ run \in [Procs -> Run]
  BY DEF Typed, TypeOK
<1>1. CASE UNCHANGED vars
  BY <1>1 DEF vars, SessionStep
<1>2. ASSUME NEW p \in Procs, NEW resume \in BOOLEAN, NEW agent \in Agents,
             Acquire(p, resume, agent)
      PROVE  SessionStep
  BY <1>2 DEF Acquire, SessionStep
<1>3. ASSUME NEW p \in Procs, Proceed(p)
      PROVE  SessionStep
  <2> DEFINE phase == run[p].phase
  <2>1. CASE PrepareFresh(p)
    BY <1>0, <2>1 DEF PrepareFresh, Goto, SessionStep, Renewed, Entering
  <2>2. CASE PrepareResume(p)
    BY <2>2, ReseatMoves DEF SessionStep
  <2>3. CASE RefuseResume(p) \/ Arm(p) \/ EnterSlice(p) \/ RejectSlice(p)
             \/ RetrySelection(p) \/ FinishStepless(p) \/ RejectResult(p)
             \/ CheckRepair(p) \/ RejectRepair(p) \/ Finish(p)
    BY <2>3
    DEF RefuseResume, Arm, EnterSlice, RejectSlice, RetrySelection,
        FinishStepless, RejectResult, CheckRepair, RejectRepair, Finish,
        SessionStep
  <2>4. CASE applySelectedAgentTransition(p)
    BY <1>0, <2>4
    DEF applySelectedAgentTransition, clearAgentScopedResumeState, Session,
        SessionStep, Marked, SameSnapshot
  <2>5. CASE ReusePhase(p)
    <3>1. phase \in StepNames
      BY <1>0, <2>5 DEF ReusePhase, Run, Stepless, NonTerminal
    <3>2. CASE phase \in {"preflight", "provider_selection", "sandbox"}
      BY <2>5, <3>2 DEF ReusePhase, SessionStep
    <3>3. CASE phase \notin {"preflight", "provider_selection", "sandbox"}
      <4>1. SameSnapshot
        BY <1>0, <2>5, <3>1, <3>3, CompletionKeepsSnapshot DEF ReusePhase
      <4> QED BY <2>5, <4>1 DEF ReusePhase, SessionStep, Marked
    <3> QED BY <3>2, <3>3
  <2>6. CASE StartPhase(p)
    <3>1. phase \in StepNames
      BY <1>0, <2>6 DEF StartPhase, Run, Stepless, NonTerminal
    <3> QED
      BY <1>0, <2>6, <3>1, MarkKeepsSnapshot
      DEF StartPhase, SessionStep, Marked, SameSnapshot
  <2>7. CASE CompletePhase(p)
    <3>1. phase \in StepNames
      BY <2>7 DEF CompletePhase, Typed, WorkInHand
    <3>2. SameSnapshot
      BY <1>0, <2>7, <3>1, CompletionKeepsSnapshot DEF CompletePhase
    <3> QED BY <2>7, <3>2 DEF CompletePhase, SessionStep, Marked
  <2>8. CASE ApplyResult(p)
    BY <2>8, ApplyResultMoves DEF SessionStep
  <2>9. CASE ExitBackstop(p)
    BY <2>9, BackstopMoves DEF ExitBackstop
  <2> QED
    BY <1>3, <2>1, <2>2, <2>3, <2>4, <2>5, <2>6, <2>7, <2>8, <2>9 DEF Proceed
<1>4. ASSUME NEW p \in Procs, Disturb(p)
      PROVE  SessionStep
  <2>1. CASE EarlyExit(p) \/ HandlerFails(p) \/ Pause(p)
             \/ DeclineConfiguration(p) \/ Crash(p)
    BY <2>1
    DEF EarlyExit, HandlerFails, Pause, DeclineConfiguration, Crash, SessionStep
  <2>2. CASE FailAgentSetup(p)
    BY <1>0, <2>2, MarkKeepsSnapshot
    DEF FailAgentSetup, SessionStep, Marked, SameSnapshot, StepNames
  <2>3. CASE RollBackCancelled(p)
    BY <1>0, <2>3
    DEF RollBackCancelled, Unwind, Leave, Goto, SessionStep, Discarded
  <2>4. CASE Signal(p)
    BY <2>4, BackstopMoves DEF Signal
  <2> QED BY <1>4, <2>1, <2>2, <2>3, <2>4 DEF Disturb
<1> QED BY <1>1, <1>2, <1>3, <1>4 DEF Next

---------------------------------------------------------------------------
(* The receipt of a recovery describes the snapshot that carries it.       *)

\* Every step keeps ReceiptDescribesSnapshot.
LEMMA NextReceipt ==
  Typed /\ ReceiptDescribesSnapshot /\ SessionStep => ReceiptDescribesSnapshot'
<1> SUFFICES ASSUME ReceiptDescribesSnapshot, SessionStep
             PROVE  ReceiptDescribesSnapshot'
  OBVIOUS
<1>1. CASE UNCHANGED session \/ Marked \/ Resumed
  BY <1>1 DEF Marked, Resumed, SameSnapshot, ReceiptDescribesSnapshot
<1>2. CASE Moved
  BY <1>2 DEF Moved, ReceiptDescribesSnapshot
<1>3. CASE Reseated
  BY <1>3 DEF Reseated, ReceiptDescribesSnapshot
<1>4. CASE Renewed \/ Discarded
  BY <1>4, NewSessionSnapshot DEF Renewed, Discarded, ReceiptDescribesSnapshot
<1> QED BY <1>1, <1>2, <1>3, <1>4 DEF SessionStep

\* A stored recovery receipt always describes the snapshot it is stored in.
THEOREM ReceiptCorrect == Spec => []ReceiptDescribesSnapshot
<1>1. Init => ReceiptDescribesSnapshot
  BY DEF Init, ReceiptDescribesSnapshot, NoSession, createSession
<1> QED
  BY <1>1, InitTyped, NextTyped, NextSessionStep, NextReceipt, PTL DEF Spec

---------------------------------------------------------------------------
(* Complete sessions are closed.                                           *)

\* Every step keeps complete sessions free of working processes.
LEMMA NextCompleteIsQuiet ==
  ASSUME Typed, LockHeld, CompleteIsQuiet, CompleteIsClosed, [Next]_vars
  PROVE  CompleteIsQuiet'
<1> DEFINE Quiet == {"idle", "unwinding", "locked", "done"}
<1> SUFFICES ASSUME session'.state = "complete", NEW q \in Procs
             PROVE  pc'[q] \in Quiet
  BY DEF CompleteIsQuiet
<1>0. session \in Session /\ pc \in [Procs -> PCs] /\ run \in [Procs -> Run]
  BY DEF Typed, TypeOK
<1>1. CASE session.state = "complete"
  <2>1. \A p \in Procs : pc[p] \in Quiet
    BY <1>1 DEF CompleteIsQuiet
  <2>2. ~session.resumable
    BY <1>1 DEF CompleteIsClosed
  <2>3. CASE UNCHANGED vars
    BY <2>1, <2>3 DEF vars
  <2>4. ASSUME NEW p \in Procs, NEW resume \in BOOLEAN, NEW agent \in Agents,
               Acquire(p, resume, agent)
        PROVE  pc'[q] \in Quiet
    BY <1>0, <2>1, <2>4 DEF Acquire, Goto
  <2>5. ASSUME NEW p \in Procs, Proceed(p)
        PROVE  pc'[q] \in Quiet
    <3>1. \/ PrepareFresh(p) \/ RefuseResume(p) \/ Finish(p) \/ ExitBackstop(p)
      BY <2>1, <2>2, <2>5
      DEF Proceed, PrepareResume, Arm, applySelectedAgentTransition, EnterSlice,
          RejectSlice, ReusePhase, StartPhase, CompletePhase, RetrySelection,
          FinishStepless, ApplyResult, RejectResult, CheckRepair, RejectRepair
    <3>2. ~PrepareFresh(p)
      BY DEF PrepareFresh, createSession
    <3> QED
      BY <1>0, <2>1, <3>1, <3>2
      DEF RefuseResume, Finish, ExitBackstop, Leave, Goto
  <2>6. ASSUME NEW p \in Procs, Disturb(p)
        PROVE  pc'[q] \in Quiet
    BY <1>0, <2>1, <2>6
    DEF Disturb, EarlyExit, HandlerFails, FailAgentSetup, Pause,
        DeclineConfiguration, RollBackCancelled, Signal, Crash, Unwind, Leave,
        Vanish, Goto
  <2> QED BY <2>3, <2>4, <2>5, <2>6 DEF Next
<1>2. CASE session.state # "complete"
  <2>1. \E p \in Procs : ApplyResult(p)
    <3>1. ~(UNCHANGED session \/ Marked \/ Resumed)
      BY <1>2 DEF Marked, Resumed, SameSnapshot
    <3>2. ~Reseated
      BY DEF Reseated, NonTerminal, StepNames
    <3>3. ~(Renewed \/ Discarded)
      BY NewSessionSnapshot DEF Renewed, Discarded
    <3>4. Moved
      BY <3>1, <3>2, <3>3, NextSessionStep DEF SessionStep
    <3> QED BY <3>4 DEF Moved
  <2>2. PICK p \in Procs : ApplyResult(p)
    BY <2>1
  <2>3. pc'[p] = "done" /\ pc[p] = "apply"
    <3>1. Head(run[p].results) = "complete"
      BY <2>2, ApplyResultMoves
    <3> QED
      BY <1>0, <2>2, <3>1 DEF ApplyResult, Goto, StopStates, Terminal
  <2>4. \A o \in Procs \ {p} : pc'[o] = pc[o] /\ pc[o] \notin Holding
    BY <1>0, <2>2, <2>3 DEF ApplyResult, Goto, LockHeld, Holding
  <2> QED BY <1>0, <2>3, <2>4 DEF PCs
<1> QED BY <1>1, <1>2

\* Every step keeps a complete session closed.
LEMMA NextCompleteIsClosed ==
  ASSUME Typed, CompleteIsQuiet, CompleteIsClosed, SessionStep
  PROVE  CompleteIsClosed'
<1>1. CASE UNCHANGED session
  BY <1>1 DEF CompleteIsClosed
<1>2. CASE Marked
  <2>1. session.state # "complete"
    BY <1>2 DEF Marked, CompleteIsQuiet
  <2> QED BY <1>2, <2>1 DEF Marked, SameSnapshot, CompleteIsClosed
<1>3. CASE Moved
  BY <1>3 DEF Moved, CompleteIsClosed
<1>4. CASE Resumed
  BY <1>4 DEF Resumed, SameSnapshot, CompleteIsClosed
<1>5. CASE Reseated
  BY <1>5 DEF Reseated, CompleteIsClosed, NonTerminal, StepNames
<1>6. CASE Renewed \/ Discarded
  BY <1>6, NewSessionSnapshot DEF Renewed, Discarded, CompleteIsClosed
<1> QED BY <1>1, <1>2, <1>3, <1>4, <1>5, <1>6 DEF SessionStep

\* The inductive invariant holds initially.
LEMMA InitIndInv == Init => IndInv
<1> SUFFICES ASSUME Init PROVE IndInv
  OBVIOUS
<1>1. Typed
  BY InitTyped
<1>2. session.state = "init" /\ session.receipt = NoReceipt
  BY NewSessionSnapshot DEF Init
<1>3. LockHeld
  BY DEF Init, LockHeld, Holding
<1> QED
  BY <1>1, <1>2, <1>3
  DEF IndInv, Typed, CompleteIsQuiet, CompleteIsClosed, ReceiptDescribesSnapshot

\* Every step keeps the inductive invariant.
LEMMA NextIndInv == IndInv /\ [Next]_vars => IndInv'
<1> SUFFICES ASSUME IndInv, [Next]_vars PROVE IndInv'
  OBVIOUS
<1>1. /\ Typed /\ LockHeld /\ CompleteIsQuiet /\ CompleteIsClosed
      /\ ReceiptDescribesSnapshot
  BY DEF IndInv, Typed
<1>2. SessionStep
  BY <1>1, NextSessionStep
<1>3. Typed' /\ LockHeld'
  BY <1>1, NextTyped, NextLockHeld
<1>4. CompleteIsQuiet' /\ CompleteIsClosed'
  BY <1>1, <1>2, NextCompleteIsQuiet, NextCompleteIsClosed
<1>5. ReceiptDescribesSnapshot'
  BY <1>1, <1>2, NextReceipt
<1> QED BY <1>3, <1>4, <1>5 DEF IndInv, Typed

\* The inductive invariant holds in every reachable state.
THEOREM IndInvCorrect == Spec => []IndInv
BY InitIndInv, NextIndInv, PTL DEF Spec

\* A complete session is closed for good: it is not resumable, carries no
\* failure and says so in its status, whoever else is still running.
THEOREM CompleteClosed == Spec => []CompleteIsClosed
<1>1. IndInv => CompleteIsClosed
  BY DEF IndInv
<1> QED BY <1>1, IndInvCorrect, PTL

---------------------------------------------------------------------------
(* How the machine may move.                                               *)

\* Every step moves the machine along a permitted edge or re-seats it under the lock.
LEMMA StepMovesLegally ==
  ASSUME IndInv, [Next]_vars, session'.state # session.state
  PROVE  \/ /\ canTransitionOnboardMachineState(session.state, session'.state)
            /\ session'.revision = session.revision + 1
         \/ /\ Preparing
            /\ session.state \in Terminal
            /\ session'.revision = session.revision + 1
            /\ session'.receipt # NoReceipt
         \/ Preparing /\ session' = createSession
         \/ /\ session' = NoSession
            /\ \E p \in Procs : lock = p /\ pc'[p] = "unwinding"
<1>1. Typed /\ LockHeld
  BY DEF IndInv, Typed
<1>2. SessionStep
  BY <1>1, NextSessionStep
<1>3. (\E p \in Procs : Entering(p)) => Preparing
  BY <1>1 DEF Entering, Preparing, LockHeld, Holding
<1>4. ~(UNCHANGED session \/ Marked \/ Resumed)
  BY DEF Marked, Resumed, SameSnapshot
<1>5. CASE Moved
  BY <1>5 DEF Moved
<1>6. CASE Reseated
  <2>1. session'.receipt # NoReceipt
    <3>1. session'.receipt.entry = session'.state
      BY <1>6 DEF Reseated
    <3>2. session'.state # None
      BY <1>6, NoneIsNoState DEF Reseated, MachineStates
    <3> QED BY <3>1, <3>2 DEF NoReceipt
  <2> QED BY <1>3, <1>6, <2>1 DEF Reseated
<1>7. CASE Renewed
  BY <1>3, <1>7 DEF Renewed
<1>8. CASE Discarded
  BY <1>1, <1>8 DEF Discarded, LockHeld, Holding
<1> QED BY <1>2, <1>4, <1>5, <1>6, <1>7, <1>8 DEF SessionStep

\* The machine moves along the transition graph, except where a run that
\* holds the lock re-seats, replaces or discards the session.
THEOREM MovesLegally == Spec => MachineMovesLegally
<1>1. IndInv /\ [Next]_vars =>
        [session'.state # session.state =>
           \/ /\ canTransitionOnboardMachineState(session.state, session'.state)
              /\ session'.revision = session.revision + 1
           \/ /\ Preparing
              /\ session.state \in Terminal
              /\ session'.revision = session.revision + 1
              /\ session'.receipt # NoReceipt
           \/ Preparing /\ session' = createSession
           \/ /\ session' = NoSession
              /\ \E p \in Procs : lock = p /\ pc'[p] = "unwinding"]_vars
  BY StepMovesLegally
<1> QED BY <1>1, IndInvCorrect, PTL DEF Spec, MachineMovesLegally

\* Nothing but a new run's new session ever replaces a complete session.
THEOREM StaysCompleted == Spec => CompletedStaysCompleted
<1>1. ASSUME IndInv, [Next]_vars, session.state = "complete",
             session'.state # "complete"
      PROVE  session' = createSession
  <2>1. ~canTransitionOnboardMachineState(session.state, session'.state)
    BY <1>1
    DEF canTransitionOnboardMachineState, ONBOARD_MACHINE_DIRECT_TRANSITIONS,
        NonTerminal, StepNames
  <2>2. SessionStep
    BY <1>1, NextSessionStep DEF IndInv, Typed
  <2>3. ~(UNCHANGED session \/ Marked \/ Moved \/ Resumed)
    BY <1>1, <2>1 DEF Marked, Resumed, SameSnapshot, Moved
  <2>4. ~Reseated
    BY <1>1 DEF IndInv, CompleteIsClosed, Reseated
  <2>5. ~Discarded
    BY <1>1 DEF IndInv, CompleteIsQuiet, Discarded
  <2> QED BY <2>2, <2>3, <2>4, <2>5 DEF SessionStep, Renewed
<1>2. IndInv /\ [Next]_vars =>
        [session.state = "complete" /\ session'.state # "complete" =>
           session' = createSession]_vars
  BY <1>1
<1> QED BY <1>2, IndInvCorrect, PTL DEF Spec, CompletedStaysCompleted

============================================================================
