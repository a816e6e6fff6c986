-------------------------- MODULE AgentLoopProofs --------------------------
(***************************************************************************)
(* The two host programs on the kernel, for every plan, every set of gates *)
(* and any number of setbacks.  Each of their steps is a step of the       *)
(* kernel, so the theorems about RunKernel are theorems about these hosts; *)
(* what is added here is what the programs' own order of calls makes true: *)
(* that the approval is carried along, that a completed run is through its *)
(* plan, and how often work is done again.                                 *)
(***************************************************************************)
EXTENDS AgentLoop, RunKernelProofs, FiniteSetTheorems

\* The kernel's own invariants.
KernelInv == GateBase /\ CompletionSaved

\* Where the handle's loop is follows from where the host is; the step in its
\* body is the one at the cursor.
Whereabouts ==
    /\ program \in {"first", "second"} /\ at \in Places
    /\ work \in [StepNames -> Nat] /\ setbacks \in 0..MaxSetbacks
    /\ live <=> at # "gone"
    /\ rewound = 0
    /\ step.phase # "completing"
    /\ step.phase # "none" => live
    /\ step.phase = "body" =>
         at \in {"looping", "worked", "broken"} /\ step.index = state.planIndex
    /\ step.phase \in {"top", "closing"} => at = "looping"
    /\ at = "worked" => ~AtGate
    /\ routing # "off" => at = "resumed"

\* All that is behind the cursor is completed, and the first program, which
\* stops at a gate, completes none.
Lawful(s) == \A k \in 1..s.planIndex : Plan[k] \in s.completed
Passage ==
    /\ Lawful(state)
    /\ Newest # 0 => Lawful(checkpoints[Newest].state)
    /\ program = "first" => state.completed \cap Gates = {}

\* The places of the second program behind its approve().
Approved == {"started", "looping", "worked", "broken", "through", "done"}

\* An approval is asked for in the table; behind approve() it is in memory,
\* then in the table, then in the newest checkpoint.
Answers ==
    /\ live /\ state.approval # "none" /\ pc # "save_approval" => approvals # <<>>
    /\ SavedApproval # "none" => approvals # <<>>
    /\ pc = "save_approval" => program = "first"
    /\ pc = "update_approval" => at \in {"started", "leaving"}
    /\ program = "second" /\ at \in Approved =>
         /\ state.approval = "approved"
         /\ pc # "update_approval" => RowApproval = "approved"
         /\ at # "started" \/ pc \notin {"update_approval", "save_checkpoint"} =>
              SavedApproval = "approved"

\* A run that is completed, in memory or in its row, has the cursor at the
\* end of its plan wherever it is looked for; and the second program does
\* not end its loop before.
Through ==
    /\ program = "second" /\ at \in Approved \ {"done"} => run.status = "running"
    /\ at = "through" => state.planIndex = N
    /\ live /\ "completed" \in {run.status, runs.status} => state.planIndex = N
    /\ pc \in {"update_run", "end_step"} /\ run.status = "completed" =>
         runs.status = "completed"
    /\ runs.status = "completed" => Newest # 0 /\ checkpoints[Newest].state.planIndex = N

HostInv == KernelInv /\ Whereabouts /\ Passage /\ Answers /\ Through

-----------------------------------------------------------------------------

\* What CallGoesOn may be: one of the writes, or the end of the policies.
LEMMA CallSteps ==
    ASSUME CallGoesOn
    PROVE  /\ UNCHANGED hostVars
           /\ \/ SaveApproval \/ UpdateApproval \/ EndStepSync \/ SaveCheckpoint
              \/ NoteCheckpoint \/ UpdateRun \/ EndPolicies
BY DEF CallGoesOn

\* Every step of a host program is a step of the kernel in which no commit
\* fails, or none.
LEMMA StepsAreSure == [Steps]_loopVars => [SureNext]_vars
<1> SUFFICES ASSUME [Steps]_loopVars PROVE [SureNext]_vars
    OBVIOUS
<1>1. CASE CallGoesOn
    BY <1>1, CallSteps DEF SureNext, SureWrite, Policies
<1>2. CASE EnterLoop \/ NextStep \/ BreakLoop \/ StepIsComplete \/ StepsReturns
    BY <1>2 DEF EnterLoop, NextStep, BreakLoop, StepIsComplete, StepsReturns, SureNext,
       PlanLoop
<1>3. CASE WorkOnStep \/ AskForApproval \/ ApproveRun \/ HumanRejects
    BY <1>3 DEF WorkOnStep, AskForApproval, ApproveRun, HumanRejects, SureNext, HostCall
<1>4. CASE CompleteRun \/ WorkFails
    BY <1>4 DEF CompleteRun, WorkFails, SureNext, HostCall
<1>5. CASE Leave \/ Crash
    BY <1>5 DEF Leave, Crash, SureNext
<1>6. CASE Restart \/ PolicyHalts
    BY <1>6 DEF Restart, PolicyHalts, SureNext, Policies
<1>7. CASE Over \/ UNCHANGED loopVars
    BY <1>7 DEF Over, loopVars
<1> QED
    BY <1>1, <1>2, <1>3, <1>4, <1>5, <1>6, <1>7 DEF Steps, HostGoesOn

\* The host is a host of the kernel: what is proved of every host holds here.
THEOREM KernelImplemented == LoopSpec => Spec
<1>1. Start => Init
    BY DEF Start
<1> QED
    BY <1>1, StepsAreSure, SureIsNext, PTL DEF LoopSpec, Spec

\* Seen through the newest checkpoint alone, a host that keeps coming back
\* works through a durable plan.
THEOREM HostKeepsDurablePlan ==
    DistinctNames /\ NoResetInLoop => (LoopSpec => ImplementsDurablePlan)
<1> SUFFICES ASSUME DistinctNames, NoResetInLoop PROVE LoopSpec => ImplementsDurablePlan
    OBVIOUS
<1>1. Start => PlanInv /\ Durable!Init
    BY InitPlanInv DEF Start
<1>2. PlanInv /\ [Steps]_loopVars => PlanInv'
    BY StepsAreSure, NextPlanInv
<1>3. PlanInv /\ [Steps]_loopVars => [Durable!Next]_(Durable!vars)
    BY StepsAreSure, SureIsNext, NextDurable
<1> QED
    BY <1>1, <1>2, <1>3, PTL DEF LoopSpec, ImplementsDurablePlan, Durable!Spec

LEMMA KernelStays ==
    ASSUME KernelInv, [Steps]_loopVars
    PROVE  KernelInv'
BY StepsAreSure, NextGateBase, NextCompletionSaved DEF KernelInv, GateBase

LEMMA HostTypes ==
    ASSUME KernelInv
    PROVE  /\ run \in RunRecord /\ runs \in RunRecord /\ state \in AgentState
           /\ step \in Step /\ checkpoints \in Seq(Checkpoint) /\ Newest \in Nat
           /\ approvals \in Seq(ApprovalStatuses) /\ N \in Nat
           /\ NoStep \in Step /\ NoStep.phase = "none" /\ 0 \in 0..N
           /\ IInv /\ PcLive /\ RowMirrored /\ JustSaved
BY NType, FreshType DEF KernelInv, GateBase, IInv, TypeOK, Newest

-----------------------------------------------------------------------------

LEMMA StartWhereabouts == Start => Whereabouts
BY GatesAssumption
   DEF Start, Init, Whereabouts, Places, FreshRun, NoStep

\* A call that returns leaves the loop in its body, at its top or closed.
LEMMA ReturnedPhase ==
    ASSUME NEW s \in Step, s.phase # "completing"
    PROVE  /\ s.phase # "closing" => Returned(s) = s
           /\ s.phase = "closing" => Returned(s).phase = "top"
BY DEF Returned, NoStep, Step

LEMMA WorkCounted ==
    ASSUME work \in [StepNames -> Nat], work' = [work EXCEPT ![InHand] = @ + 1]
    PROVE  work' \in [StepNames -> Nat]
<1> DEFINE more == [s \in StepNames |-> IF s = InHand THEN work[s] + 1 ELSE work[s]]
<1>1. work' = more
    OBVIOUS
<1>2. \A s \in StepNames : work[s] \in Nat /\ work[s] + 1 \in Nat
    OBVIOUS
<1> QED
    BY <1>1, <1>2

LEMMA NextWhereabouts ==
    ASSUME IInv, Whereabouts, [Steps]_loopVars
    PROVE  Whereabouts'
<1>0. /\ state \in AgentState /\ step \in Step
      /\ NoStep \in Step /\ NoStep.phase = "none" /\ 0 \in 0..N /\ setbacks \in Nat
      /\ MaxSetbacks \in Nat
    BY FreshType, NType, GatesAssumption DEF IInv, TypeOK, Whereabouts
<1> USE <1>0 DEF Whereabouts, Places, hostVars, memory, tables, history, GoTo, AtGate, InHand
<1>1. CASE CallGoesOn
    <2>1. CASE SaveApproval \/ UpdateApproval \/ EndStepSync \/ UpdateRun \/ EndPolicies
        BY <1>1, <2>1, CallSteps
           DEF SaveApproval, UpdateApproval, EndStepSync, UpdateRun, EndPolicies
    <2>2. CASE SaveCheckpoint
        BY <1>1, <2>2, CallSteps DEF SaveCheckpoint
    <2>3. CASE NoteCheckpoint
        <3>1. /\ step' = Returned(step)
              /\ UNCHANGED <<live, state, rewound, routing, hostVars>>
            BY <1>1, <2>3, CallSteps DEF NoteCheckpoint
        <3> QED
            BY <3>1, ReturnedPhase
    <2> QED
        BY <1>1, <2>1, <2>2, <2>3, CallSteps
<1>2. CASE EnterLoop
    BY <1>2 DEF EnterLoop, OpenLoop, Idle, NoStep
<1>3. CASE NextStep
    BY <1>3 DEF NextStep, FetchStep, NoStep, AgentState, OpenPositions
<1>4. CASE WorkOnStep \/ WorkFails
    <2>1. work' \in [StepNames -> Nat]
        BY <1>4, WorkCounted DEF WorkOnStep, WorkFails
    <2>2. /\ UNCHANGED <<live, step, rewound, routing, program>>
          /\ step.phase = "body" /\ ~AtGate
          /\ setbacks' = setbacks \/ SetBack
        BY <1>4 DEF WorkOnStep, WorkFails, ToolStep, TakeCheckpoint
    <2>3. /\ state'.planIndex = state.planIndex
          /\ at = "looping" /\ at' \in {"worked", "broken"}
        BY <1>4 DEF WorkOnStep, WorkFails, ToolStep, TakeCheckpoint, AgentState
    <2> QED
        BY <2>1, <2>2, <2>3 DEF SetBack
<1>5. CASE AskForApproval
    BY <1>5 DEF AskForApproval, RequestApproval, AgentState
<1>6. CASE BreakLoop
    BY <1>6 DEF BreakLoop, Break
<1>7. CASE StepIsComplete
    BY <1>7 DEF StepIsComplete, LoopCompletes, BodyOver, Step, Idle
<1>8. CASE StepsReturns
    BY <1>8 DEF StepsReturns, LoopEnds
<1>9. CASE CompleteRun
    BY <1>9 DEF CompleteRun, Complete, Finish, HostRuns, Idle
<1>10. CASE Leave \/ Crash
    BY <1>10 DEF Leave, Crash, SetBack, Exit, LoseHandle
<1>11. CASE Restart
    BY <1>11 DEF Restart, Resume
<1>12. CASE ApproveRun \/ HumanRejects
    BY <1>12 DEF ApproveRun, HumanRejects, SetBack, Approve, Reject, Decide, HostRuns,
       Idle, vars
<1>13. CASE PolicyHalts
    BY <1>13 DEF PolicyHalts, SetBack, ApplyHalt
<1>14. CASE Over \/ UNCHANGED loopVars
    BY <1>14 DEF Over, loopVars, vars
<1> QED
    BY <1>1, <1>2, <1>3, <1>4, <1>5, <1>6, <1>7, <1>8, <1>9, <1>10, <1>11, <1>12, <1>13,
       <1>14 DEF Steps, HostGoesOn

-----------------------------------------------------------------------------

\* Out of the call that is writing it down, nothing is completed in memory
\* that is not in the newest checkpoint.
LEMMA CompletedIsSaved ==
    ASSUME KernelInv, Whereabouts, live, pc # "save_checkpoint"
    PROVE  state.completed = DurablyCompleted
BY DEF KernelInv, CompletionSaved, Whereabouts

\* The step in the body completed: the cursor is behind it.
LEMMA LawfulAdvanced ==
    ASSUME KernelInv, Whereabouts, Lawful(state), step.phase = "body"
    PROVE  /\ Lawful(Advanced(state, step.index))
           /\ Advanced(state, step.index).completed = state.completed \cup {InHand}
<1> DEFINE i == step.index
           s == Advanced(state, i)
<1>1. /\ i \in 0..N /\ i < N /\ N \in Nat /\ i = state.planIndex
      /\ state \in AgentState
    BY HostTypes DEF IInv, StepInPlan, Step, Whereabouts
<1>2. /\ s.completed = state.completed \cup {Plan[i + 1]}
      /\ s.planIndex = i + 1
    BY <1>1 DEF Advanced, AgentState
<1>3. \A k \in 1..s.planIndex : Plan[k] \in s.completed
    BY <1>1, <1>2 DEF Lawful
<1> QED
    BY <1>2, <1>3 DEF Lawful, InHand

\* The loop passes only completed positions.
LEMMA LawfulSkip ==
    ASSUME KernelInv, Lawful(state), NEW i \in 0..N,
           \A j \in OpenPositions : i <= j
    PROVE  /\ Lawful([state EXCEPT !.planIndex = i])
           /\ [state EXCEPT !.planIndex = i].completed = state.completed
<1>1. state \in AgentState /\ N \in Nat /\ state.planIndex \in 0..N
    BY HostTypes DEF AgentState
<1> DEFINE s == [state EXCEPT !.planIndex = i]
<1>2. s.planIndex = i /\ s.completed = state.completed
    BY <1>1 DEF AgentState
<1>3. ASSUME NEW k \in 1..i PROVE Plan[k] \in state.completed
    <2>1. CASE k <= state.planIndex
        BY <1>1, <2>1 DEF Lawful
    <2>2. CASE k > state.planIndex
        <3>1. k - 1 \in state.planIndex..(N - 1) /\ (k - 1) + 1 = k
            BY <1>1, <2>2
        <3>2. k - 1 \notin OpenPositions
            BY <1>1
        <3> QED
            BY <3>1, <3>2 DEF OpenPositions
    <2> QED
        BY <1>1, <2>1, <2>2
<1> QED
    BY <1>2, <1>3 DEF Lawful

LEMMA NextPassage ==
    ASSUME KernelInv, Whereabouts, Passage, [Steps]_loopVars
    PROVE  Passage'
<1>0. /\ state \in AgentState /\ step \in Step /\ checkpoints \in Seq(Checkpoint)
      /\ Newest \in Nat /\ N \in Nat
    BY HostTypes
<1> USE DEF memory, tables, history, GoTo, hostVars
\* Neither the cursor nor what is completed changes, nor the table.
<1>a. ASSUME state'.planIndex = state.planIndex, state'.completed = state.completed,
             checkpoints' = checkpoints, program' = program
      PROVE  Passage'
    BY <1>a DEF Passage, Lawful, Newest
<1>1. CASE CallGoesOn
    <2>1. CASE SaveCheckpoint
        <3>1. /\ Newest' # 0 /\ checkpoints'[Newest'].state = state
              /\ UNCHANGED <<state, program>>
            BY <1>0, <1>1, <2>1, CallSteps DEF SaveCheckpoint, Snapshot, Newest
        <3> QED
            BY <3>1 DEF Passage, Lawful
    <2>2. CASE ~SaveCheckpoint
        <3>1. UNCHANGED <<state, checkpoints, program>>
            BY <1>1, <2>2, CallSteps DEF SaveApproval, UpdateApproval, EndStepSync,
               NoteCheckpoint, UpdateRun, EndPolicies
        <3> QED
            BY <1>a, <3>1
    <2> QED
        BY <2>1, <2>2
<1>2. CASE NextStep \/ StepsReturns
    <2>1. /\ UNCHANGED <<checkpoints, program>>
          /\ \/ UNCHANGED state
             \/ \E i \in 0..N : /\ state' = [state EXCEPT !.planIndex = i]
                               /\ \A j \in OpenPositions : i <= j
        <3>1. CASE NextStep
            <4>1. OpenPositions \subseteq 0..N
                BY <1>0 DEF OpenPositions, AgentState
            <4> QED
                BY <3>1, <4>1 DEF NextStep, FetchStep
        <3>2. CASE StepsReturns
            <4>1. /\ UNCHANGED <<checkpoints, program>>
                  /\ \/ UNCHANGED state
                     \/ state' = [state EXCEPT !.planIndex = N] /\ OpenPositions = {}
                BY <3>2 DEF StepsReturns, LoopEnds
            <4> QED
                BY <1>0, <4>1
        <3> QED
            BY <1>2, <3>1, <3>2
    <2>2. Lawful(state') /\ state'.completed = state.completed
        <3>1. Lawful(state)
            BY DEF Passage
        <3>2. CASE UNCHANGED state
            BY <3>1, <3>2 DEF Lawful
        <3>3. ASSUME NEW i \in 0..N, state' = [state EXCEPT !.planIndex = i],
                     \A j \in OpenPositions : i <= j
              PROVE  Lawful(state') /\ state'.completed = state.completed
            BY <3>1, <3>3, LawfulSkip
        <3> QED
            BY <2>1, <3>2, <3>3
    <2> QED
        BY <2>1, <2>2 DEF Passage, Lawful, Newest
<1>3. CASE StepIsComplete
    <2>1. /\ state' = Advanced(state, step.index) /\ step.phase = "body"
          /\ UNCHANGED <<checkpoints, program>>
          /\ program = "first" => ~AtGate
        BY <1>3 DEF StepIsComplete, LoopCompletes, BodyOver, Whereabouts
    <2>2. /\ Lawful(state') /\ state'.completed = state.completed \cup {InHand}
          /\ program' = "first" => state'.completed \cap Gates = {}
        BY <2>1, LawfulAdvanced DEF Passage, AtGate
    <2> QED
        BY <2>1, <2>2 DEF Passage, Lawful, Newest
<1>4. CASE EnterLoop \/ WorkOnStep \/ AskForApproval \/ BreakLoop \/ CompleteRun
           \/ ApproveRun \/ HumanRejects \/ WorkFails \/ PolicyHalts
    <2>1. /\ state'.planIndex = state.planIndex /\ state'.completed = state.completed
          /\ UNCHANGED <<checkpoints, program>>
        BY <1>0, <1>4 DEF EnterLoop, OpenLoop, WorkOnStep, ToolStep, TakeCheckpoint,
           AskForApproval, RequestApproval, BreakLoop, Break, CompleteRun, Complete,
           Finish, ApproveRun, Approve, HumanRejects, Reject, Decide, WorkFails,
           PolicyHalts, ApplyHalt, vars, AgentState
    <2> QED
        BY <1>a, <2>1
<1>5. CASE Leave \/ Crash
    BY <1>5 DEF Leave, Crash, Exit, LoseHandle, Passage, Lawful, FreshState, Newest
<1>6. CASE Restart
    <2>1. /\ Newest # 0 /\ state' = checkpoints[Newest].state
          /\ checkpoints' = checkpoints /\ program' = "second"
        BY <1>0, <1>6 DEF Restart, Resume, ResumeId, Newest
    <2> QED
        BY <2>1 DEF Passage, Lawful, Newest
<1>7. CASE Over \/ UNCHANGED loopVars
    BY <1>7, <1>a DEF Over, loopVars, vars
<1> QED
    BY <1>1, <1>2, <1>3, <1>4, <1>5, <1>6, <1>7 DEF Steps, HostGoesOn

-----------------------------------------------------------------------------

LEMMA NextAnswers ==
    ASSUME KernelInv, Whereabouts, Answers, [Steps]_loopVars
    PROVE  Answers'
<1>0. /\ state \in AgentState /\ checkpoints \in Seq(Checkpoint) /\ Newest \in Nat
      /\ approvals \in Seq(ApprovalStatuses) /\ PcLive /\ IInv
    BY HostTypes
<1> USE DEF memory, tables, history, GoTo, hostVars
<1>a. /\ checkpoints' = checkpoints => SavedApproval' = SavedApproval
      /\ approvals' = approvals => RowApproval' = RowApproval
    BY DEF SavedApproval, RowApproval, Newest
\* Nothing about the approval changes, nor is it being written.
<1>b. ASSUME UNCHANGED <<live, checkpoints, approvals, program>>,
             state'.approval = state.approval,
             pc # "save_approval",
             pc' \notin {"save_approval", "update_approval"},
             program = "second" /\ at' \in Approved =>
                 /\ at \in Approved
                 /\ pc # "update_approval"
                 /\ at' # "started" /\ at = "started" => pc # "save_checkpoint"
                 /\ at' = "started" /\ pc = "save_checkpoint" => pc' = pc
      PROVE  Answers'
    BY <1>a, <1>b DEF Answers
<1>1. CASE CallGoesOn
    <2>0. UNCHANGED hostVars
        BY <1>1, CallSteps
    <2>1. CASE SaveApproval
        <3>1. approvals' # <<>>
            BY <1>0, <2>1 DEF SaveApproval
        <3> QED
            BY <1>a, <2>0, <2>1, <3>1 DEF SaveApproval, Answers
    <2>2. CASE UpdateApproval
        <3>1. state.approval \in Decided /\ live
            BY <1>0, <2>2 DEF UpdateApproval, IInv, DecisionAtHand, PcLive
        <3>2. approvals # <<>>
            BY <2>2, <3>1 DEF UpdateApproval, Answers, Decided
        <3>3. approvals' # <<>> /\ approvals'[Len(approvals')] = state.approval
            BY <1>0, <2>2, <3>2 DEF UpdateApproval
        <3>4. RowApproval' = state.approval
            BY <3>3 DEF RowApproval
        <3> QED
            BY <1>a, <2>0, <2>2, <3>3, <3>4 DEF UpdateApproval, Answers
    <2>3. CASE SaveCheckpoint
        <3>1. SavedApproval' = state.approval
            BY <1>0, <2>3 DEF SaveCheckpoint, Snapshot, SavedApproval, Newest
        <3>2. /\ UNCHANGED <<live, state, approvals>> /\ live
              /\ pc = "save_checkpoint" /\ pc' = "note_checkpoint"
            BY <1>0, <2>3 DEF SaveCheckpoint, PcLive
        <3> QED
            BY <1>a, <2>0, <3>1, <3>2 DEF Answers
    <2>4. CASE EndStepSync
        <3>1. /\ UNCHANGED <<live, checkpoints, approvals, state>>
              /\ pc = "end_step" /\ pc' = "save_checkpoint"
            BY <2>4 DEF EndStepSync
        <3> QED
            BY <1>a, <2>0, <3>1 DEF Answers
    <2>5. CASE NoteCheckpoint \/ UpdateRun \/ EndPolicies
        <3>1. /\ UNCHANGED <<live, checkpoints, approvals, state>>
              /\ pc \notin {"save_approval", "update_approval", "save_checkpoint"}
              /\ pc' = "idle"
            BY <2>5 DEF NoteCheckpoint, UpdateRun, EndPolicies, Routing
        <3> QED
            BY <1>b, <2>0, <3>1
    <2> QED
        BY <1>1, <2>1, <2>2, <2>3, <2>4, <2>5, CallSteps
<1>2. CASE EnterLoop \/ NextStep \/ WorkOnStep \/ BreakLoop \/ StepIsComplete
           \/ StepsReturns \/ CompleteRun \/ WorkFails
    <2>1. UNCHANGED <<live, checkpoints, approvals, program>>
        BY <1>2 DEF EnterLoop, OpenLoop, NextStep, FetchStep, WorkOnStep, ToolStep,
           TakeCheckpoint, BreakLoop, Break, StepIsComplete, LoopCompletes, StepsReturns,
           LoopEnds, CompleteRun, Complete, Finish, WorkFails
    <2>2. state'.approval = state.approval
        BY <1>0, <1>2 DEF EnterLoop, OpenLoop, NextStep, FetchStep, WorkOnStep, ToolStep,
           TakeCheckpoint, BreakLoop, Break, StepIsComplete, LoopCompletes, Advanced,
           StepsReturns, LoopEnds, CompleteRun, Complete, Finish, WorkFails, AgentState
    <2>3. /\ pc = "idle" /\ pc' \notin {"save_approval", "update_approval"}
          /\ at' # "started" /\ (at' \in Approved => at \in Approved)
        BY <1>2 DEF EnterLoop, OpenLoop, NextStep, FetchStep, WorkOnStep, ToolStep,
           TakeCheckpoint, BreakLoop, Break, StepIsComplete, LoopCompletes, BodyOver,
           StepsReturns, LoopEnds, CompleteRun, Complete, Finish, WorkFails, HostRuns, Idle,
           Approved
    <2> QED
        BY <1>b, <2>1, <2>2, <2>3
<1>3. CASE AskForApproval
    <2>1. /\ UNCHANGED <<live, checkpoints, approvals, program>>
          /\ program = "first" /\ pc' = "save_approval"
        BY <1>3 DEF AskForApproval, RequestApproval
    <2> QED
        BY <1>a, <2>1 DEF Answers
<1>4. CASE ApproveRun \/ HumanRejects
    <2>1. CASE UNCHANGED vars /\ at' = "leaving" /\ program' = program /\ pc = "idle"
        BY <1>a, <2>1 DEF vars, Answers, Approved
    <2>2. CASE ~UNCHANGED vars \/ at' # "leaving" \/ program' # program \/ pc # "idle"
        <3>1. /\ UNCHANGED <<live, checkpoints, approvals, program>> /\ live /\ pc = "idle"
              /\ state.approval # "none" /\ pc' = "update_approval"
              /\ \/ at' = "leaving"
                 \/ at' = "started" /\ state'.approval = "approved"
            BY <1>0, <1>4, <2>2 DEF ApproveRun, HumanRejects, Approve, Reject, Decide,
               HostRuns, Idle, AgentState
        <3> QED
            BY <1>a, <3>1 DEF Answers, Approved
    <2> QED
        BY <2>1, <2>2
<1>5. CASE PolicyHalts
    <2>1. /\ UNCHANGED <<live, checkpoints, approvals, program, state, at>>
          /\ pc = "idle" /\ pc' = "save_checkpoint"
        BY <1>5 DEF PolicyHalts, ApplyHalt, Routing
    <2> QED
        BY <1>a, <2>1 DEF Answers
<1>6. CASE Leave \/ Crash
    BY <1>6, <1>a DEF Leave, Crash, Exit, LoseHandle, Answers, Approved
<1>7. CASE Restart
    <2>1. /\ UNCHANGED <<checkpoints, approvals>> /\ pc' = "update_run"
          /\ at' = "resumed" /\ state'.approval = SavedApproval
        BY <1>0, <1>7 DEF Restart, Resume, ResumeId, SavedApproval, Newest
    <2> QED
        BY <1>a, <2>1 DEF Answers, Approved
<1>8. CASE Over \/ UNCHANGED loopVars
    BY <1>8, <1>a DEF Over, loopVars, vars, Answers
<1> QED
    BY <1>1, <1>2, <1>3, <1>4, <1>5, <1>6, <1>7, <1>8 DEF Steps, HostGoesOn

LEMMA NextThrough ==
    ASSUME KernelInv, Whereabouts, Passage, Through, [Steps]_loopVars
    PROVE  Through'
<1>0. /\ run \in RunRecord /\ runs \in RunRecord /\ state \in AgentState /\ step \in Step
      /\ checkpoints \in Seq(Checkpoint) /\ Newest \in Nat /\ N \in Nat
      /\ PcLive /\ RowMirrored /\ JustSaved /\ IInv
    BY HostTypes
<1> USE DEF memory, tables, history, GoTo, hostVars
\* Between two calls the row tells what the handle tells.
<1>a. live /\ pc = "idle" => runs = run
    BY <1>0 DEF RowMirrored
\* The table stays, and so do the cursor and the two statuses.
<1>b. ASSUME checkpoints' = checkpoints, live' = live, state'.planIndex = state.planIndex,
             runs'.status = runs.status, run'.status = run.status, program' = program,
             at' \in Approved \ {"done"} => at \in Approved \ {"done"},
             at' = "through" => state.planIndex = N,
             pc' \in {"update_run", "end_step"} => pc = pc' \/ runs.status = run.status
      PROVE  Through'
    BY <1>b DEF Through, Newest
<1>1. CASE CallGoesOn
    <2>0. UNCHANGED hostVars
        BY <1>1, CallSteps
    <2>1. CASE SaveApproval \/ UpdateApproval \/ EndPolicies
        <3>1. /\ UNCHANGED <<live, run, state, runs, checkpoints>>
              /\ pc' \notin {"update_run", "end_step"} 
            BY <2>1 DEF SaveApproval, UpdateApproval, EndPolicies, Routing
        <3> QED
            BY <1>b, <2>0, <3>1 DEF Through
    <2>2. CASE SaveCheckpoint
        <3>1. /\ Newest' # 0 /\ checkpoints'[Newest'].state = state
              /\ UNCHANGED <<live, run, state, runs>>
              /\ live /\ pc' = "note_checkpoint"
            BY <1>0, <2>2 DEF SaveCheckpoint, Snapshot, Newest, PcLive
        <3> QED
            BY <2>0, <3>1 DEF Through
    <2>3. CASE NoteCheckpoint
        <3>1. /\ run'.status = run.status /\ runs' = run'
              /\ UNCHANGED <<live, state, checkpoints>> /\ live /\ pc' = "idle"
              /\ Newest # 0 /\ checkpoints[Newest].state = state
            BY <1>0, <2>3 DEF NoteCheckpoint, RunRecord, PcLive, JustSaved
        <3> QED
            BY <2>0, <3>1 DEF Through, Newest
    <2>4. CASE EndStepSync \/ UpdateRun
        <3>1. /\ runs' = run /\ UNCHANGED <<live, run, state, checkpoints>>
              /\ live /\ pc \in {"update_run", "end_step"}
              /\ pc' \notin {"update_run", "end_step"}
            BY <1>0, <2>4 DEF EndStepSync, UpdateRun, PcLive
        <3> QED
            BY <2>0, <3>1 DEF Through, Newest
    <2> QED
        BY <1>1, <2>1, <2>2, <2>3, <2>4, CallSteps
<1>2. CASE NextStep
    <2>1. PICK i \in OpenPositions : state' = [state EXCEPT !.planIndex = i]
        BY <1>2 DEF NextStep, FetchStep
    <2>2. i \in 0..N /\ state.planIndex # N
        BY <1>0, <2>1 DEF OpenPositions, AgentState
    <2>3. /\ UNCHANGED <<live, run, runs, checkpoints, pc>> /\ live /\ pc = "idle"
          /\ at = "looping" /\ UNCHANGED hostVars
        BY <1>2 DEF NextStep, FetchStep, Idle
    <2>4. "completed" \notin {run.status, runs.status}
        BY <2>2, <2>3 DEF Through
    <2> QED
        BY <2>3, <2>4 DEF Through, Newest
<1>3. CASE StepIsComplete
    <2>1. /\ UNCHANGED <<live, run, runs, checkpoints, program>> /\ live /\ at' = "looping"
          /\ at \in {"looping", "worked"} /\ step.phase = "body" /\ pc' = "save_checkpoint"
        BY <1>3 DEF StepIsComplete, LoopCompletes, BodyOver, Idle
    <2>2. state.planIndex < N
        BY <1>0, <2>1 DEF Whereabouts, IInv, StepInPlan
    <2>3. "completed" \notin {run.status, runs.status}
        BY <1>0, <2>1, <2>2 DEF Through, AgentState
    <2> QED
        BY <2>1, <2>3 DEF Through, Newest, Approved
<1>4. CASE StepsReturns
    <2>1. /\ UNCHANGED <<live, run, runs, checkpoints, program, pc>> /\ live /\ pc = "idle"
          /\ at = "looping"
          /\ at' = IF program = "first" THEN "leaving" ELSE "through"
        BY <1>4 DEF StepsReturns, LoopEnds, Idle
    <2>2. \/ state'.planIndex = N
          \/ state' = state /\ run.status \in LoopStopsAtTop
        BY <1>0, <1>4 DEF StepsReturns, LoopEnds, AgentState
    <2>3. at' = "through" => state'.planIndex = N
        BY <2>1, <2>2 DEF Through, Whereabouts, Approved, LoopStopsAtTop
    <2>4. live /\ "completed" \in {run.status, runs.status} => state'.planIndex = N
        BY <2>2 DEF Through
    <2>5. at' \in Approved => at' = "through" /\ at \in Approved \ {"done"}
        BY <2>1 DEF Approved
    <2> QED
        BY <2>1, <2>3, <2>4, <2>5 DEF Through, Newest
<1>5. CASE EnterLoop \/ WorkOnStep \/ BreakLoop \/ WorkFails
    <2>1. /\ UNCHANGED <<live, run, runs, checkpoints, program>> /\ live /\ pc = "idle"
          /\ state'.planIndex = state.planIndex
        BY <1>0, <1>5 DEF EnterLoop, OpenLoop, WorkOnStep, ToolStep, TakeCheckpoint,
           BreakLoop, Break, WorkFails, HostRuns, Idle, AgentState
    <2>2. /\ at' \in Approved \ {"done"} => at \in Approved \ {"done"}
          /\ at' # "through"
        BY <1>5 DEF EnterLoop, WorkOnStep, BreakLoop, WorkFails, Approved
    <2> QED
        BY <1>a, <1>b, <2>1, <2>2
<1>6. CASE AskForApproval \/ CompleteRun \/ PolicyHalts
    <2>1. /\ UNCHANGED <<live, runs, checkpoints, program>> /\ live
          /\ state'.planIndex = state.planIndex
          /\ pc' \in {"save_approval", "save_checkpoint"}
        BY <1>0, <1>6 DEF AskForApproval, RequestApproval, CompleteRun, Complete, Finish,
           PolicyHalts, ApplyHalt, HostRuns, Idle, Routing, AgentState
    <2>2. \/ program = "first" /\ at' = "broken" /\ run'.status = "waiting"
          \/ at = "through" /\ at' = "done"
          \/ at = "resumed" /\ at' = at /\ run'.status = "paused"
        BY <1>0, <1>6 DEF AskForApproval, RequestApproval, CompleteRun, PolicyHalts,
           ApplyHalt, Routing, Whereabouts, RunRecord
    <2> QED
        BY <2>1, <2>2 DEF Through, Newest, Approved
<1>7. CASE ApproveRun \/ HumanRejects
    <2>1. CASE UNCHANGED vars /\ at' = "leaving" /\ program' = program
        BY <2>1 DEF vars, Through, Newest, Approved
    <2>2. CASE ~(UNCHANGED vars /\ at' = "leaving" /\ program' = program)
        <3>1. /\ UNCHANGED <<live, runs, checkpoints, program>> /\ live
              /\ state'.planIndex = state.planIndex
              /\ pc' = "update_approval"
              /\ \/ at' = "leaving" /\ run'.status = "paused"
                 \/ at' = "started" /\ run'.status = "running"
            BY <1>0, <1>7, <2>2 DEF ApproveRun, HumanRejects, Approve, Reject, Decide,
               HostRuns, Idle, AgentState, RunRecord
        <3> QED
            BY <3>1 DEF Through, Newest, Approved
    <2> QED
        BY <2>1, <2>2
<1>8. CASE Leave \/ Crash
    <2>1. /\ UNCHANGED <<runs, checkpoints, program>> /\ ~live' /\ at' = "gone"
          /\ run'.status = "running"
        BY <1>8 DEF Leave, Crash, Exit, LoseHandle, FreshRun
    <2> QED
        BY <2>1 DEF Through, Newest, Approved
<1>9. CASE Restart
    <2>1. /\ Newest # 0 /\ UNCHANGED checkpoints /\ at' = "resumed"
          /\ state' = checkpoints[Newest].state
          /\ runs'.status = ResumeStatus(runs.status, checkpoints[Newest].status)
          /\ run'.status = runs'.status
        BY <1>0, <1>9 DEF Restart, Resume, ResumeId, Newest, Hydrated, RunRecord
    <2>2. runs'.status = "completed" => runs.status = "completed"
        BY <2>1 DEF ResumeStatus
    <2> QED
        BY <2>1, <2>2 DEF Through, Newest, Approved
<1>10. CASE Over \/ UNCHANGED loopVars
    BY <1>10 DEF Over, loopVars, vars, Through, Newest
<1> QED
    BY <1>1, <1>2, <1>3, <1>4, <1>5, <1>6, <1>7, <1>8, <1>9, <1>10 DEF Steps, HostGoesOn

-----------------------------------------------------------------------------

LEMMA HostInvariance == LoopSpec => []HostInv
<1>1. Start => HostInv
    <2> SUFFICES ASSUME Start PROVE HostInv
        OBVIOUS
    <2>1. IInv
        BY InitIInv DEF Start
    <2>2. KernelInv
        BY <2>1 DEF Start, Init, KernelInv, GateBase, RowMirrored, PcLive, JustSaved,
           CompletionSaved, DurablyCompleted, NoStep, FreshState, Newest
    <2>3. Whereabouts
        BY StartWhereabouts
    <2>4. Passage /\ Answers /\ Through
        BY DEF Start, Init, Passage, Lawful, Answers, Through, SavedApproval, FreshState,
           FreshRun, Newest
    <2> QED
        BY <2>2, <2>3, <2>4 DEF HostInv
<1>2. HostInv /\ [Steps]_loopVars => HostInv'
    <2> SUFFICES ASSUME HostInv, [Steps]_loopVars PROVE HostInv'
        OBVIOUS
    <2>1. KernelInv /\ Whereabouts /\ Passage /\ Answers /\ Through /\ IInv
        BY HostTypes DEF HostInv
    <2> QED
        BY <2>1, KernelStays, NextWhereabouts, NextPassage, NextAnswers, NextThrough
           DEF HostInv
<1> QED
    BY <1>1, <1>2, PTL DEF LoopSpec

\* The kernel's domains hold under these hosts, and the handle's loop is
\* where the host is.
THEOREM LoopTypeCorrect == LoopSpec => []LoopTypeOK
<1>1. HostInv => LoopTypeOK
    BY HostTypes DEF HostInv, IInv, Whereabouts, LoopTypeOK
<1> QED
    BY <1>1, HostInvariance, PTL

\* What is behind a gate is worked on only with the approval in memory, in
\* the newest checkpoint and in the approvals table.
THEOREM GatesHold == LoopSpec => []BehindGate
<1>1. HostInv => BehindGate
    <2> SUFFICES ASSUME HostInv, step.phase = "body",
                        NEW i \in 1..step.index, Plan[i] \in Gates
                 PROVE  /\ state.approval = "approved" /\ SavedApproval = "approved"
                        /\ RowApproval = "approved"
        BY DEF BehindGate
    <2>1. /\ at \in {"looping", "worked", "broken"} /\ step.index = state.planIndex
          /\ program \in {"first", "second"}
        BY DEF HostInv, Whereabouts
    <2>2. program # "first"
        BY <2>1 DEF HostInv, Passage, Lawful
    <2>3. pc # "update_approval" /\ at \in Approved /\ at # "started"
        BY <2>1 DEF HostInv, Answers, Approved
    <2> QED
        BY <2>1, <2>2, <2>3 DEF HostInv, Answers
<1> QED
    BY <1>1, HostInvariance, PTL

\* A run that is marked completed has its whole plan in the newest
\* checkpoint, however many processes it took and wherever they died.
THEOREM CompletedRunsAreThrough == LoopSpec => []CompletedIsThrough
<1>1. HostInv => CompletedIsThrough
    BY DEF HostInv, Through, Passage, Lawful, CompletedIsThrough
<1> QED
    BY <1>1, HostInvariance, PTL

-----------------------------------------------------------------------------

Worked == {s \in StepNames : work[s] # 0}
FirstOpen(s, done) == \E k \in 1..N : Plan[k] = s /\ \A j \in 1..(k - 1) : Plan[j] \in done

\* What has been worked on and is not durably completed is the first step of
\* the plan that is open; the step in the body is not completed.
WorkedInOrder ==
    /\ live => DurablyCompleted \subseteq state.completed
    /\ step.phase = "body" => InHand \notin state.completed
    /\ \A s \in Worked \ DurablyCompleted : FirstOpen(s, DurablyCompleted)

\* Worked on, and neither completed nor about to be by the loop it is in.
InHands == IF at = "worked" /\ step.phase = "body" THEN {InHand} ELSE {}
Done == IF live THEN state.completed ELSE DurablyCompleted
Unsettled == Worked \ (Done \cup InHands)

\* Repetitions made, and the one to come, against setbacks.
ToRedo == IF Unsettled # {} THEN 1 ELSE 0
Budget == IsFiniteSet(Redone) /\ Cardinality(Redone) + ToRedo <= setbacks

LEMMA WorkTypes ==
    ASSUME HostInv
    PROVE  /\ state \in AgentState /\ step \in Step
           /\ checkpoints \in Seq(Checkpoint) /\ Newest \in Nat
           /\ setbacks \in Nat /\ work \in [StepNames -> Nat] /\ N \in Nat
           /\ KernelInv /\ Whereabouts /\ Passage /\ PcLive
           /\ step.phase = "body" => InHand \in StepNames /\ step.index + 1 \in 1..N
<1>1. /\ KernelInv /\ Whereabouts /\ Passage /\ IInv /\ PcLive
      /\ state \in AgentState /\ step \in Step
      /\ checkpoints \in Seq(Checkpoint) /\ Newest \in Nat /\ N \in Nat
    BY HostTypes DEF HostInv
<1>2. setbacks \in Nat /\ work \in [StepNames -> Nat]
    BY <1>1, GatesAssumption DEF Whereabouts
<1>3. step.phase = "body" => step.index + 1 \in 1..N
    BY <1>1 DEF IInv, StepInPlan, Step
<1> QED
    BY <1>1, <1>2, <1>3, NType DEF InHand

LEMMA DurableStays == checkpoints' = checkpoints => DurablyCompleted' = DurablyCompleted
BY DEF DurablyCompleted, Newest

\* There is one first open step at most.
LEMMA OneFirstOpen ==
    ASSUME NEW done, NEW s, NEW t, N \in Nat, s \notin done, t \notin done,
           FirstOpen(s, done), FirstOpen(t, done)
    PROVE  s = t
<1>1. PICK k \in 1..N : Plan[k] = s /\ \A j \in 1..(k - 1) : Plan[j] \in done
    BY DEF FirstOpen
<1>2. PICK l \in 1..N : Plan[l] = t /\ \A j \in 1..(l - 1) : Plan[j] \in done
    BY DEF FirstOpen
<1>3. ~(k < l) /\ ~(l < k)
    BY <1>1, <1>2
<1>4. k = l
    BY <1>3
<1> QED
    BY <1>1, <1>2, <1>4

\* The step in the body of the loop is the first open one.
LEMMA InHandFirst ==
    ASSUME HostInv, WorkedInOrder, step.phase = "body", live, pc = "idle"
    PROVE  /\ state.completed = DurablyCompleted
           /\ InHand \in StepNames \ DurablyCompleted /\ FirstOpen(InHand, DurablyCompleted)
           /\ \A s \in Worked \ DurablyCompleted : s = InHand
<1>1. state.completed = DurablyCompleted
    BY WorkTypes, CompletedIsSaved
<1>2. InHand \in StepNames \ DurablyCompleted
    BY <1>1, WorkTypes DEF WorkedInOrder
<1>3. FirstOpen(InHand, DurablyCompleted)
    <2>1. step.index = state.planIndex /\ step.index \in 0..N /\ step.index + 1 \in 1..N
        BY WorkTypes DEF Whereabouts, Step
    <2>2. \A j \in 1..step.index : Plan[j] \in DurablyCompleted
        BY <1>1, <2>1, WorkTypes DEF Passage, Lawful
    <2>3. (step.index + 1) - 1 = step.index
        BY <2>1
    <2> QED
        BY <2>1, <2>2, <2>3 DEF FirstOpen, InHand
<1>4. ASSUME NEW s \in Worked \ DurablyCompleted PROVE s = InHand
    BY <1>2, <1>3, <1>4, OneFirstOpen, WorkTypes DEF WorkedInOrder
<1> QED
    BY <1>1, <1>2, <1>3, <1>4

\* Work on the step in hand: it is worked on, and it is one more repetition
\* if it was before.
LEMMA WorkOnce ==
    ASSUME work \in [StepNames -> Nat], InHand \in StepNames, IsFiniteSet(Redone),
           work' = [work EXCEPT ![InHand] = @ + 1]
    PROVE  /\ Worked' = Worked \cup {InHand}
           /\ IsFiniteSet(Redone') /\ Cardinality(Redone) \in Nat
           /\ InHand \notin Worked => Cardinality(Redone') = Cardinality(Redone)
           /\ Cardinality(Redone') \in {Cardinality(Redone), Cardinality(Redone) + 1}
<1> DEFINE h == InHand
           n == work[h] + 1
<1>1. work[h] \in Nat /\ n \in Nat /\ n > 0
    OBVIOUS
<1>2. \A s \in StepNames : work'[s] = IF s = h THEN n ELSE work[s]
    OBVIOUS
<1>3. Worked' = Worked \cup {h}
    BY <1>1, <1>2 DEF Worked
<1>4. CASE n = 1
    <2>1. \A s \in StepNames : 2..work'[s] = 2..work[s]
        BY <1>1, <1>2, <1>4
    <2>2. Redone' = Redone
        BY <2>1 DEF Redone
    <2> QED
        BY <1>3, <2>2, FS_CardinalityType
<1>5. CASE n # 1
    <2>1. 2..n = (2..work[h]) \cup {n}
        BY <1>1, <1>5
    <2>2. {h} \X (2..n) = ({h} \X (2..work[h])) \cup {<<h, n>>}
        BY <2>1
    <2>3. Redone' = Redone \cup {<<h, n>>}
        <3>1. ASSUME NEW e \in Redone' PROVE e \in Redone \cup {<<h, n>>}
            <4>1. PICK s \in StepNames : e \in {s} \X (2..work'[s])
                BY DEF Redone
            <4> QED
                BY <1>2, <2>2, <4>1 DEF Redone
        <3>2. ASSUME NEW e \in Redone \cup {<<h, n>>} PROVE e \in Redone'
            <4>1. CASE e = <<h, n>>
                BY <1>2, <2>2, <4>1 DEF Redone
            <4>2. CASE e \in Redone
                <5>1. PICK s \in StepNames : e \in {s} \X (2..work[s])
                    BY <4>2 DEF Redone
                <5> QED
                    BY <1>2, <2>2, <5>1 DEF Redone
            <4> QED
                BY <4>1, <4>2
        <3> QED
            BY <3>1, <3>2
    <2>4. /\ IsFiniteSet(Redone')
          /\ Cardinality(Redone') = IF <<h, n>> \in Redone THEN Cardinality(Redone)
                                    ELSE Cardinality(Redone) + 1
        BY <2>3, FS_AddElement
    <2>5. h \in Worked
        BY <1>1, <1>5 DEF Worked
    <2> QED
        BY <1>3, <2>4, <2>5, FS_CardinalityType
<1> QED
    BY <1>4, <1>5

LEMMA FirstOpenGrows ==
    ASSUME NEW done, NEW more, done \subseteq more, NEW s, FirstOpen(s, done)
    PROVE  FirstOpen(s, more)
BY DEF FirstOpen

LEMMA NextWorkedInOrder ==
    ASSUME HostInv, WorkedInOrder, [Steps]_loopVars
    PROVE  WorkedInOrder'
<1>0. /\ state \in AgentState /\ step \in Step
      /\ checkpoints \in Seq(Checkpoint) /\ Newest \in Nat /\ N \in Nat
      /\ work \in [StepNames -> Nat] /\ PcLive
      /\ step.phase # "completing" /\ (step.phase # "none" => live)
    BY WorkTypes DEF Whereabouts
<1> DEFINE InOrder == \A s \in Worked \ DurablyCompleted : FirstOpen(s, DurablyCompleted)
           OpenInHand == step.phase = "body" => InHand \notin state.completed
           Known == live => DurablyCompleted \subseteq state.completed
<1>a. InOrder /\ OpenInHand /\ Known
    BY DEF WorkedInOrder
<1>q. InOrder' /\ OpenInHand' /\ Known' => WorkedInOrder'
    BY DEF WorkedInOrder
<1> USE DEF memory, tables, history, GoTo, hostVars
\* Without work and without a checkpoint what is worked on stays in order.
<1>b. ASSUME work' = work, checkpoints' = checkpoints
      PROVE  DurablyCompleted' = DurablyCompleted /\ InOrder'
    BY <1>a, <1>b, DurableStays DEF Worked, FirstOpen
<1>1. CASE CallGoesOn
    <2>0. UNCHANGED hostVars
        BY <1>1, CallSteps
    <2>1. CASE SaveCheckpoint
        <3>1. UNCHANGED <<live, state, step>> /\ live /\ DurablyCompleted' = state.completed
            BY <1>0, <2>1 DEF SaveCheckpoint, Snapshot, DurablyCompleted, Newest, PcLive
        <3>2. InOrder'
            BY <1>a, <2>0, <3>1, FirstOpenGrows DEF Worked, FirstOpen
        <3>3. OpenInHand' /\ Known'
            BY <1>a, <2>0, <3>1 DEF InHand
        <3> QED
            BY <1>q, <3>2, <3>3
    <2>2. CASE SaveApproval \/ UpdateApproval \/ EndStepSync \/ UpdateRun \/ EndPolicies
        <3>1. UNCHANGED <<live, state, step, checkpoints>>
            BY <2>2 DEF SaveApproval, UpdateApproval, EndStepSync, UpdateRun, EndPolicies
        <3> QED
            BY <1>a, <1>b, <1>q, <2>0, <3>1 DEF InHand
    <2>3. CASE NoteCheckpoint
        <3>1. UNCHANGED <<live, state, checkpoints>> /\ step' = Returned(step)
            BY <1>0, <2>3 DEF NoteCheckpoint
        <3>2. step' = step \/ step'.phase = "top"
            BY <1>0, <3>1, ReturnedPhase
        <3> QED
            BY <1>a, <1>b, <1>q, <2>0, <3>1, <3>2 DEF InHand
    <2> QED
        BY <1>1, <2>1, <2>2, <2>3, CallSteps
<1>2. CASE EnterLoop \/ BreakLoop \/ StepsReturns
    <2>1. /\ UNCHANGED <<live, checkpoints, work>>
          /\ state'.completed = state.completed /\ step'.phase # "body"
        BY <1>0, <1>2 DEF EnterLoop, OpenLoop, BreakLoop, Break, StepsReturns, LoopEnds,
           NoStep, AgentState
    <2> QED
        BY <1>a, <1>b, <1>q, <2>1
<1>3. CASE NextStep
    <2>1. PICK i \in OpenPositions : /\ state' = [state EXCEPT !.planIndex = i]
                                     /\ step' = [NoStep EXCEPT !.phase = "body", !.index = i]
        BY <1>3 DEF NextStep, FetchStep
    <2>2. /\ state'.completed = state.completed /\ step'.index = i
          /\ Plan[i + 1] \notin state.completed
        BY <1>0, <2>1 DEF AgentState, NoStep, OpenPositions
    <2>3. UNCHANGED <<live, checkpoints, work>>
        BY <1>3 DEF NextStep, FetchStep
    <2> QED
        BY <1>a, <1>b, <1>q, <2>2, <2>3 DEF InHand
<1>4. CASE WorkOnStep \/ WorkFails
    <2>1. /\ work' = [work EXCEPT ![InHand] = @ + 1]
          /\ live /\ pc = "idle" /\ step.phase = "body"
          /\ UNCHANGED <<live, checkpoints, step>>
          /\ state'.completed = state.completed
        BY <1>0, <1>4 DEF WorkOnStep, ToolStep, TakeCheckpoint, WorkFails, HostRuns, Idle,
           AgentState
    <2>2. \A s \in Worked' : s \in Worked \/ s = InHand
        BY <1>0, <2>1, WorkTypes DEF Worked
    <2>3. DurablyCompleted' = DurablyCompleted
        BY <2>1, DurableStays
    <2>4. InOrder'
        BY <1>a, <2>1, <2>2, <2>3, InHandFirst DEF FirstOpen
    <2> QED
        BY <1>a, <1>q, <2>1, <2>3, <2>4 DEF InHand
<1>5. CASE AskForApproval \/ CompleteRun \/ ApproveRun \/ HumanRejects \/ PolicyHalts
    <2>1. /\ UNCHANGED <<live, checkpoints, work, step>>
          /\ state'.completed = state.completed
        BY <1>0, <1>5 DEF AskForApproval, RequestApproval, CompleteRun, Complete, Finish,
           ApproveRun, HumanRejects, Approve, Reject, Decide, PolicyHalts, ApplyHalt,
           vars, AgentState
    <2> QED
        BY <1>a, <1>b, <1>q, <2>1 DEF InHand
<1>6. CASE StepIsComplete
    <2>1. /\ UNCHANGED <<live, checkpoints, work>>
          /\ step'.phase = "closing" /\ state.completed \subseteq state'.completed
        BY <1>0, <1>6 DEF StepIsComplete, LoopCompletes, Advanced, AgentState, Step
    <2> QED
        BY <1>a, <1>b, <1>q, <2>1
<1>7. CASE Leave \/ Crash
    <2>1. /\ ~live' /\ step'.phase = "none" /\ UNCHANGED <<checkpoints, work>>
        BY <1>7 DEF Leave, Crash, Exit, LoseHandle, NoStep
    <2> QED
        BY <1>a, <1>b, <1>q, <2>1
<1>8. CASE Restart
    <2>1. /\ state'.completed = DurablyCompleted /\ step' = step /\ ~live
          /\ UNCHANGED <<checkpoints, work>>
        BY <1>0, <1>8 DEF Restart, Resume, ResumeId, DurablyCompleted, Newest
    <2> QED
        BY <1>0, <1>a, <1>b, <1>q, <2>1
<1>9. CASE Over \/ UNCHANGED loopVars
    <2>1. UNCHANGED <<live, state, step, checkpoints, work>>
        BY <1>9 DEF Over, loopVars, vars
    <2> QED
        BY <1>a, <1>b, <1>q, <2>1 DEF InHand
<1> QED
    BY <1>1, <1>2, <1>3, <1>4, <1>5, <1>6, <1>7, <1>8, <1>9 DEF Steps, HostGoesOn

\* A step without work pays with a setback for what it leaves to be redone.
LEMMA BudgetKept ==
    ASSUME Budget, setbacks \in Nat, work' = work,
           \/ setbacks' = setbacks + 1
           \/ setbacks' = setbacks /\ (Unsettled' # {} => Unsettled # {})
    PROVE  Budget'
<1>1. Redone' = Redone
    BY DEF Redone
<1>2. Cardinality(Redone) \in Nat
    BY FS_CardinalityType DEF Budget
<1> QED
    BY <1>1, <1>2 DEF Budget, ToRedo

LEMMA NextBudget ==
    ASSUME HostInv, WorkedInOrder, Budget, [Steps]_loopVars
    PROVE  Budget'
<1>0. /\ state \in AgentState /\ step \in Step
      /\ checkpoints \in Seq(Checkpoint) /\ Newest \in Nat /\ setbacks \in Nat
      /\ work \in [StepNames -> Nat] /\ PcLive
      /\ step.phase # "completing" /\ (step.phase # "none" => live)
    BY WorkTypes DEF Whereabouts
<1> USE DEF memory, tables, history, GoTo, hostVars
\* Nothing is worked on, and no name that was settled is unsettled after.
<1>a. ASSUME work' = work, Done \cup InHands \subseteq Done' \cup InHands'
      PROVE  Unsettled' # {} => Unsettled # {}
    BY <1>a DEF Unsettled, Worked
<1>1. CASE CallGoesOn
    <2>0. UNCHANGED hostVars
        BY <1>1, CallSteps
    <2>1. /\ UNCHANGED <<live, state>> /\ live
          /\ step' = step \/ (step' = Returned(step) /\ step.phase = "closing")
        BY <1>0, <1>1, CallSteps, ReturnedPhase
           DEF SaveApproval, UpdateApproval, EndStepSync, SaveCheckpoint, NoteCheckpoint,
               UpdateRun, EndPolicies, Routing, PcLive
    <2>2. Done' = Done
        BY <2>1 DEF Done
    <2>3. InHands \subseteq InHands'
        BY <2>0, <2>1 DEF InHands, InHand
    <2> QED
        BY <1>0, <1>a, <2>0, <2>2, <2>3, BudgetKept
<1>2. CASE EnterLoop \/ BreakLoop \/ NextStep \/ StepsReturns \/ AskForApproval
           \/ CompleteRun \/ ApproveRun
    <2>1. /\ live /\ live' /\ at # "worked" /\ UNCHANGED <<work, setbacks>>
          /\ state'.completed = state.completed
        BY <1>0, <1>2 DEF EnterLoop, OpenLoop, BreakLoop, Break, NextStep, FetchStep,
           StepsReturns, LoopEnds, AskForApproval, RequestApproval, CompleteRun, Complete,
           Finish, ApproveRun, Approve, Decide, HostRuns, Idle, vars, AgentState
    <2>2. Done' = Done /\ InHands = {}
        BY <2>1 DEF Done, InHands
    <2> QED
        BY <1>0, <1>a, <2>1, <2>2, BudgetKept
\* The work is done: the step is settled if it returns, and costs a setback
\* if it raises.
<1>3. CASE WorkOnStep \/ WorkFails
    <2>1. /\ work' = [work EXCEPT ![InHand] = @ + 1]
          /\ live /\ live' /\ pc = "idle" /\ step.phase = "body" /\ step' = step
          /\ at = "looping" /\ state'.completed = state.completed
        BY <1>0, <1>3 DEF WorkOnStep, ToolStep, TakeCheckpoint, WorkFails, HostRuns, Idle,
           AgentState
    <2>2. /\ InHand \in StepNames /\ InHand \notin state.completed
          /\ \A s \in Worked \ state.completed : s = InHand
        BY <2>1, InHandFirst
    <2>3. /\ Worked' = Worked \cup {InHand}
          /\ IsFiniteSet(Redone') /\ Cardinality(Redone) \in Nat
          /\ InHand \notin Worked => Cardinality(Redone') = Cardinality(Redone)
          /\ Cardinality(Redone') \in {Cardinality(Redone), Cardinality(Redone) + 1}
        BY <1>0, <2>1, <2>2, WorkOnce DEF Budget
    <2>4. Unsettled # {} <=> InHand \in Worked
        BY <2>1, <2>2 DEF Unsettled, Done, InHands
    <2>5. CASE WorkOnStep
        <3>1. at' = "worked" /\ setbacks' = setbacks
            BY <2>5 DEF WorkOnStep
        <3>2. Unsettled' = {}
            BY <2>1, <2>2, <2>3, <3>1 DEF Unsettled, Done, InHands, InHand
        <3> QED
            BY <1>0, <2>3, <2>4, <3>1, <3>2 DEF Budget, ToRedo
    <2>6. CASE WorkFails
        <3>1. setbacks' = setbacks + 1
            BY <2>6 DEF WorkFails, SetBack
        <3> QED
            BY <1>0, <2>3, <2>4, <3>1 DEF Budget, ToRedo
    <2> QED
        BY <1>3, <2>5, <2>6
<1>4. CASE StepIsComplete
    <2>1. /\ live /\ live' /\ UNCHANGED <<work, setbacks>>
          /\ state'.completed = state.completed \cup {InHand}
        BY <1>0, <1>4 DEF StepIsComplete, LoopCompletes, Idle, Advanced, AgentState, InHand
    <2>2. Done \cup InHands \subseteq Done'
        BY <2>1 DEF Done, InHands
    <2> QED
        BY <1>0, <1>a, <2>1, <2>2, BudgetKept
<1>5. CASE HumanRejects \/ PolicyHalts \/ Crash
    <2>1. work' = work /\ setbacks' = setbacks + 1
        BY <1>5 DEF HumanRejects, PolicyHalts, Crash, SetBack
    <2> QED
        BY <1>0, <2>1, BudgetKept
<1>6. CASE Leave
    <2>1. /\ live /\ ~live' /\ pc = "idle" /\ at = "leaving"
          /\ UNCHANGED <<work, setbacks, checkpoints>>
        BY <1>6 DEF Leave, Exit, LoseHandle, Idle
    <2>2. Done = DurablyCompleted /\ Done' = DurablyCompleted
        BY <2>1, DurableStays, WorkTypes, CompletedIsSaved DEF Done
    <2>3. InHands = {}
        BY <2>1 DEF InHands
    <2> QED
        BY <1>0, <1>a, <2>1, <2>2, <2>3, BudgetKept
<1>7. CASE Restart
    <2>1. /\ ~live /\ at = "gone" /\ UNCHANGED <<work, setbacks, checkpoints>>
          /\ state'.completed = DurablyCompleted
        BY <1>0, <1>7 DEF Restart, Resume, ResumeId, DurablyCompleted, Newest
    <2>2. Done = DurablyCompleted /\ Done' = DurablyCompleted
        BY <2>1, DurableStays DEF Done
    <2>3. InHands = {}
        BY <2>1 DEF InHands
    <2> QED
        BY <1>0, <1>a, <2>1, <2>2, <2>3, BudgetKept
<1>8. CASE Over \/ UNCHANGED loopVars
    <2>1. UNCHANGED <<live, state, step, checkpoints, at, work, setbacks>>
        BY <1>8 DEF Over, loopVars, vars
    <2>2. Unsettled' = Unsettled
        BY <2>1, DurableStays DEF Unsettled, Worked, Done, InHands, InHand
    <2> QED
        BY <1>0, <2>1, <2>2, BudgetKept
<1> QED
    BY <1>1, <1>2, <1>3, <1>4, <1>5, <1>6, <1>7, <1>8 DEF Steps, HostGoesOn

\* Each setback makes at most one step be worked on once more, for every plan
\* and any number of steps, gates and processes.
THEOREM EachSetbackRedoesOne == LoopSpec => []RedoneWithinSetbacks
<1>1. Start => WorkedInOrder /\ Budget
    <2> SUFFICES ASSUME Start PROVE WorkedInOrder /\ Budget
        OBVIOUS
    <2>1. /\ \A s \in StepNames : work[s] = 0
          /\ state.completed = {} /\ step.phase = "none" /\ DurablyCompleted = {}
          /\ setbacks = 0
        BY DEF Start, Init, FreshState, NoStep, DurablyCompleted, Newest
    <2>2. Worked = {} /\ Redone = {}
        BY <2>1 DEF Worked, Redone
    <2>3. WorkedInOrder
        BY <2>1, <2>2 DEF WorkedInOrder
    <2>4. Budget
        BY <2>1, <2>2, FS_EmptySet DEF Budget, ToRedo, Unsettled
    <2> QED
        BY <2>3, <2>4
<1>2. HostInv /\ WorkedInOrder /\ Budget /\ [Steps]_loopVars => WorkedInOrder' /\ Budget'
    BY NextWorkedInOrder, NextBudget
<1>3. HostInv /\ Budget => RedoneWithinSetbacks
    <2> SUFFICES ASSUME HostInv, Budget PROVE RedoneWithinSetbacks
        OBVIOUS
    <2>1. Cardinality(Redone) \in Nat /\ setbacks \in Nat /\ ToRedo \in Nat
        BY WorkTypes, FS_CardinalityType DEF Budget, ToRedo
    <2> QED
        BY <2>1 DEF Budget, RedoneWithinSetbacks
<1> QED
    BY <1>1, <1>2, <1>3, HostInvariance, PTL DEF LoopSpec
=============================================================================
