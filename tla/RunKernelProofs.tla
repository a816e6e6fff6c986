-------------------------- MODULE RunKernelProofs --------------------------
(***************************************************************************)
(* Theorems about RunKernel, for every plan, every set of calls and        *)
(* outcomes, and every bound: the domains, what a reset finds, what is     *)
(* durable, where plans and hosts allow it the plan cursor, and the gate.  *)
(***************************************************************************)
EXTENDS RunKernel, TLAPS

\* A step in progress is a step of the plan.
StepInPlan == step.phase \in {"body", "completing", "closing"} => step.index < N

\* update_approval writes a decision.
DecisionAtHand == pc = "update_approval" => state.approval \in Decided

\* The inductive invariant behind the types: that a reset finds its
\* checkpoint is what gives the loaded state its type, and that the step is
\* in the plan is what keeps the advanced cursor there.
IInv == TypeOK /\ GreenRefsBackward /\ StepInPlan /\ DecisionAtHand

LEMMA NType == N \in Nat /\ \A k \in 1..N : Plan[k] \in StepNames
BY PlanAssumption DEF N

LEMMA InitIInv == Init => IInv
<1> SUFFICES ASSUME Init PROVE IInv
    OBVIOUS
<1>1. /\ FreshRun \in RunRecord /\ FreshState \in AgentState /\ NoStep \in Step
      /\ 0 \in Ids /\ 0 \in GreenIds /\ Newest = 0
    BY NType, BoundsAssumption
    DEF Init, FreshRun, FreshState, NoStep, RunRecord, AgentState, Step, Statuses, Phases,
        Ids, GreenIds, Unknown, Newest
<1>2. TypeOK
    <2>1. checkpoints \in Seq(Checkpoint) /\ approvals \in Seq(ApprovalStatuses)
          /\ Len(approvals) \in 0..MaxApprovals
        BY BoundsAssumption DEF Init
    <2> QED
        BY <1>1, <2>1 DEF Init, TypeOK
<1>3. GreenRefsBackward
    BY <1>1 DEF Init, GreenRefsBackward, InTable, FreshRun, FreshState
<1> QED
    BY <1>2, <1>3 DEF Init, IInv, StepInPlan, DecisionAtHand, NoStep

LEMMA AdvancedType ==
    ASSUME NEW s \in AgentState, NEW i \in 0..N, i < N
    PROVE  /\ Advanced(s, i) \in AgentState
           /\ Advanced(s, i).green = s.green
           /\ Advanced(s, i).tools = s.tools
           /\ Advanced(s, i).approval = s.approval
<1>1. s.completed \cup {Plan[i + 1]} \in SUBSET StepNames
    BY NType DEF AgentState
<1>2. (IF s.planIndex > i THEN s.planIndex ELSE i + 1) \in 0..N
    BY NType DEF AgentState
<1> QED
    BY <1>1, <1>2 DEF Advanced, AgentState

\* What a process that lost its memory starts from.
LEMMA FreshType ==
    /\ FreshRun \in RunRecord /\ FreshState \in AgentState /\ NoStep \in Step
    /\ FreshRun.latest = 0 /\ FreshRun.lastGreen = 0 /\ FreshState.green = 0
    /\ FreshState.tools = {} /\ NoStep.phase = "none"
BY NType, BoundsAssumption DEF FreshRun, FreshState, NoStep, RunRecord,
   AgentState, Step, Statuses, ApprovalStatuses, Phases, Ids, GreenIds, Unknown

\* A checkpoint appended to the table.
LEMMA AppendType ==
    ASSUME IInv, NEW ckpt \in Checkpoint, Newest < MaxCheckpoints,
           InTable(ckpt.state.green), checkpoints' = Append(checkpoints, ckpt)
    PROVE  /\ checkpoints' \in Seq(Checkpoint) /\ Newest' = Newest + 1
           /\ Newest' \in Ids
           /\ \A i \in 1..Newest' : Before(checkpoints'[i].state.green, i)
<1>1. /\ checkpoints \in Seq(Checkpoint) /\ Newest \in Nat
      /\ \A i \in 1..Newest : Before(checkpoints[i].state.green, i)
    BY DEF IInv, TypeOK, GreenRefsBackward, Newest
<1>2. checkpoints' \in Seq(Checkpoint)
    BY <1>1
<1>0. Newest' = Newest + 1 /\ Newest \in Nat
    BY <1>1 DEF Newest
<1>3. \A i \in 1..Newest : checkpoints'[i] = checkpoints[i]
    BY <1>1 DEF Newest
<1>4. checkpoints'[Newest + 1] = ckpt
    BY <1>1 DEF Newest
<1>5. ckpt.state.green \in Nat
    BY BoundsAssumption DEF Checkpoint, AgentState, GreenIds, Unknown
<1>6. ASSUME NEW i \in 1..Newest' PROVE Before(checkpoints'[i].state.green, i)
    <2>1. CASE i \in 1..Newest
        BY <2>1, <1>1, <1>3
    <2>2. CASE i = Newest + 1
        BY <2>2, <1>0, <1>4, <1>5 DEF InTable, Before
    <2>3. i \in 1..Newest \/ i = Newest + 1
        BY <1>0
    <2> QED BY <2>1, <2>2, <2>3
<1>7. Newest' \in Ids
    BY <1>0, BoundsAssumption DEF Ids
<1> QED
    BY <1>0, <1>2, <1>6, <1>7

LEMMA WriteIInv == IInv /\ DurableWrite => IInv'
<1> SUFFICES ASSUME IInv, DurableWrite PROVE IInv'
    OBVIOUS
<1> USE NType, BoundsAssumption
    DEF IInv, TypeOK, GreenRefsBackward, StepInPlan, DecisionAtHand, memory,
        tables, history, Ids, InTable
<1>1. CASE SaveApproval
    BY <1>1 DEF SaveApproval, Writes, ApprovalStatuses, Newest
<1>2. CASE UpdateApproval
    <2>1. approvals' \in Seq(ApprovalStatuses) /\ Len(approvals') = Len(approvals)
        BY <1>2 DEF UpdateApproval, Decided, ApprovalStatuses
    <2> QED
        BY <1>2, <2>1 DEF UpdateApproval, Writes, Newest
<1>3. CASE EndStepSync
    BY <1>3 DEF EndStepSync, Writes, Newest
<1>4. CASE SaveCheckpoint
    <2>1. Snapshot \in Checkpoint /\ Snapshot.state = state
        BY DEF Snapshot, Checkpoint, RunRecord
    <2>2. /\ checkpoints' \in Seq(Checkpoint) /\ Newest' = Newest + 1
          /\ Newest' \in Ids
          /\ \A i \in 1..Newest' : Before(checkpoints'[i].state.green, i)
        BY <1>4, <2>1, AppendType DEF SaveCheckpoint
    <2>3. \A id \in GreenIds : InTable(id) => InTable(id)'
        BY <2>2 DEF Newest, GreenIds, Unknown, UnknownMarked
    <2>4. /\ \A r \in {run', runs'} : r.latest <= Newest' /\ InTable(r.lastGreen)'
          /\ rewound' = 0 /\ 0 <= Newest' /\ 0 \in Ids
        <3>1. /\ run.latest \in Nat /\ runs.latest \in Nat /\ Newest \in Nat
              /\ run.lastGreen \in GreenIds /\ runs.lastGreen \in GreenIds
            BY DEF RunRecord, Newest
        <3> HIDE DEF InTable
        <3> QED
            BY <1>4, <2>2, <2>3, <3>1 DEF SaveCheckpoint
    <2>5. trail' \in {"held", "ahead", "torn"} /\ overridden' \in BOOLEAN
        BY <1>4 DEF SaveCheckpoint
    <2>6. InTable(target)' /\ InTable(state.green)'
        BY <1>4, <2>3 DEF SaveCheckpoint, AgentState
    <2> HIDE DEF InTable
    <2> QED
        BY <1>4, <2>2, <2>4, <2>5, <2>6 DEF SaveCheckpoint, Writes, Newest
<1>5. CASE NoteCheckpoint
    <2>1. run' \in RunRecord /\ run'.latest = Newest /\ run'.lastGreen = run.lastGreen
        BY <1>5 DEF NoteCheckpoint, RunRecord
    <2>2. step' \in Step /\ StepInPlan'
        <3>1. CASE step.phase = "completing"
            BY <1>5, <3>1 DEF NoteCheckpoint, Returned, Step, Phases
        <3>2. CASE step.phase = "closing"
            BY <1>5, <3>2, FreshType DEF NoteCheckpoint, Returned, Step, Phases
        <3>3. CASE step.phase \notin {"completing", "closing"}
            BY <1>5, <3>3 DEF NoteCheckpoint, Returned
        <3> QED
            BY <3>1, <3>2, <3>3
    <2> QED
        BY <1>5, <2>1, <2>2 DEF NoteCheckpoint, Newest
<1>6. CASE UpdateRun
    BY <1>6 DEF UpdateRun, Newest
<1>7. CASE WriteFails
    <2>1. /\ run' \in RunRecord /\ run'.latest <= Newest /\ InTable(run'.lastGreen)
          /\ state' \in AgentState /\ InTable(state'.green)
          /\ schemas' \in SUBSET Tools
        <3>1. CASE live'
            BY <1>7, <3>1, SMTT(30) DEF WriteFails, RunRecord
        <3>2. CASE ~live'
            BY <1>7, <3>2, FreshType DEF WriteFails, Newest
        <3> QED
            BY <3>1, <3>2
    <2>2. step' \in Step /\ StepInPlan'
        <3>1. CASE step' = NoStep
            BY <3>1, FreshType
        <3>2. CASE step.phase \in {"body", "completing"} /\ step' = [step EXCEPT !.phase = "body"]
            BY <3>2 DEF Step, Phases
        <3> QED
            BY <1>7, <3>1, <3>2 DEF WriteFails
    <2>3. /\ UNCHANGED <<tables, overridden>> /\ live' \in BOOLEAN
          /\ pc' = "idle" /\ routing' = "off" /\ target' = 0
          /\ rewound' \in {rewound, 0}
          /\ trail' \in {"held", "ahead", "torn"}
        BY <1>7 DEF WriteFails, Parted
    <2> QED
        BY <2>1, <2>2, <2>3 DEF GreenIds, Unknown, Newest
<1> QED
    BY <1>1, <1>2, <1>3, <1>4, <1>5, <1>6, <1>7 DEF DurableWrite

\* The calls of the host leave the tables alone; each keeps its own change
\* of memory in type.
LEMMA HostIInv == IInv /\ HostCall => IInv'
<1> SUFFICES ASSUME IInv, HostCall PROVE IInv'
    OBVIOUS
<1> USE NType, BoundsAssumption
    DEF IInv, TypeOK, GreenRefsBackward, StepInPlan, DecisionAtHand, memory,
        tables, history, Ids, InTable
<1>1. CASE Pause \/ Complete \/ Abort
    <2>1. /\ run' \in RunRecord /\ run'.latest = run.latest
          /\ run'.lastGreen = run.lastGreen
        BY <1>1 DEF Pause, Complete, Abort, Finish, RunRecord, Statuses
    <2>2. /\ overridden' \in BOOLEAN /\ pc' \in Writes /\ pc' # "update_approval"
          /\ UNCHANGED <<live, state, schemas, step, routing, target, tables, rewound, trail>>
        BY <1>1 DEF Pause, Override, Complete, Abort, Finish, Writes
    <2> QED
        BY <2>1, <2>2 DEF Newest
<1>2. CASE RequestApproval
    <2>1. /\ run' \in RunRecord /\ run'.latest = run.latest
          /\ run'.lastGreen = run.lastGreen
          /\ state' \in AgentState /\ state'.green = state.green
        BY <1>2 DEF RequestApproval, RunRecord, Statuses, AgentState, ApprovalStatuses
    <2>2. /\ pc' = "save_approval"
          /\ UNCHANGED <<live, schemas, step, routing, target, tables, history>>
        BY <1>2 DEF RequestApproval
    <2> QED
        BY <2>1, <2>2 DEF Writes, Newest
<1>3. CASE Approve \/ Reject
    BY <1>3, ZenonT(60) DEF Approve, Reject, Decide, RunRecord, Statuses, AgentState,
       ApprovalStatuses, Decided, Writes, Newest
<1>4. CASE MarkGreen
    <2>1. PICK id \in GreenIds : InTable(id) /\ MarkGreenId(id)
        <3>1. CASE MarkGreenId(run.latest)
            <4>1. run.latest \in GreenIds /\ InTable(run.latest)
                BY DEF RunRecord, GreenIds, Unknown
            <4> QED
                BY <3>1, <4>1
        <3>2. CASE \E id \in 1..Newest : MarkGreenId(id)
            BY <3>2 DEF Newest, GreenIds, Unknown
        <3>3. CASE "mark_green_unknown" \in Calls /\ MarkGreenId(Unknown)
            BY <3>3 DEF UnknownMarked, GreenIds, Unknown
        <3> QED
            BY <1>4, <3>1, <3>2, <3>3 DEF MarkGreen
    <2> QED
        BY <2>1 DEF MarkGreenId, RunRecord, AgentState, Writes, Newest
<1>5. CASE TakeCheckpoint
    BY <1>5 DEF TakeCheckpoint, Writes, Newest
<1>6. CASE \E t \in Tools : ToolStep(t)
    <2>1. /\ state' \in AgentState /\ state'.green = state.green
          /\ schemas' \in SUBSET Tools
        BY <1>6 DEF ToolStep, AgentState
    <2>2. /\ pc' \in {"end_step", "update_run"}
          /\ UNCHANGED <<live, run, step, routing, target, tables, history>>
        BY <1>6 DEF ToolStep
    <2> QED
        BY <2>1, <2>2 DEF Writes, Newest
<1> QED
    BY <1>1, <1>2, <1>3, <1>4, <1>5, <1>6 DEF HostCall

LEMMA LoopIInv == IInv /\ PlanLoop => IInv'
<1> SUFFICES ASSUME IInv, PlanLoop PROVE IInv'
    OBVIOUS
<1> USE NType, BoundsAssumption
    DEF IInv, TypeOK, GreenRefsBackward, StepInPlan, DecisionAtHand, memory,
        tables, history, Ids, InTable
<1>0. [NoStep EXCEPT !.phase = "top"] \in Step /\ [NoStep EXCEPT !.phase = "top"].phase = "top"
    BY FreshType DEF Step, Phases
<1>1. CASE OpenLoop \/ LoopStops \/ LoopGoesOn \/ Break
    BY <1>1, <1>0, FreshType DEF OpenLoop, LoopStops, LoopGoesOn, Break, Newest
<1>2. CASE FetchStep
    <2>1. PICK i \in OpenPositions :
            /\ state' = [state EXCEPT !.planIndex = i]
            /\ step' = [NoStep EXCEPT !.phase = "body", !.index = i]
        BY <1>2 DEF FetchStep
    <2>0. i \in 0..N /\ i < N
        BY DEF OpenPositions, AgentState
    <2>2. state' \in AgentState /\ state'.green = state.green /\ state'.approval = state.approval
        BY <2>0, <2>1 DEF AgentState
    <2>3. step' \in Step /\ step'.index < N
        BY <2>0, <2>1, FreshType DEF Step, Phases
    <2> QED
        BY <1>2, <2>2, <2>3 DEF FetchStep, Idle, Newest
<1>3. CASE LoopEnds
    <2>1. state' \in AgentState /\ state'.green = state.green /\ state'.approval = state.approval
        BY <1>3, SMTT(30) DEF LoopEnds, AgentState
    <2> QED
        BY <1>3, <2>1, FreshType DEF LoopEnds, Newest
<1>4. CASE StepComplete \/ LoopCompletes
    <2>1. step.index < N /\ step.index \in 0..N
        BY <1>4 DEF StepComplete, LoopCompletes, Step
    <2>2. /\ Advanced(state, step.index) \in AgentState
          /\ Advanced(state, step.index).green = state.green
        BY <2>1, AdvancedType
    <2>3. step' \in Step /\ step'.index = step.index
        BY <1>4 DEF StepComplete, LoopCompletes, Step, Phases
    <2> QED
        BY <1>4, <2>1, <2>2, <2>3 DEF StepComplete, LoopCompletes, Writes, Newest
<1>5. CASE StepFail
    BY <1>5 DEF StepFail, Step, Phases, Writes, Newest
<1> QED
    BY <1>1, <1>2, <1>3, <1>4, <1>5 DEF PlanLoop

\* A checkpoint read back has its type, and its green mark is older.
LEMMA StoredType ==
    ASSUME IInv, NEW id \in 1..Newest
    PROVE  /\ checkpoints[id] \in Checkpoint
           /\ checkpoints[id].state \in AgentState
           /\ checkpoints[id].schemas \in SUBSET Tools
           /\ checkpoints[id].status \in Statuses
           /\ checkpoints[id].state.green \in GreenIds
           /\ Before(checkpoints[id].state.green, id)
           /\ InTable(checkpoints[id].state.green)
<1>1. checkpoints \in Seq(Checkpoint) /\ id \in 1..Len(checkpoints)
    BY DEF IInv, TypeOK, Newest
<1>2. checkpoints[id] \in Checkpoint
    BY <1>1
<1>3. Before(checkpoints[id].state.green, id)
    BY DEF IInv, GreenRefsBackward
<1>4. checkpoints[id].state.green \in GreenIds /\ id \in Nat /\ Newest \in Nat
    BY <1>1, <1>2 DEF Checkpoint, AgentState, Newest
<1>5. InTable(checkpoints[id].state.green)
    BY <1>3, <1>4, BoundsAssumption DEF Before, InTable, GreenIds, Unknown
<1> QED
    BY <1>2, <1>3, <1>4, <1>5 DEF Checkpoint, AgentState

LEMMA HydratedType ==
    ASSUME NEW r \in RunRecord, NEW s \in AgentState
    PROVE  /\ Hydrated(r, s) \in RunRecord
           /\ Hydrated(r, s).latest = r.latest
           /\ Hydrated(r, s).status = r.status
           /\ Hydrated(r, s).lastGreen \in {r.lastGreen, s.green}
BY DEF Hydrated, RunRecord, AgentState

LEMMA LoseHandleIInv ==
    ASSUME IInv, LoseHandle, rewound' \in {0, rewound}
    PROVE  IInv'
<1>1. Newest \in Nat /\ 0 \in Ids /\ 0 \in GreenIds /\ rewound' \in Ids /\ rewound' <= Newest
    BY BoundsAssumption DEF IInv, TypeOK, GreenRefsBackward, Newest, Ids, GreenIds, Unknown
<1>2. TypeOK'
    BY <1>1, FreshType DEF LoseHandle, Parted, tables, IInv, TypeOK, Newest
<1>3. run'.latest <= Newest /\ InTable(run'.lastGreen) /\ InTable(state'.green) /\ InTable(target')
    BY <1>1, FreshType DEF LoseHandle, InTable
<1>4. GreenRefsBackward'
    BY <1>1, <1>3 DEF LoseHandle, tables, IInv, GreenRefsBackward, InTable, Newest
<1>5. StepInPlan' /\ DecisionAtHand'
    BY FreshType DEF LoseHandle, StepInPlan, DecisionAtHand
<1> QED
    BY <1>2, <1>4, <1>5 DEF IInv

LEMMA PolicyIInv == IInv /\ Policies => IInv'
<1> SUFFICES ASSUME IInv, Policies PROVE IInv'
    OBVIOUS
<1> USE NType, BoundsAssumption
    DEF IInv, TypeOK, GreenRefsBackward, StepInPlan, DecisionAtHand, memory,
        tables, history, Ids, InTable
<1>1. CASE Resume
    <2>1. Newest \in 1..Newest /\ Newest' = Newest
        BY <1>1 DEF Resume, Newest
    <2> DEFINE ckpt == checkpoints[Newest]
               row == [runs EXCEPT !.status = ResumeStatus(runs.status, ckpt.status)]
    <2>2. /\ ckpt.state \in AgentState /\ ckpt.schemas \in SUBSET Tools
          /\ ckpt.status \in Statuses
          /\ ckpt.state.green \in GreenIds /\ InTable(ckpt.state.green)
        BY <2>1, StoredType
    <2>3. row \in RunRecord /\ row.latest = runs.latest /\ row.lastGreen = runs.lastGreen
        BY <2>2 DEF RunRecord, ResumeStatus, Statuses
    <2>4. /\ Hydrated(row, ckpt.state) \in RunRecord
          /\ Hydrated(row, ckpt.state).latest = runs.latest
          /\ Hydrated(row, ckpt.state).lastGreen \in {runs.lastGreen, ckpt.state.green}
        BY <2>2, <2>3, HydratedType
    <2>5. /\ runs' = row /\ run' = Hydrated(row, ckpt.state)
          /\ state' = ckpt.state /\ schemas' = ckpt.schemas
          /\ target' = ResetTarget(run', ckpt.state)
          /\ live' = TRUE /\ pc' = "update_run" /\ routing' = "resume"
          /\ rewound' = 0
          /\ UNCHANGED <<step, checkpoints, approvals, trail, overridden>>
        BY <1>1 DEF Resume, ResumeId, HydratedSchemas
    <2>a. /\ runs.latest <= Newest /\ InTable(runs.lastGreen)
          /\ runs.lastGreen \in GreenIds
        BY DEF RunRecord, Newest
    <2> HIDE DEF ckpt, row, InTable
    <2>b. run'.lastGreen \in {runs.lastGreen, ckpt.state.green}
        BY <2>4, <2>5
    <2>c. target' \in {run'.lastGreen, ckpt.state.green}
        BY <2>5 DEF ResetTarget
    <2>6. target' \in GreenIds /\ InTable(target')
        BY <2>2, <2>a, <2>b, <2>c
    <2>7. /\ run'.latest <= Newest /\ InTable(run'.lastGreen)
          /\ runs'.latest <= Newest /\ InTable(runs'.lastGreen)
        BY <2>2, <2>3, <2>4, <2>5, <2>a, <2>b
    <2>8. \A id : InTable(id)' <=> InTable(id)
        BY <2>1 DEF InTable
    <2>9. 0 \in Ids /\ 0 <= Newest
        BY DEF Newest
    <2> QED
        BY <2>1, <2>2, <2>3, <2>4, <2>5, <2>6, <2>7, <2>8, <2>9 DEF Writes
<1>2. CASE ApplyPolicies
    <2>1. Newest \in 1..Newest /\ Newest' = Newest
        BY <1>2 DEF ApplyPolicies, Newest
    <2>2. target' \in GreenIds /\ InTable(target')
        BY <1>2, <2>1, StoredType DEF ApplyPolicies, ResetTarget, RunRecord
    <2>3. /\ routing' = "apply"
          /\ UNCHANGED <<live, memory, step, pc, tables, history>>
        BY <1>2 DEF ApplyPolicies
    <2> QED
        BY <2>1, <2>2, <2>3
<1>3. CASE ApplyAbort \/ ApplyHalt
    BY <1>3, BoundsAssumption
       DEF ApplyAbort, ApplyHalt, Override, Routing, RunRecord, Statuses, Writes, GreenIds,
           Unknown, Newest
<1>4. CASE ApplyLoad
    <2>1. target \in 1..Newest /\ Newest' = Newest
        BY <1>4 DEF ApplyLoad, Newest
    <2>2. /\ checkpoints[target].state \in AgentState
          /\ checkpoints[target].schemas \in SUBSET Tools
          /\ checkpoints[target].state.green \in GreenIds
          /\ InTable(checkpoints[target].state.green)
        BY <2>1, StoredType
    <2>3. /\ Hydrated(run, checkpoints[target].state) \in RunRecord
          /\ Hydrated(run, checkpoints[target].state).lastGreen
                 \in {run.lastGreen, checkpoints[target].state.green}
        BY <2>2, HydratedType
    <2>4. /\ run' \in RunRecord /\ run'.latest = target
          /\ run'.lastGreen \in {run.lastGreen, checkpoints[target].state.green}
        <3> DEFINE r == Hydrated(run, checkpoints[target].state)
        <3>1. run' = [r EXCEPT !.latest = target, !.status = "running"] /\ target \in Ids
            BY <1>4, <2>1 DEF ApplyLoad
        <3> HIDE DEF r
        <3> QED
            BY <2>3, <3>1 DEF r, RunRecord, Statuses
    <2>5. /\ UNCHANGED <<live, step, routing, target, tables>> /\ pc' = "update_run"
          /\ rewound' = target /\ trail' \in {"held", "ahead", "torn"}
          /\ overridden' \in BOOLEAN
          /\ state' = checkpoints[target].state /\ schemas' = checkpoints[target].schemas
        BY <1>4 DEF ApplyLoad, Override, Parted, HydratedSchemas, Routing
    <2>6. target \in Ids
        BY <2>1, BoundsAssumption DEF Ids
    <2> QED
        BY <1>4, <2>1, <2>2, <2>4, <2>5, <2>6 DEF Writes
<1>5. CASE EndPolicies
    BY <1>5 DEF EndPolicies, GreenIds, Unknown, Newest
<1>6. CASE RaiseAbort
    BY <1>6, LoseHandleIInv DEF RaiseAbort
<1>7. CASE LoadMissing
    <2>1. CASE routing = "resume"
        BY <1>7, <2>1, LoseHandleIInv DEF LoadMissing
    <2>2. CASE routing # "resume"
        <3>1. /\ UNCHANGED <<live, memory, pc, tables, history>>
              /\ routing' = "off" /\ target' = 0 /\ step' \in {step, NoStep}
            BY <1>7, <2>2 DEF LoadMissing
        <3>2. step' \in Step /\ StepInPlan'
            BY <3>1, FreshType
        <3> QED
            BY <3>1, <3>2 DEF GreenIds, Unknown, Newest
    <2> QED
        BY <2>1, <2>2
<1> QED
    BY <1>1, <1>2, <1>3, <1>4, <1>5, <1>6, <1>7 DEF Policies

LEMMA NextIInv == IInv /\ [Next]_vars => IInv'
<1> SUFFICES ASSUME IInv, [Next]_vars PROVE IInv'
    OBVIOUS
<1>1. CASE Exit
    BY <1>1, LoseHandleIInv DEF Exit
<1>2. CASE UNCHANGED vars
    BY <1>2 DEF vars, memory, tables, history, IInv, TypeOK, GreenRefsBackward, StepInPlan,
       DecisionAtHand, InTable, Newest
<1> QED
    BY <1>1, <1>2, WriteIInv, HostIInv, LoopIInv, PolicyIInv DEF Next

\* The steps in which no commit fails: all of them unless WritesMayFail, and
\* all that the host of AgentLoop sees.
SureWrite ==
    SaveApproval \/ UpdateApproval \/ EndStepSync \/ SaveCheckpoint
    \/ NoteCheckpoint \/ UpdateRun
SureNext == SureWrite \/ HostCall \/ PlanLoop \/ Policies \/ Exit

LEMMA SureIsNext == [SureNext]_vars => [Next]_vars
BY DEF SureNext, SureWrite, Next, DurableWrite

LEMMA NextIsSure == ~WritesMayFail /\ [Next]_vars => [SureNext]_vars
BY DEF SureNext, SureWrite, Next, DurableWrite, WriteFails

LEMMA Invariance == Spec => []IInv
BY InitIInv, NextIInv, PTL DEF Spec

\* Every variable stays in its domain, for every plan and host: the cursor
\* never runs past the plan and no reset loads what is not there.
THEOREM TypeCorrect == Spec => []TypeOK
BY Invariance, PTL DEF IInv

\* The checkpoint ids the run refers to exist, and a strict reset goes
\* strictly back in the table.
THEOREM ResetsGoBack == Spec => []GreenRefsBackward
BY Invariance, PTL DEF IInv

-----------------------------------------------------------------------------

\* The artifacts outside the AgentState are hydrated with it, always.
THEOREM SchemasFollowState == Spec => []SchemasHydrated
<1>1. Init => SchemasHydrated
    BY DEF Init, SchemasHydrated, FreshState, Newest
<1>2. ASSUME IInv, SchemasHydrated, [Next]_vars PROVE SchemasHydrated'
    <2> USE <1>2 DEF SchemasHydrated, memory, tables, history
    <2>0. state \in AgentState /\ step \in Step
        BY DEF IInv, TypeOK
    <2>1. CASE SaveCheckpoint
        <3>1. /\ Newest' = Newest + 1 /\ Newest \in Nat
              /\ \A i \in 1..Newest : checkpoints'[i] = checkpoints[i]
              /\ checkpoints'[Newest + 1] = Snapshot
            BY <2>1 DEF SaveCheckpoint, IInv, TypeOK, Newest
        <3>2. Snapshot.schemas = Snapshot.state.tools
            BY DEF Snapshot
        <3>3. ASSUME NEW i \in 1..Newest'
              PROVE  checkpoints'[i].schemas = checkpoints'[i].state.tools
            <4>1. CASE i \in 1..Newest
                BY <3>1, <4>1
            <4>2. CASE i = Newest + 1
                BY <3>1, <3>2, <4>2
            <4> QED
                BY <3>1, <4>1, <4>2
        <3> QED
            BY <2>1, <3>3 DEF SaveCheckpoint
    <2>2. CASE SaveApproval \/ UpdateApproval \/ EndStepSync \/ NoteCheckpoint \/ UpdateRun
        BY <2>2 DEF SaveApproval, UpdateApproval, EndStepSync, NoteCheckpoint, UpdateRun,
           Newest
    <2>8. CASE WriteFails
        <3>1. schemas' = state'.tools
            BY <2>8 DEF WriteFails, FreshState
        <3> QED
            BY <2>8, <3>1 DEF WriteFails, Newest
    <2>3. CASE HostCall
        BY <2>0, <2>3 DEF HostCall, Pause, RequestApproval, Approve, Reject, Decide,
           MarkGreen, MarkGreenId, TakeCheckpoint, ToolStep, Complete, Abort, Finish,
           AgentState, Newest
    <2>4. CASE PlanLoop /\ ~StepComplete /\ ~LoopCompletes
        BY <2>0, <2>4 DEF PlanLoop, OpenLoop, FetchStep, LoopEnds, StepFail, LoopStops,
           LoopGoesOn, Break, AgentState, Newest
    <2>5. CASE StepComplete \/ LoopCompletes
        <3>1. step.index \in 0..N /\ step.index < N
            BY <2>0, <2>5 DEF IInv, StepInPlan, Step, StepComplete, LoopCompletes
        <3>2. state'.tools = state.tools
            BY <2>0, <2>5, <3>1, AdvancedType DEF StepComplete, LoopCompletes
        <3> QED
            BY <2>5, <3>2 DEF StepComplete, LoopCompletes, Newest
    <2>6. CASE Policies \/ Exit
        <3>1. checkpoints' = checkpoints
            BY <2>6 DEF Policies, Resume, ApplyPolicies, ApplyAbort, ApplyLoad, ApplyHalt,
               LoadMissing, EndPolicies, RaiseAbort, Exit, LoseHandle
        <3>2. Resume => Newest \in 1..Newest
            BY DEF Resume, IInv, TypeOK, Newest, Ids
        <3>3. ApplyLoad => target \in 1..Newest
            BY DEF ApplyLoad
        <3>4. schemas' = state'.tools
            <4>1. CASE Resume
                BY <3>2, <4>1 DEF Resume, ResumeId, HydratedSchemas
            <4>2. CASE ApplyLoad
                BY <3>3, <4>2 DEF ApplyLoad, HydratedSchemas
            <4>3. CASE RaiseAbort \/ LoadMissing \/ Exit
                BY <4>3 DEF RaiseAbort, LoadMissing, Exit, LoseHandle, FreshState
            <4>4. CASE ApplyPolicies \/ ApplyAbort \/ ApplyHalt \/ EndPolicies
                BY <4>4 DEF ApplyPolicies, ApplyAbort, ApplyHalt, EndPolicies
            <4> QED
                BY <2>6, <4>1, <4>2, <4>3, <4>4 DEF Policies
        <3> QED
            BY <3>1, <3>4 DEF Newest
    <2>7. CASE UNCHANGED vars
        BY <2>7 DEF vars, Newest
    <2> QED
        BY <2>1, <2>2, <2>3, <2>4, <2>5, <2>6, <2>7, <2>8 DEF Next, DurableWrite
<1>3. IInv /\ SchemasHydrated /\ [Next]_vars => SchemasHydrated'
    BY <1>2
<1> QED
    BY <1>1, <1>3, Invariance, PTL DEF Spec

\* No handle ever works from less than the newest checkpoint knows to be
\* done, unless a strict reset took it back.
THEOREM NoWorkLost == Spec => []DurableWorkKept
<1>1. Init => DurableWorkKept
    BY DEF Init, DurableWorkKept, Newest
<1>2. ASSUME IInv, DurableWorkKept, [Next]_vars PROVE DurableWorkKept'
    <2> USE <1>2 DEF DurableWorkKept, memory, tables, history
    <2>0. state \in AgentState /\ step \in Step
        BY DEF IInv, TypeOK
    <2>1. CASE SaveCheckpoint
        <3>1. Newest' = Newest + 1 /\ checkpoints'[Newest'].state = state
            BY <2>1 DEF SaveCheckpoint, Snapshot, IInv, TypeOK, Newest
        <3> QED
            BY <2>1, <3>1 DEF SaveCheckpoint
    <2>2. CASE SaveApproval \/ UpdateApproval \/ EndStepSync \/ NoteCheckpoint \/ UpdateRun
        BY <2>2 DEF SaveApproval, UpdateApproval, EndStepSync, NoteCheckpoint, UpdateRun,
           Newest
    <2>7. CASE WriteFails
        <3>1. live' => live
            BY <2>7 DEF WriteFails
        <3> QED
            BY <2>7, <3>1 DEF WriteFails, Newest
    <2>3. CASE HostCall
        BY <2>0, <2>3 DEF HostCall, Pause, RequestApproval, Approve, Reject, Decide,
           MarkGreen, MarkGreenId, TakeCheckpoint, ToolStep, Complete, Abort, Finish,
           AgentState, Newest
    <2>4. CASE PlanLoop
        <3>1. state.completed \subseteq state'.completed
            BY <2>0, <2>4, ZenonT(60) DEF PlanLoop, OpenLoop, FetchStep, LoopEnds, StepComplete, StepFail,
               LoopStops, LoopCompletes, LoopGoesOn, Break, Advanced, AgentState
        <3>2. UNCHANGED <<live, checkpoints, rewound>>
            BY <2>4 DEF PlanLoop, OpenLoop, FetchStep, LoopEnds, StepComplete, StepFail,
               LoopStops, LoopCompletes, LoopGoesOn, Break
        <3> QED
            BY <3>1, <3>2 DEF Newest
    <2>5. CASE Policies \/ Exit
        <3>1. CASE Resume
            BY <3>1 DEF Resume, ResumeId, Newest
        <3>2. CASE ApplyLoad
            BY <3>2 DEF ApplyLoad
        <3>3. CASE ApplyPolicies \/ ApplyAbort \/ ApplyHalt \/ EndPolicies
                   \/ (LoadMissing /\ live')
            <4>1. UNCHANGED <<live, state, checkpoints, rewound>>
                BY <3>3 DEF ApplyPolicies, ApplyAbort, ApplyHalt, EndPolicies, LoadMissing,
                   LoseHandle
            <4> QED
                BY <4>1 DEF Newest
        <3>4. CASE RaiseAbort \/ Exit \/ (LoadMissing /\ ~live')
            BY <3>4 DEF RaiseAbort, Exit, LoadMissing, LoseHandle
        <3> QED
            BY <2>5, <3>1, <3>2, <3>3, <3>4 DEF Policies
    <2>6. CASE UNCHANGED vars
        BY <2>6 DEF vars, Newest
    <2> QED
        BY <2>1, <2>2, <2>3, <2>4, <2>5, <2>6, <2>7 DEF Next, DurableWrite
<1>3. IInv /\ DurableWorkKept /\ [Next]_vars => DurableWorkKept'
    BY <1>2
<1> QED
    BY <1>1, <1>3, Invariance, PTL DEF Spec

-----------------------------------------------------------------------------

\* What the newest checkpoint has as completed.
DurablyCompleted == IF Newest = 0 THEN {} ELSE checkpoints[Newest].state.completed

\* Memory knows of a completion that the table lacks only on the way to the
\* checkpoint of that completion, and completions are calls in progress.
CompletionSaved ==
    /\ step.phase \in {"completing", "closing"} =>
           live /\ pc \in {"save_checkpoint", "note_checkpoint"}
    /\ live /\ rewound = 0 /\ state.completed # DurablyCompleted =>
           step.phase \in {"completing", "closing"} /\ pc = "save_checkpoint"

LEMMA NextCompletionSaved ==
    ASSUME IInv, CompletionSaved, [SureNext]_vars
    PROVE  CompletionSaved'
<1> USE DEF CompletionSaved, memory, tables, history
<1>0. state \in AgentState /\ step \in Step
    BY DEF IInv, TypeOK
<1>a. checkpoints' = checkpoints => DurablyCompleted' = DurablyCompleted
    BY DEF DurablyCompleted, Newest
<1>1. CASE SaveCheckpoint
    <2>1. Newest' # 0 /\ checkpoints'[Newest'].state = state
        BY <1>1 DEF SaveCheckpoint, Snapshot, IInv, TypeOK, Newest
    <2> QED
        BY <1>1, <2>1 DEF SaveCheckpoint, DurablyCompleted
<1>2. CASE SaveApproval \/ UpdateApproval \/ EndStepSync \/ UpdateRun
    BY <1>2, <1>a DEF SaveApproval, UpdateApproval, EndStepSync, UpdateRun
<1>3. CASE NoteCheckpoint
    <2>1. step'.phase \notin {"completing", "closing"}
        BY <1>3, <1>0 DEF NoteCheckpoint, Returned, NoStep, Step
    <2> QED
        BY <1>3, <1>a, <2>1 DEF NoteCheckpoint
<1>4. CASE HostCall
    <2>1. /\ state'.completed = state.completed
          /\ UNCHANGED <<live, step, checkpoints, rewound>>
        BY <1>0, <1>4 DEF HostCall, Pause, RequestApproval, Approve, Reject, Decide,
           MarkGreen, MarkGreenId, TakeCheckpoint, ToolStep, Complete, Abort, Finish,
           AgentState
    <2>2. live /\ pc = "idle" /\ step.phase \in {"none", "body"}
        BY <1>4 DEF HostCall, Pause, RequestApproval, Approve, Reject, Decide, MarkGreen,
           MarkGreenId, TakeCheckpoint, ToolStep, Complete, Abort, Finish, HostRuns, Idle
    <2> QED
        BY <1>a, <2>1, <2>2
<1>5. CASE FetchStep \/ LoopEnds \/ OpenLoop \/ StepFail \/ LoopStops \/ LoopGoesOn \/ Break
    <2>1. /\ state'.completed = state.completed
          /\ UNCHANGED <<live, checkpoints, rewound>> /\ pc = "idle"
        BY <1>0, <1>5 DEF FetchStep, LoopEnds, OpenLoop, StepFail, LoopStops, LoopGoesOn,
           Break, Idle, AgentState
    <2>2. step'.phase \in {"none", "top", "body"}
        <3>1. CASE FetchStep
            BY <3>1 DEF FetchStep, NoStep
        <3>2. CASE StepFail
            BY <1>0, <3>2 DEF StepFail, Step
        <3>3. CASE LoopEnds \/ OpenLoop \/ LoopStops \/ LoopGoesOn \/ Break
            BY <3>3 DEF LoopEnds, OpenLoop, LoopStops, LoopGoesOn, Break, NoStep
        <3> QED
            BY <1>5, <3>1, <3>2, <3>3
    <2> QED
        BY <1>a, <2>1, <2>2
<1>6. CASE StepComplete \/ LoopCompletes
    BY <1>0, <1>6 DEF StepComplete, LoopCompletes, Idle, Step
<1>7. CASE Resume
    <2>1. state'.completed = DurablyCompleted /\ checkpoints' = checkpoints
        BY <1>7 DEF Resume, ResumeId, DurablyCompleted, Newest
    <2> QED
        BY <1>7, <1>a, <2>1 DEF Resume
<1>8. CASE ApplyLoad
    BY <1>8 DEF ApplyLoad, Routing
<1>9. CASE ApplyPolicies \/ ApplyAbort \/ ApplyHalt \/ EndPolicies
    BY <1>9, <1>a DEF ApplyPolicies, ApplyAbort, ApplyHalt, EndPolicies, HostRuns, Idle,
       Routing
<1>10. CASE RaiseAbort \/ LoadMissing \/ Exit
    BY <1>10, <1>a DEF RaiseAbort, LoadMissing, Exit, LoseHandle, Routing, NoStep
<1>11. CASE UNCHANGED vars
    BY <1>11, <1>a DEF vars
<1> QED
    BY <1>1, <1>2, <1>3, <1>4, <1>5, <1>6, <1>7, <1>8, <1>9, <1>10, <1>11
    DEF SureNext, SureWrite, PlanLoop, Policies

\* While commits succeed, a completion that has returned is in the newest
\* checkpoint, and the newest checkpoint has no completion memory lacks: the
\* two differ only inside a completion and after a strict reset.
THEOREM CompletionsAreDurable == ~WritesMayFail => (Spec => []CompletedIsDurable)
<1> SUFFICES ASSUME ~WritesMayFail PROVE Spec => []CompletedIsDurable
    OBVIOUS
<1>1. Init => CompletionSaved
    BY DEF Init, CompletionSaved, DurablyCompleted, FreshState, NoStep, Newest
<1>2. IInv /\ CompletionSaved /\ [Next]_vars => CompletionSaved'
    BY NextIsSure, NextCompletionSaved
<1>3. CompletionSaved => CompletedIsDurable
    BY DEF CompletionSaved, CompletedIsDurable, DurablyCompleted, Idle
<1> QED
    BY <1>1, <1>2, <1>3, Invariance, PTL DEF Spec

-----------------------------------------------------------------------------
(* The plan cursor, for plans without repeated names and hosts that do not *)
(* let a policy reset the run from inside the loop.                        *)

DistinctNames == \A i, j \in 1..N : Plan[i] = Plan[j] => i = j

NoResetInLoop == "apply_policies" \notin Calls \/ "load_checkpoint" \notin Outcomes

\* The step in the body, or being completed, is at the cursor or behind it.
StepAtCursor ==
    step.phase \in {"body", "completing", "closing"} => step.index <= state.planIndex

\* There is no loop without a handle, and the host has none before resume
\* returns.  Policies are applied elsewhere only if the host asks for it.
NoLoopInResume ==
    /\ ~live \/ routing \in {"resume", "raise"} => step.phase = "none"
    /\ routing = "apply" => "apply_policies" \in Calls

\* A strict reset may put memory behind a step in the body; this excludes
\* it, and with it the cursor is the number of completed names.
CursorInv == IInv /\ CursorIsCompletedPrefix /\ StepAtCursor /\ NoLoopInResume

\* With distinct names the position at the cursor is open.
LEMMA CursorOpen ==
    ASSUME DistinctNames, NEW s \in AgentState, IsPrefix(s)
    PROVE  \A i \in s.planIndex..(N - 1) : Plan[i + 1] \notin s.completed
<1>1. s.planIndex \in 0..N
    BY DEF AgentState
<1> QED
    BY <1>1, NType DEF DistinctNames, IsPrefix

\* Completing the step at the cursor or behind it keeps the prefix.
LEMMA AdvancedPrefix ==
    ASSUME NEW s \in AgentState, IsPrefix(s), NEW i \in 0..N, i < N, i <= s.planIndex
    PROVE  /\ IsPrefix(Advanced(s, i))
           /\ i <= Advanced(s, i).planIndex
           /\ Advanced(s, i).planIndex = IF i = s.planIndex THEN i + 1 ELSE s.planIndex
<1>1. s.planIndex \in 0..N /\ s.completed = {Plan[k] : k \in 1..s.planIndex}
    BY DEF AgentState, IsPrefix
<1>2. /\ Advanced(s, i).completed = s.completed \cup {Plan[i + 1]}
      /\ Advanced(s, i).planIndex = IF s.planIndex > i THEN s.planIndex ELSE i + 1
    BY DEF Advanced, AgentState
<1>3. CASE i = s.planIndex
    <2>1. Advanced(s, i).planIndex = i + 1
        BY <1>1, <1>2, <1>3, NType
    <2>2. s.completed \cup {Plan[i + 1]} = {Plan[k] : k \in 1..(i + 1)}
        BY <1>1, <1>3, NType
    <2> QED
        BY <1>2, <1>3, <2>1, <2>2, NType DEF IsPrefix
<1>4. CASE i < s.planIndex
    <2>1. Advanced(s, i).planIndex = s.planIndex
        BY <1>1, <1>2, <1>4, NType
    <2>2. s.completed \cup {Plan[i + 1]} = s.completed
        BY <1>1, <1>4, NType
    <2> QED
        BY <1>1, <1>2, <1>4, <2>1, <2>2, NType DEF IsPrefix
<1> QED
    BY <1>1, <1>3, <1>4, NType

LEMMA WriteCursor ==
    ASSUME CursorInv, DurableWrite, IInv'
    PROVE  CursorInv'
<1> USE DEF CursorInv, StepAtCursor, NoLoopInResume, memory, tables, history
<1>1. CASE SaveApproval \/ UpdateApproval \/ EndStepSync \/ UpdateRun
    BY <1>1 DEF SaveApproval, UpdateApproval, EndStepSync, UpdateRun,
       CursorIsCompletedPrefix, Newest
<1>2. CASE SaveCheckpoint
    <2>1. /\ Newest' = Newest + 1 /\ Newest \in Nat
          /\ \A i \in 1..Newest : checkpoints'[i] = checkpoints[i]
          /\ checkpoints'[Newest + 1].state = state
        BY <1>2 DEF SaveCheckpoint, Snapshot, IInv, TypeOK, Newest
    <2>2. state' = state /\ IsPrefix(state)
        BY <1>2 DEF SaveCheckpoint, CursorIsCompletedPrefix
    <2>3. ASSUME NEW i \in 1..Newest' PROVE IsPrefix(checkpoints'[i].state)
        <3>1. CASE i \in 1..Newest
            BY <2>1, <3>1 DEF CursorIsCompletedPrefix
        <3>2. CASE i = Newest + 1
            BY <2>1, <2>2, <3>2
        <3> QED
            BY <2>1, <3>1, <3>2
    <2>4. CursorIsCompletedPrefix'
        BY <2>2, <2>3 DEF CursorIsCompletedPrefix
    <2> QED
        BY <1>2, <2>4 DEF SaveCheckpoint
<1>3. CASE NoteCheckpoint
    <2>1. /\ step'.phase \in {"body", "completing", "closing"} =>
                step.phase \in {"body", "completing", "closing"} /\ step'.index = step.index
          /\ step.phase = "none" => step'.phase = "none"
        BY <1>3 DEF NoteCheckpoint, Returned, NoStep, IInv, TypeOK, Step
    <2> QED
        BY <1>3, <2>1 DEF NoteCheckpoint, CursorIsCompletedPrefix, Newest
<1>4. CASE WriteFails
    <2>1. CursorIsCompletedPrefix'
        BY <1>4 DEF WriteFails, CursorIsCompletedPrefix, IsPrefix, FreshState, Newest
    <2>2. CASE step' = NoStep
        BY <1>4, <2>1, <2>2 DEF WriteFails, NoStep
    <2>3. CASE /\ step' = [step EXCEPT !.phase = "body"] /\ live'
               /\ step.phase \in {"body", "completing"}
        <3>1. step'.index = step.index /\ state' = state
            BY <1>4, <2>3 DEF WriteFails, IInv, TypeOK, Step
        <3> QED
            BY <1>4, <2>1, <2>3, <3>1 DEF WriteFails
    <2> QED
        BY <1>4, <2>2, <2>3 DEF WriteFails
<1> QED
    BY <1>1, <1>2, <1>3, <1>4 DEF DurableWrite

LEMMA HostCursor ==
    ASSUME CursorInv, HostCall, IInv'
    PROVE  CursorInv'
<1>1. state \in AgentState
    BY DEF CursorInv, IInv, TypeOK
<1>2. state'.planIndex = state.planIndex /\ state'.completed = state.completed
    BY <1>1 DEF HostCall, Pause, RequestApproval, Approve, Reject, Decide, MarkGreen,
       MarkGreenId, TakeCheckpoint, ToolStep, Complete, Abort, Finish, AgentState, memory
<1>3. UNCHANGED <<step, checkpoints, live, routing>>
    BY DEF HostCall, Pause, RequestApproval, Approve, Reject, Decide, MarkGreen,
       MarkGreenId, TakeCheckpoint, ToolStep, Complete, Abort, Finish, tables
<1> QED
    BY <1>2, <1>3 DEF CursorInv, CursorIsCompletedPrefix, IsPrefix, StepAtCursor,
       NoLoopInResume, Newest

\* Fetching the next step does not move the cursor.
LEMMA FetchAtCursor ==
    ASSUME DistinctNames, CursorInv, FetchStep \/ LoopEnds
    PROVE  /\ state' = state
           /\ FetchStep => step'.phase = "body" /\ step'.index = state.planIndex
<1>1. state \in AgentState /\ IsPrefix(state) /\ state.planIndex \in 0..N
    BY DEF CursorInv, IInv, TypeOK, CursorIsCompletedPrefix, AgentState
<1>2. OpenPositions = state.planIndex..(N - 1)
    BY <1>1, CursorOpen DEF OpenPositions
<1>3. CASE FetchStep
    <2>1. PICK i \in OpenPositions :
            /\ \A j \in OpenPositions : i <= j
            /\ state' = [state EXCEPT !.planIndex = i]
            /\ step' = [NoStep EXCEPT !.phase = "body", !.index = i]
        BY <1>3 DEF FetchStep
    <2>2. i = state.planIndex
        BY <1>1, <1>2, <2>1, NType
    <2>3. step'.phase = "body" /\ step'.index = i
        BY <2>1 DEF NoStep
    <2>4. state' = state
        BY <1>1, <2>1, <2>2 DEF AgentState
    <2> QED
        BY <2>2, <2>3, <2>4
<1>4. CASE LoopEnds
    <2>1. CASE run.status \in LoopStopsAtTop
        BY <1>4, <2>1 DEF LoopEnds, FetchStep
    <2>2. CASE run.status \notin LoopStopsAtTop
        <3>1. state' = [state EXCEPT !.planIndex = N] /\ OpenPositions = {}
            BY <1>4, <2>2 DEF LoopEnds
        <3>2. state.planIndex = N
            BY <1>1, <1>2, <3>1, NType
        <3>3. state' = state
            BY <1>1, <3>1, <3>2 DEF AgentState
        <3>4. ~FetchStep
            BY <3>1 DEF FetchStep
        <3> QED
            BY <3>3, <3>4
    <2> QED
        BY <2>1, <2>2
<1> QED
    BY <1>3, <1>4

LEMMA LoopCursor ==
    ASSUME DistinctNames, CursorInv, PlanLoop, IInv'
    PROVE  CursorInv'
<1>0. state \in AgentState /\ IsPrefix(state) /\ state.planIndex \in 0..N
    BY DEF CursorInv, IInv, TypeOK, CursorIsCompletedPrefix, AgentState
<1> USE DEF CursorInv, StepAtCursor, NoLoopInResume, CursorIsCompletedPrefix, memory,
        tables, history, Newest, Idle
<1>1. CASE OpenLoop \/ LoopStops \/ LoopGoesOn \/ Break
    BY <1>1 DEF OpenLoop, LoopStops, LoopGoesOn, Break, NoStep
<1>2. CASE FetchStep
    <2>1. state' = state /\ step'.index = state.planIndex
        BY <1>2, FetchAtCursor
    <2> QED
        BY <1>0, <1>2, <2>1 DEF FetchStep
<1>3. CASE LoopEnds
    BY <1>3, FetchAtCursor DEF LoopEnds, NoStep
<1>4. CASE StepComplete \/ LoopCompletes
    <2>1. step.index \in 0..N /\ step.index < N /\ step.index <= state.planIndex
        BY <1>4 DEF StepComplete, LoopCompletes, IInv, TypeOK, Step, StepInPlan
    <2>2. IsPrefix(state') /\ step.index <= state'.planIndex
        BY <1>0, <1>4, <2>1, AdvancedPrefix DEF StepComplete, LoopCompletes
    <2>3. step'.index = step.index
        BY <1>4 DEF StepComplete, LoopCompletes, IInv, TypeOK, Step
    <2> QED
        BY <1>4, <2>2, <2>3 DEF StepComplete, LoopCompletes
<1>5. CASE StepFail
    BY <1>5 DEF StepFail, IInv, TypeOK, Step
<1> QED
    BY <1>1, <1>2, <1>3, <1>4, <1>5 DEF PlanLoop

LEMMA PolicyCursor ==
    ASSUME NoResetInLoop, CursorInv, Policies, IInv'
    PROVE  CursorInv'
<1> USE DEF CursorInv, StepAtCursor, NoLoopInResume, CursorIsCompletedPrefix, memory,
        tables, history
<1>1. CASE Resume
    <2>1. Newest \in 1..Newest
        BY <1>1 DEF Resume, Newest, IInv, TypeOK, Ids
    <2> QED
        BY <1>1, <2>1 DEF Resume, ResumeId, Newest
<1>2. CASE ApplyPolicies \/ ApplyAbort \/ ApplyHalt \/ EndPolicies
    BY <1>2 DEF ApplyPolicies, ApplyAbort, ApplyHalt, EndPolicies, HostRuns, Idle,
       Routing, Newest
<1>3. CASE ApplyLoad
    <2>1. target \in 1..Newest
        BY <1>3 DEF ApplyLoad
    <2>2. routing = "resume" /\ step.phase = "none"
        BY <1>3 DEF ApplyLoad, Routing, NoResetInLoop
    <2> QED
        BY <1>3, <2>1, <2>2 DEF ApplyLoad, Newest
<1>4. CASE RaiseAbort \/ LoadMissing
    BY <1>4 DEF RaiseAbort, LoadMissing, LoseHandle, NoStep, FreshState, IsPrefix, Newest
<1> QED
    BY <1>1, <1>2, <1>3, <1>4 DEF Policies

LEMMA NextCursor ==
    DistinctNames /\ NoResetInLoop /\ CursorInv /\ [Next]_vars => CursorInv'
<1> SUFFICES ASSUME DistinctNames, NoResetInLoop, CursorInv, [Next]_vars
             PROVE  CursorInv'
    OBVIOUS
<1>0. IInv'
    BY NextIInv DEF CursorInv
<1>1. CASE Exit
    BY <1>0, <1>1 DEF Exit, LoseHandle, CursorInv, StepAtCursor, NoLoopInResume,
       CursorIsCompletedPrefix, tables, NoStep, FreshState, IsPrefix, Newest
<1>2. CASE UNCHANGED vars
    BY <1>0, <1>2 DEF vars, memory, tables, history, CursorInv, StepAtCursor, NoLoopInResume,
       CursorIsCompletedPrefix, Newest
<1> QED
    BY <1>0, <1>1, <1>2, WriteCursor, HostCursor, LoopCursor, PolicyCursor DEF Next

LEMMA InitCursor == Init => CursorInv
<1>1. Init => IInv
    BY InitIInv
<1> QED
    BY <1>1 DEF Init, CursorInv, StepAtCursor, NoLoopInResume, CursorIsCompletedPrefix,
       NoStep, FreshState, IsPrefix, Newest

LEMMA CursorInvariance == DistinctNames /\ NoResetInLoop => (Spec => []CursorInv)
<1> SUFFICES ASSUME DistinctNames, NoResetInLoop PROVE Spec => []CursorInv
    OBVIOUS
<1>1. CursorInv /\ [Next]_vars => CursorInv'
    BY NextCursor
<1> QED
    BY <1>1, InitCursor, PTL DEF Spec

\* The completed steps are exactly those before the cursor, in memory and in
\* every checkpoint, whatever fails and wherever the process dies.
THEOREM CompletedBeforeCursor ==
    DistinctNames /\ NoResetInLoop => (Spec => []CursorIsCompletedPrefix)
<1> SUFFICES ASSUME DistinctNames, NoResetInLoop PROVE Spec => []CursorIsCompletedPrefix
    OBVIOUS
<1>1. CursorInv => CursorIsCompletedPrefix
    BY DEF CursorInv
<1> QED
    BY <1>1, CursorInvariance, PTL

\* The loop never passes over a position whose step it has not run.
THEOREM NothingPassedOver ==
    DistinctNames /\ NoResetInLoop => (Spec => EveryPositionYielded)
<1> SUFFICES ASSUME DistinctNames, NoResetInLoop PROVE Spec => EveryPositionYielded
    OBVIOUS
<1>1. ASSUME CursorInv, [Next]_vars PROVE [PassesYielded]_vars
    <2> SUFFICES ASSUME live, live', routing = "off" , Next
                 PROVE  \A i \in state.planIndex..(state'.planIndex - 1) :
                           step.phase = "body" /\ step.index = i
        BY <1>1 DEF PassesYielded
    <2>0. state \in AgentState /\ state.planIndex \in 0..N /\ IsPrefix(state)
        BY <1>1 DEF CursorInv, IInv, TypeOK, AgentState, CursorIsCompletedPrefix
    <2>1. CASE state'.planIndex = state.planIndex
        BY <2>0, <2>1, NType
    <2>2. CASE DurableWrite
        BY <2>1, <2>2 DEF DurableWrite, SaveApproval, UpdateApproval, EndStepSync,
           SaveCheckpoint, NoteCheckpoint, UpdateRun, WriteFails, memory
    <2>3. CASE HostCall
        BY <2>0, <2>1, <2>3 DEF HostCall, Pause, RequestApproval, Approve, Reject,
           Decide, MarkGreen, MarkGreenId, TakeCheckpoint, ToolStep, Complete, Abort,
           Finish, AgentState, memory
    <2>4. CASE FetchStep \/ LoopEnds
        BY <1>1, <2>1, <2>4, FetchAtCursor
    <2>5. CASE StepComplete \/ LoopCompletes
        <3>1. /\ step.phase = "body" /\ step.index \in 0..N /\ step.index < N
              /\ step.index <= state.planIndex
            BY <1>1, <2>5 DEF CursorInv, IInv, TypeOK, Step, StepInPlan, StepAtCursor,
               StepComplete, LoopCompletes
        <3>2. state'.planIndex = IF step.index = state.planIndex THEN step.index + 1
                                 ELSE state.planIndex
            BY <2>0, <2>5, <3>1, AdvancedPrefix DEF StepComplete, LoopCompletes
        <3> QED
            BY <2>0, <3>1, <3>2, NType
    <2>6. CASE OpenLoop \/ StepFail \/ LoopStops \/ LoopGoesOn \/ Break
        BY <2>1, <2>6 DEF OpenLoop, StepFail, LoopStops, LoopGoesOn, Break, memory
    <2>7. CASE Policies \/ Exit
        BY <2>1, <2>7 DEF Policies, Resume, ApplyPolicies, ApplyAbort, ApplyLoad, LoadMissing,
           ApplyHalt, EndPolicies, RaiseAbort, Routing, Exit, LoseHandle, memory
    <2> QED
        BY <2>2, <2>3, <2>4, <2>5, <2>6, <2>7 DEF Next, PlanLoop
<1>2. CursorInv /\ [Next]_vars => [PassesYielded]_vars
    BY <1>1
<1> QED
    BY <1>2, CursorInvariance, PTL DEF Spec, EveryPositionYielded

-----------------------------------------------------------------------------
(* Refinement: the newest checkpoint is a DurablePlan.                     *)

MayReset == "load_checkpoint" \in Outcomes
Cursor == CursorOf(Newest)
Recorded == {CursorOf(i) : i \in 0..Newest}

\* The position work goes on from.
Base == CursorOf(IF rewound = 0 THEN Newest ELSE rewound)

\* Between two completions memory holds that position; a completion on its
\* way to the table holds the next one, or this one if the step was behind
\* the cursor already.
Completing == pc = "save_checkpoint" /\ step.phase \in {"completing", "closing"}
MemoryAtBase ==
    /\ live /\ ~Completing => state.planIndex = Base
    /\ live /\ Completing =>
           state.planIndex = Base \/ (Base < N /\ state.planIndex = Base + 1)

\* A call belongs to a process, and a completion to a call.
CompletionInCall ==
    /\ pc # "idle" => live
    /\ step.phase \in {"completing", "closing"} => pc \in {"save_checkpoint", "note_checkpoint"}

PlanInv == CursorInv /\ MemoryAtBase /\ CompletionInCall

\* A checkpoint taken adds the cursor of memory, makes it the durable one and
\* the one work goes on from.
LEMMA SaveCursor ==
    ASSUME IInv, SaveCheckpoint
    PROVE  /\ Cursor' = state.planIndex /\ Base' = state.planIndex
           /\ Recorded' = Recorded \cup {state.planIndex}
<1>1. /\ Newest' = Newest + 1 /\ Newest \in Nat
      /\ \A i \in 1..Newest : checkpoints'[i] = checkpoints[i]
      /\ checkpoints'[Newest + 1].state = state
      /\ rewound' = 0
    BY DEF SaveCheckpoint, Snapshot, IInv, TypeOK, Newest
<1>2. \A i : i = Newest + 1 => CursorOf(i)' = state.planIndex
    BY <1>1 DEF CursorOf
<1>3. \A i \in 0..Newest : CursorOf(i)' = CursorOf(i)
    BY <1>1 DEF CursorOf
<1>4. Recorded' = Recorded \cup {state.planIndex}
    <2>1. 0..Newest' = 0..Newest \cup {Newest + 1}
        BY <1>1
    <2> HIDE DEF CursorOf
    <2> QED
        BY <1>2, <1>3, <2>1 DEF Recorded
<1> QED
    BY <1>1, <1>2, <1>4 DEF Cursor, Base

LEMMA SameTable ==
    ASSUME checkpoints' = checkpoints
    PROVE  /\ Cursor' = Cursor /\ Recorded' = Recorded
           /\ rewound' = rewound => Base' = Base
           /\ rewound' = 0 => Base' = Cursor
BY DEF Cursor, Recorded, Base, CursorOf, Newest

LEMMA NextPlanInv ==
    ASSUME DistinctNames, NoResetInLoop, PlanInv, [SureNext]_vars
    PROVE  PlanInv'
<1>0. CursorInv' /\ IInv /\ CursorInv
    BY SureIsNext, NextCursor DEF PlanInv, CursorInv
<1>a. state \in AgentState /\ state.planIndex \in 0..N /\ IsPrefix(state) /\ step \in Step
    BY <1>0 DEF IInv, TypeOK, AgentState, CursorInv, CursorIsCompletedPrefix
<1> USE DEF PlanInv, MemoryAtBase, CompletionInCall, Completing, memory, tables, history
<1>1. CASE SaveCheckpoint
    <2>1. Base' = state.planIndex /\ state' = state
        BY <1>0, <1>1, SaveCursor DEF SaveCheckpoint
    <2> QED
        BY <1>0, <1>1, <2>1 DEF SaveCheckpoint
<1>2. CASE NoteCheckpoint
    <2>1. step'.phase \notin {"completing", "closing"}
        BY <1>2, <1>a DEF NoteCheckpoint, Returned, NoStep, Step
    <2> QED
        BY <1>0, <1>2, <2>1, SameTable DEF NoteCheckpoint
<1>3. CASE SaveApproval \/ UpdateApproval \/ EndStepSync \/ UpdateRun
    BY <1>0, <1>3, SameTable DEF SaveApproval, UpdateApproval, EndStepSync, UpdateRun
<1>4. CASE HostCall
    <2>1. /\ state'.planIndex = state.planIndex
          /\ UNCHANGED <<step, checkpoints, live, rewound>>
        BY <1>4, <1>a DEF HostCall, Pause, RequestApproval, Approve, Reject, Decide,
           MarkGreen, MarkGreenId, TakeCheckpoint, ToolStep, Complete, Abort, Finish,
           AgentState
    <2>2. live /\ pc = "idle" /\ step.phase \in {"none", "body"}
        BY <1>4 DEF HostCall, Pause, RequestApproval, Approve, Reject, Decide, MarkGreen,
           MarkGreenId, TakeCheckpoint, ToolStep, Complete, Abort, Finish, HostRuns, Idle
    <2> QED
        BY <1>0, <2>1, <2>2, SameTable
<1>5. CASE FetchStep \/ LoopEnds
    <2>1. state' = state
        BY <1>0, <1>5, FetchAtCursor
    <2>2. step'.phase \in {"body", "none"}
        BY <1>0, <1>5, FetchAtCursor DEF LoopEnds, NoStep
    <2>3. pc = "idle" /\ UNCHANGED <<pc, live, checkpoints, rewound>>
        BY <1>5 DEF FetchStep, LoopEnds, Idle
    <2> QED
        BY <1>0, <2>1, <2>2, <2>3, SameTable
<1>6. CASE StepComplete \/ LoopCompletes
    <2>1. /\ step.index \in 0..N /\ step.index < N /\ step.index <= state.planIndex
          /\ pc = "idle" /\ live
        BY <1>0, <1>6, <1>a DEF CursorInv, IInv, Step, StepInPlan, StepAtCursor,
           StepComplete, LoopCompletes, Idle
    <2>2. state'.planIndex = IF step.index = state.planIndex THEN step.index + 1
                             ELSE state.planIndex
        BY <1>6, <1>a, <2>1, AdvancedPrefix DEF StepComplete, LoopCompletes
    <2>3. state.planIndex = Base /\ Base \in 0..N
        BY <1>a, <2>1
    <2>4. /\ pc' = "save_checkpoint" /\ live' /\ UNCHANGED <<checkpoints, rewound>>
          /\ step'.phase \in {"completing", "closing"}
        BY <1>6, <1>a, <2>1 DEF StepComplete, LoopCompletes, Step
    <2> QED
        BY <1>0, <2>1, <2>2, <2>3, <2>4, SameTable, NType
<1>7. CASE OpenLoop \/ StepFail \/ LoopStops \/ LoopGoesOn \/ Break
    BY <1>0, <1>7, <1>a, SameTable
    DEF OpenLoop, StepFail, LoopStops, LoopGoesOn, Break, NoStep, Idle, Step
<1>8. CASE Resume
    <2>1. /\ state'.planIndex = Cursor /\ checkpoints' = checkpoints
          /\ pc' = "update_run" /\ live' /\ rewound' = 0
        BY <1>8 DEF Resume, ResumeId, Cursor, CursorOf, Newest
    <2>2. step' = step /\ step.phase = "none"
        BY <1>0, <1>8 DEF Resume, CursorInv, NoLoopInResume
    <2> QED
        BY <1>0, <2>1, <2>2, SameTable
<1>9. CASE ApplyLoad
    <2>1. /\ state'.planIndex = checkpoints[target].state.planIndex
          /\ checkpoints' = checkpoints /\ pc' = "update_run" /\ pc = "idle"
          /\ live /\ live' /\ step' = step /\ rewound' = target /\ target # 0
        BY <1>9 DEF ApplyLoad, Routing
    <2>2. state'.planIndex = Base'
        BY <2>1 DEF Base, CursorOf
    <2> QED
        BY <1>0, <2>1, <2>2
<1>10. CASE ApplyPolicies \/ ApplyAbort \/ ApplyHalt \/ EndPolicies
    BY <1>0, <1>10, SameTable
    DEF ApplyPolicies, ApplyAbort, ApplyHalt, EndPolicies, HostRuns, Idle, Routing
<1>11. CASE RaiseAbort \/ Exit
    BY <1>0, <1>11 DEF RaiseAbort, Exit, LoseHandle, NoStep
<1>13. CASE LoadMissing
    <2>1. CASE routing = "resume"
        BY <1>0, <1>13, <2>1 DEF LoadMissing, LoseHandle, NoStep
    <2>2. CASE routing # "resume"
        BY <1>0, <1>13, <2>2, SameTable DEF LoadMissing, Routing, NoStep
    <2> QED
        BY <2>1, <2>2
<1>12. CASE UNCHANGED vars
    BY <1>0, <1>12, SameTable DEF vars
<1> QED
    BY <1>1, <1>2, <1>3, <1>4, <1>5, <1>6, <1>7, <1>8, <1>9, <1>10, <1>11, <1>12, <1>13
    DEF SureNext, SureWrite, PlanLoop, Policies

LEMMA InitPlanInv == Init => PlanInv /\ Durable!Init
<1>1. Init => CursorInv
    BY InitCursor
<1> QED
    BY <1>1, NType DEF Init, PlanInv, MemoryAtBase, Completing, CompletionInCall, Base,
       CursorOf, Durable!Init, NoStep, FreshState, Newest

\* What a step does to the checkpoints, and to what a reset put into memory.
LEMMA RewindSteps ==
    ASSUME [Next]_vars
    PROVE  \/ SaveCheckpoint
           \/ ApplyLoad /\ checkpoints' = checkpoints
           \/ checkpoints' = checkpoints /\ rewound' \in {0, rewound}
<1> USE DEF memory, tables, history
<1>1. CASE DurableWrite
    BY <1>1 DEF DurableWrite, SaveApproval, UpdateApproval, EndStepSync, NoteCheckpoint,
       UpdateRun, WriteFails
<1>2. CASE HostCall
    BY <1>2 DEF HostCall, Pause, RequestApproval, Approve, Reject, Decide, MarkGreen,
       MarkGreenId, TakeCheckpoint, ToolStep, Complete, Abort, Finish
<1>3. CASE PlanLoop
    BY <1>3 DEF PlanLoop, OpenLoop, FetchStep, LoopEnds, StepComplete, StepFail, LoopStops,
       LoopCompletes, LoopGoesOn, Break
<1>4. CASE Policies
    BY <1>4 DEF Policies, Resume, ApplyPolicies, ApplyAbort, ApplyLoad, LoadMissing,
       ApplyHalt, EndPolicies, RaiseAbort, LoseHandle
<1>5. CASE Exit \/ UNCHANGED vars
    BY <1>5 DEF Exit, LoseHandle, vars
<1> QED
    BY <1>1, <1>2, <1>3, <1>4, <1>5 DEF Next

LEMMA NextDurable ==
    ASSUME PlanInv, [Next]_vars
    PROVE  [Durable!Next]_(Durable!vars)
<1>0. IInv
    BY DEF PlanInv, CursorInv
<1>1. CASE SaveCheckpoint
    <2>1. Cursor' = state.planIndex /\ Base' = Cursor' /\ Recorded' = Recorded \cup {Cursor'}
        BY <1>0, <1>1, SaveCursor
    <2>2. state.planIndex = Base \/ (Base < N /\ state.planIndex = Base + 1)
        BY <1>1 DEF PlanInv, MemoryAtBase, CompletionInCall, SaveCheckpoint
    <2> QED
        BY <2>1, <2>2 DEF Durable!Next, Durable!Advance, Durable!Record, Durable!Recorded,
           Base, Cursor, Recorded
<1>2. CASE ApplyLoad /\ checkpoints' = checkpoints
    <2>1. target \in 0..Newest /\ target # 0 /\ rewound' = target /\ MayReset
        BY <1>2 DEF ApplyLoad, MayReset, Newest
    <2>2. Base' = CursorOf(target)
        BY <1>2, <2>1 DEF Base, CursorOf
    <2>3. Base' \in Recorded /\ Cursor' = Cursor /\ Recorded' = Recorded
        BY <1>2, <2>1, <2>2, SameTable DEF Recorded
    <2> QED
        BY <2>1, <2>3 DEF Durable!Next, Durable!Reset, Base, Cursor, Recorded, MayReset
<1>3. CASE checkpoints' = checkpoints /\ rewound' \in {0, rewound}
    <2>1. Cursor' = Cursor /\ Recorded' = Recorded /\ Base' \in {Base, Cursor}
        BY <1>3, SameTable
    <2> QED
        BY <2>1 DEF Durable!Next, Durable!Forget, Durable!vars, Base, Cursor, Recorded
<1> QED
    BY <1>1, <1>2, <1>3, RewindSteps

\* While commits succeed the checkpoints table is a durable cursor that moves
\* one completed step at a time; it goes back only to the checkpoint that a
\* strict reset put into memory, and only by work of the process that reset.
THEOREM TableIsDurablePlan ==
    DistinctNames /\ NoResetInLoop /\ ~WritesMayFail => (Spec => ImplementsDurablePlan)
<1> SUFFICES ASSUME DistinctNames, NoResetInLoop, ~WritesMayFail
             PROVE  Spec => ImplementsDurablePlan
    OBVIOUS
<1>1. Init => PlanInv /\ Durable!Init
    BY InitPlanInv
<1>2. PlanInv /\ [Next]_vars => PlanInv'
    BY NextIsSure, NextPlanInv
<1>3. PlanInv /\ [Next]_vars => [Durable!Next]_(Durable!vars)
    BY NextDurable
<1> QED
    BY <1>1, <1>2, <1>3, PTL DEF Spec, ImplementsDurablePlan, Durable!Spec

\* Where no policy answers with a strict reset, the cursor of the newest
\* checkpoint never goes back, over any number of crashes and resumes, and a
\* checkpoint moves it by one step at most.
THEOREM CursorNeverGoesBack ==
    DistinctNames /\ ~WritesMayFail /\ "load_checkpoint" \notin Outcomes =>
        (Spec => [][Cursor' = Cursor + 1]_Cursor)
<1> DEFINE NoReset == rewound = 0
<1> SUFFICES ASSUME DistinctNames, ~WritesMayFail, "load_checkpoint" \notin Outcomes
             PROVE  Spec => [][Cursor' = Cursor + 1]_Cursor
    OBVIOUS
<1>0. NoResetInLoop
    BY DEF NoResetInLoop
<1>1. Init => PlanInv
    BY InitPlanInv
<1>2. PlanInv /\ [Next]_vars => PlanInv'
    BY <1>0, NextIsSure, NextPlanInv
<1>3. Init => NoReset
    BY DEF Init
<1>4. NoReset /\ [Next]_vars => NoReset'
    <2>1. ~ApplyLoad
        BY DEF ApplyLoad
    <2>2. SaveCheckpoint => rewound' = 0
        BY DEF SaveCheckpoint
    <2> QED
        BY <2>1, <2>2, RewindSteps
<1>5. PlanInv /\ NoReset /\ [Next]_vars => [Cursor' = Cursor + 1]_Cursor
    <2> SUFFICES ASSUME PlanInv, NoReset, [Next]_vars
                 PROVE  Cursor' \in {Cursor, Cursor + 1}
        OBVIOUS
    <2>1. CASE SaveCheckpoint
        <3>1. IInv /\ Base = Cursor
            BY DEF PlanInv, CursorInv, Base, Cursor
        <3>2. state.planIndex = Base \/ (Base < N /\ state.planIndex = Base + 1)
            BY <2>1 DEF PlanInv, MemoryAtBase, CompletionInCall, SaveCheckpoint
        <3> QED
            BY <2>1, <3>1, <3>2, SaveCursor
    <2>2. CASE checkpoints' = checkpoints
        BY <2>2, SameTable
    <2> QED
        BY <2>1, <2>2, RewindSteps
<1> QED
    BY <1>1, <1>2, <1>3, <1>4, <1>5, PTL DEF Spec
-----------------------------------------------------------------------------
(* The approval gate: while commits succeed, no process ever runs a run    *)
(* whose approval is pending, unless a pause, a halt or a strict reset     *)
(* overrode it.  The argument goes through the tables, because a crash     *)
(* leaves nothing else: whatever the newest checkpoint and the row say     *)
(* together, resume answers with a status that is not RUNNING.             *)

\* The handle's record differs from the row only inside a call.
RowMirrored == live /\ pc = "idle" => runs = run

LEMMA NextRowMirrored == RowMirrored /\ [SureNext]_vars => RowMirrored'
<1> SUFFICES ASSUME RowMirrored, [SureNext]_vars PROVE RowMirrored'
    OBVIOUS
<1> USE DEF RowMirrored, memory, tables, history
<1>1. CASE SureWrite
    BY <1>1 DEF SureWrite, SaveApproval, UpdateApproval, EndStepSync,
       SaveCheckpoint, NoteCheckpoint, UpdateRun
<1>2. CASE HostCall
    BY <1>2 DEF HostCall, Pause, RequestApproval, Approve, Reject, Decide, MarkGreen,
       MarkGreenId, TakeCheckpoint, ToolStep, Complete, Abort, Finish
<1>3. CASE PlanLoop
    BY <1>3 DEF PlanLoop, OpenLoop, FetchStep, LoopEnds, StepComplete, StepFail,
       LoopStops, LoopCompletes, LoopGoesOn, Break, Idle
<1>4. CASE Policies
    BY <1>4 DEF Policies, Resume, ApplyPolicies, ApplyAbort, ApplyLoad, LoadMissing,
       ApplyHalt, EndPolicies, RaiseAbort, LoseHandle, HostRuns, Idle, Routing
<1>5. CASE Exit
    BY <1>5 DEF Exit, LoseHandle
<1>6. CASE UNCHANGED vars
    BY <1>6 DEF vars
<1> QED
    BY <1>1, <1>2, <1>3, <1>4, <1>5, <1>6 DEF SureNext

LEMMA RowMirroredInvariance == ~WritesMayFail => (Spec => []RowMirrored)
<1> SUFFICES ASSUME ~WritesMayFail PROVE Spec => []RowMirrored
    OBVIOUS
<1>1. Init => RowMirrored
    BY DEF Init, RowMirrored
<1>2. RowMirrored /\ [Next]_vars => RowMirrored'
    BY NextIsSure, NextRowMirrored
<1> QED
    BY <1>1, <1>2, PTL DEF Spec

\* While commits succeed, a call that has returned left the runs row equal
\* to the handle's record.
THEOREM RowFollowsHandle == ~WritesMayFail => (Spec => []RowMirrorsHandle)
<1> SUFFICES ASSUME ~WritesMayFail PROVE Spec => []RowMirrorsHandle
    OBVIOUS
<1>1. RowMirrored => RowMirrorsHandle
    BY DEF RowMirrored, RowMirrorsHandle, Idle
<1> QED
    BY <1>1, RowMirroredInvariance, PTL

-----------------------------------------------------------------------------

Pends(s) == s.approval = "pending"

\* The statuses that keep a pending run from running.
Shut == {"waiting", "completed", "aborted"}

\* Only a call in progress has a process attached.
PcLive == pc # "idle" => live

\* After save_checkpoint the newest checkpoint is what memory holds.
JustSaved ==
    pc = "note_checkpoint" =>
        Newest # 0 /\ checkpoints[Newest].state = state
                   /\ checkpoints[Newest].status = run.status

\* Memory: a pending run is shut, and on its way to a checkpoint it is
\* either known to wait or the row already says shut.
MemoryShut ==
    /\ live /\ Pends(state) => run.status \in Shut
    /\ pc = "save_approval" => run.status = "waiting"
    /\ pc \in {"save_checkpoint", "note_checkpoint"} /\ Pends(state) =>
           run.status = "waiting" \/ runs.status \in Shut

\* The tables: a pending checkpoint is shut, the row and the newest
\* checkpoint together resume to a shut status, and memory leaves a pending
\* newest checkpoint behind only on the way to the next one.
TablesShut ==
    /\ \A i \in 1..Newest : Pends(checkpoints[i].state) => checkpoints[i].status \in Shut
    /\ Newest # 0 /\ Pends(checkpoints[Newest].state) =>
         /\ runs.status \in Shut \/ checkpoints[Newest].status = "waiting"
         /\ live /\ ~Pends(state) => pc \in {"update_approval", "save_checkpoint"}

GateBase == IInv /\ RowMirrored /\ PcLive /\ JustSaved
GateInv == GateBase /\ (~overridden => MemoryShut /\ TablesShut)

LEMMA OverrideStays ==
    ASSUME [SureNext]_vars, overridden
    PROVE  overridden'
<1> USE DEF history
<1>1. CASE Pause \/ ApplyLoad \/ ApplyHalt
    BY <1>1, Zenon DEF Pause, ApplyLoad, ApplyHalt, Override
<1>2. CASE UNCHANGED overridden
    BY <1>2
<1>3. CASE SureWrite
    BY <1>2, <1>3 DEF SureWrite, SaveApproval, UpdateApproval, EndStepSync,
       SaveCheckpoint, NoteCheckpoint, UpdateRun
<1>4. CASE HostCall
    BY <1>1, <1>2, <1>4 DEF HostCall, RequestApproval, Approve, Reject, Decide, MarkGreen,
       MarkGreenId, TakeCheckpoint, ToolStep, Complete, Abort, Finish
<1>5. CASE PlanLoop
    BY <1>2, <1>5 DEF PlanLoop, OpenLoop, FetchStep, LoopEnds, StepComplete, StepFail,
       LoopStops, LoopCompletes, LoopGoesOn, Break
<1>6. CASE Policies \/ Exit
    BY <1>1, <1>2, <1>6 DEF Policies, Resume, ApplyPolicies, ApplyAbort, LoadMissing,
       EndPolicies, RaiseAbort, Exit, LoseHandle
<1> QED
    BY <1>2, <1>3, <1>4, <1>5, <1>6 DEF SureNext, vars

LEMMA NextGateBase ==
    ASSUME GateBase, [SureNext]_vars
    PROVE  GateBase'
<1> USE DEF PcLive, JustSaved, memory, tables, history, Newest
<1>0. IInv' /\ RowMirrored'
    BY SureIsNext, NextIInv, NextRowMirrored DEF GateBase
<1>s. IInv /\ PcLive /\ JustSaved
    BY DEF GateBase
<1> SUFFICES PcLive' /\ JustSaved'
    BY <1>0 DEF GateBase
<1>1. CASE SaveCheckpoint
    <2>1. /\ checkpoints \in Seq(Checkpoint)
          /\ checkpoints' = Append(checkpoints, Snapshot)
          /\ pc = "save_checkpoint" /\ UNCHANGED <<live, run, state>>
        BY <1>s, <1>1 DEF SaveCheckpoint, IInv, TypeOK
    <2>2. /\ Newest' # 0
          /\ checkpoints'[Newest'].state = state /\ checkpoints'[Newest'].status = run.status
        BY <2>1 DEF Snapshot
    <2> QED
        BY <1>s, <2>1, <2>2
<1>2. CASE SureWrite /\ ~SaveCheckpoint
    BY <1>s, <1>2 DEF SureWrite, SaveApproval, UpdateApproval, EndStepSync,
       NoteCheckpoint, UpdateRun
<1>3. CASE HostCall
    <2>1. live /\ live' = live /\ pc' # "note_checkpoint"
        BY <1>3 DEF HostCall, Pause, RequestApproval, Approve, Reject, Decide,
           MarkGreen, MarkGreenId, TakeCheckpoint, ToolStep, Complete, Abort, Finish,
           HostRuns, Idle
    <2> QED
        BY <2>1
<1>4. CASE PlanLoop
    <2>1. live /\ live' = live /\ pc' # "note_checkpoint"
        BY <1>4 DEF PlanLoop, OpenLoop, FetchStep, LoopEnds, StepComplete, StepFail,
           LoopStops, LoopCompletes, LoopGoesOn, Break, Idle
    <2> QED
        BY <2>1
<1>5. CASE Policies
    <2>1. (pc' # "idle" => live') /\ pc' # "note_checkpoint"
        BY <1>5 DEF Policies, Resume, ApplyPolicies, ApplyAbort, ApplyLoad,
           LoadMissing, ApplyHalt, EndPolicies, RaiseAbort, LoseHandle, HostRuns, Idle,
           Routing
    <2> QED
        BY <2>1
<1>6. CASE Exit
    BY <1>6 DEF Exit, LoseHandle
<1>7. CASE UNCHANGED vars
    BY <1>s, <1>7 DEF vars
<1> QED
    BY <1>1, <1>2, <1>3, <1>4, <1>5, <1>6, <1>7 DEF SureNext

LEMMA WriteGate ==
    ASSUME GateBase, MemoryShut, TablesShut, SureWrite, GateBase'
    PROVE  MemoryShut' /\ TablesShut'
<1> USE DEF GateBase, RowMirrored, PcLive, JustSaved, MemoryShut, TablesShut, Pends,
        Shut, memory, tables, history, Newest
<1>1. CASE SaveApproval
    BY <1>1 DEF SaveApproval
<1>2. CASE UpdateApproval
    BY <1>2 DEF UpdateApproval, DecisionAtHand, IInv, Decided
<1>3. CASE EndStepSync
    BY <1>3 DEF EndStepSync
<1>4. CASE SaveCheckpoint
    <2>1. /\ Newest' = Newest + 1 /\ Newest \in Nat
          /\ \A i \in 1..Newest : checkpoints'[i] = checkpoints[i]
          /\ checkpoints'[Newest'] = Snapshot
        BY <1>4 DEF SaveCheckpoint, IInv, TypeOK
    <2>2. Snapshot.state = state /\ Snapshot.status = run.status
        BY DEF Snapshot
    <2>3. run.status \in Shut \/ ~Pends(state)
        BY <1>4 DEF SaveCheckpoint
    <2>4. /\ pc = "save_checkpoint" /\ pc' = "note_checkpoint" /\ live
          /\ UNCHANGED <<live, run, state, runs>>
        BY <1>4 DEF SaveCheckpoint
    <2>5. ASSUME NEW i \in 1..Newest', Pends(checkpoints'[i].state)
          PROVE  checkpoints'[i].status \in Shut
        <3>1. CASE i \in 1..Newest
            BY <2>1, <2>5, <3>1
        <3>2. CASE i = Newest'
            BY <2>1, <2>2, <2>3, <2>5, <3>2
        <3>3. i \in 1..Newest \/ i = Newest'
            <4> HIDE DEF Newest
            <4> QED BY <2>1
        <3> QED
            BY <3>1, <3>2, <3>3
    <2>6. MemoryShut'
        BY <2>4
    <2>7. JustSaved'
        <3> HIDE DEF Newest
        <3> QED BY <2>1, <2>2, <2>4
    <2>8. TablesShut'
        <3> HIDE DEF Newest
        <3> QED BY <2>1, <2>2, <2>4, <2>5
    <2> QED
        BY <2>4, <2>6, <2>7, <2>8
<1>5. CASE NoteCheckpoint
    BY <1>5 DEF NoteCheckpoint, IInv, TypeOK, RunRecord
<1>6. CASE UpdateRun
    BY <1>6 DEF UpdateRun
<1> QED
    BY <1>1, <1>2, <1>3, <1>4, <1>5, <1>6 DEF SureWrite

LEMMA HostGate ==
    ASSUME GateBase, MemoryShut, TablesShut, HostCall, GateBase', ~overridden'
    PROVE  MemoryShut' /\ TablesShut'
<1> USE DEF GateBase, RowMirrored, PcLive, JustSaved, MemoryShut, TablesShut, Pends,
        Shut, memory, tables, history, Newest, HostRuns, Idle
<1>0. run \in RunRecord /\ state \in AgentState
    BY DEF IInv, TypeOK
<1>1. CASE Pause
    BY <1>0, <1>1 DEF Pause, Override, RunRecord
<1>2. CASE RequestApproval
    BY <1>0, <1>2 DEF RequestApproval, RunRecord, AgentState
<1>3. CASE Approve \/ Reject
    BY <1>0, <1>3 DEF Approve, Reject, Decide, AgentState
<1>4. CASE MarkGreen
    BY <1>0, <1>4 DEF MarkGreen, MarkGreenId, RunRecord, AgentState
<1>5. CASE TakeCheckpoint
    BY <1>5 DEF TakeCheckpoint
<1>6. CASE \E t \in Tools : ToolStep(t)
    BY <1>0, <1>6 DEF ToolStep, AgentState
<1>7. CASE Complete \/ Abort
    BY <1>0, <1>7 DEF Complete, Abort, Finish, RunRecord
<1> QED
    BY <1>1, <1>2, <1>3, <1>4, <1>5, <1>6, <1>7 DEF HostCall

LEMMA LoopGate ==
    ASSUME GateBase, MemoryShut, TablesShut, PlanLoop, GateBase'
    PROVE  MemoryShut' /\ TablesShut'
<1> USE DEF GateBase, RowMirrored, PcLive, JustSaved, MemoryShut, TablesShut, Pends,
        Shut, memory, tables, history, Newest, Idle
<1>0. run \in RunRecord /\ state \in AgentState /\ step \in Step
    BY DEF IInv, TypeOK
<1>1. CASE OpenLoop \/ LoopStops \/ LoopGoesOn \/ Break
    BY <1>1 DEF OpenLoop, LoopStops, LoopGoesOn, Break
<1>2. CASE FetchStep
    BY <1>0, <1>2 DEF FetchStep, AgentState
<1>3. CASE LoopEnds
    BY <1>0, <1>3 DEF LoopEnds, AgentState
<1>4. CASE StepComplete \/ LoopCompletes
    <2>1. step.index \in 0..N /\ step.index < N
        BY <1>0, <1>4 DEF StepComplete, LoopCompletes, IInv, StepInPlan, Step
    <2>2. state'.approval = state.approval
        BY <1>0, <1>4, <2>1, AdvancedType DEF StepComplete, LoopCompletes
    <2> QED
        BY <1>4, <2>2 DEF StepComplete, LoopCompletes
<1>5. CASE StepFail
    BY <1>5 DEF StepFail
<1> QED
    BY <1>1, <1>2, <1>3, <1>4, <1>5 DEF PlanLoop

LEMMA PolicyGate ==
    ASSUME GateBase, MemoryShut, TablesShut, Policies, GateBase', ~overridden'
    PROVE  MemoryShut' /\ TablesShut'
<1> USE DEF GateBase, RowMirrored, PcLive, JustSaved, MemoryShut, TablesShut, Pends,
        Shut, memory, tables, history, Newest, Routing
<1>0. run \in RunRecord /\ runs \in RunRecord /\ state \in AgentState
    BY DEF IInv, TypeOK
<1>1. CASE Resume
    <2>1. Newest # 0 /\ Newest \in 1..Newest
        BY <1>1 DEF Resume, IInv, TypeOK
    <2>2. runs' \in RunRecord /\ runs'.status = ResumeStatus(runs.status, checkpoints[Newest].status)
        BY <1>0, <1>1 DEF Resume, ResumeId, RunRecord, IInv, TypeOK
    <2>3. run'.status = runs'.status
        BY <1>0, <1>1, <2>2 DEF Resume, ResumeId, Hydrated, RunRecord
    <2>4. /\ state' = checkpoints[Newest].state /\ pc' = "update_run" /\ live'
          /\ checkpoints' = checkpoints
        BY <1>1 DEF Resume, ResumeId
    <2>5. Pends(checkpoints[Newest].state) => runs'.status \in Shut
        BY <2>1, <2>2 DEF ResumeStatus
    <2> QED
        BY <2>1, <2>3, <2>4, <2>5
<1>2. CASE ApplyPolicies
    BY <1>2 DEF ApplyPolicies, HostRuns, Idle
<1>3. CASE ApplyAbort
    BY <1>0, <1>3 DEF ApplyAbort, RunRecord
<1>4. CASE ApplyLoad
    <2>1. ~Pends(checkpoints[target].state) /\ ~Pends(checkpoints[Newest].state)
        <3>1. ~(\E s \in {checkpoints[i].state : i \in {target, Newest}} : Pends(s))
            BY <1>4, Zenon DEF ApplyLoad, Override
        <3> QED
            BY <3>1
    <2> QED
        BY <1>4, <2>1 DEF ApplyLoad
<1>5. CASE ApplyHalt
    BY <1>0, <1>5 DEF ApplyHalt, Override, RunRecord
<1>6. CASE EndPolicies
    BY <1>6 DEF EndPolicies
<1>7. CASE RaiseAbort
    BY <1>7 DEF RaiseAbort, LoseHandle
<1>8. CASE LoadMissing
    BY <1>8 DEF LoadMissing, LoseHandle
<1> QED
    BY <1>1, <1>2, <1>3, <1>4, <1>5, <1>6, <1>7, <1>8 DEF Policies

LEMMA NextGate == GateInv /\ [SureNext]_vars => GateInv'
<1> SUFFICES ASSUME GateInv, [SureNext]_vars PROVE GateInv'
    OBVIOUS
<1>0. GateBase /\ GateBase' /\ (overridden => overridden')
    BY NextGateBase, OverrideStays DEF GateInv
<1> SUFFICES ASSUME ~overridden' PROVE MemoryShut' /\ TablesShut'
    BY <1>0 DEF GateInv
<1>s. MemoryShut /\ TablesShut
    BY <1>0 DEF GateInv
<1>1. CASE Exit
    BY <1>s, <1>1 DEF Exit, LoseHandle, MemoryShut, TablesShut, Pends, Shut, tables,
       Newest
<1>2. CASE UNCHANGED vars
    BY <1>s, <1>2 DEF vars, memory, tables, MemoryShut, TablesShut, Pends, Shut, Newest
<1> QED
    BY <1>0, <1>s, <1>1, <1>2, WriteGate, HostGate, LoopGate, PolicyGate DEF SureNext

\* While commits succeed, a run whose approval is pending is not RUNNING in
\* any process, across every crash and resume, until a pause, a halt or a
\* strict reset overrides it.
THEOREM GateHolds == ~WritesMayFail => (Spec => []GateShut)
<1> SUFFICES ASSUME ~WritesMayFail PROVE Spec => []GateShut
    OBVIOUS
<1>1. Init => GateInv
    <2>1. Init => IInv
        BY InitIInv
    <2> QED
        BY <2>1 DEF Init, GateInv, GateBase, RowMirrored, PcLive, JustSaved, MemoryShut,
           TablesShut, Pends, FreshState, Newest
<1>2. GateInv => GateShut
    BY DEF GateInv, MemoryShut, GateShut, Pends, Shut
<1>3. GateInv /\ [Next]_vars => GateInv'
    BY NextIsSure, NextGate
<1> QED
    BY <1>1, <1>2, <1>3, PTL DEF Spec

-----------------------------------------------------------------------------

(* The verdicts.  `trail' says how the newest row of the approvals table   *)
(* stands to the newest checkpoint; the invariant says what that means for *)
(* the memory that will be the next checkpoint.                            *)

RowWrites == {"save_approval", "update_approval"}

VerdictInv ==
    /\ PcLive
    /\ pc = "save_approval" => state.approval = "pending"
    /\ trail = "held" => SavedApproval = RowApproval
    /\ trail = "ahead" => live /\ (pc \notin RowWrites => state.approval = RowApproval)
    /\ live /\ rewound = 0 /\ trail = "held" /\ pc \notin RowWrites =>
           state.approval = SavedApproval

\* A step that writes no approval and no checkpoint, and leaves the process
\* with what it holds, or with less, keeps it.
LEMMA QuietVerdict ==
    ASSUME VerdictInv, PcLive', approvals' = approvals, checkpoints' = checkpoints,
           rewound' = rewound, trail' = trail, pc \notin RowWrites,
           live' = live, state'.approval = state.approval, pc' \notin RowWrites
    PROVE  VerdictInv'
BY DEF VerdictInv, SavedApproval, RowApproval, Newest, RowWrites

LEMMA WriteVerdict ==
    ASSUME IInv, VerdictInv, DurableWrite
    PROVE  VerdictInv'
<1>0. /\ approvals \in Seq(ApprovalStatuses) /\ checkpoints \in Seq(Checkpoint)
      /\ live \in BOOLEAN /\ trail \in {"held", "ahead", "torn"}
    BY DEF IInv, TypeOK
<1> USE DEF memory, tables, history, PcLive
<1>1. CASE SaveApproval
    <2>1. approvals' # <<>> /\ approvals'[Len(approvals')] = "pending"
        BY <1>0, <1>1 DEF SaveApproval
    <2> QED
        BY <1>1, <2>1 DEF SaveApproval, VerdictInv, RowApproval, RowWrites
<1>2. CASE UpdateApproval
    <2>1. approvals # <<>> => approvals' # <<>> /\ approvals'[Len(approvals')] = state.approval
        BY <1>0, <1>2 DEF UpdateApproval
    <2> QED
        BY <1>2, <2>1 DEF UpdateApproval, VerdictInv, RowApproval, RowWrites
<1>3. CASE SaveCheckpoint
    <2>1. SavedApproval' = state.approval
        BY <1>0, <1>3 DEF SaveCheckpoint, Snapshot, SavedApproval, Newest
    <2>2. RowApproval' = RowApproval
        BY <1>3 DEF SaveCheckpoint, RowApproval
    <2>3. pc = "save_checkpoint" /\ pc' = "note_checkpoint" /\ UNCHANGED <<live, state>>
        BY <1>3 DEF SaveCheckpoint
    <2>4. CASE trail = "ahead"
        BY <1>3, <2>1, <2>2, <2>3, <2>4 DEF SaveCheckpoint, VerdictInv, RowWrites
    <2>5. CASE trail # "ahead" /\ rewound # 0
        BY <1>3, <2>3, <2>5 DEF SaveCheckpoint, VerdictInv
    <2>6. CASE trail # "ahead" /\ rewound = 0
        BY <1>3, <2>1, <2>2, <2>3, <2>6 DEF SaveCheckpoint, VerdictInv, RowWrites
    <2> QED
        BY <2>4, <2>5, <2>6
<1>4. CASE EndStepSync \/ NoteCheckpoint \/ UpdateRun
    <2>1. /\ UNCHANGED <<approvals, checkpoints, rewound, trail, live, state>>
          /\ pc \notin RowWrites /\ pc' \notin RowWrites /\ PcLive'
        BY <1>4 DEF EndStepSync, NoteCheckpoint, UpdateRun, VerdictInv, RowWrites
    <2> QED
        BY <2>1, QuietVerdict
<1>5. CASE WriteFails
    <2>1. /\ UNCHANGED <<approvals, checkpoints>> /\ pc' = "idle"
          /\ live' => UNCHANGED <<state, rewound>>
          /\ trail' = IF pc \in RowWrites THEN "torn" ELSE IF live' THEN trail ELSE Parted
        BY <1>5 DEF WriteFails, RowWrites
    <2>2. SavedApproval' = SavedApproval /\ RowApproval' = RowApproval
        BY <2>1 DEF SavedApproval, RowApproval, Newest
    <2>3. live
        BY <1>5 DEF WriteFails
    <2> QED
        BY <2>1, <2>2, <2>3 DEF VerdictInv, Parted, RowWrites
<1> QED
    BY <1>1, <1>2, <1>3, <1>4, <1>5 DEF DurableWrite

LEMMA NextVerdict ==
    ASSUME IInv, VerdictInv, [Next]_vars
    PROVE  VerdictInv'
<1>0. /\ state \in AgentState /\ live \in BOOLEAN /\ trail \in {"held", "ahead", "torn"}
    BY DEF IInv, TypeOK
<1> USE DEF memory, tables, history, PcLive
<1>a. UNCHANGED <<approvals, checkpoints>> =>
          SavedApproval' = SavedApproval /\ RowApproval' = RowApproval
    BY DEF SavedApproval, RowApproval, Newest
<1>1. CASE DurableWrite
    BY <1>1, WriteVerdict
<1>2. CASE HostCall
    <2>1. /\ UNCHANGED <<approvals, checkpoints, rewound, trail, live>>
          /\ live /\ pc = "idle"
        BY <1>2 DEF HostCall, Pause, RequestApproval, Approve, Reject, Decide, MarkGreen,
           MarkGreenId, TakeCheckpoint, ToolStep, Complete, Abort, Finish, HostRuns, Idle
    <2>2. \/ state'.approval = state.approval /\ pc' \notin RowWrites
          \/ state'.approval = "pending" /\ pc' = "save_approval"
          \/ pc' = "update_approval"
        BY <1>0, <1>2, <2>1 DEF HostCall, Pause, RequestApproval, Approve, Reject, Decide,
           MarkGreen, MarkGreenId, TakeCheckpoint, ToolStep, Complete, Abort, Finish,
           AgentState, RowWrites
    <2> QED
        BY <1>a, <2>1, <2>2 DEF VerdictInv, RowWrites
<1>3. CASE PlanLoop
    <2>1. /\ UNCHANGED <<approvals, checkpoints, rewound, trail, live>>
          /\ live /\ pc = "idle" /\ pc' \notin RowWrites
        BY <1>3 DEF PlanLoop, OpenLoop, FetchStep, LoopEnds, StepComplete, StepFail,
           LoopStops, LoopCompletes, LoopGoesOn, Break, Idle, RowWrites
    <2>2. state'.approval = state.approval
        BY <1>0, <1>3 DEF PlanLoop, OpenLoop, FetchStep, LoopEnds, StepComplete, StepFail,
           LoopStops, LoopCompletes, LoopGoesOn, Break, Advanced, AgentState
    <2> QED
        BY <2>1, <2>2, QuietVerdict DEF RowWrites
<1>4. CASE Resume
    <2>1. /\ UNCHANGED <<approvals, checkpoints, trail>> /\ ~live
          /\ live' /\ pc' = "update_run" /\ state'.approval = SavedApproval
        BY <1>4 DEF Resume, ResumeId, SavedApproval, Newest
    <2> QED
        BY <1>a, <2>1 DEF VerdictInv, RowWrites
<1>5. CASE ApplyLoad
    <2>1. /\ UNCHANGED <<approvals, checkpoints, live>> /\ live
          /\ pc' = "update_run" /\ rewound' # 0 /\ trail' = Parted
        BY <1>5 DEF ApplyLoad, Routing
    <2> QED
        BY <1>a, <2>1 DEF VerdictInv, RowWrites, Parted
<1>6. CASE ApplyPolicies \/ ApplyAbort \/ ApplyHalt \/ EndPolicies \/ (LoadMissing /\ live')
    <2>1. /\ UNCHANGED <<approvals, checkpoints, rewound, trail, live, state>>
          /\ live /\ pc = "idle" /\ pc' \notin RowWrites
        BY <1>6 DEF ApplyPolicies, ApplyAbort, ApplyHalt, EndPolicies, LoadMissing,
           LoseHandle, HostRuns, Idle, Routing, RowWrites
    <2> QED
        BY <2>1, QuietVerdict DEF RowWrites
<1>7. CASE RaiseAbort \/ Exit \/ (LoadMissing /\ ~live')
    <2>1. /\ UNCHANGED <<approvals, checkpoints>>
          /\ ~live' /\ pc' = "idle" /\ trail' = Parted
        BY <1>7 DEF RaiseAbort, Exit, LoadMissing, LoseHandle, Routing
    <2> QED
        BY <1>a, <2>1 DEF VerdictInv, RowWrites, Parted
<1>8. CASE UNCHANGED vars
    BY <1>8, <1>a DEF vars, VerdictInv, RowWrites
<1> QED
    BY <1>1, <1>2, <1>3, <1>4, <1>5, <1>6, <1>7, <1>8 DEF Next, Policies

\* The newest checkpoint holds the very verdict the newest approvals row
\* holds, unless a crash, a failed commit or a strict reset parted the two.
THEOREM VerdictsAreRecorded == Spec => []VerdictOnRecord
<1>1. Init => VerdictInv
    BY DEF Init, VerdictInv, PcLive, SavedApproval, RowApproval, FreshState, Newest
<1>2. IInv /\ VerdictInv /\ [Next]_vars => VerdictInv'
    BY NextVerdict
<1>3. VerdictInv => VerdictOnRecord
    BY DEF VerdictInv, VerdictOnRecord
<1> QED
    BY <1>1, <1>2, <1>3, Invariance, PTL DEF Spec
=============================================================================
