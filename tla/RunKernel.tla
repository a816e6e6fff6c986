----------------------------- MODULE RunKernel -----------------------------
(***************************************************************************)
(* One run of SemanticRun: the RunHandle in a host process, the facade     *)
(* that creates, resumes and finishes the run, and the three SQLite tables *)
(* they keep it in.                                                        *)
(*                                                                         *)
(* A call of the host is cut at its durable writes, because each of them   *)
(* commits on its own and the process may die between any two: the action  *)
(* of the call makes the changes in memory and sets pc to the first write, *)
(* and one action per write follows.  Between two calls pc = "idle".       *)
(* A second run_handle._sync_run() in a row writes what the first wrote    *)
(* and is not repeated here.                                               *)
(*                                                                         *)
(* Checkpoint ids are positions in `checkpoints', 0 standing for None;     *)
(* plan indices count from 0 as in the code, so the step at k is Plan[k+1].*)
(***************************************************************************)
EXTENDS Integers, Sequences

CONSTANTS
    Plan,           \* AgentState.plan, a sequence of step names
    StepNames,      \* the names a plan is made of
    Tools,          \* tools the host calls with a schema
    Calls,          \* the calls this host makes (see CallNames)
    Outcomes,       \* actions its policy hooks may return
    WritesMayFail,  \* may a commit fail ("database is locked")?
    MaxCheckpoints, \* bound on the checkpoints table
    MaxApprovals    \* bound on the approvals table

CallNames == {"complete_step", "fail_step", "tool", "checkpoint", "pause",
              "request_approval", "approve", "reject", "mark_green",
              "mark_green_id", "mark_green_unknown", "apply_policies", "complete",
              "abort"}

OutcomeNames == {"abort", "load_checkpoint", "halt_for_human"}

ASSUME PlanAssumption == Plan \in Seq(StepNames)
ASSUME CallsAssumption == Calls \subseteq CallNames /\ Outcomes \subseteq OutcomeNames
ASSUME FlagAssumption == WritesMayFail \in BOOLEAN
ASSUME BoundsAssumption == MaxCheckpoints \in Nat /\ MaxApprovals \in Nat

N == Len(Plan)

VARIABLES
    live,        \* does a process hold a handle on the run?
    run,         \* RunHandle._run: status, latest and last green checkpoint
    state,       \* RunHandle._state, the AgentState
    schemas,     \* RunHandle._tool_schemas, kept outside the AgentState
    step,        \* the steps() generator and the PlanStepHandle it yielded
    pc,          \* the next durable write of the call in progress
    routing,     \* is apply_policies running, and who called it?
    target,      \* checkpoint_id the StrictReset hook answered, 0 for None
    runs,        \* the row of the run in table runs
    checkpoints, \* table checkpoints, oldest first
    approvals,   \* statuses in table approvals, oldest first
    rewound,     \* history: the checkpoint a strict reset put into memory if
                 \* none was taken since; 0 otherwise.  Outlives the process
                 \* that reset, up to the next resume
    trail,       \* history: how the approvals table stands to the newest
                 \* checkpoint.  "held": its newest row tells what that
                 \* checkpoint tells; "ahead": the row is written and the
                 \* process still has what it says to checkpoint; "torn": a
                 \* crash, a failed write or a strict reset came between
    overridden   \* history: was an approval pending when the run was paused,
                 \* halted or reset?

memory == <<run, state, schemas>>
tables == <<runs, checkpoints, approvals>>
history == <<rewound, trail, overridden>>
vars == <<live, memory, step, pc, routing, target, tables, history>>

Statuses == {"running", "waiting", "paused", "completed", "aborted"}
ApprovalStatuses == {"pending", "approved", "rejected"}
Writes == {"save_approval", "update_approval", "end_step", "save_checkpoint",
           "note_checkpoint", "update_run"}
Phases == {"none", "top", "body", "completing", "closing"}

\* An id that no checkpoint has: mark_green_checkpoint() takes any.
Unknown == MaxCheckpoints + 1

Ids == 0..MaxCheckpoints
GreenIds == 0..Unknown
RunRecord == [status : Statuses, latest : Ids, lastGreen : GreenIds]
AgentState == [planIndex : 0..N, completed : SUBSET StepNames,
               approval : ApprovalStatuses \cup {"none"}, green : GreenIds,
               tools : SUBSET Tools]
Checkpoint == [status : Statuses, state : AgentState, schemas : SUBSET Tools]
Step == [phase : Phases, index : 0..N, completed : BOOLEAN, failed : BOOLEAN]

FreshRun == [status |-> "running", latest |-> 0, lastGreen |-> 0]
FreshState == [planIndex |-> 0, completed |-> {}, approval |-> "none",
               green |-> 0, tools |-> {}]
NoStep == [phase |-> "none", index |-> 0, completed |-> FALSE, failed |-> FALSE]

Newest == Len(checkpoints)

\* create_run: the row is committed; nothing is checkpointed yet.
Init ==
    /\ live = TRUE
    /\ run = FreshRun /\ state = FreshState /\ schemas = {}
    /\ step = NoStep
    /\ pc = "idle" /\ routing = "off" /\ target = 0
    /\ runs = FreshRun /\ checkpoints = <<>> /\ approvals = <<>>
    /\ rewound = 0 /\ trail = "held" /\ overridden = FALSE

-----------------------------------------------------------------------------
(* Durable writes.  Each is one commit; between two of them anything may   *)
(* happen to the process.                                                  *)

SaveApproval ==
    /\ pc = "save_approval"
    /\ Len(approvals) < MaxApprovals
    /\ approvals' = Append(approvals, "pending")
    /\ pc' = "save_checkpoint"
    /\ trail' = "ahead"
    /\ UNCHANGED <<live, memory, step, routing, target, runs, checkpoints, rewound,
                   overridden>>

\* get_latest_approval, then update_approval if there is a row.
UpdateApproval ==
    /\ pc = "update_approval"
    /\ approvals' = IF approvals = <<>> THEN approvals
                    ELSE [approvals EXCEPT ![Len(approvals)] = state.approval]
    /\ pc' = "save_checkpoint"
    /\ trail' = IF approvals = <<>> THEN "torn" ELSE "ahead"
    /\ UNCHANGED <<live, memory, step, routing, target, runs, checkpoints, rewound,
                   overridden>>

\* _end_step writes the run before it decides on a checkpoint.
EndStepSync ==
    /\ pc = "end_step"
    /\ runs' = run
    /\ pc' = "save_checkpoint"
    /\ UNCHANGED <<live, memory, step, routing, target, checkpoints, approvals, history>>

\* Mutation: a checkpoint taken after a green mark names itself as green.
SnapshotOwnGreen ==
    [status |-> run.status, schemas |-> schemas,
     state |-> [state EXCEPT !.green = IF @ = 0 THEN 0 ELSE Newest + 1]]

\* The process no longer has what it wrote to the approvals table.
Parted == IF trail = "ahead" THEN "torn" ELSE trail

Snapshot == [status |-> run.status, state |-> state, schemas |-> schemas]

SaveCheckpoint ==
    /\ pc = "save_checkpoint"
    /\ Newest < MaxCheckpoints
    /\ checkpoints' = Append(checkpoints, Snapshot)
    /\ pc' = "note_checkpoint"
    /\ trail' = IF trail = "ahead" THEN "held"
                ELSE IF rewound # 0 THEN "torn" ELSE trail
    /\ rewound' = 0
    /\ UNCHANGED <<live, memory, step, routing, target, runs, approvals, overridden>>

\* What a call leaves of the loop when it returns: complete() sets its
\* _completed flag, and the completion the generator made itself leads back
\* to the top of the while.
Returned(s) ==
    CASE s.phase = "completing" -> [s EXCEPT !.phase = "body", !.completed = TRUE]
      [] s.phase = "closing"    -> [NoStep EXCEPT !.phase = "top"]
      [] OTHER                  -> s

\* The tail of checkpoint(): remember the id, then _sync_run.
NoteCheckpoint ==
    /\ pc = "note_checkpoint"
    /\ run' = [run EXCEPT !.latest = Newest]
    /\ runs' = run'
    /\ pc' = "idle"
    /\ step' = Returned(step)
    /\ UNCHANGED <<live, state, schemas, routing, target, checkpoints, approvals, history>>

UpdateRun ==
    /\ pc = "update_run"
    /\ runs' = run
    /\ pc' = "idle"
    /\ UNCHANGED <<live, memory, step, routing, target, checkpoints, approvals, history>>

\* The write raises.  The host's loop ends with the exception, unless the
\* call was made in the loop's body and the host caught it there; a resume()
\* that raises returns no handle.  After save_checkpoint the audit record may be what
\* failed, before the id was remembered, or the update of the run after it.
WriteFails ==
    /\ WritesMayFail
    /\ live /\ pc # "idle"
    /\ pc' = "idle" /\ routing' = "off" /\ target' = 0
    /\ live' = (routing \notin {"resume", "raise"})
    /\ IF live'
       THEN /\ step' \in {NoStep} \cup
                 (IF step.phase \in {"body", "completing"}
                  THEN {[step EXCEPT !.phase = "body"]} ELSE {})
            /\ run' \in {run} \cup
                 (IF pc = "note_checkpoint"
                  THEN {[run EXCEPT !.latest = Newest]} ELSE {})
            /\ UNCHANGED <<state, schemas>>
       ELSE /\ step' = NoStep
            /\ run' = FreshRun /\ state' = FreshState /\ schemas' = {}
    /\ rewound' = IF live' THEN rewound ELSE 0
    /\ trail' = IF pc \in {"save_approval", "update_approval"} THEN "torn"
                ELSE IF live' THEN trail ELSE Parted
    /\ UNCHANGED <<tables, overridden>>

-----------------------------------------------------------------------------
(* Calls of the host.  Idle: a handle is held and no call is in progress.  *)

Idle == live /\ pc = "idle" /\ routing = "off"

\* The host runs its own code: outside the for loop or in its body, never
\* while the generator is between two yields.
HostRuns == Idle /\ step.phase \in {"none", "body"}

\* No method asks whether an approval is pending.
Override(states) ==
    overridden' = (overridden \/ \E s \in states : s.approval = "pending")

Pause ==
    /\ "pause" \in Calls /\ HostRuns
    /\ run' = [run EXCEPT !.status = "paused"]
    /\ pc' = "save_checkpoint"
    /\ Override({state})
    /\ UNCHANGED <<live, state, schemas, step, routing, target, tables, rewound, trail>>

RequestApproval ==
    /\ "request_approval" \in Calls /\ HostRuns
    /\ state' = [state EXCEPT !.approval = "pending"]
    /\ run' = [run EXCEPT !.status = "waiting"]
    /\ pc' = "save_approval"
    /\ UNCHANGED <<live, schemas, step, routing, target, tables, history>>

\* Mutation: the row in table approvals is forgotten.
DecideUnrecorded(verdict, status) ==
    /\ HostRuns
    /\ state.approval # "none"
    /\ state' = [state EXCEPT !.approval = verdict]
    /\ run' = [run EXCEPT !.status = status]
    /\ pc' = "save_checkpoint"
    /\ UNCHANGED <<live, schemas, step, routing, target, tables, history>>

\* approve and reject: approval_state None raises; any other status will do.
Decide(verdict, status) ==
    /\ HostRuns
    /\ state.approval # "none"
    /\ state' = [state EXCEPT !.approval = verdict]
    /\ run' = [run EXCEPT !.status = status]
    /\ pc' = "update_approval"
    /\ UNCHANGED <<live, schemas, step, routing, target, tables, history>>

Approve == "approve" \in Calls /\ Decide("approved", "running")
Reject == "reject" \in Calls /\ Decide("rejected", "paused")

\* mark_green_checkpoint; with no id and no latest checkpoint it raises, an
\* id it is given is not looked up.
MarkGreenId(id) ==
    /\ HostRuns
    /\ id # 0
    /\ state' = [state EXCEPT !.green = id]
    /\ run' = [run EXCEPT !.lastGreen = id]
    /\ pc' = "update_run"
    /\ UNCHANGED <<live, schemas, step, routing, target, tables, history>>

MarkGreen ==
    \/ "mark_green" \in Calls /\ MarkGreenId(run.latest)
    \/ "mark_green_id" \in Calls /\ \E id \in 1..Newest : MarkGreenId(id)
    \/ "mark_green_unknown" \in Calls /\ MarkGreenId(Unknown)

\* checkpoint() and PlanStepHandle.remember(); also a step of another type,
\* and one that raised: _end_step writes the run and, after an llm_call, a
\* memory write or periodically, checkpoints.
TakeCheckpoint ==
    /\ "checkpoint" \in Calls /\ HostRuns
    /\ pc' \in {"save_checkpoint", "end_step", "update_run"}
    /\ UNCHANGED <<live, memory, step, routing, target, tables, history>>

\* A tool_call step that returns: the commitment goes into the AgentState,
\* the schema into the handle, and _end_step checkpoints if the action is
\* recovery-relevant.
ToolStep(t) ==
    /\ "tool" \in Calls /\ HostRuns
    /\ state' = [state EXCEPT !.tools = @ \cup {t}]
    /\ schemas' = schemas \cup {t}
    /\ pc' \in {"end_step", "update_run"}
    /\ UNCHANGED <<live, run, step, routing, target, tables, history>>

\* SemanticRun.complete and SemanticRun.abort.
Finish(status) ==
    /\ HostRuns
    /\ run' = [run EXCEPT !.status = status]
    /\ pc' = "save_checkpoint"
    /\ UNCHANGED <<live, state, schemas, step, routing, target, tables, history>>

Complete == "complete" \in Calls /\ Finish("completed")
Abort == "abort" \in Calls /\ Finish("aborted")

-----------------------------------------------------------------------------
(* for step in run.steps(): ...                                            *)

OpenLoop ==
    /\ Idle /\ step.phase = "none"
    /\ step' = [NoStep EXCEPT !.phase = "top"]
    /\ UNCHANGED <<live, memory, pc, routing, target, tables, history>>

LoopStopsAtTop == {"aborted", "completed", "waiting"}

\* Mutation: the look-ahead starts one too far.
OpenPositionsLate ==
    {i \in (state.planIndex + 1)..(N - 1) : Plan[i + 1] \notin state.completed}

\* Positions the while has still to look at whose name is not completed.
OpenPositions == {i \in state.planIndex..(N - 1) : Plan[i + 1] \notin state.completed}

\* The while up to its next yield.  PAUSED does not stop it.
FetchStep ==
    /\ Idle /\ step.phase = "top"
    /\ run.status \notin LoopStopsAtTop
    /\ \E i \in OpenPositions :
         /\ \A j \in OpenPositions : i <= j
         /\ state' = [state EXCEPT !.planIndex = i]
         /\ step' = [NoStep EXCEPT !.phase = "body", !.index = i]
    /\ UNCHANGED <<live, run, schemas, pc, routing, target, tables, history>>

LoopEnds ==
    /\ Idle /\ step.phase = "top"
    /\ run.status \in LoopStopsAtTop \/ OpenPositions = {}
    /\ state' = IF run.status \in LoopStopsAtTop THEN state
                ELSE [state EXCEPT !.planIndex = N]
    /\ step' = NoStep
    /\ UNCHANGED <<live, run, schemas, pc, routing, target, tables, history>>

\* Mutations: the cursor moves on from where it is; it is not moved.
AdvancedOnce(s, index) ==
    [s EXCEPT !.completed = @ \cup {Plan[index + 1]}, !.planIndex = @ + 1]

AdvancedNameOnly(s, index) == [s EXCEPT !.completed = @ \cup {Plan[index + 1]}]

\* advance_cursor.
Advanced(s, index) ==
    [s EXCEPT !.completed = @ \cup {Plan[index + 1]},
              !.planIndex = IF @ > index THEN @ ELSE index + 1]

\* Mutation: complete() leaves the checkpoint to a later call.
StepCompleteUnsaved ==
    /\ "complete_step" \in Calls
    /\ Idle /\ step.phase = "body" /\ ~step.completed
    /\ state' = Advanced(state, step.index)
    /\ step' = [step EXCEPT !.completed = TRUE]
    /\ UNCHANGED <<live, run, schemas, pc, routing, target, tables, history>>

\* step.complete() in the body; a second one returns at once.
StepComplete ==
    /\ "complete_step" \in Calls
    /\ Idle /\ step.phase = "body" /\ ~step.completed
    /\ state' = Advanced(state, step.index)
    /\ step' = [step EXCEPT !.phase = "completing"]
    /\ pc' = "save_checkpoint"
    /\ UNCHANGED <<live, run, schemas, routing, target, tables, history>>

\* step.fail() in the body.
StepFail ==
    /\ "fail_step" \in Calls
    /\ Idle /\ step.phase = "body"
    /\ step' = [step EXCEPT !.failed = TRUE]
    /\ pc' = "update_run"
    /\ UNCHANGED <<live, memory, routing, target, tables, history>>

\* The body is over and the generator resumes after its yield.
BodyStops == run.status \in {"aborted", "waiting", "paused"} \/ step.failed

LoopStops ==
    /\ Idle /\ step.phase = "body" /\ BodyStops
    /\ step' = NoStep
    /\ UNCHANGED <<live, memory, pc, routing, target, tables, history>>

\* Mutation: the generator's own completion leaves the checkpoint to a later
\* call.
LoopCompletesUnsaved ==
    /\ Idle /\ step.phase = "body" /\ ~BodyStops /\ ~step.completed
    /\ state' = Advanced(state, step.index)
    /\ step' = [NoStep EXCEPT !.phase = "top"]
    /\ UNCHANGED <<live, run, schemas, pc, routing, target, tables, history>>

LoopCompletes ==
    /\ Idle /\ step.phase = "body" /\ ~BodyStops /\ ~step.completed
    /\ state' = Advanced(state, step.index)
    /\ step' = [step EXCEPT !.phase = "closing"]
    /\ pc' = "save_checkpoint"
    /\ UNCHANGED <<live, run, schemas, routing, target, tables, history>>

LoopGoesOn ==
    /\ Idle /\ step.phase = "body" /\ ~BodyStops /\ step.completed
    /\ step' = [NoStep EXCEPT !.phase = "top"]
    /\ UNCHANGED <<live, memory, pc, routing, target, tables, history>>

\* The host breaks out of the loop, or its body raises.
Break ==
    /\ Idle /\ step.phase = "body"
    /\ step' = NoStep
    /\ UNCHANGED <<live, memory, pc, routing, target, tables, history>>

-----------------------------------------------------------------------------
(* Resume and the policies.                                                *)

\* hydrate_from_checkpoint on a run record.
Hydrated(r, s) == IF s.green = 0 THEN r ELSE [r EXCEPT !.lastGreen = s.green]

\* StrictReset.execute for a run record and the newest checkpoint's state.
ResetTarget(r, s) == IF r.lastGreen = 0 THEN s.green ELSE r.lastGreen

\* Mutation: only the row is asked.
ResumeStatusOfRow(row, ckptStatus) ==
    IF row \in {"completed", "aborted", "waiting"} THEN row ELSE "running"

ResumeStatus(row, ckptStatus) ==
    IF row \in {"completed", "aborted"} THEN row
    ELSE IF "waiting" \in {row, ckptStatus} THEN "waiting" ELSE "running"

\* Mutation: the artifacts kept outside the AgentState are not restored.
HydratedNoSchemas(ckpt) == {}

HydratedSchemas(ckpt) == ckpt.schemas

\* Mutation: the checkpoint the row names is taken for the newest.
ResumeIdOfRow == IF runs.latest = 0 THEN Newest ELSE runs.latest

\* get_latest_checkpoint goes by creation, not by the row.
ResumeId == Newest

\* SemanticRun.resume up to mark_resumed; its first commit, which only
\* settles the status of the row, is part of this step.  Without a
\* checkpoint resume raises.
Resume ==
    /\ ~live /\ checkpoints # <<>>
    /\ LET ckpt == checkpoints[ResumeId]
           row == [runs EXCEPT !.status = ResumeStatus(runs.status, ckpt.status)]
       IN  /\ runs' = row
           /\ run' = Hydrated(row, ckpt.state)
           /\ state' = ckpt.state
           /\ schemas' = HydratedSchemas(ckpt)
           /\ target' = ResetTarget(run', ckpt.state)
    /\ live' = TRUE
    /\ pc' = "update_run" /\ routing' = "resume"
    /\ rewound' = 0
    /\ UNCHANGED <<step, checkpoints, approvals, trail, overridden>>

\* run.apply_policies() called by the host; without a checkpoint the router
\* is not reached.
ApplyPolicies ==
    /\ "apply_policies" \in Calls /\ HostRuns
    /\ checkpoints # <<>>
    /\ routing' = "apply"
    /\ target' = ResetTarget(run, checkpoints[Newest].state)
    /\ UNCHANGED <<live, memory, step, pc, tables, history>>

Routing == live /\ pc = "idle" /\ routing \in {"resume", "apply"}

\* An abort outcome: PolicyAbort is raised once the checkpoint is written.
\* Raised in resume() it leaves the host without a handle.
ApplyAbort ==
    /\ Routing /\ "abort" \in Outcomes
    /\ run' = [run EXCEPT !.status = "aborted"]
    /\ pc' = "save_checkpoint"
    /\ routing' = IF routing = "resume" THEN "raise" ELSE "off"
    /\ target' = 0
    /\ UNCHANGED <<live, state, schemas, step, tables, history>>

\* The memory of the process is gone.
LoseHandle ==
    /\ live' = FALSE
    /\ run' = FreshRun /\ state' = FreshState /\ schemas' = {}
    /\ step' = NoStep
    /\ pc' = "idle" /\ routing' = "off" /\ target' = 0
    /\ trail' = Parted
    /\ UNCHANGED <<tables, overridden>>

\* A load_checkpoint outcome: _load_green_checkpoint.  It writes the run and
\* no checkpoint.
ApplyLoad ==
    /\ Routing /\ "load_checkpoint" \in Outcomes
    /\ target \in 1..Newest
    /\ state' = checkpoints[target].state
    /\ schemas' = HydratedSchemas(checkpoints[target])
    /\ run' = [Hydrated(run, checkpoints[target].state)
                 EXCEPT !.latest = target, !.status = "running"]
    /\ pc' = "update_run"
    /\ rewound' = target
    /\ trail' = Parted
    /\ Override({checkpoints[i].state : i \in {target, Newest}})
    /\ UNCHANGED <<live, step, routing, target, tables>>

\* The same for a checkpoint that is not there: RuntimeError, which a body
\* may catch.  Raised in resume() it leaves the host without a handle.
LoadMissing ==
    /\ Routing /\ "load_checkpoint" \in Outcomes
    /\ target = Unknown
    /\ IF routing = "resume" THEN LoseHandle /\ rewound' = 0
       ELSE /\ routing' = "off" /\ target' = 0
            /\ step' \in {step, NoStep}
            /\ UNCHANGED <<live, memory, pc, tables, history>>

\* A halt_for_human outcome; the remaining outcomes are still applied.
ApplyHalt ==
    /\ Routing /\ "halt_for_human" \in Outcomes
    /\ run' = [run EXCEPT !.status = "paused"]
    /\ pc' = "save_checkpoint"
    /\ Override({state})
    /\ UNCHANGED <<live, state, schemas, step, routing, target, tables, rewound, trail>>

\* No outcome is left (or there was no divergence); the call returns.
EndPolicies ==
    /\ Routing
    /\ routing' = "off" /\ target' = 0
    /\ UNCHANGED <<live, memory, step, pc, tables, history>>

RaiseAbort ==
    /\ live /\ pc = "idle" /\ routing = "raise"
    /\ LoseHandle /\ rewound' = 0

\* The process exits or dies, in a call or between two.  A strict reset it
\* was still in the middle of does not count as returned.
Exit ==
    /\ live
    /\ LoseHandle
    /\ rewound' = IF pc = "idle" THEN rewound ELSE 0

-----------------------------------------------------------------------------

DurableWrite ==
    SaveApproval \/ UpdateApproval \/ EndStepSync \/ SaveCheckpoint
    \/ NoteCheckpoint \/ UpdateRun \/ WriteFails

HostCall ==
    \/ Pause \/ RequestApproval \/ Approve \/ Reject \/ MarkGreen
    \/ TakeCheckpoint \/ (\E t \in Tools : ToolStep(t)) \/ Complete \/ Abort

PlanLoop ==
    OpenLoop \/ FetchStep \/ LoopEnds \/ StepComplete \/ StepFail
    \/ LoopStops \/ LoopCompletes \/ LoopGoesOn \/ Break

Policies ==
    Resume \/ ApplyPolicies \/ ApplyAbort \/ ApplyLoad \/ LoadMissing
    \/ ApplyHalt \/ EndPolicies \/ RaiseAbort

Next == DurableWrite \/ HostCall \/ PlanLoop \/ Policies \/ Exit

Spec == Init /\ [][Next]_vars

-----------------------------------------------------------------------------
(* Properties the code has.                                                *)

\* Every variable stays in its domain: in particular the cursor never runs
\* past the end of the plan (advance_cursor, steps).
TypeOK ==
    /\ live \in BOOLEAN
    /\ run \in RunRecord /\ state \in AgentState /\ schemas \in SUBSET Tools
    /\ step \in Step
    /\ pc \in Writes \cup {"idle"}
    /\ routing \in {"off", "resume", "apply", "raise"}
    /\ target \in GreenIds
    /\ runs \in RunRecord
    /\ checkpoints \in Seq(Checkpoint) /\ Newest \in Ids
    /\ approvals \in Seq(ApprovalStatuses) /\ Len(approvals) \in 0..MaxApprovals
    /\ rewound \in Ids /\ trail \in {"held", "ahead", "torn"} /\ overridden \in BOOLEAN

\* While commits succeed, a call that has returned left the runs row equal
\* to the handle's record: every mutator ends in a _sync_run that covers all
\* it changed, also across resume, policies and the calls of the loop.
RowMirrorsHandle == Idle => runs = run

\* Every checkpoint id the run refers to is in the table, but for one the
\* host marked green without it being there; and the green checkpoint inside
\* a stored state is older than the checkpoint holding it: a strict reset
\* finds its checkpoint, and a chain of resets goes strictly back.
UnknownMarked(id) == id = Unknown /\ "mark_green_unknown" \in Calls
InTable(id) == id <= Newest \/ UnknownMarked(id)
Before(id, i) == id < i \/ UnknownMarked(id)
GreenRefsBackward ==
    /\ \A r \in {run, runs} : r.latest <= Newest /\ InTable(r.lastGreen)
    /\ InTable(target) /\ rewound <= Newest /\ InTable(state.green)
    /\ \A i \in 1..Newest : Before(checkpoints[i].state.green, i)

\* The artifacts kept outside the AgentState stay in step with it: a schema
\* for exactly the committed tools, in the handle and in each checkpoint, so
\* a resume or a strict reset hydrates both sides from the same checkpoint.
SchemasHydrated ==
    /\ schemas = state.tools
    /\ \A i \in 1..Newest : checkpoints[i].schemas = checkpoints[i].state.tools

\* No handle works from less than the newest checkpoint knows to be done,
\* unless a strict reset took it back.
DurableWorkKept ==
    live /\ rewound = 0 /\ Newest # 0 =>
        checkpoints[Newest].state.completed \subseteq state.completed

\* While commits succeed, a step whose completion has returned is in the
\* newest checkpoint: there is no window in which only memory knows it.
CompletedIsDurable ==
    Idle /\ rewound = 0 =>
        state.completed = IF Newest = 0 THEN {}
                          ELSE checkpoints[Newest].state.completed

\* A run whose approval is pending is never RUNNING in any process: not
\* after a crash between the writes of request_approval or approve, and not
\* after a resume.  Only a pause, a halt or a strict reset while an approval
\* is pending lifts this, as none of them asks.
GateShut ==
    live /\ state.approval = "pending" /\ ~overridden => run.status # "running"

\* The completed steps are exactly those before the cursor, in memory and in
\* each checkpoint (plans without repeated names, no reset in mid-loop).
IsPrefix(s) == s.completed = {Plan[k] : k \in 1..s.planIndex}
CursorIsCompletedPrefix ==
    IsPrefix(state) /\ \A i \in 1..Newest : IsPrefix(checkpoints[i].state)

\* While no policy is being applied, the cursor leaves a position behind only
\* when the step at that position is in the body of the loop.
PassesYielded ==
    live /\ live' /\ routing = "off" => \A i \in state.planIndex..(state'.planIndex - 1) :
                        step.phase = "body" /\ step.index = i
EveryPositionYielded == [][PassesYielded]_vars

\* The newest checkpoint and the approvals table tell of the same request
\* and of the same verdict on it, after any number of requests, decisions and
\* changes of mind: each call writes its row ahead of its checkpoint, and only
\* a crash or a failed write between the two, or a strict reset to before the
\* verdict, parts them, until the next request or decision.
Decided == {"approved", "rejected"}
SavedApproval == IF Newest = 0 THEN "none" ELSE checkpoints[Newest].state.approval
RowApproval == IF approvals = <<>> THEN "none" ELSE approvals[Len(approvals)]
VerdictOnRecord == trail = "held" => SavedApproval = RowApproval

\* The tables implement DurablePlan: the newest checkpoint's cursor is the
\* durable cursor of the plan, and what work goes on from is that of the
\* checkpoint a strict reset put into memory, if one did.
CursorOf(id) == IF id = 0 THEN 0 ELSE checkpoints[id].state.planIndex
Durable == INSTANCE DurablePlan WITH
    Length <- N,
    MayReset <- "load_checkpoint" \in Outcomes,
    cursor <- CursorOf(Newest),
    recorded <- {CursorOf(i) : i \in 0..Newest},
    base <- CursorOf(IF rewound = 0 THEN Newest ELSE rewound)
ImplementsDurablePlan == Durable!Spec

-----------------------------------------------------------------------------
(* A property the repository states and the code does not have.            *)

\* "FailFast: abort run and require human re-authentication": once a policy
\* abort or abort() is in the checkpoints table no handle runs the plan.
AbortIsFinal ==
    live /\ (\E i \in 1..Newest : checkpoints[i].status = "aborted") =>
        run.status # "running"
=============================================================================
