----------------------------- MODULE SharedRun -----------------------------
(***************************************************************************)
(* Several handles on one run, in one process or in several, and the clock *)
(* by which the storage tells the latest row.  A handle reads the tables   *)
(* when it resumes and never again; from then on it writes whole rows and  *)
(* whole states.  A checkpoint is stamped when it is built and inserted    *)
(* later; in between other handles may insert theirs and time may pass or  *)
(* not: two stamps may be equal.                                           *)
(*                                                                         *)
(* RunKernel holds for one handle at a time and takes the last row for the *)
(* latest.  This module says when that is right and what several handles   *)
(* do to each other.  No call asks whether the run is over, and neither    *)
(* do the policies that resume, or the host, applies.  A row is named by   *)
(* its rowid.                                                              *)
(*                                                                         *)
(* What a call changes in memory nobody else sees, so it is one step with  *)
(* the first stamp or access to the storage that follows.                  *)
(***************************************************************************)
EXTENDS Naturals, Sequences, FiniteSets

CONSTANTS
    Handles,         \* who may hold a handle
    PlanLength,      \* steps of the plan; they are completed in its order
    Verdicts,        \* what the human may answer
    Endings,         \* how the host, or a policy, may end the run
    Outcomes,        \* what else a policy may ask for
    MaxClock,        \* bound on the clock
    MaxCheckpoints,  \* bound on the checkpoints table
    MaxApprovals     \* bound on the approvals table

ASSUME ChoicesAssumption ==
    /\ Verdicts \subseteq {"approved", "rejected"} /\ Endings \subseteq {"completed", "aborted"}
    /\ Outcomes \subseteq {"halt_for_human", "load_checkpoint"}
ASSUME BoundsAssumption ==
    /\ PlanLength \in Nat /\ MaxClock \in Nat
    /\ MaxCheckpoints \in Nat /\ MaxApprovals \in Nat

VARIABLES
    clock,        \* what datetime.now() answers; it does not step back
    runs,         \* the status in the row of the run
    checkpoints,  \* table checkpoints, by rowid
    approvals,    \* table approvals, by rowid
    pc,           \* per handle: the storage accesses left of its call
    status,       \* per handle: RunHandle._run.status
    state,        \* per handle: RunHandle._state
    draft,        \* per handle: the checkpoint built and not yet inserted
    found,        \* per handle: the approval row read and not yet updated
    base,         \* history: checkpoints in the table when the handle resumed
    undone,       \* history: those that its last strict reset went back behind
    revivers      \* history: handles that were there when the row last turned
                  \* completed or aborted, or set a status of their own since

past == <<base, undone>>
handleVars == <<pc, status, state, draft, found, past>>
tables == <<runs, checkpoints, approvals>>
vars == <<clock, tables, handleVars, revivers>>

Statuses == {"running", "waiting", "paused", "completed", "aborted"}
Terminal == {"completed", "aborted"}
Decisions == {"approved", "rejected"}
Accesses == {"read_run", "read_checkpoint", "update_run", "update_approval",
             "build", "insert"}
Nobody == <<"read_run">>  \* no handle; a resume would begin by reading the row

\* `asked' is history: the row of the request the approval is about.  The
\* code drops the id that save_approval returns.
AgentState == [planIndex : 0..PlanLength,
               approval : Decisions \cup {"none", "pending"},
               asked : 0..MaxApprovals]
FreshState == [planIndex |-> 0, approval |-> "none", asked |-> 0]

\* owner, base, undone and knows are history: whose it is, base and undone of
\* its handle, and what was in the table when it was built.
Checkpoint == [stamp : 0..MaxClock, status : Statuses, state : AgentState,
               owner : Handles, base : 0..MaxCheckpoints,
               undone : SUBSET (1..MaxCheckpoints), knows : 0..MaxCheckpoints]
NoDraft == [stamp |-> 0]
Approval == [stamp : 0..MaxClock, status : Decisions \cup {"pending"}]

Inserted == Len(checkpoints)

\* One handle created the run and holds it.
Init ==
    /\ clock = 0
    /\ runs = "running" /\ checkpoints = <<>> /\ approvals = <<>>
    /\ \E h \in Handles : pc = [g \in Handles |-> IF g = h THEN <<>> ELSE Nobody]
    /\ status = [h \in Handles |-> "running"]
    /\ state = [h \in Handles |-> FreshState]
    /\ draft = [h \in Handles |-> NoDraft]
    /\ found = [h \in Handles |-> 0]
    /\ base = [h \in Handles |-> 0] /\ undone = [h \in Handles |-> {}]
    /\ revivers = {}

-----------------------------------------------------------------------------
(* Latest.                                                                 *)

\* Mutation: ORDER BY created_at alone; of equal stamps the first is found.
NewestByStamp(table) ==
    {i \in DOMAIN table : \A j \in DOMAIN table :
        \/ table[j].stamp < table[i].stamp
        \/ table[j].stamp = table[i].stamp /\ i <= j}

\* ORDER BY created_at DESC, rowid DESC: row i comes before row j.
Later(table, i, j) ==
    \/ table[j].stamp < table[i].stamp
    \/ table[j].stamp = table[i].stamp /\ j < i

\* LIMIT 1.
NewestOf(table) ==
    {i \in DOMAIN table : \A j \in DOMAIN table : i = j \/ Later(table, i, j)}

\* Mutation: the oldest request is taken.
OldestApprovals ==
    {i \in DOMAIN approvals : \A j \in DOMAIN approvals :
        approvals[i].stamp <= approvals[j].stamp}

\* ORDER BY created_at DESC LIMIT 1: any of the rows with the last stamp.
LatestApprovals ==
    {i \in DOMAIN approvals : \A j \in DOMAIN approvals :
        approvals[j].stamp <= approvals[i].stamp}

-----------------------------------------------------------------------------
(* Storage accesses of a handle.                                           *)

Held(h) == pc[h] # Nobody
Idle(h) == pc[h] = <<>>
Left(h, access) == pc[h] # <<>> /\ Head(pc[h]) = access

Does(h, access) == Left(h, access) /\ pc' = [pc EXCEPT ![h] = Tail(@)]
GoesOn(h, accesses) == pc' = [pc EXCEPT ![h] = accesses]

\* resume: get_run.  The status of the row waits in `status'.
ReadRun(h) ==
    /\ pc[h] = Nobody /\ checkpoints # <<>>
    /\ GoesOn(h, <<"read_checkpoint", "update_run", "update_run">>)
    /\ status' = [status EXCEPT ![h] = runs]
    /\ UNCHANGED <<clock, tables, state, draft, found, past, revivers>>

\* Mutation: a run that is over is resumed like any other.
ResumeStatusAnyway(row, ckptStatus) ==
    IF "waiting" \in {row, ckptStatus} THEN "waiting" ELSE "running"

ResumeStatus(row, ckptStatus) ==
    IF row \in Terminal THEN row
    ELSE IF "waiting" \in {row, ckptStatus} THEN "waiting" ELSE "running"

\* resume: get_latest_checkpoint, hydrate, and on to update_run and to the row
\* that mark_resumed writes.  The policies that follow are Halt, Reset and
\* Finish below: their outcomes are the same when the host applies them later.
ReadCheckpoint(h) ==
    /\ Does(h, "read_checkpoint")
    /\ \E i \in NewestOf(checkpoints) :
         /\ status' = [status EXCEPT ![h] = ResumeStatus(@, checkpoints[i].status)]
         /\ state' = [state EXCEPT ![h] = checkpoints[i].state]
    /\ base' = [base EXCEPT ![h] = Inserted]
    /\ UNCHANGED <<clock, tables, draft, found, undone, revivers>>

\* The whole row, whatever another handle has put there.
UpdateRun(h) ==
    /\ Does(h, "update_run")
    /\ runs' = status[h]
    /\ revivers' = IF runs' \in Terminal /\ runs \notin Terminal
                   THEN {g \in Handles : Held(g)} ELSE revivers
    /\ UNCHANGED <<clock, checkpoints, approvals, status, state, draft, found, past>>

\* Checkpoint.from_run_state: copies the state and takes the stamp.
Built(h) ==
    draft' = [draft EXCEPT ![h] =
        [stamp |-> clock, status |-> status'[h], state |-> state'[h],
         owner |-> h, base |-> base[h], undone |-> undone[h], knows |-> Inserted]]

Build(h) ==
    /\ Does(h, "build")
    /\ UNCHANGED <<clock, tables, status, state, found, past, revivers>>
    /\ Built(h)

Insert(h) ==
    /\ Does(h, "insert")
    /\ Inserted < MaxCheckpoints
    /\ checkpoints' = Append(checkpoints, draft[h])
    /\ draft' = [draft EXCEPT ![h] = NoDraft]
    /\ UNCHANGED <<clock, runs, approvals, status, state, found, past, revivers>>

UpdateApproval(h) ==
    /\ Does(h, "update_approval")
    /\ approvals' = [approvals EXCEPT ![found[h]].status = state[h].approval]
    /\ found' = [found EXCEPT ![h] = 0]
    /\ UNCHANGED <<clock, runs, checkpoints, status, state, draft, past, revivers>>

-----------------------------------------------------------------------------
(* Calls of the hosts.                                                     *)

\* A call is not begun when the table has no room for its checkpoint and for
\* those on their way.
OnTheirWay == {h \in Handles : \E i \in DOMAIN pc[h] : pc[h][i] = "insert"}
MayCall(h) == Idle(h) /\ Inserted + Cardinality(OnTheirWay) < MaxCheckpoints

\* The call gives the handle's run a live status, whatever it has been.
Sets(h, to) ==
    /\ status' = [status EXCEPT ![h] = to]
    /\ revivers' = IF runs \in Terminal THEN revivers \cup {h} ELSE revivers

\* Mutation: the loop goes one step too far.
StepsLeftOrNone(h) == state[h].planIndex <= PlanLength

StepsLeft(h) == state[h].planIndex < PlanLength

\* A step that the loop yielded is completed, whatever has become of the run
\* since: advance_cursor.
CompleteStep(h) ==
    /\ MayCall(h) /\ StepsLeft(h)
    /\ state' = [state EXCEPT ![h].planIndex = @ + 1]
    /\ UNCHANGED status
    /\ Built(h) /\ GoesOn(h, <<"insert", "update_run">>)
    /\ UNCHANGED <<clock, tables, found, past, revivers>>

\* request_approval up to save_approval.
RequestApproval(h) ==
    /\ MayCall(h)
    /\ Len(approvals) < MaxApprovals
    /\ approvals' = Append(approvals, [stamp |-> clock, status |-> "pending"])
    /\ state' = [state EXCEPT ![h].approval = "pending", ![h].asked = Len(approvals')]
    /\ Sets(h, "waiting")
    /\ GoesOn(h, <<"build", "insert", "update_run", "update_run">>)
    /\ UNCHANGED <<clock, runs, checkpoints, draft, found, past>>

\* approve and reject up to get_latest_approval.
Decide(h, verdict) ==
    /\ MayCall(h) /\ state[h].approval # "none"
    /\ state' = [state EXCEPT ![h].approval = verdict]
    /\ Sets(h, IF verdict = "approved" THEN "running" ELSE "paused")
    /\ \E i \in LatestApprovals : found' = [found EXCEPT ![h] = i]
    /\ GoesOn(h, <<"update_approval", "build", "insert", "update_run", "update_run">>)
    /\ UNCHANGED <<clock, tables, draft, past>>

\* The outcome halt_for_human; pause() makes the same writes.
Halt(h) ==
    /\ MayCall(h) /\ "halt_for_human" \in Outcomes
    /\ Sets(h, "paused")
    /\ UNCHANGED state
    /\ Built(h) /\ GoesOn(h, <<"insert", "update_run", "update_run">>)
    /\ UNCHANGED <<clock, tables, found, past>>

\* The outcome load_checkpoint: _load_green_checkpoint.  Any row may be marked
\* green; for one that is missing it raises before it writes anything.
Reset(h) ==
    /\ Idle(h) /\ "load_checkpoint" \in Outcomes
    /\ \E i \in DOMAIN checkpoints :
         /\ state' = [state EXCEPT ![h] = checkpoints[i].state]
         /\ undone' = [undone EXCEPT ![h] =
                         {j \in DOMAIN checkpoints : Later(checkpoints, j, i)}]
    /\ Sets(h, "running")
    /\ GoesOn(h, <<"update_run">>)
    /\ UNCHANGED <<clock, tables, draft, found, base>>

\* SemanticRun.complete and SemanticRun.abort; the outcome abort makes the
\* writes of the latter, and the host that sees PolicyAbort drops the handle.
Finish(h, to) ==
    /\ MayCall(h)
    /\ status' = [status EXCEPT ![h] = to]
    /\ UNCHANGED state
    /\ Built(h) /\ GoesOn(h, <<"insert", "update_run", "update_run">>)
    /\ UNCHANGED <<clock, tables, found, past, revivers>>

\* The handle is dropped or its process dies, in a call or between two.
Leave(h) ==
    /\ Held(h)
    /\ GoesOn(h, Nobody)
    /\ status' = [status EXCEPT ![h] = "running"]
    /\ state' = [state EXCEPT ![h] = FreshState]
    /\ draft' = [draft EXCEPT ![h] = NoDraft]
    /\ found' = [found EXCEPT ![h] = 0]
    /\ base' = [base EXCEPT ![h] = 0] /\ undone' = [undone EXCEPT ![h] = {}]
    /\ revivers' = revivers \ {h}
    /\ UNCHANGED <<clock, tables>>

Tick ==
    /\ clock < MaxClock
    /\ clock' = clock + 1
    /\ UNCHANGED <<tables, handleVars, revivers>>

Access(h) ==
    ReadRun(h) \/ ReadCheckpoint(h) \/ UpdateRun(h) \/ Build(h) \/ Insert(h)
    \/ UpdateApproval(h)

Call(h) ==
    \/ CompleteStep(h) \/ RequestApproval(h) \/ Halt(h) \/ Reset(h)
    \/ \E verdict \in Verdicts : Decide(h, verdict)
    \/ \E to \in Endings : Finish(h, to)

Next == Tick \/ \E h \in Handles : Access(h) \/ Call(h) \/ Leave(h)

Spec == Init /\ [][Next]_vars

-----------------------------------------------------------------------------

\* Domains; a draft is there exactly between building and inserting it, and
\* a handle on its way to update an approval has found one.
TypeOK ==
    /\ clock \in 0..MaxClock /\ runs \in Statuses
    /\ checkpoints \in Seq(Checkpoint) /\ Inserted <= MaxCheckpoints
    /\ approvals \in Seq(Approval) /\ Len(approvals) <= MaxApprovals
    /\ status \in [Handles -> Statuses] /\ state \in [Handles -> AgentState]
    /\ base \in [Handles -> 0..MaxCheckpoints] /\ revivers \subseteq Handles
    /\ undone \in [Handles -> SUBSET (1..MaxCheckpoints)]
    /\ pc \in [Handles -> Seq(Accesses)]
    /\ draft \in [Handles -> Checkpoint \cup {NoDraft}]
    /\ found \in [Handles -> 0..MaxApprovals]
    /\ \A h \in Handles :
         /\ IF Left(h, "insert") THEN draft[h] \in Checkpoint ELSE draft[h] = NoDraft
         /\ IF Left(h, "update_approval") THEN found[h] \in DOMAIN approvals
                                            ELSE found[h] = 0

\* A resume never picks a checkpoint over one that was begun after it was
\* already in the table, also when both carry the same stamp: the second key
\* of the ORDER BY is needed.
NewestSupersedes ==
    \A i \in NewestOf(checkpoints) :
        \A j \in DOMAIN checkpoints : checkpoints[j].knows < i

\* A completed step is missing from the newest checkpoint only if a later
\* checkpoint was written by another handle that had resumed before the step's
\* was inserted, or by one that a strict reset had taken back behind it.
\* Handles that follow each other lose nothing, wherever the earlier one died.
Overlaps(k, i) ==
    /\ Later(checkpoints, k, i)
    /\ checkpoints[k].owner # checkpoints[i].owner /\ checkpoints[k].base < i
LostOnlyToOverlap ==
    \A n \in NewestOf(checkpoints), i \in DOMAIN checkpoints :
        checkpoints[i].state.planIndex > checkpoints[n].state.planIndex =>
            \E k \in DOMAIN checkpoints : Overlaps(k, i) \/ i \in checkpoints[k].undone

\* approve() and reject() decide the request the state is about, unless there
\* is another one stamped no earlier: then the answer to one request may be
\* recorded at the other, and this one stays pending.
Decided(a) == a.status \in Decisions
OwnRequestDecided ==
    \A h \in Handles :
        /\ state[h].approval \in Decisions
        /\ ~Left(h, "update_approval")
        => \/ Decided(approvals[state[h].asked])
           \/ \E r \in DOMAIN approvals \ {state[h].asked} :
                approvals[r].stamp >= approvals[state[h].asked].stamp

\* A row that says completed or aborted is put back only by a handle that was
\* already there when it came to say so, or that has since asked for or decided
\* on an approval, halted or been reset.  A resume by itself keeps it, in both
\* its writes, and so do the steps that are completed after it.
PutBackByReviver ==
    runs \in Terminal /\ runs' \notin Terminal =>
        \E h \in revivers : Left(h, "update_run") /\ pc'[h] = Tail(pc[h])
ResumeKeepsTerminal == [][PutBackByReviver]_vars
=============================================================================
