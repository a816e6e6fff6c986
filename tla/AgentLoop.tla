----------------------------- MODULE AgentLoop -----------------------------
(***************************************************************************)
(* The two host programs of examples/survive_the_swap.py on top of         *)
(* RunKernel.  The first starts the run, works on the steps in the body of *)
(* the loop and lets the loop complete them; at a gate it asks for         *)
(* approval, breaks and exits.  The second resumes the run, approves it,   *)
(* goes through the rest of the plan and completes the run; it is started  *)
(* again after every exit that left the run unfinished.  RunKernel leaves  *)
(* the calls of the host open; this module fixes them, so that something   *)
(* can be said about where the run ends up.                                *)
(*                                                                         *)
(* What goes wrong is counted: a process that dies anywhere, a human who   *)
(* rejects, a step that raises, a policy that halts the resumed run.       *)
(***************************************************************************)
EXTENDS RunKernel, FiniteSets

CONSTANTS
    Gates,       \* steps that ask for approval
    MaxSetbacks  \* bound on what goes wrong

ASSUME GatesAssumption == Gates \subseteq StepNames /\ MaxSetbacks \in Nat

VARIABLES
    program,   \* which of the two programs the process runs
    at,        \* where it is in it
    work,      \* history: how often each step has been worked on
    setbacks   \* history: how often something went wrong

hostVars == <<program, at, work, setbacks>>
loopVars == <<vars, hostVars>>

Places == {"resumed", "started", "looping", "worked", "broken", "leaving", "through",
           "done", "gone"}

Start ==
    /\ Init
    /\ program = "first" /\ at = "started"
    /\ work = [s \in StepNames |-> 0]
    /\ setbacks = 0

GoTo(from, to) == at = from /\ at' = to /\ UNCHANGED program
SetBack == setbacks < MaxSetbacks /\ setbacks' = setbacks + 1

InHand == Plan[step.index + 1]
AtGate == InHand \in Gates

-----------------------------------------------------------------------------
(* The programs.                                                           *)

\* A call in progress goes on; the host waits for it.
CallGoesOn ==
    /\ SaveApproval \/ UpdateApproval \/ EndStepSync \/ SaveCheckpoint
       \/ NoteCheckpoint \/ UpdateRun \/ EndPolicies
    /\ UNCHANGED hostVars

\* for step in run.steps().
EnterLoop ==
    /\ GoTo("started", "looping")
    /\ OpenLoop
    /\ UNCHANGED <<work, setbacks>>

NextStep ==
    /\ at = "looping"
    /\ FetchStep
    /\ UNCHANGED hostVars

\* step.tool, or step.llm and step.remember.
WorkOnStep ==
    /\ GoTo("looping", "worked") /\ ~AtGate
    /\ step.phase = "body"
    /\ (\E t \in Tools : ToolStep(t)) \/ TakeCheckpoint
    /\ work' = [work EXCEPT ![InHand] = @ + 1]
    /\ UNCHANGED setbacks

\* step.require_approval, which the first program calls at a gate whatever
\* the state says; the second does nothing there.
AskForApproval ==
    /\ program = "first" /\ AtGate
    /\ GoTo("looping", "broken") /\ step.phase = "body"
    /\ RequestApproval
    /\ UNCHANGED <<work, setbacks>>

\* Mutation: the host leaves the loop with the generator held at its yield.
BreakHeld ==
    /\ GoTo("broken", "leaving")
    /\ Idle /\ UNCHANGED vars
    /\ UNCHANGED <<work, setbacks>>

\* break at the gate, or the exception of a step.
BreakLoop ==
    /\ GoTo("broken", "leaving")
    /\ Break
    /\ UNCHANGED <<work, setbacks>>

\* The body is over: the work is done, or there is none.
BodyOver == at = "worked" \/ (at = "looping" /\ AtGate /\ program = "second")

StepIsComplete ==
    /\ step.phase = "body" /\ BodyOver
    /\ LoopCompletes
    /\ at' = "looping"
    /\ UNCHANGED <<program, work, setbacks>>

\* The first program ends with its loop, however that ends; the second
\* goes on.
StepsReturns ==
    /\ GoTo("looping", IF program = "first" THEN "leaving" ELSE "through")
    /\ LoopEnds
    /\ UNCHANGED <<work, setbacks>>

\* env.complete(run), which does not ask how the loop ended.
CompleteRun ==
    /\ GoTo("through", "done")
    /\ Complete
    /\ UNCHANGED <<work, setbacks>>

\* run.approve(), first thing after the resume; it raises if no approval
\* was ever asked for.
ApproveRun ==
    /\ \/ GoTo("resumed", "started") /\ Approve
       \/ /\ GoTo("resumed", "leaving")
          /\ Idle /\ state.approval = "none" /\ UNCHANGED vars
    /\ UNCHANGED <<work, setbacks>>

\* env.close() and the end of the process.
Leave ==
    /\ GoTo("leaving", "gone")
    /\ Idle /\ Exit
    /\ UNCHANGED <<work, setbacks>>

HostGoesOn ==
    CallGoesOn \/ EnterLoop \/ NextStep \/ WorkOnStep \/ AskForApproval
    \/ BreakLoop \/ StepIsComplete \/ StepsReturns \/ CompleteRun
    \/ ApproveRun \/ Leave

\* A new process resumes the run: the second program.
Restart ==
    /\ at = "gone" /\ at' = "resumed" /\ program' = "second"
    /\ Resume
    /\ UNCHANGED <<work, setbacks>>

-----------------------------------------------------------------------------
(* What goes wrong.                                                        *)

Crash ==
    /\ Exit /\ SetBack
    /\ at' = "gone"
    /\ UNCHANGED <<program, work>>

\* The human says no: reject() in the place of approve(), and the program
\* is left.
HumanRejects ==
    /\ GoTo("resumed", "leaving")
    /\ Reject /\ SetBack
    /\ UNCHANGED work

\* The work is tried and raises, and the exception ends the loop.
WorkFails ==
    /\ GoTo("looping", "broken") /\ ~AtGate
    /\ step.phase = "body"
    /\ TakeCheckpoint /\ SetBack
    /\ work' = [work EXCEPT ![InHand] = @ + 1]

\* A policy halts the run that is being resumed; the program approves it
\* and enters the loop all the same.
PolicyHalts ==
    /\ ApplyHalt /\ SetBack
    /\ UNCHANGED <<program, at, work>>

\* The run is completed, or nothing was checkpointed and resume() raises.
Over ==
    /\ \/ at = "done" /\ Idle
       \/ at = "gone" /\ checkpoints = <<>>
    /\ UNCHANGED loopVars

Steps ==
    HostGoesOn \/ Restart \/ Crash \/ HumanRejects \/ WorkFails \/ PolicyHalts \/ Over

Fairness ==
    /\ WF_loopVars(HostGoesOn)     \* the interpreter runs the program on
    /\ WF_loopVars(Restart)        \* somebody starts it again

LoopSpec == Start /\ [][Steps]_loopVars /\ Fairness

-----------------------------------------------------------------------------

\* The kernel's domains hold under this host too, and the host is where its
\* handle is: a step is in its body only while the host is in the loop.
LoopTypeOK ==
    /\ TypeOK
    /\ program \in {"first", "second"} /\ at \in Places
    /\ work \in [StepNames -> Nat] /\ setbacks \in 0..MaxSetbacks
    /\ live <=> at # "gone"
    /\ step.phase = "body" => at \in {"looping", "worked", "broken"}

\* A step behind a gate is worked on only with the approval in the state, in
\* the newest checkpoint and in the newest row of the approvals table: no
\* crash between the writes of a request, of a rejection or of an approval
\* opens the gate.
BehindGate ==
    step.phase = "body" /\ (\E i \in 1..step.index : Plan[i] \in Gates) =>
        state.approval = "approved" /\ SavedApproval = "approved" /\ RowApproval = "approved"

\* The times a step has been worked on, without the first.
Redone == UNION {{s} \X (2..work[s]) : s \in StepNames}

\* Without redoing completed work: each setback makes at most one step be
\* worked on once more, whatever the number of steps and processes.
RedoneWithinSetbacks == Cardinality(Redone) <= setbacks

\* A run whose row says completed has its whole plan durably completed, though
\* complete() does not look at the plan: that nothing is left to do when the
\* second program calls it is what approve() and the loop have to have seen
\* to, whatever status the run was resumed with.
CompletedIsThrough ==
    runs.status = "completed" =>
        \A i \in 1..N : Plan[i] \in checkpoints[Newest].state.completed

\* Once the request for approval is in a checkpoint the plan gets through
\* and the tables say so for good, if only finitely much goes wrong: no crash
\* leaves the tables in a combination from which resume(), approve() and
\* steps() do not lead on.
Requested == SavedApproval # "none"
Finished ==
    /\ runs.status = "completed"
    /\ checkpoints[Newest].state.planIndex = N
    /\ checkpoints[Newest].state.completed = {Plan[i] : i \in 1..N}
PlanFinishes == Requested ~> []Finished
=============================================================================
