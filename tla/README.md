# A verification project for SemanticRun

SemanticRun is a library that makes an agent's run durable: the host program
works through a plan, the library checkpoints the run into SQLite, and after a
crash, a human wait or a change of the environment `resume` continues from the
newest checkpoint, compares the environment with it and enforces policies. This
directory holds TLA+ modules of that code, TLC configurations that check them
on small instances, and theorems that TLAPS proves for every instance. Paths
below are relative to `src/`; `semanticrun/` is the implementation.

## 1. Inventory

| Component | State it keeps | Operations | Interacts with |
|---|---|---|---|
| `runtime.py` `SemanticRun` | storage, ledger, router, optional worker | `create_run`, `resume`, `complete`, `abort`, `close` | makes handles, reads and writes table `runs`, drains and stops the worker |
| `kernel/run_handle.py` `RunHandle` | `_run`, `_state`, `_tool_schemas`, file tree, pending revalidations | `steps`, `checkpoint`, `pause`, `request_approval`, `approve`, `reject`, `mark_green_checkpoint`, `apply_policies`, ... | called by the host and by its step objects; writes all tables |
| `kernel/step_context.py` `StepContext`, `PlanStepHandle` | the step in hand, its `_completed` and `_failed` flags | `tool`, `llm`, `remember`, `require_approval`, `complete`, `fail` | calls the gate, the host's callback, the handle |
| `kernel/ledger.py` `SideEffectLedger` | table `side_effects` | `record_tool_side_effect`, `permit_replay`, `compare_outbound`, `check_outbound_divergence` | asked before a tool is called, written after it |
| `kernel/checkpoint_worker.py` | a queue and a thread | `enqueue`, `drain`, `stop` | runs `RunHandle.checkpoint` for all handles |
| `checkpoint/`, `models/checkpoint.py` | none; builds snapshots | `create_checkpoint`, `should_checkpoint`, hashing | between the handle and the storage |
| `storage/sqlite.py` | tables `runs`, `checkpoints`, `approvals`, `side_effects`, `audit_events` | one commit per write; "latest" queries | everything |
| `kernel/divergence_matrix.py`, `kernel/artifact_diff.py`, `models/divergence.py` | none | pure comparison of a checkpoint with the host's artifacts | `resume`, `route_policies` |
| `resume/router.py`, `policies/` | registry of hooks, flag-to-hook mapping | `route`, hooks that answer abort, load_checkpoint, run_assertions, halt_for_human | `apply_policies` enforces the answers |
| `kernel/skip_rules.py`, `checkpoint/triggers.py` | a static pattern list | `classify_action`, `should_checkpoint` | decide whether a step is checkpointed |
| `audit/log.py` | table `audit_events` | `emit` | append only, never read back by the runtime |
| `benchmarks/`, `examples/` | host programs | | use the facade |

What is hard here:

* **Crashes between commits.** Every storage call commits by itself, and most
  operations make two to four of them: `checkpoint` writes the checkpoint, an
  audit record and then the run's row; `request_approval` writes the approval
  first. `resume` combines the row and the newest checkpoint, whatever
  combination a crash left.
* **The same fact in two places.** Status in the row and in the checkpoint; the
  green mark in the row and inside the state; the cursor as an index and as a
  list of names; artifacts inside and outside the `AgentState`.
* **A generator that hands control to the host.** Between two `yield`s the host
  may complete, fail, pause, ask for approval or apply policies that replace
  the whole state under the step in hand.
* **Effects before records.** A tool acts on the world before the ledger knows.
* **A thread** that writes checkpoints while the agent waits, that may die, and
  that may be told to leave while agents wait.
* **Commits that raise** in the middle of a call that has already changed memory.
* **Several handles on one run**, in one process or in several: nothing prevents
  them, each keeps its own copy of everything, and "latest" is a time stamp.
* **A host that is part of the protocol.** Whether a run ever gets through its
  plan depends on what the host does at a gate that is yielded again after its
  approval, and on what a restart finds; `complete()` takes its word for it.
* **Sparse checkpoints.** Which steps are checkpointed follows from their type,
  from a pattern list, from flags that calls overwrite, and from a period.

What makes each part correct: the handle never works from less than the newest
checkpoint knows (unless a reset took it back) and its row follows it; a pending
approval keeps the run from running; the cursor passes no step that was not
yielded; a reset finds its checkpoint; the ledger claims only what happened and
one target gets one payload; a step returns only with its checkpoint written,
and does return; what had an effect is in the newest checkpoint when its step
has returned; handles that follow each other lose nothing; and a host that keeps
coming back gets its plan done, repeating no more than went wrong.

## 2. The modules

| Module | What it is |
|---|---|
| `DurablePlan` | abstract specification: the durable cursor of a plan, moved only by completing a step or by a strict reset |
| `RunKernel` | one run: `RunHandle`, the facade around it, tables `runs`, `checkpoints`, `approvals`, and the death of the process |
| `MCRunKernel` | the plans of one and of three steps TLC checks it with |
| `RunKernelProofs` | theorems about `RunKernel` |
| `ReplayGate` | `tool()`, the side-effect ledger and the outside world, for one or more handles on a run |
| `ReplayGateProofs` | theorems about `ReplayGate` |
| `DivergenceMatrix` | what a resume compares and which flags it raises, as operators |
| `ResumePolicies`, `MCResumePolicies` | a run in a drifting environment: artifacts, `resume`, mapping, hooks and router, `apply_policies`, pending revalidations; the default mapping and what hosts bring |
| `ResumePoliciesProofs` | theorems about the flags of `DivergenceMatrix` and about `ResumePolicies` |
| `CheckpointWorker` | `async_checkpoints=True`: the worker thread, its queue, the agents and `close()` |
| `CheckpointWorkerProofs` | theorems about `CheckpointWorker` |
| `AgentLoop`, `MCAgentLoop` | the two programs of `examples/survive_the_swap.py`, on top of `RunKernel`, the second started again after every exit; a plan with a gate, a step before it and two behind it |
| `AgentLoopProofs` | that the programs are a host of the kernel, and theorems about them |
| `SharedRun`, `MCSharedRun` | several handles on one run, storage access by storage access, and the clock that says which row is latest |
| `SharedRunProofs` | theorems about `SharedRun` |
| `ResultHash` | which parts of a tool result are compared, as recursive functions on JSON values |
| `ResultHashProofs` | theorems about `ResultHash`, for all finite values and all exclusions |
| `ToolSteps`, `MCToolSteps` | a step from `_begin_step` to `_end_step`: skip rules, commitments, ledger classes and which steps are checkpointed |
| `ToolStepsProofs` | theorems about `ToolSteps` |

`RunKernel` is used twice: with every call of the host open, and under
`AgentLoop`, which extends it and fixes them. `ToolSteps` extends `ResultHash`,
`ResumePolicies` extends `DivergenceMatrix`. `ToolSteps` and `SharedRun` open up
what `RunKernel` leaves as a choice or takes as given: when `_end_step` takes a
checkpoint, and that the last row is the latest.

`ReplayGate` and `CheckpointWorker` are checked directly, their constants are
given in the configurations. Operators whose comment starts with *Mutation* are
plausible bugs; they appear in no specification and serve to show that each
property notices the bug (`PROJECT.json`, "mutants").

### RunKernel and the code

| Model | Code |
|---|---|
| `run`, `state`, `schemas` | `RunHandle._run` (status, latest and last green checkpoint), `_state`, `_tool_schemas` |
| `step` | the generator `steps()` and the `PlanStepHandle` it yielded; phase `top` is the head of the `while`, `body` the suspended `yield`, `completing` a `complete()` of the host, `closing` the one the generator makes |
| `pc` | the next durable write of the call in progress |
| `routing`, `target` | the loop over the outcomes in `apply_policies`, and the checkpoint StrictReset answered when it was routed; `Unknown` is an id that no checkpoint has, which `mark_green_checkpoint` takes unchecked |
| `runs`, `checkpoints`, `approvals` | the tables; an id is a position, 0 is None |
| `live` | whether a process holds a handle |
| `rewound` | history: the checkpoint a strict reset has put into memory, if none was taken since |
| `trail` | history: whether the newest approvals row has been followed by its checkpoint, is ahead of it, or was parted from it by a crash, a failed write or a reset |
| `overridden` | history: an approval was pending when the run was paused, halted or reset |

A call of the host is one action for its changes in memory and one for each
durable write that follows (`SaveApproval`, `UpdateApproval`, `EndStepSync`,
`SaveCheckpoint`, `NoteCheckpoint`, `UpdateRun`). `Exit` may fall between any
two, and so may `WriteFails`, when the configuration allows commits to raise.
The audit record between `SaveCheckpoint` and `NoteCheckpoint` is a place
where a call may fail or the process may die, and is not stored.

Abstractions: a plan is a sequence of model values; working memory, claims,
tool results, model context and file tree are payload and left out; a tool call
is a member of `Tools` and its schema another member of `schemas`; whether
`_end_step` checkpoints is a choice; which outcomes the policies return is a
choice in any order and number; timestamps grow, so "latest" is the last row.
One process at a time holds the run.

No call asks whether an approval is pending or whether the run is over, and
neither do the policies: `pause()`, a halt, a strict reset and `complete()` may
come at any time, and so may `approve()` and `reject()` once there was a request.
`GateShut` excuses what a pause, a halt or a reset under a pending approval does
(`overridden`), and nothing else. A reset to a checkpoint that does not exist is
`LoadMissing`: `RuntimeError` out of `apply_policies`, which the body of a loop
may catch, or out of `resume`, which then returns no handle.

`DurablePlan` has the durable cursor, the cursors ever recorded and the `base`
work goes on from: the cursor, or the recorded one that a `Reset` has put into
memory. A step of the plan is completed at the base only, so a process that goes
on from an old checkpoint without a reset, or after its reset was forgotten in
a crash, does not implement it.

### AgentLoop and the code

`program` says which of the two programs the process runs and `at` where it
stands; every step of the host is a call of `RunKernel` and a move to another
place. The first program starts the run, works on the steps and lets the loop
complete them; at the `approve` step it calls `require_approval` whatever the
state says, breaks and exits (`AskForApproval`, `BreakLoop`), and it calls no
`complete`. Each later process is the second program: it resumes, calls
`approve()` first thing, whatever the status, goes through what is left of the
plan and calls `complete()` without a look at how the loop ended (`StepsReturns`,
`CompleteRun`). Its loop has no branch for the `approve` step, so the loop
completes that one with nothing done; on every other step that is left it works
(the example has one such step). `approve()` raises if no approval was ever
asked for, and the program ends. `WorkOnStep` is a tool call, or an LLM call and
a `remember`; `StepIsComplete` what the generator does when the loop asks for the
next step; `Leave` the `finally: env.close()`.

Setbacks are counted by a history variable: the process dies at any point
between two writes (`Crash`), the human says no (`reject()` in the place of
`approve()`, and the program is left), the work raises and the exception ends
the loop, or a policy halts the resumed run before the program approves it.

### SharedRun and the code

A handle reads the tables in `ReadRun` and `ReadCheckpoint`, and never again.
`pc[h]` is the list of accesses its call still has to make, so that the two
writes of the row by `resume` (`runtime.py:174` and `mark_resumed`) and the two
`_sync_run` calls that end `request_approval`, `approve`, `reject`, `complete`,
`abort` and a halt are two steps, and `advance_cursor` has one. The policies that
follow in `resume` (`runtime.py:180`) are `Halt`, `Reset` and `Finish`: they make
the same changes and writes when a host applies them later, and they may come
at any time, also on a run that is over, as may every call. `Build` takes the
stamp (`created_at` is a default of the model, `checkpoint.py:44`), `Insert`
commits. `NewestOf` follows `ORDER BY created_at DESC, rowid DESC`,
`LatestApprovals` `ORDER BY created_at DESC` alone: of rows with equal stamps
SQLite may return any, so the model takes any. `owner`, `base`, `knows`, `undone`,
`asked` and `revivers` are history: whose a checkpoint is, what its handle had
found when it resumed, what was in the table when it was built, what a reset
went back behind, which request an approval is about, and which handles may put
a finished run back: those that were there when it came to be finished, and
those that asked for or decided on an approval, halted or were reset since. The
clock does not step back. A commit that finds the database locked by another
process raises in the code and does not happen here.

`NewestSupersedes` is what lets `RunKernel` take the last row for the latest:
with handles that follow each other every checkpoint knows of all before it.

### ResultHash, ToolSteps and the code

A JSON value is a leaf, a dict or a list; `Stripped` follows `_strip_keys` case
by case. `Visible` is the reference it is compared with: the nodes of a value
to which no excluded path leads, where a path counts keys and not positions in
lists (a node has the way to it and the keys on that way). Two hashes are equal
when what is hashed is. The keys have no dots. `Stripped` does not return early
where nothing is excluded, as the code does; `NothingExcluded` says that this is
the same. `Values` is a constant, any set of values that has the parts of its
members; that a JSON value is a finite tree is said by `Depth`, which falls from a
value to its parts.

`BeginStep`, `SetToolResult`, `Remember`, `LeaveStep`, `Sync`, `Checkpoint` (the insert)
and `NoteCheckpoint` (the row after it) are the steps of `with run.step(...)`; of the arguments' text only the
words that a pattern looks for are kept. `ctx.relevant` is overwritten by every
call in the step, as in the code. `should_checkpoint` would classify the action
itself if it were not told, but `_end_step` always tells it, so that branch
is not part of `SideEffectBoundary`. A step may make several calls, or none.

### ReplayGate and the code

`Begin`, `PermitReplay`, `CompareOutbound`, `FlagDivergence`, `Invoke` or
`InvokeRaises`, `RecordEffect` and `EndStep` are the way of one call through
`PlanStepHandle.tool`, `StepContext.tool`, `SideEffectLedger.permit_replay`, the
callback, `set_tool_result` and `_end_step`. The gate reads the ledger twice
(`ledger.py:128` and `115`), and `FlagDivergence` marks the record read *first*.
`Kinds` says how the host passes `side_effect=` and `outbound=`: only with both
is the gate asked (`step_context.py:116`), but every call is recorded.
`effects` is the outside world and counts what reached it; `torn` is a history
variable. A tool that raises may or may not have had its effect. Each target
stands for the plan step that calls it, and `done` for the steps that the newest
checkpoint has as completed. Calls made outside of a plan step have no
completion that would stop them from being repeated and are not modelled.

### DivergenceMatrix, ResumePolicies and the code

`DivergenceMatrix` follows `build_divergence_matrix`, the diffs it calls and
`check_outbound_divergence`: what the host does not bring is not compared, a
schema is compared under every name on either side, results and payloads under
the names on both. `HasDivergence` and `TriggeredFlags` are two definitions
because they are two in the code (`models/divergence.py:23` and `45`), and
`resume` uses the first to decide whether the second is looked at. A hash, a
text, a plan or a model id is a member of `Versions`, `Unset` is None or a
missing entry. `hash_exclude` takes fields out of the hash and is part of what a
version is; a custom canonicalizer is not modelled.

| Model | Code |
|---|---|
| `env` | what a host would bring now, and the payloads it would send |
| `sent` | outbound hash of each target's last record (`compare_outbound` sees no more) |
| `art`, `green`, `pending` | the artifacts inside and beside the `AgentState`, its green mark, `_pending_revalidations` |
| `run` | `RunHandle._run` and its row, which every call here ends by syncing |
| `outcomes`, `matrix` | the list `route` returned, as the flags they answer, and what their payloads were computed from |
| `seen`, `called` | history: flags of the last resume, tools called since |

`RunKernel` is about the writes of each call and leaves the outcomes open; here
a call of the host is one step and the outcomes follow from the artifacts. The
loop of `apply_policies` is one step for each outcome, and `Exit` may fall
between two. A process that dies inside `resume` and one that exits are the same
step. A tool always passes its schema; a payload goes with a declared side
effect (the other combinations are in `ReplayGate`); approvals are in
`RunKernel`, so a checkpoint's approval status is `Unset` here. PolicyAbort
leaves the host without a handle, as `resume` does not return one; so does the
`RuntimeError` of a reset to a green checkpoint that does not exist
(`EnforceMissing`).

### CheckpointWorker and the code

`queue.Queue` is external: `queue` and the count of unfinished tasks. A job is
named by the agent that asked for it. `WorkerFails` is an exception of
`create_fn`: `finally` calls `task_done`, and the exception ends the thread.
`close()` may be called at any moment, also while agents wait or take further
steps: `Stop` puts the sentinel behind the jobs there are, `JoinReturns` may
happen at any time after it, because `join` has a timeout, and closes the
storage, on which a job that is still running raises. The sentinel is taken
without `task_done`, jobs behind it are never run. `due` is history: what had
been asked for when `stop()` was called.

## 3. What the runs check

The reachable states below are TLC's counts.

| Run | Instance | Shows |
|---|---|---|
| `kernel` | 1 step, 1 tool, 3 checkpoints, failing commits, any green mark, strict reset anywhere; 1.9 M states | `TypeOK`, `GreenRefsBackward`, `SchemasHydrated`, `DurableWorkKept` |
| `loop` | 3 steps, 3 checkpoints, 2 approvals, pauses, failures, decisions, the end of the run, all outcomes on resume; 6.0 M | `CursorIsCompletedPrefix`, `CompletedIsDurable`, `EveryPositionYielded`, `ImplementsDurablePlan`, `GateShut`, `VerdictOnRecord` |
| `replay_one` | 1 handle, 2 targets, 2 payloads, 4 calls; 0.09 M | `TypeOK`, `RecordsAgree`, `CompletedNotRedone` |
| `replay_two` | 2 handles, 1 target, 2 payloads, 3 calls of each kind; 0.53 M | `LedgerTruth`, `LedgerComplete` |
| `worker` | 3 agents, 2 jobs each, jobs may raise, `close` at any time; 48 k | `TypeOK`, `UnfinishedExact`, `OneLost`, `StopWaitsForJobs`, `StepReturns` |
| `policies` | 2 tools, 2 versions, 2 drifts, 2 checkpoints, 2 tool calls, default mapping; 0.54 M up to symmetry | `TypeOK`, `PoliciesEnforced`, `ComparedIsAnswered`, `RevalidationPending` |
| `agent` | a step, a gate and two steps behind it, 1 tool, 3 setbacks; 0.43 M | `LoopTypeOK`, `BehindGate`, `RedoneWithinSetbacks`, `CompletedIsThrough`, `PlanFinishes` |
| `shared` | 2 handles, 2 plan steps, requests and approvals, 2 ticks, 3 checkpoints, 2 approvals; 1.2 M up to symmetry | `TypeOK`, `NewestSupersedes`, `LostOnlyToOverlap`, `OwnRequestDecided` |
| `shared_over` | 2 handles, 2 plan steps, complete, halt and strict reset, 1 tick, 3 checkpoints; 2.5 M up to symmetry | `LostOnlyToOverlap`, `ResumeKeepsTerminal` |
| `steps` | 3 steps, period 2, 2 records, 5 calls, 28 JSON values, 4 exclusion lists; 5.8 M | `TypeOK`, `EffectsCheckpointed`, `SparseCheckpoints`, `PeriodKept`, `MismatchIffVisible` |
| `abort_lost` | 1 step, an aborting policy | finding: `AbortIsFinal` fails |
| `masked_record` | 1 handle, one call without payload | finding: `RecordsAgree` fails |

**Bounds.** `MaxCheckpoints`, `MaxApprovals`, `MaxEffects` and `MaxJobs` bound
the tables; where a bound is reached the action that would insert is disabled
and the process may still exit. Three checkpoints are enough for a green one, a
later one that does not know of it, and a third after a resume or a reset, and
for a request, its decision and a change of mind, or a plan of three steps.
`kernel`, where commits fail, needs no second step for what it checks; `loop` has
three, so that the cursor can pass one over. Two approval rows are enough for a
second request after a decision. In `SharedRun` a call is begun only when the table has
room for its checkpoint and those of the other calls in progress. One handle needs two targets to show that targets do
not interfere and four calls for a repetition of each; the races between two
handles are about one target. Three agents are enough for a job queued behind
another agent's while a third waits. For `policies`, two drifts make two
flags, which is what an order of outcomes takes (two results, or an intent, a
payload or the caller's word beside a result), and two checkpoints a green one
and the one that an abort or a halt takes or that a reset goes back from. The tools are interchangeable, hence the symmetry.

For `agent`, there is a step to lose before the gate, one to lose behind it and
one that must not be worked on before that; three setbacks let a crash, a no and
a halt follow each other at one gate, in any order; 24 checkpoints are more, and
2 approvals as many, as three setbacks can make it write, so that no bound stops
it. For the two `shared` runs, three checkpoints are one that is lost, the one
that overwrites it and one that a later resume builds on. `shared` is about
approvals and stamps: two approvals are two requests whose answers may be mixed
up, two ticks make stamps equal and different; the human only approves, as a
rejection writes the same rows with other words. `shared_over` is about the end
of the run, where all stamps are equal; an abort writes what a completion does.
The handles are interchangeable, hence the symmetry. For `steps`, three steps are
a period, its end and one more, two records an effect and a read after it; the
values have time stamps at the top, below a key, in a list and below a key in a
list.

Deadlock checking is off where a host may stop or a run without a checkpoint
cannot be resumed. It is on for `agent`: there the program and the restart
always go on, until the plan is through or there is nothing to resume.

**Fairness.** `RunKernel`, `ReplayGate` and `ResumePolicies` state none: what a host does next is
its own business, and all their properties are safety properties. The same is true of `SharedRun` and `ToolSteps`.
`CheckpointWorker` assumes weak fairness of the worker thread and of an
agent's return from `drain`: both are threads in a blocking `get` or `join` that
the interpreter schedules once they can go on. Nothing is assumed about the
agents' next calls or about `close`. The queue is not left alone: other agents
keep putting jobs in while somebody waits, `MaxJobs` of them each. That there are
finitely many is part of what `StepReturns` says (see the observations).
`AgentLoop` assumes weak fairness of two things: the host's program, which is
ordinary code whose calls return (`HostGoesOn`), and somebody who starts it again
after it has exited (`Restart`). The second program approves without being told
to, so nothing is assumed of a human. Nothing is assumed about what goes wrong,
except that it is finitely often. `PlanFinishes` holds from the checkpoint of the
first request on: a run that dies before its first checkpoint cannot be resumed
at all, and one that dies before it asked is resumed by a program whose
`approve()` raises each time.

**`OneLost` and `StepReturns`** are what is left of "written before the step
returns" when jobs may raise. The unconditional forms are what README and
comments say; `DurableOnReturn`, a part of `OneLost`, does not hold with
`JobsMayFail`. `StepReturns` excuses the steps that wait when `stop()` is called: the
count keeps the sentinel and never is zero again. `StopWaitsForJobs` is about the
other side, what `close()` leaves of the checkpoints asked for before it.

**`PoliciesEnforced` and `RevalidationPending`.** The first holds because of the
order of the flags: under the default mapping every strict reset comes before
the halt, and an abort ends the resume wherever it stands. The second says how
much a pending revalidation is worth: calling one of the drifted tools settles
it for all of them (`run_handle.py:188`), so it promises a call of one, not of
each.

## 4. What is proved

All theorems hold for every plan, every set of tools, calls, gates and outcomes,
every set of handles or agents, every policy mapping, and every bound. They
state every invariant and action property of the passing runs, and a few more
(`RowFollowsHandle`, `CursorNeverGoesBack`, `NobodyStuck` and those about operators);
the two properties left to TLC are the liveness properties.

| Module | Theorem | States | Assumes |
|---|---|---|---|
| `RunKernelProofs` | `TypeCorrect` | `Spec => []TypeOK` | |
| | `ResetsGoBack` | `Spec => []GreenRefsBackward` | |
| | `SchemasFollowState` | `Spec => []SchemasHydrated` | |
| | `NoWorkLost` | `Spec => []DurableWorkKept` | |
| | `CompletionsAreDurable` | `Spec => []CompletedIsDurable` | commits succeed |
| | `CompletedBeforeCursor` | `Spec => []CursorIsCompletedPrefix` | distinct names, no reset in the loop |
| | `NothingPassedOver` | `Spec => EveryPositionYielded` | the same |
| | `TableIsDurablePlan` | `Spec => ImplementsDurablePlan` | the same, and commits succeed |
| | `CursorNeverGoesBack` | `Spec => [][Cursor' = Cursor + 1]_Cursor` | distinct names, no reset at all, commits succeed |
| | `RowFollowsHandle` | `Spec => []RowMirrorsHandle` | commits succeed |
| | `GateHolds` | `Spec => []GateShut` | commits succeed |
| | `VerdictsAreRecorded` | `Spec => []VerdictOnRecord` | |
| `AgentLoopProofs` | `KernelImplemented` | `LoopSpec => Spec` | |
| | `HostKeepsDurablePlan` | `LoopSpec => ImplementsDurablePlan` | distinct names, no reset in the loop |
| | `LoopTypeCorrect` | `LoopSpec => []LoopTypeOK` | |
| | `GatesHold` | `LoopSpec => []BehindGate` | |
| | `CompletedRunsAreThrough` | `LoopSpec => []CompletedIsThrough` | |
| | `EachSetbackRedoesOne` | `LoopSpec => []RedoneWithinSetbacks` | |
| `ReplayGateProofs` | `TypeCorrect` | `Spec => []TypeOK` | |
| | `LedgerIsTrue` | `Spec => []LedgerTruth` | |
| | `LedgerIsComplete` | `Spec => []LedgerComplete` | |
| | `CompletedStepsStay` | `Spec => CompletedNotRedone` | one handle |
| | `OnePayloadPerTarget` | `Spec => []RecordsAgree` | one handle, gated calls only |
| `CheckpointWorkerProofs` | `TypeCorrect` | `Spec => []TypeOK` | |
| | `CountIsExact` | `Spec => []UnfinishedExact` | |
| | `OneCheckpointLost` | `Spec => []OneLost` | |
| | `CloseWritesTheQueue` | `Spec => []StopWaitsForJobs` | |
| | `NobodyStuck` | `Spec => []NoLostWakeup` | |
| `ResumePoliciesProofs` | `TypeCorrect` | `Spec => []TypeOK` | |
| | `FlagsHanded` | `TriggeredFlags` lists the raised flags, each once, in order, and is empty iff not `HasDivergence` | |
| | `OutcomesHold` | `Spec => []PoliciesEnforced` | no reset after a halt in the mapping |
| | `RevalidationKept` | `Spec => []RevalidationPending` | |
| | `DifferencesAnswered` | `Spec => ComparedIsAnswered` | |
| `SharedRunProofs` | `TypeCorrect` | `Spec => []TypeOK` | |
| | `LatestIsNewest` | `Spec => []NewestSupersedes` | |
| | `LateResumeKeepsTerminal` | `Spec => ResumeKeepsTerminal` | |
| | `DecisionsReachTheirRequest` | `Spec => []OwnRequestDecided` | |
| | `OnlyOverlapLoses` | `Spec => []LostOnlyToOverlap` | |
| `ToolStepsProofs` | `TypeCorrect` | `Spec => []TypeOK` | |
| | `EffectsDurable` | `Spec => []EffectsCheckpointed` | |
| | `PeriodsKept` | `Spec => []PeriodKept` | |
| | `CheckpointsAreSparse` | `Spec => []SparseCheckpoints` | |
| | `MismatchesAreVisible` | `Spec => []MismatchIffVisible` | |
| `ResultHashProofs` | `StrippedIffVisible` | `Stripped[v][ex] = Stripped[w][ex] <=> Visible[v][ex] = Visible[w][ex]` | |
| | `NothingExcluded` | `Stripped[v][{}] = v` | |
| | `ExcludingMoreHidesMore` | equal under `ex` is equal under a larger set | |

The assumptions of the last column are not conveniences: without them TLC
refutes the statements about `RunKernel`, `ReplayGate` and `ResumePolicies`. In
`AgentLoop` no commit fails, since `Steps` has no `WriteFails`: the kernel's
lemmas are about its steps without that action (`SureNext`), and the host's
steps are among these. The default mapping is one in which no reset follows a
halt. Beyond them only the named `ASSUME`s are assumed of the constants: plans
are sequences of step names, bounds are naturals, words are among those the code
has; `Agents`, `Handles`, `Targets` and `Payloads` are finite, the last two not
empty; what a call in `ToolSteps` declares, returns and excludes is in the sets
given for it; JSON values are finite trees with their parts in `Values`, and an
excluded path has at least one key. Every module with an `ASSUME` is under some
run, so TLC evaluates them.

*`RunKernelProofs`.* `IInv` is `TypeOK` with three facts types alone do not
give: references point into the table and green marks inside checkpoints point
backward (otherwise a reset would load something that is not a state), the
step in hand is a step of the plan (otherwise completing it would move the
cursor past the end), and what `update_approval` writes is a decision.
`SchemasHydrated` and `DurableWorkKept` are carried on top of it; for the
latter, memory holds at least what the newest checkpoint holds unless
`rewound`, and every snapshot is a snapshot of memory. `CompletionSaved` says that
memory and newest checkpoint differ in the completed steps only on the way to
the checkpoint of a completion.

The second part of the module is about the cursor. `CursorInv`: the completed
names are a prefix, and the step in hand is at the cursor or behind it. `PlanInv`
adds that between two completions memory's cursor is the base of `DurablePlan`
(`MemoryAtBase`), which gives the refinement: a `SaveCheckpoint` in the middle of a
completion is `Advance`, any other is `Record`, an `ApplyLoad` is `Reset`, the
resume that forgets it is `Forget`, and every other step stutters. `CursorNeverGoesBack` is what the
refinement means where no policy resets; and since the steps of
`AgentLoop` are the kernel's, its host keeps a durable plan too
(`HostKeepsDurablePlan`).

The last part of the module is about the gate. `GateInv` says what a crash at
each point leaves, unless the run was `overridden`. `MemoryShut`: in memory a
pending run is shut, and on its way to a checkpoint it is waiting or the row
already is shut. `TablesShut`: the row and the newest checkpoint together resume
to a shut status, and memory leaves a pending newest checkpoint behind only on
the way to the next one; between `update_approval` and the new checkpoint the
tables still say waiting. `VerdictInv` says what `trail` means for the memory that
will be the next checkpoint: it agrees with the newest row once the row is
written, and with the newest checkpoint while no call is about to write one.

*`AgentLoopProofs`.* Every step of the host is a step of the kernel
(`StepsAreSure`), so the kernel's invariants are there to be used. `HostInv` adds
where the programs are (`Whereabouts`), that all behind the cursor is completed
and the first program completes no gate (`Passage`), that behind the second
program's `approve()` the approval is in memory, then in the table, then in the
newest checkpoint (`Answers`), and that a run which is completed anywhere has the
cursor at the end of its plan, as the second program runs its loop in no other
status than running (`Through`). For the work there is an account (`Budget`):
repetitions made, and one more if some step has been worked on and is neither
completed nor in the body with the loop about to complete it (`Unsettled`).
`WorkedInOrder` is why there is one such step at most: work that is not completed
is on the first open step of the plan.

*`ReplayGateProofs`.* The ledger is compared with the world by target, and by
target and payload. `Backed` says it once for every set of (target, payload)
pairs that a record can claim: records in it, and calls in it that have returned
and are not recorded, are no more than the calls in it that reached the tool,
and as many unless `torn`. Three cardinalities, and a step moves one element
from one set to another. For one handle (`Alone`), `KnownIsDone` keeps the
handle's completed steps equal to the checkpoint's, and `OnePayload` says that
from the gate to the record the call's payload is that of every record of its
target.

*`CheckpointWorkerProofs`.* One set carries the argument: the agents with a job
in the queue or in the thread. The count is its size, and one more for the
sentinel; each of its members waits in `drain`, and everybody else has all
checkpoints but for the one job that ended the thread, if one did
(`LostAtMostOne`). `DueAhead` is what `StopWaitsForJobs` needs: what is due is written,
running, or ahead of the sentinel. `NobodyStuck` is the safety half of `StepReturns`:
a thread that waits at an empty queue has left the count at zero.

*`ResumePoliciesProofs`.* First the matrix: `TriggeredFlags`, a concatenation of
nine, lists each raised flag once and in order, so it is empty only if
`HasDivergence` is false. Then the loop over the outcomes: what has been enforced
ranks before what is left (`Routing`), and a halt that was enforced still holds
(`Halted`) because nothing of a higher rank resets; `Revalidating` follows the one
matrix from which pending revalidations come.

*`SharedRunProofs`.* `IInv` is `TypeOK`, `CallsOK` (what is left of a call has one of
nine shapes, so that a draft is there exactly when an insert is next) and
`StampsGrow`: a checkpoint, or the draft of one, knows only rows before it and is
stamped no earlier than any of them. `NewestSupersedes` follows without looking
at steps: if the newest row were known to another one, that one would come later
in the table and would not be stamped earlier. `LaterOnesKnow`: while the row says
that the run is over, every handle that is no reviver has a terminal status, so
that none of its writes of the row puts it back. `Requests`: what a state asked for is in the table, and the row a
decision goes to was stamped no earlier. `Lineage` says which rows a handle's own
rows know of, and `KeepsUp` that, as long as no other handle wrote without having
seen row `i` and none was reset behind it (`Excused`), whoever has seen it and every
later row is at least as far as it is.

*`ToolStepsProofs`.* `Begun` ties the step in hand to the last entry of the
history. `Ahead` and `Flagged`: memory has the commitments of the step in hand and
all that the newest checkpoint has, and the flag is that of the step's last
call; so a step that returns either takes a checkpoint of its effects or ended
with a read. `PeriodsMissed` and `Sparse` are about numbers: each period that
ended since the newest checkpoint ended on a step that did not return, and each
checkpoint was earned by a step or by a multiple of the interval.
`MismatchIffVisible` quantifies over the results that were committed, which are
values, and is then `StrippedIffVisible`.

*`ResultHashProofs`.* What holds of all JSON values is proved by a least
counterexample: among values that refute a claim there is one with the smallest
`Depth`, none of whose parts refutes it (`Shallowest`). That a recursive function
has its defining equation at all is a fact to prove in TLA+: `StrippedDef` and
`NodesDef` do so, from approximations that are right up to a depth. The rest is
about one level of a value: `Shown` are the positions whose parts are not taken
out, `Inner` the paths that apply below one. What is stripped is determined by the
parts shown and what is stripped of each; what is visible, by the root, the parts
shown and what is visible of each (`StrippedByParts`, `VisibleByParts`). The
root of a dict does not name its keys and that of a list tells its length, so the
two agree.

Only model-checked: `StepReturns` and `PlanFinishes`, because TLAPS does not reason
about fairness and `ENABLED`.

## 5. Observations that are not runs

Met while modelling, in the code as it is. Where brackets name a property and
a configuration, TLC refutes the one under the other:

* `pause()` during a pending approval, or a policy that halts or resets, sets the
  status whatever the approval is (`run_handle.py:292`), and `resume` looks at the
  two statuses and never at `approval_state` (`runtime.py:166`): such a run comes
  back RUNNING and the loop goes past the gate (`GateShut` without `~overridden` in
  `loop.cfg`).
* A strict reset points `latest_checkpoint_id` at the green checkpoint and takes no
  new one (`run_handle.py:426`), but `resume` goes by the newest row of
  `checkpoints`; after a crash the run is back in the state it was reset from
  (`[][~live /\ live' /\ rewound # 0 => state' = checkpoints[rewound].state]_vars`
  in `kernel.cfg`).
* An exception of a checkpoint job stays in the thread while `task_done` releases
  `drain`: `_end_step` returns without its checkpoint and without an error
  (`checkpoint_worker.py:31`), although `run_handle.py:247` says "enqueue then
  wait for durability before returning" (`DurableOnReturn` in `worker.cfg`).
* The step at a gate is yielded again after its approval, and the host of
  `README.md:39` asks again in it: each approval leads to another request, and
  that host never gets through. `examples/survive_the_swap.py` does, because the
  loop of its second program has no branch for that step.
* If the first program of the example dies after a checkpoint and before it asked,
  the second one's `approve()` raises on every resume and nobody ever asks.
* After a crash inside `approve()` the run may wait although its approval is
  approved, so a host that decides whether to approve must look at `run.status` and
  not at the approval.
* Of a rejection given to such a run, a crash in `reject()` may leave the approvals
  row alone (`run_handle.py:332`): the row says rejected and the resumed state
  approved, until the next decision (`trail` is `torn`). The second program of the
  example decides after each resume, so `BehindGate` holds of it; a host that goes
  by the state alone, or whose run is halted and resumed once more, may go past
  the gate.
* A green mark on an id that does not exist is only noticed by the strict reset
  that wants it: `RuntimeError` in the middle of the outcomes, out of `resume`
  (`run_handle.py:422`).
* A run that dies before its first checkpoint cannot be resumed: `resume` raises.
* A crash inside `request_approval`, or a request after a rejection, leaves
  pending or rejected rows in `approvals` that no later decision touches.
* `approve()`, `reject()` and `pause()` on a finished run set its status back:
  no call asks whether the run is over (`run_handle.py:291`, `310`).
* With two handles, the older one's next call puts a run back that the other has
  completed (`SharedRun`, `revivers`), and work the other did is lost.
* Two requests in one tick of the clock: the answer may be recorded at either
  (`sqlite.py:380` orders by the stamp alone).
* Each `set_tool_result` overwrites `recovery_relevant` (`step_context.py:69`): a
  step that writes and then reads takes no checkpoint.
* A step that had an effect and then failed, and a step of another type than
  `tool_call` or `llm_call` that had one, take no checkpoint; the effect's
  commitment waits for the next one.
* A step on which a period ends takes no checkpoint when it fails or dies, and
  nothing makes up for it before the next period ends (`run_handle.py:222`).
* Argument patterns are looked for anywhere in the text: `git commit -m "fix
  login"` contains `log` and is read-only (`skip_rules.py:84`).
* The branch of `should_checkpoint` that classifies the action itself is never
  reached from `_end_step`, which always passes `recovery_relevant`.
* A result committed under a caller's `canonicalizer` is compared with the hash of
  the stripped value at resume (`artifact_diff.py:66`), so it always differs
  unless the canonicalizer did nothing else.
* `synchronous=NORMAL` with WAL (`sqlite.py`, `_init_schema`) lets a power failure
  take back the last commits; every crash in these modules is the end of a
  process, which does not.
* A green mark made after the newest checkpoint is undone by `resume`:
  `mark_green_checkpoint` takes no checkpoint, and `hydrate_from_checkpoint`
  (`run_handle.py:127`) overwrites the row's mark with the older one.
* After a crash between the two commits of a run's first checkpoint, `resume`
  works but `mark_green_checkpoint` raises "No checkpoint to mark green".
* A plan that names a step twice runs it once (`run_handle.py:155`).
* `apply_policies` called in the loop's body may take back steps that the
  completion of the step in hand then jumps over (`run_handle.py:174`).
* `steps()` does not test PAUSED before its first yield, so a run halted during
  `resume` still yields a step (`run_handle.py:151`).
* A crash between a tool's effect and its record leaves the gate without a
  prior record, and another payload passes (`step_context.py:123`).
* Once a job has raised, the thread is gone and the next `drain` never returns.
* `close()` while agents are in `drain`: the sentinel stays on the count, so their
  `drain` never returns, although the thread writes their checkpoints; what they
  or others put behind the sentinel is never written (`checkpoint_worker.py:36`).
  If `join` gives up after its two seconds, the storage is closed under the job.
* `drain` waits until all jobs of all agents are done, not its own
  (`checkpoint_worker.py:41`): agents that never stop asking may keep the count
  above zero and a step that is long on disk waiting.
* An identical payload passes the gate by design, so a crash between the
  ledger's record and the cursor's checkpoint sends it a second time
  (`step_context.py:116`); `README.md:13` speaks of "without redoing completed
  work or silently replaying side effects".
* A mapping that halts on a flag before one that resets (or names a hook that is
  not registered, which halts) has its halt undone: `_load_green_checkpoint` sets
  RUNNING (`run_handle.py:427`).
* A halt or a strict reset revives an aborted run: `resume` leaves ABORTED as it
  is, but compares and enforces all the same (`runtime.py:180`).
* A changed schema with unchanged results makes a pending item without tools,
  which no call ever clears (`builtin.py:33`, `run_handle.py:188`).
* A host that brings the schemas of all its tools is told of a change as long as
  one of them has not been called yet (`artifact_diff.py:47`).
* After a strict reset the state of the green checkpoint is not compared with the
  artifacts again; the outcomes are those of the checkpoint left behind.
* A step's failure is put into the state and only the row is written
  (`run_handle.py:183`); a crash before the next checkpoint forgets it.
* A strict reset without a green checkpoint does nothing, and the run goes on over
  the divergence (`run_handle.py:410`).
* When commits may raise and the host goes on, `GateShut`, `RowMirrorsHandle`,
  `CompletedIsDurable` and `ImplementsDurablePlan` do not hold.

## 6. Plan

In order of importance; the first eight are done.

1. `RunKernel` with `DurablePlan`: the core, its proofs.
2. `ReplayGate`: the ledger against the world.
3. `CheckpointWorker`: the only concurrency inside the library.
4. `DivergenceMatrix` and `ResumePolicies`: which differences lead to which
   outcomes, and what they leave of each other.
5. `AgentLoop`: the two programs of the example on top of the kernel, with fairness
   of the host and of whoever starts it again; a plan under finitely many setbacks.
6. `SharedRun`: handles that write whole rows, and "latest" by `created_at`.
7. `ResultHash` and `ToolSteps`: skip rules, exclusions and sparse checkpoints.
8. Proofs of every invariant and action property of these modules.
9. Open: refinements that tie the modules together, first that the outcomes of
   `ResumePolicies` are among those `RunKernel` chooses from, then that one handle of
   `SharedRun` is a run of the kernel and that `ToolSteps` chooses its checkpoints
   among the kernel's; a mapping that halts before it resets.

Not modelled, and not planned: the audit log, schema migration, listings and
exports, the benchmark's scenarios and its network client, the values in working
memory, claims, questions and the history of failures. They are written and
shown, and nothing the runtime does depends on them.
