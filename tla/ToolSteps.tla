----------------------------- MODULE ToolSteps -----------------------------
(***************************************************************************)
(* The boundary of a step: what the calls in a step leave in the ledger    *)
(* and in the AgentState, and whether _end_step takes a checkpoint.        *)
(* RunKernel leaves that open; here it follows from the type of the step,  *)
(* the skip rules, writes to the working memory and the periodic interval. *)
(* A process may die anywhere and the run is resumed.                      *)
(*                                                                         *)
(* A tool name is the sequence of its dotted parts; of the arguments only  *)
(* the words of Words that their text contains are kept.                   *)
(***************************************************************************)
EXTENDS ResultHash, FiniteSets

CONSTANTS
    Calls,         \* set_tool_result calls the host may make
    StepTypes,     \* types of step it opens
    ReadOnlyTools, \* tools of READ_ONLY_PATTERNS without argument patterns
    Words,         \* argument patterns of the others: tool -> set of words
    Interval,      \* periodic_checkpoint_interval, 0 for none
    MaxSteps,      \* bound on the steps
    MaxRecords     \* bound on the ledger

StepTypeNames == {"llm_call", "tool_call", "human_approval", "retrieval",
                  "validation", "reasoning"}
Declarations == {"none", "filesystem", "process", "external"}
EffectClasses == Declarations \ {"none"}

ASSUME StepsAssumption ==
    /\ StepTypes \subseteq StepTypeNames
    /\ Interval \in Nat /\ MaxSteps \in Nat /\ MaxRecords \in Nat
ASSUME CallsAssumption ==
    \A c \in Calls :
        c.declared \in Declarations /\ c.result \in Values /\ c.exclude \in Excludes

VARIABLES
    pc,        \* "none": no process; "idle", "step"; the next durable write
    ctx,       \* StepContext: type, recovery_relevant, _memory_mutated, failed
    state,     \* tool_commitments of the AgentState: tool -> commitment
    stepCount, \* step_count of the RunRecord in memory
    row,       \* step_count in table runs
    ledger,    \* table side_effects: step, target, class
    newest,    \* the newest checkpoint, and the step count when it was taken
    taken,     \* history: number of checkpoints
    steps      \* history: every step begun; its number is its step_id

vars == <<pc, ctx, state, stepCount, row, ledger, newest, taken, steps>>

NoTools == [t \in {} |-> 0]
NoStep == [type |-> "none", relevant |-> FALSE, memory |-> FALSE, failed |-> FALSE]

Init ==
    /\ pc = "idle" /\ ctx = NoStep
    /\ state = NoTools /\ stepCount = 0
    /\ row = 0 /\ ledger = <<>>
    /\ newest = [state |-> NoTools, at |-> 0] /\ taken = 0
    /\ steps = <<>>

-----------------------------------------------------------------------------
(* Skip rules.                                                             *)

MatchesPattern(c) ==
    LET tool == Last(c.name)
    IN  \/ tool \in ReadOnlyTools
        \/ tool \in DOMAIN Words /\ c.words \cap Words[tool] # {}

\* classify_action.
ReadOnly(c) == c.declared = "none" /\ MatchesPattern(c)

\* side_class in record_tool_side_effect.
EffectClass(c) ==
    CASE c.declared # "none" -> c.declared
      [] ReadOnly(c)         -> "read_only"
      [] OTHER               -> "external"

-----------------------------------------------------------------------------
(* A step.                                                                 *)

\* _begin_step.
BeginStep(type) ==
    /\ pc = "idle" /\ Len(steps) < MaxSteps
    /\ pc' = "step"
    /\ ctx' = [NoStep EXCEPT !.type = type]
    /\ steps' = Append(steps, [type |-> type, memory |-> FALSE, count |-> 0,
                               outcome |-> "open"])
    /\ UNCHANGED <<state, stepCount, row, ledger, newest, taken>>

\* set_tool_result; the record in the ledger is its only durable write.  Each
\* call says anew whether the step is recovery-relevant.
SetToolResult(c) ==
    /\ pc = "step" /\ Len(ledger) < MaxRecords
    /\ ctx' = [ctx EXCEPT !.relevant = ~ReadOnly(c)]
    /\ state' = [t \in DOMAIN state \cup {c.name} |->
                   IF t = c.name THEN [result |-> c.result, exclude |-> c.exclude,
                                       step |-> Len(steps)]
                   ELSE state[t]]
    /\ ledger' = Append(ledger, [step |-> Len(steps), target |-> c.name,
                                 class |-> EffectClass(c)])
    /\ UNCHANGED <<pc, stepCount, row, newest, taken, steps>>

\* ctx.remember.
Remember ==
    /\ pc = "step" /\ ~ctx.memory
    /\ ctx' = [ctx EXCEPT !.memory = TRUE]
    /\ steps' = [steps EXCEPT ![Len(steps)].memory = TRUE]
    /\ UNCHANGED <<pc, state, stepCount, row, ledger, newest, taken>>

\* __exit__ and _end_step up to its _sync_run.
LeaveStep(failed) ==
    /\ pc = "step"
    /\ pc' = "sync"
    /\ ctx' = [ctx EXCEPT !.failed = failed]
    /\ stepCount' = stepCount + 1
    /\ UNCHANGED <<state, row, ledger, newest, taken, steps>>

\* should_checkpoint for SIDE_EFFECT_BOUNDARY and for PERIODIC.
SideEffectBoundary == ctx.type = "tool_call" /\ ctx.relevant
Periodic == Interval > 0 /\ stepCount % Interval = 0

\* Mutation: a step that was not a plain tool call is never periodic.
WantsCheckpointNoPeriod ==
    SideEffectBoundary \/ ctx.type = "llm_call" \/ ctx.memory

\* Mutation: side effects are left to the period.
WantsCheckpointNoEffects == ctx.type = "llm_call" \/ ctx.memory \/ Periodic

\* Mutation: every tool call is a boundary, as TOOL_BOUNDARY would have it.
WantsCheckpointEachTool ==
    ctx.type = "tool_call" \/ ctx.type = "llm_call" \/ ctx.memory \/ Periodic

WantsCheckpoint ==
    SideEffectBoundary \/ ctx.type = "llm_call" \/ ctx.memory \/ Periodic

Ends(outcome) ==
    /\ pc' = "idle" /\ ctx' = NoStep
    /\ steps' = [steps EXCEPT ![Len(steps)].outcome = outcome,
                              ![Len(steps)].count = stepCount]

Sync ==
    /\ pc = "sync"
    /\ row' = stepCount
    /\ CASE ctx.failed        -> Ends("failed")
         [] ~ctx.failed /\ ~WantsCheckpoint -> Ends("returned")
         [] ~ctx.failed /\ WantsCheckpoint ->
              /\ pc' = "checkpoint"
              /\ steps' = [steps EXCEPT ![Len(steps)].count = stepCount]
              /\ UNCHANGED ctx
    /\ UNCHANGED <<state, stepCount, ledger, newest, taken>>

\* create_checkpoint commits the checkpoint, ...
Checkpoint ==
    /\ pc = "checkpoint"
    /\ newest' = [state |-> state, at |-> stepCount] /\ taken' = taken + 1
    /\ pc' = "note"
    /\ UNCHANGED <<ctx, state, stepCount, row, ledger, steps>>

\* ... the _sync_run after it the run; then the step returns.
NoteCheckpoint ==
    /\ pc = "note"
    /\ row' = stepCount
    /\ Ends("returned")
    /\ UNCHANGED <<state, stepCount, ledger, newest, taken>>

Crash ==
    /\ pc # "none"
    /\ pc' = "none" /\ ctx' = NoStep
    /\ state' = NoTools /\ stepCount' = 0
    /\ UNCHANGED <<row, ledger, newest, taken, steps>>

\* Mutation: the count is taken from the checkpoint too.
CountAtCheckpoint == newest.at

CountInRow == row

\* The commitments come from the checkpoint, the count from the row.
Resume ==
    /\ pc = "none" /\ taken > 0
    /\ pc' = "idle"
    /\ state' = newest.state /\ stepCount' = CountInRow
    /\ UNCHANGED <<ctx, row, ledger, newest, taken, steps>>

Next ==
    \/ \E type \in StepTypes : BeginStep(type)
    \/ \E c \in Calls : SetToolResult(c)
    \/ Remember \/ (\E failed \in BOOLEAN : LeaveStep(failed))
    \/ Sync \/ Checkpoint \/ NoteCheckpoint \/ Crash \/ Resume

Spec == Init /\ [][Next]_vars
-----------------------------------------------------------------------------

Targets == {c.name : c \in Calls}
Commitments == [result : Values, exclude : Excludes, step : 1..MaxSteps]

\* Domains.  The row's step count is the handle's, but for the step that is
\* being ended; it never falls behind the newest checkpoint or a resume.
TypeOK ==
    /\ pc \in {"none", "idle", "step", "sync", "checkpoint", "note"}
    /\ ctx \in [type : StepTypes \cup {"none"}, relevant : BOOLEAN,
                memory : BOOLEAN, failed : BOOLEAN]
    /\ \A s \in {state, newest.state} : DOMAIN s \subseteq Targets
    /\ \A s \in {state, newest.state} : \A t \in DOMAIN s : s[t] \in Commitments
    /\ row \in 0..MaxSteps /\ newest.at \in 0..row
    /\ CASE pc = "none" -> stepCount = 0
         [] pc = "sync" -> stepCount = row + 1
         [] OTHER       -> stepCount = row
    /\ \A r \in 1..Len(ledger) :
         ledger[r].target \in Targets /\ ledger[r].class \in EffectClasses \cup {"read_only"}

IsEffect(r) == ledger[r].class # "read_only"
StepOf(r) == steps[ledger[r].step]

\* "Written before the step returns": once a tool_call or llm_call step has
\* returned, the newest checkpoint holds a commitment of that step, or of a
\* later one, for every target it had an effect on; unless a later call of
\* the same tool_call step was read-only, which takes the flag back.
TakenBack(r) ==
    StepOf(r).type = "tool_call"
    /\ \E q \in (r + 1)..Len(ledger) : ledger[q].step = ledger[r].step /\ ~IsEffect(q)
EffectsCheckpointed ==
    \A r \in 1..Len(ledger) :
        /\ IsEffect(r) /\ ~TakenBack(r)
        /\ StepOf(r).outcome = "returned" /\ StepOf(r).type \in {"tool_call", "llm_call"}
        => /\ ledger[r].target \in DOMAIN newest.state
           /\ newest.state[ledger[r].target].step >= ledger[r].step

\* Checkpoints are sparse: at most one for each step that had an effect in a
\* tool call, was an LLM call or wrote to the working memory, and one for
\* each full period; calls that only read take none, nor do failed steps.  A
\* step that died after its _sync_run may have taken its own.
Earns(n) ==
    /\ steps[n].count > 0 /\ steps[n].outcome # "failed"
    /\ \/ steps[n].type = "llm_call" \/ steps[n].memory
       \/ steps[n].type = "tool_call"
          /\ \E r \in 1..Len(ledger) : ledger[r].step = n /\ IsEffect(r)
SparseCheckpoints ==
    taken <= Cardinality({n \in DOMAIN steps : Earns(n)})
             + (IF Interval = 0 THEN 0 ELSE row \div Interval)

\* The newest checkpoint is less than a period old, unless the step on which
\* a period ended failed or did not live to take its checkpoint: then nothing
\* makes up for it before the next period ends.
PeriodKept ==
    pc = "idle" /\ Interval > 0 /\ row - newest.at >= Interval =>
        \E n \in DOMAIN steps :
            /\ steps[n].count > newest.at /\ steps[n].count % Interval = 0
            /\ steps[n].outcome # "returned"

\* At a resume a committed result is told from what the host brings exactly
\* if they differ somewhere no excluded path leads to; lists are looked
\* through, and an undotted key is excluded at the top only.
MismatchIffVisible ==
    pc = "none" => \A t \in DOMAIN newest.state : \A current \in Values :
        LET c == newest.state[t]
        IN  Mismatch(c.result, c.exclude, current)
              <=> Visible[c.result][c.exclude] # Visible[current][c.exclude]
=============================================================================
