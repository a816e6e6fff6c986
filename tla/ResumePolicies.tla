--------------------------- MODULE ResumePolicies ---------------------------
(***************************************************************************)
(* A run whose environment drifts: what the handle records of it, what     *)
(* resume() compares, the hooks the mapping names for the flags, and what  *)
(* apply_policies enforces, outcome by outcome.                            *)
(*                                                                         *)
(* RunKernel is about the writes of each call and leaves the outcomes      *)
(* open.  Here a call is one step, the outcomes follow from the artifacts, *)
(* and the process may die between two calls or two outcomes.              *)
(***************************************************************************)
EXTENDS DivergenceMatrix, Integers

CONSTANTS
    Initial,        \* the version of everything when the run is created
    Mapping,        \* PolicyMapping: the hook named for each flag
    Supplied,       \* combinations of fields a host may bring to a resume
    Drifting,       \* fields that may change in the environment
    MaxDrifts,      \* bound on such changes
    MaxCheckpoints, \* bound on the checkpoints table
    MaxCalls        \* bound on the tool calls

Fields == Scalars \cup {"schemas", "results", "outbound", "drift"}

\* The hooks a SemanticRun registers; another name is not found.
Answer == [FailFast |-> "abort", StrictReset |-> "load_checkpoint",
           RevalidateWithPrompt |-> "run_assertions",
           BehavioralDriftPolicy |-> "halt_for_human"]
Registered == DOMAIN Answer

ASSUME PoliciesAssumption ==
    /\ Initial \in Versions
    /\ DOMAIN Mapping = Flags
    /\ Supplied \subseteq SUBSET Fields /\ Drifting \subseteq Fields
    /\ {MaxDrifts, MaxCheckpoints, MaxCalls} \subseteq Nat

VARIABLES
    env,         \* the environment
    sent,        \* the ledger: outbound hash of the last record per target
    checkpoints, \* status, artifacts and green mark, oldest first
    live,        \* is there a process with a handle?
    run,         \* RunHandle._run and its row, which every call syncs
    art,         \* the handle's artifacts, inside its AgentState and beside it
    green,       \* AgentState.green_checkpoint, 0 for None
    pending,     \* pending_revalidations, in no order: the tools_to_revalidate of each
    outcomes,    \* flags apply_policies has still to enforce the outcome of
    matrix,      \* result mismatches in the matrix, and StrictReset's answer
    drifts, calls,   \* bounds
    seen,        \* history: the flags of the matrix of the last resume
    called       \* history: tools called since

world == <<env, drifts>>
tables == <<checkpoints, run>>
handle == <<live, art, green, pending>>
routing == <<outcomes, matrix>>
history == <<seen, called>>
vars == <<world, sent, tables, handle, routing, calls, history>>

Newest == Len(checkpoints)

\* An id that no checkpoint has: mark_green_checkpoint() takes any.
Unknown == MaxCheckpoints + 1
NoMatrix == [mismatches |-> {}, target |-> 0]
NoArtifacts == [scalar |-> [f \in Scalars |-> IF f \in {"file_tree", "approval"}
                                              THEN Unset ELSE Initial],
                schemas |-> [t \in Tools |-> Unset], results |-> [t \in Tools |-> Unset]]

Init ==
    /\ env = [scalar |-> [f \in Scalars |-> Initial], drift |-> FALSE,
              schemas |-> [t \in Tools |-> Initial], results |-> [t \in Tools |-> Initial],
              outbound |-> [t \in Tools |-> Initial]]
    /\ sent = [t \in Tools |-> Unset]
    /\ checkpoints = <<>>
    /\ run = [status |-> "running", green |-> 0]
    /\ live = TRUE /\ art = NoArtifacts /\ green = 0 /\ pending = {}
    /\ outcomes = <<>> /\ matrix = NoMatrix
    /\ drifts = 0 /\ calls = 0
    /\ seen = {} /\ called = {}

-----------------------------------------------------------------------------
(* The environment.                                                        *)

Change(table, v) == \E t \in Tools : env' = [env EXCEPT ![table][t] = v]

Drift ==
    /\ drifts < MaxDrifts /\ drifts' = drifts + 1
    /\ \/ \E f \in Drifting \cap Scalars, v \in Versions :
            env' = [env EXCEPT !.scalar[f] = v]
       \/ \E f \in Drifting \cap {"schemas", "results", "outbound"}, v \in Versions : Change(f, v)
       \/ "drift" \in Drifting /\ env' = [env EXCEPT !.drift = ~@]
    /\ UNCHANGED <<sent, tables, handle, routing, calls, history>>

-----------------------------------------------------------------------------
(* The host at work.  A run that is not RUNNING is left alone by its loop. *)

Works == live /\ outcomes = <<>> /\ run.status = "running"

Saved(status, a, g) == Append(checkpoints, [status |-> status, art |-> a, green |-> g])

Checkpointed(a) ==
    /\ Newest < MaxCheckpoints
    /\ checkpoints' = Saved(run.status, a, green)

\* set_file_tree: memory only.
SetFileTree ==
    /\ Works
    /\ art' = [art EXCEPT !.scalar["file_tree"] = env.scalar["file_tree"]]
    /\ UNCHANGED <<world, sent, tables, live, green, pending, routing, calls, history>>

\* An llm_call step: the model in use is noted and a checkpoint taken.
LlmStep ==
    /\ Works
    /\ art' = [art EXCEPT !.scalar["model_id"] = env.scalar["model_id"]]
    /\ Checkpointed(art')
    /\ UNCHANGED <<world, sent, live, run, green, pending, routing, calls, history>>

\* Mutation: the tool's call settles every revalidation.
ClearAll(t) == {}

\* clear_revalidation: the items that name the tool go.
ClearRevalidation(t) == {item \in pending : t \notin item}

\* A tool_call step: through the gate if it sends a payload, then commitment,
\* schema, record, revalidations, and a checkpoint if recovery-relevant.
ToolStep(t, sends) ==
    /\ Works /\ calls < MaxCalls /\ calls' = calls + 1
    /\ sends => sent[t] \in {Unset, env.outbound[t]}
    /\ art' = [art EXCEPT !.results[t] = env.results[t], !.schemas[t] = env.schemas[t]]
    /\ sent' = [sent EXCEPT ![t] = IF sends THEN env.outbound[t] ELSE Unset]
    /\ pending' = ClearRevalidation(t)
    /\ called' = called \cup {t}
    /\ \/ Checkpointed(art')
       \/ ~sends /\ UNCHANGED checkpoints
    /\ UNCHANGED <<world, live, run, green, routing, seen>>

\* Mutation: green is the checkpoint after the one meant.
MarkGreenAhead(id) ==
    /\ Works
    /\ green' = id + 1
    /\ run' = [run EXCEPT !.green = id]
    /\ UNCHANGED <<world, sent, checkpoints, live, art, pending, routing, calls, history>>

\* mark_green_checkpoint: on the latest checkpoint, or on the one named,
\* which is not looked up.
MarkGreen(id) ==
    /\ Works
    /\ green' = id
    /\ run' = [run EXCEPT !.green = id]
    /\ UNCHANGED <<world, sent, checkpoints, live, art, pending, routing, calls, history>>

-----------------------------------------------------------------------------
(* Resume.                                                                 *)

\* What the host brings: of the schemas, those of tools it has used so far.
Brought(fields, ckpt) ==
    [scalar   |-> [f \in Scalars |-> IF f \in fields THEN env.scalar[f] ELSE Unset],
     schemas  |-> [t \in Tools |-> IF "schemas" \in fields /\ ckpt.schemas[t] # Unset
                                   THEN env.schemas[t] ELSE Unset],
     results  |-> IF "results" \in fields THEN env.results ELSE [t \in Tools |-> Unset],
     outbound |-> IF "outbound" \in fields THEN env.outbound ELSE [t \in Tools |-> Unset],
     drift    |-> "drift" \in fields /\ env.drift]

Hydrated(r, ckpt) == IF ckpt.green = 0 THEN r ELSE [r EXCEPT !.green = ckpt.green]

ResumeStatus(status) == IF status = "aborted" THEN status ELSE "running"

\* resume(artifacts): the newest checkpoint is hydrated and compared; only
\* if the matrix has a divergence is the router asked.
Resume(fields) ==
    /\ ~live /\ checkpoints # <<>>
    /\ LET ckpt == checkpoints[Newest]
           cur == Brought(fields, ckpt.art)
           r == Hydrated([run EXCEPT !.status = ResumeStatus(@)], ckpt)
           flags == TriggeredFlags(ckpt.art, sent, cur)
       IN  /\ run' = r
           /\ art' = ckpt.art /\ green' = ckpt.green
           /\ outcomes' = IF HasDivergence(ckpt.art, sent, cur) THEN flags ELSE <<>>
           /\ matrix' = [mismatches |-> ResultMismatches(ckpt.art, cur),
                         target |-> IF r.green = 0 THEN ckpt.green ELSE r.green]
           /\ seen' = {flags[i] : i \in 1..Len(flags)}
    /\ live' = TRUE /\ pending' = {} /\ called' = {}
    /\ UNCHANGED <<world, sent, checkpoints, calls>>

-----------------------------------------------------------------------------
(* apply_policies, one outcome at a time.                                  *)

\* A hook that is not registered halts.
Action(flag) == IF Mapping[flag] \in Registered THEN Answer[Mapping[flag]] ELSE "halt_for_human"

Enforces(action) ==
    /\ live /\ outcomes # <<>>
    /\ Action(Head(outcomes)) = action

Stopped(status) ==
    /\ Newest < MaxCheckpoints
    /\ run' = [run EXCEPT !.status = status]
    /\ checkpoints' = Saved(status, art, green)

\* The memory of the process is gone.
LoseHandle ==
    /\ live' = FALSE
    /\ art' = NoArtifacts /\ green' = 0 /\ pending' = {}
    /\ outcomes' = <<>> /\ matrix' = NoMatrix
    /\ seen' = {} /\ called' = {}

\* Mutation: the abort is noted and not raised.
EnforceAbortNoted ==
    /\ Enforces("abort")
    /\ Stopped("aborted")
    /\ outcomes' = Tail(outcomes)
    /\ UNCHANGED <<world, sent, live, art, green, pending, matrix, calls, history>>

\* PolicyAbort leaves the host without a handle; the remaining outcomes are
\* not applied.
EnforceAbort ==
    /\ Enforces("abort")
    /\ Stopped("aborted")
    /\ LoseHandle
    /\ UNCHANGED <<world, sent, calls>>

\* _load_green_checkpoint; without a green checkpoint nothing happens.
EnforceReset ==
    /\ Enforces("load_checkpoint")
    /\ outcomes' = Tail(outcomes)
    /\ IF matrix.target = 0 THEN UNCHANGED <<run, art, green>>
       ELSE /\ matrix.target # Unknown
            /\ LET ckpt == checkpoints[matrix.target]
               IN  /\ art' = ckpt.art /\ green' = ckpt.green
                   /\ run' = [Hydrated(run, ckpt) EXCEPT !.status = "running"]
    /\ UNCHANGED <<world, sent, checkpoints, live, pending, matrix, calls, history>>

\* A green checkpoint that is not found: RuntimeError out of resume().
EnforceMissing ==
    /\ Enforces("load_checkpoint")
    /\ matrix.target = Unknown
    /\ LoseHandle
    /\ UNCHANGED <<world, sent, tables, calls>>

EnforceRevalidate ==
    /\ Enforces("run_assertions")
    /\ outcomes' = Tail(outcomes)
    /\ pending' = pending \cup {matrix.mismatches}
    /\ UNCHANGED <<world, sent, tables, live, art, green, matrix, calls, history>>

EnforceHalt ==
    /\ Enforces("halt_for_human")
    /\ Stopped("paused")
    /\ outcomes' = Tail(outcomes)
    /\ UNCHANGED <<world, sent, live, art, green, pending, matrix, calls, history>>

\* The process exits or dies.
Exit ==
    /\ live
    /\ LoseHandle
    /\ UNCHANGED <<world, sent, tables, calls>>

Enforce == EnforceAbort \/ EnforceReset \/ EnforceMissing \/ EnforceRevalidate \/ EnforceHalt

Next ==
    \/ Drift \/ SetFileTree \/ LlmStep
    \/ \E id \in 1..Newest \cup {Unknown} : MarkGreen(id)
    \/ \E t \in Tools, sends \in BOOLEAN : ToolStep(t, sends)
    \/ \E fields \in Supplied : Resume(fields)
    \/ Enforce \/ Exit

Spec == Init /\ [][Next]_vars
-----------------------------------------------------------------------------
(* Properties the code has.                                                *)

RunRow == [status : {"running", "paused", "aborted"}, green : 0..Unknown]

\* Every variable stays in its domain: in particular the checkpoint a strict
\* reset is answered is in the table, unless the host marked an unknown id.
TypeOK ==
    /\ env \in Current /\ sent \in [Tools -> Value]
    /\ checkpoints \in Seq([status : {"running", "paused", "aborted"}, art : Artifacts,
                            green : 0..Unknown])
    /\ run \in RunRow /\ live \in BOOLEAN
    /\ art \in Artifacts /\ green \in 0..Newest \cup {Unknown}
    /\ pending \subseteq SUBSET Tools
    /\ outcomes \in Seq(Flags)
    /\ matrix.mismatches \subseteq Tools /\ matrix.target \in 0..Newest \cup {Unknown}
    /\ seen \subseteq Flags /\ called \subseteq Tools

Returned == live /\ outcomes = <<>>

\* A handle is returned by resume only if no flag of its matrix is answered
\* by an abort, and it is halted if one is answered by a halt: no later
\* outcome takes back what an earlier one enforced (default mapping).
PoliciesEnforced ==
    Returned => \A flag \in seen :
        /\ Action(flag) # "abort"
        /\ Action(flag) = "halt_for_human" => run.status # "running"

\* What the host brings is compared: a difference between it and the newest
\* checkpoint, or the ledger, leaves resume with an outcome to enforce.
Differs(fields) ==
    LET c == checkpoints[Newest].art
    IN  \/ \E f \in fields \cap Scalars : c.scalar[f] # env.scalar[f]
        \/ \E f \in fields \cap {"schemas", "results"}, t \in Tools :
             c[f][t] \notin {Unset, env[f][t]}
        \/ "outbound" \in fields /\ \E t \in Tools : sent[t] \notin {Unset, env.outbound[t]}
        \/ "drift" \in fields /\ env.drift
ComparedIsAnswered ==
    [][\A fields \in Supplied : Resume(fields) /\ Differs(fields) => outcomes' # <<>>]_vars

\* A drifted result whose policy is to revalidate is pending until a tool
\* whose result had drifted is called again.
Mismatched == matrix.mismatches
Covered(t) == \E item \in pending : t \in item
RevalidationPending ==
    Returned /\ Action("tool_result_hash_mismatch") = "run_assertions" =>
        \A t \in Mismatched : Covered(t) \/ Mismatched \cap called # {}

=============================================================================
