----------------------------- MODULE ReplayGate -----------------------------
(***************************************************************************)
(* The outbound replay gate: StepContext.tool, the side-effect ledger and  *)
(* the outside world its tools act on.  Every target is a tool name and    *)
(* stands for the plan step that calls it.  A re-run of a step may compose *)
(* another payload than the first run did (an LLM wrote it), which is what *)
(* the gate is for.                                                        *)
(*                                                                         *)
(* A call is cut where the process may die or another handle on the same   *)
(* run may step in: at its reads and writes of the ledger and at the call  *)
(* of the tool itself.                                                     *)
(***************************************************************************)
EXTENDS Integers, Sequences, FiniteSets

CONSTANTS
    Handles,     \* handles that may be open on the run
    Targets,     \* tool names
    Payloads,    \* outbound payloads, up to their hash
    NoPayload,   \* the empty outbound_request_hash
    Kinds,       \* how the host passes side_effect= and outbound=
    FnMayRaise,  \* may the tool raise?
    MayRetry,    \* may the host leave a step uncompleted after its tool returned?
    MaxEffects   \* bound on the calls that reach a tool

\* "gated": both are given; "unmarked": outbound only; "plain": no outbound.
KindNames == {"gated", "unmarked", "plain"}

ASSUME GateAssumption ==
    /\ IsFiniteSet(Handles)
    /\ IsFiniteSet(Targets) /\ Targets # {}
    /\ IsFiniteSet(Payloads) /\ Payloads # {} /\ NoPayload \notin Payloads
    /\ Kinds \subseteq KindNames
    /\ FnMayRaise \in BOOLEAN /\ MayRetry \in BOOLEAN
    /\ MaxEffects \in Nat

VARIABLES
    ledger,   \* table side_effects, oldest first
    done,     \* targets whose step a checkpoint has as completed
    known,    \* completed_steps in the memory of each handle
    pc,       \* where each handle is in tool()
    call,     \* its arguments, and the record permit_replay read first
    effects,  \* the world: how often each payload reached each target
    torn      \* history: has a call ended between its effect and its record?

vars == <<ledger, done, known, pc, call, effects, torn>>

Record == [target : Targets, outbound : Payloads \cup {NoPayload}, permitted : BOOLEAN]
Call == [target : Targets, payload : Payloads, kind : KindNames, prior : 0..MaxEffects]
Points == {"down", "idle", "permit", "compare", "flag", "invoke", "record",
           "end_step", "returned"}

Outbound(c) == IF c.kind = "plain" THEN NoPayload ELSE c.payload

\* get_latest_side_effect_for_target: its position, 0 if there is none.
Latest(t) ==
    LET rows == {i \in 1..Len(ledger) : ledger[i].target = t}
    IN  IF rows = {} THEN 0 ELSE CHOOSE i \in rows : \A j \in rows : j <= i

LatestHash(t) == IF Latest(t) = 0 THEN NoPayload ELSE ledger[Latest(t)].outbound

NoCall == [target |-> CHOOSE t \in Targets : TRUE, payload |-> CHOOSE p \in Payloads : TRUE,
           kind |-> "plain", prior |-> 0]

Init ==
    /\ ledger = <<>> /\ done = {}
    /\ known = [h \in Handles |-> {}]
    /\ pc = [h \in Handles |-> "down"]
    /\ call = [h \in Handles |-> NoCall]
    /\ effects = [t \in Targets |-> [p \in Payloads |-> 0]]
    /\ torn = FALSE

Goto(h, from, to) == pc[h] = from /\ pc' = [pc EXCEPT ![h] = to]

\* Mutation: the completed steps are not read back.
OpenForgetful(h) ==
    /\ Goto(h, "down", "idle")
    /\ UNCHANGED <<ledger, done, known, call, effects, torn>>

\* create_run or resume.
Open(h) ==
    /\ Goto(h, "down", "idle")
    /\ known' = [known EXCEPT ![h] = done]
    /\ UNCHANGED <<ledger, done, call, effects, torn>>

\* tool() asks the gate only when there is an outbound payload and
\* side_effect is given.
Gated(kind) == kind = "gated"

\* tool() in a step that is not completed.
Begin(h, t, p, kind) ==
    /\ Goto(h, "idle", IF Gated(kind) THEN "permit" ELSE "invoke")
    /\ t \notin known[h]
    /\ call' = [call EXCEPT ![h] = [target |-> t, payload |-> p, kind |-> kind, prior |-> 0]]
    /\ UNCHANGED <<ledger, done, known, effects, torn>>

\* Mutation: the record that was read is not kept for the update.
PermitReplayUnread(h) ==
    /\ Goto(h, "permit", IF LatestHash(call[h].target) = NoPayload THEN "invoke" ELSE "compare")
    /\ UNCHANGED <<ledger, done, known, call, effects, torn>>

\* permit_replay: no prior record, or one without an outbound hash, permits.
PermitReplay(h) ==
    LET t == call[h].target IN
    /\ Goto(h, "permit", IF LatestHash(t) = NoPayload THEN "invoke" ELSE "compare")
    /\ call' = [call EXCEPT ![h].prior = Latest(t)]
    /\ UNCHANGED <<ledger, done, known, effects, torn>>

\* Mutation: the hashes are compared the wrong way round.
DivergesInverted(h) == LatestHash(call[h].target) = call[h].payload

\* compare_outbound reads the latest record once more.
Diverges(h) == LatestHash(call[h].target) \notin {NoPayload, call[h].payload}

CompareOutbound(h) ==
    /\ Goto(h, "compare", IF Diverges(h) THEN "flag" ELSE "invoke")
    /\ UNCHANGED <<ledger, done, known, call, effects, torn>>

\* The record read first is marked and OutboundDivergenceError raised; the
\* step ends without a call, a record or a checkpoint.
FlagDivergence(h) ==
    /\ Goto(h, "flag", "idle")
    /\ ledger' = [ledger EXCEPT ![call[h].prior].permitted = FALSE]
    /\ UNCHANGED <<done, known, call, effects, torn>>

Made == {c \in Targets \X Payloads \X (1..MaxEffects) : c[3] <= effects[c[1]][c[2]]}
Calls == Cardinality(Made)

Reached(h) == [effects EXCEPT ![call[h].target][call[h].payload] = @ + 1]

\* fn() returns.
Invoke(h) ==
    /\ Goto(h, "invoke", "record")
    /\ Calls < MaxEffects
    /\ effects' = Reached(h)
    /\ UNCHANGED <<ledger, done, known, call, torn>>

\* Mutation: the record is written whether fn() returned or raised.
InvokeRaisesRecorded(h) ==
    /\ FnMayRaise
    /\ Goto(h, "invoke", "record")
    /\ UNCHANGED <<ledger, done, known, call, effects, torn>>

\* fn() raises, before or after it had its effect; nothing is recorded.
InvokeRaises(h) ==
    /\ FnMayRaise
    /\ Goto(h, "invoke", "idle")
    /\ \/ effects' = effects /\ torn' = torn
       \/ Calls < MaxEffects /\ effects' = Reached(h) /\ torn' = TRUE
    /\ UNCHANGED <<ledger, done, known, call>>

NewRecord(c) == [target |-> c.target, outbound |-> Outbound(c), permitted |-> TRUE]

\* Mutation: set_tool_result leaves calls without side_effect out.
RecordGatedOnly(h) ==
    /\ Goto(h, "record", "end_step")
    /\ ledger' = IF Gated(call[h].kind) THEN Append(ledger, NewRecord(call[h])) ELSE ledger
    /\ UNCHANGED <<done, known, call, effects, torn>>

\* set_tool_result appends the record.
RecordEffect(h) ==
    /\ Goto(h, "record", "end_step")
    /\ ledger' = Append(ledger, NewRecord(call[h]))
    /\ UNCHANGED <<done, known, call, effects, torn>>

\* _end_step checkpoints a recovery-relevant action, which one with an
\* explicit side_effect is and another may be.  The newest checkpoint knows
\* what this handle knows.
EndStep(h) ==
    /\ Goto(h, "end_step", "returned")
    /\ done' \in {known[h]} \cup (IF Gated(call[h].kind) THEN {} ELSE {done})
    /\ UNCHANGED <<ledger, known, call, effects, torn>>

\* The body is over and the cursor advances, durably.
CompleteStep(h) ==
    /\ Goto(h, "returned", "idle")
    /\ known' = [known EXCEPT ![h] = @ \cup {call[h].target}]
    /\ done' = known'[h]
    /\ UNCHANGED <<ledger, call, effects, torn>>

\* step.fail(), an approval or a pause ends the body without completing it.
LeaveStep(h) ==
    /\ MayRetry
    /\ Goto(h, "returned", "idle")
    /\ UNCHANGED <<ledger, done, known, call, effects, torn>>

Crash(h) ==
    /\ pc[h] # "down"
    /\ pc' = [pc EXCEPT ![h] = "down"]
    /\ known' = [known EXCEPT ![h] = {}]
    /\ call' = [call EXCEPT ![h] = NoCall]
    /\ torn' = (torn \/ pc[h] = "record")
    /\ UNCHANGED <<ledger, done, effects>>

Next ==
    \E h \in Handles :
        \/ Open(h) \/ PermitReplay(h) \/ CompareOutbound(h) \/ FlagDivergence(h)
        \/ Invoke(h) \/ InvokeRaises(h) \/ RecordEffect(h) \/ EndStep(h)
        \/ CompleteStep(h) \/ LeaveStep(h) \/ Crash(h)
        \/ \E t \in Targets, p \in Payloads, kind \in Kinds : Begin(h, t, p, kind)

Spec == Init /\ [][Next]_vars
-----------------------------------------------------------------------------
(* Properties the code has.                                                *)

\* Every variable stays in its domain; a flagged call has a prior record.
TypeOK ==
    /\ ledger \in Seq(Record) /\ Len(ledger) <= MaxEffects
    /\ done \in SUBSET Targets /\ known \in [Handles -> SUBSET Targets]
    /\ pc \in [Handles -> Points] /\ call \in [Handles -> Call]
    /\ \A h \in Handles : pc[h] \in {"compare", "flag"} => call[h].prior \in 1..Len(ledger)
    /\ effects \in [Targets -> [Payloads -> 0..MaxEffects]]
    /\ torn \in BOOLEAN

Records(t, p) == Cardinality({i \in 1..Len(ledger) : ledger[i].target = t /\ ledger[i].outbound = p})
RecordsOf(t) == Cardinality({i \in 1..Len(ledger) : ledger[i].target = t})
EffectsOf(t) == Cardinality({c \in Made : c[1] = t})

\* "mechanical execution truth": the ledger claims nothing that did not
\* happen, whatever raised, crashed or ran at the same time.
LedgerTruth ==
    \A t \in Targets :
        /\ RecordsOf(t) <= EffectsOf(t)
        /\ \A p \in Payloads : Records(t, p) <= effects[t][p]

\* As long as no call ended between its effect and its record, the ledger
\* lacks only the effects of calls still in progress.
LedgerComplete ==
    ~torn => \A t \in Targets :
        EffectsOf(t) = RecordsOf(t)
            + Cardinality({h \in Handles : pc[h] = "record" /\ call[h].target = t})

\* One handle whose calls all ask the gate never commits two payloads for a
\* target, over crashes, failures and retries.
RecordsAgree ==
    \A i, j \in 1..Len(ledger) :
        ledger[i].target = ledger[j].target /\ NoPayload \notin {ledger[i].outbound, ledger[j].outbound}
            => ledger[i].outbound = ledger[j].outbound

\* One handle at a time: the tool of a step that a checkpoint has as
\* completed is not called again.
CompletedNotRedone == [][\A t \in done : effects'[t] = effects[t]]_vars

=============================================================================
