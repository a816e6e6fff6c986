-------------------------- MODULE DivergenceMatrix --------------------------
(***************************************************************************)
(* What a resume compares: the artifacts a checkpoint keeps, the artifacts *)
(* the host brings (ResumeArtifacts), and the flags of the divergence      *)
(* matrix.  A hash, a text, a plan or a model id is a member of Versions;  *)
(* Unset stands for None and for a missing dictionary entry.               *)
(***************************************************************************)
EXTENDS Naturals, Sequences

CONSTANTS
    Tools,      \* tool names
    Versions,   \* values an artifact may have, up to its hash
    Unset

ASSUME UnsetAssumption == Unset \notin Versions

Scalars == {"file_tree", "model_id", "intent", "plan", "approval"}
Value == Versions \cup {Unset}

\* A checkpoint's file_tree, model_id, intent, plan and approval status; its
\* tool_schemas; the result hashes of its tool_commitments.
Artifacts == [scalar : [Scalars -> Value], schemas : [Tools -> Value],
              results : [Tools -> Value]]

\* ResumeArtifacts: the same, the payloads about to be sent, and the
\* caller's word on behavioral drift.
Current == [scalar : [Scalars -> Value], schemas : [Tools -> Value],
            results : [Tools -> Value], outbound : [Tools -> Value], drift : BOOLEAN]

Named(table) == {t \in Tools : table[t] # Unset}

\* Once the host brings any schema, names are compared that are on either
\* side.
SchemasChanged(ckpt, cur) ==
    Named(cur.schemas) # {} /\ \E t \in Tools : ckpt.schemas[t] # cur.schemas[t]

\* Results are compared for the names on both sides.
ResultMismatches(ckpt, cur) ==
    {t \in Named(ckpt.results) \cap Named(cur.results) : ckpt.results[t] # cur.results[t]}

\* An omitted field is not compared; one the checkpoint lacks is changed.
ScalarChanged(ckpt, cur, field) ==
    cur.scalar[field] # Unset /\ ckpt.scalar[field] # cur.scalar[field]

\* sent: the outbound hash of the last record of each target.
OutboundDivergences(sent, cur) ==
    {t \in Named(cur.outbound) \cap Named(sent) : sent[t] # cur.outbound[t]}

FlagOrder == <<"tool_schema_changed", "tool_result_hash_mismatch",
               "file_tree_hash_mismatch", "model_id_changed",
               "intent_string_changed", "plan_sequence_changed",
               "approval_state_changed", "behavioral_drift_flagged",
               "outbound_payload_divergence">>

Flags == {FlagOrder[i] : i \in 1..Len(FlagOrder)}

\* The artifact a flag is about, where it is about one.
ScalarOf == [file_tree_hash_mismatch |-> "file_tree", model_id_changed |-> "model_id",
             intent_string_changed |-> "intent", plan_sequence_changed |-> "plan",
             approval_state_changed |-> "approval"]

Raised(flag, ckpt, sent, cur) ==
    CASE flag = "tool_schema_changed"         -> SchemasChanged(ckpt, cur)
      [] flag = "tool_result_hash_mismatch"   -> ResultMismatches(ckpt, cur) # {}
      [] flag = "behavioral_drift_flagged"    -> cur.drift
      [] flag = "outbound_payload_divergence" -> OutboundDivergences(sent, cur) # {}
      [] OTHER                                -> ScalarChanged(ckpt, cur, ScalarOf[flag])

TriggeredFlags(ckpt, sent, cur) ==
    LET Flag(i) == IF Raised(FlagOrder[i], ckpt, sent, cur) THEN <<FlagOrder[i]>> ELSE <<>>
    IN  Flag(1) \o Flag(2) \o Flag(3) \o Flag(4) \o Flag(5) \o Flag(6) \o Flag(7)
            \o Flag(8) \o Flag(9)

\* Mutation: the flag added last is in triggered_flags only.
HasDivergenceButOutbound(ckpt, sent, cur) ==
    \/ cur.drift
    \/ SchemasChanged(ckpt, cur)
    \/ \E field \in Scalars : ScalarChanged(ckpt, cur, field)
    \/ ResultMismatches(ckpt, cur) # {}

\* has_divergence lists the flags once more.
HasDivergence(ckpt, sent, cur) ==
    \/ cur.drift
    \/ OutboundDivergences(sent, cur) # {}
    \/ SchemasChanged(ckpt, cur)
    \/ \E field \in Scalars : ScalarChanged(ckpt, cur, field)
    \/ ResultMismatches(ckpt, cur) # {}
=============================================================================
