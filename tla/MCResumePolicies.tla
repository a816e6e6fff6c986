-------------------------- MODULE MCResumePolicies --------------------------
(* Values of the constants of ResumePolicies for TLC.                      *)
EXTENDS ResumePolicies, TLC

\* DEFAULT_POLICY_MAPPING.
DefaultMapping ==
    [tool_schema_changed |-> "RevalidateWithPrompt",
     tool_result_hash_mismatch |-> "RevalidateWithPrompt",
     file_tree_hash_mismatch |-> "FailFast", model_id_changed |-> "FailFast",
     intent_string_changed |-> "StrictReset", plan_sequence_changed |-> "StrictReset",
     approval_state_changed |-> "FailFast",
     behavioral_drift_flagged |-> "BehavioralDriftPolicy",
     outbound_payload_divergence |-> "FailFast"]

\* A host that brings nothing, one that checks its tools and the caller's
\* word on drift, one that brings a new intent as well, and one that also
\* brings what an abort answers.
SomeFields ==
    {{}, {"results", "schemas", "drift"}, {"results", "intent", "drift"},
     {"results", "intent", "file_tree", "model_id", "outbound"}}

\* A tool is only ever compared with itself.
Symmetry == Permutations(Tools)
=============================================================================
