---------------------------- MODULE MCAgentLoop ----------------------------
(* The end of the plan of examples/survive_the_swap.py for TLC: a step to  *)
(* lose before the gate, the gate, and two in a row to lose behind it.     *)
EXTENDS AgentLoop

CONSTANTS draft, approve, send, archive   \* step names

GatedPlan == <<draft, approve, send, archive>>
Names == {draft, approve, send, archive}
GateSteps == {approve}
=============================================================================
