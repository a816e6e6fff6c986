---------------------------- MODULE MCRunKernel ----------------------------
(* Small instances of RunKernel for TLC: a plan of one step or of three,   *)
(* one tool, and hosts that make different sets of calls.                  *)
EXTENDS RunKernel

CONSTANTS a, b, c   \* step names

OneStep == <<a>>
ThreeSteps == <<a, b, c>>

Names == {a, b, c}
=============================================================================
