---------------------------- MODULE MCSharedRun ----------------------------
(* Two interchangeable handles for TLC.                                    *)
EXTENDS SharedRun, TLC

CONSTANTS h1, h2

TwoHandles == {h1, h2}
Symmetry == Permutations(TwoHandles)
=============================================================================
