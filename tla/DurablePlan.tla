---------------------------- MODULE DurablePlan ----------------------------
(***************************************************************************)
(* What SemanticRun promises about a plan, seen through the newest         *)
(* checkpoint alone: a durable cursor that a crash, a human wait or a      *)
(* failed write never moves, that work moves by one completed step at a    *)
(* time, and that goes back only by a strict reset, to a value it had      *)
(* durably before, and only if work goes on before the process that reset  *)
(* is gone.                                                                *)
(***************************************************************************)
EXTENDS Integers

CONSTANTS
    Length,     \* number of steps in the plan, a natural number
    MayReset    \* can a policy answer with a strict reset?  A Boolean

VARIABLES
    cursor,     \* the durable cursor: the position of the next step
    recorded,   \* every value a checkpoint holds, and the initial one
    base        \* the position work goes on from: cursor, but after a reset

vars == <<cursor, recorded, base>>

Init == cursor = 0 /\ recorded = {0} /\ base = 0

\* A strict reset puts an old checkpoint into memory; no table changes.
Reset ==
    /\ MayReset
    /\ base' \in recorded
    /\ UNCHANGED <<cursor, recorded>>

\* The reset is forgotten: whoever resumes next goes on from the cursor.
Forget ==
    /\ base' = cursor
    /\ UNCHANGED <<cursor, recorded>>

Recorded(k) ==
    /\ cursor' = k /\ base' = k
    /\ recorded' = recorded \cup {k}

\* The step at the base is completed.
Advance == base < Length /\ Recorded(base + 1)

\* A checkpoint is taken and no step is completed by it.
Record == Recorded(base)

Next == Reset \/ Forget \/ Advance \/ Record

Spec == Init /\ [][Next]_vars
=============================================================================
