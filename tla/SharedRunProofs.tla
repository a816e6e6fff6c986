-------------------------- MODULE SharedRunProofs --------------------------
(***************************************************************************)
(* Theorems about SharedRun, for any number of handles and every bound:    *)
(* its types, that the latest checkpoint is one that nobody has gone on    *)
(* from, that a resume by itself never revives a finished run, that a      *)
(* decision reaches the request it is about, and that work is lost only to *)
(* a handle that overlaps or to a strict reset.                            *)
(***************************************************************************)
EXTENDS SharedRun, TLAPS

\* What may be left of a call.
Shapes ==
    {<<>>, <<"read_run">>, <<"read_checkpoint", "update_run", "update_run">>,
     <<"update_run">>, <<"update_run", "update_run">>,
     <<"insert", "update_run">>, <<"insert", "update_run", "update_run">>,
     <<"build", "insert", "update_run", "update_run">>,
     <<"update_approval", "build", "insert", "update_run", "update_run">>}

\* The next access, by name.
First(accesses) == IF accesses = <<>> THEN "idle" ELSE Head(accesses)

LEMMA ShapesAreAccesses == Shapes \subseteq Seq(Accesses)
BY DEF Shapes, Accesses

\* The calls go from access to access as the code does.
LEMMA NextAccess ==
    ASSUME NEW t \in Shapes, t # <<>>
    PROVE  /\ Tail(t) \in Shapes
           /\ Head(t) \in Accesses
           /\ Head(t) = "read_run" <=> t = Nobody
           /\ Head(t) = "read_checkpoint" => First(Tail(t)) = "update_run"
           /\ Head(t) = "update_approval" => First(Tail(t)) = "build"
           /\ Head(t) = "build" => First(Tail(t)) = "insert"
           /\ Head(t) = "insert" => First(Tail(t)) = "update_run"
           /\ Head(t) = "update_run" => First(Tail(t)) \in {"idle", "update_run"}
<1> USE DEF Shapes, First, Accesses, Nobody
<1>1. CASE t = <<"read_run">>
    BY <1>1
<1>2. CASE t = <<"read_checkpoint", "update_run", "update_run">>
    BY <1>2
<1>3. CASE t = <<"update_run">>
    BY <1>3
<1>4. CASE t = <<"update_run", "update_run">>
    BY <1>4
<1>5. CASE t = <<"insert", "update_run">>
    BY <1>5
<1>6. CASE t = <<"insert", "update_run", "update_run">>
    BY <1>6
<1>7. CASE t = <<"build", "insert", "update_run", "update_run">>
    BY <1>7
<1>8. CASE t = <<"update_approval", "build", "insert", "update_run", "update_run">>
    BY <1>8
<1> QED
    BY <1>1, <1>2, <1>3, <1>4, <1>5, <1>6, <1>7, <1>8

-----------------------------------------------------------------------------
(* The inductive invariant.                                                *)

\* What is left of a call is one of the shapes; a decision is on its way to
\* the approvals table only when one was made.
CallsOK ==
    \A h \in Handles :
        /\ pc[h] \in Shapes
        /\ Left(h, "update_approval") => state[h].approval \in Decisions

\* A checkpoint, or the draft of one, is built at a time `now' over a table:
\* it knows of `rows' rows, of which none is stamped later than it is.
Grown(table, now, ckpt, rows) ==
    /\ ckpt.knows <= rows /\ ckpt.stamp <= now
    /\ \A i \in 1..ckpt.knows : table[i].stamp <= ckpt.stamp

StampsGrow ==
    /\ \A i \in 1..Inserted : Grown(checkpoints, clock, checkpoints[i], i - 1)
    /\ \A h \in Handles :
         Left(h, "insert") => Grown(checkpoints, clock, draft[h], Inserted)

IInv == TypeOK /\ CallsOK /\ StampsGrow

LEMMA InitIInv == Init => IInv
<1> SUFFICES ASSUME Init PROVE IInv
    OBVIOUS
<1> USE DEF Init
<1>0. /\ 0 \in 0..MaxClock /\ 0 \in 0..MaxCheckpoints
      /\ 0 \in 0..MaxApprovals /\ 0 \in 0..PlanLength
    BY BoundsAssumption
<1>1. FreshState \in AgentState
    BY <1>0 DEF FreshState, AgentState
<1>2. \A h \in Handles : pc[h] \in {<<>>, Nobody}
    OBVIOUS
<1>3. \A h \in Handles : ~Left(h, "insert") /\ ~Left(h, "update_approval")
    BY <1>2 DEF Left, Nobody
<1>4. pc \in [Handles -> Seq(Accesses)] /\ CallsOK
    BY <1>2, <1>3, ShapesAreAccesses DEF CallsOK, Shapes, Nobody
<1>5. TypeOK
    BY <1>0, <1>1, <1>3, <1>4 DEF TypeOK, Statuses, Inserted, NoDraft
<1>6. StampsGrow
    BY <1>3 DEF StampsGrow, Inserted
<1> QED
    BY <1>4, <1>5, <1>6 DEF IInv

-----------------------------------------------------------------------------
(* Every step preserves it.                                                *)

LEMMA LeftFirst ==
    \A h \in Handles, a \in Accesses :
        /\ Left(h, a) <=> First(pc[h]) = a
        /\ Left(h, a)' <=> First(pc'[h]) = a
BY DEF Left, First, Accesses

\* The handle's control after an access, and after a call has begun; the
\* other handles' is untouched.
LEMMA AfterAccess ==
    ASSUME IInv, NEW h \in Handles, NEW a \in Accesses, Does(h, a), a # "read_run"
    PROVE  /\ pc' \in [Handles -> Seq(Accesses)]
           /\ \A g \in Handles : pc'[g] \in Shapes
           /\ \A g \in Handles \ {h}, b \in Accesses : Left(g, b)' <=> Left(g, b)
           /\ \A b \in Accesses : Left(h, b) <=> b = a
           /\ \A b \in Accesses : Left(h, b)' =>
                \/ b = "update_run" /\ a \in {"read_checkpoint", "insert", "update_run"}
                \/ b = "build" /\ a = "update_approval"
                \/ b = "insert" /\ a = "build"
           /\ a = "build" => Left(h, "insert")'
<1>1. pc \in [Handles -> Seq(Accesses)] /\ \A g \in Handles : pc[g] \in Shapes
    BY DEF IInv, TypeOK, past, CallsOK
<1>2. pc[h] # <<>> /\ Head(pc[h]) = a /\ pc' = [pc EXCEPT ![h] = Tail(pc[h])]
    BY DEF Does, Left
<1>3. Tail(pc[h]) \in Shapes /\ Tail(pc[h]) \in Seq(Accesses)
    BY <1>1, <1>2, NextAccess, ShapesAreAccesses
<1>4. pc'[h] = Tail(pc[h]) /\ \A g \in Handles \ {h} : pc'[g] = pc[g]
    BY <1>1, <1>2
<1>5. \A g \in Handles \ {h}, b \in Accesses : Left(g, b)' <=> Left(g, b)
    BY <1>4 DEF Left
<1>6. /\ a \in {"read_checkpoint", "insert"} => First(pc'[h]) = "update_run"
      /\ a = "update_approval" => First(pc'[h]) = "build"
      /\ a = "build" => First(pc'[h]) = "insert"
      /\ a = "update_run" => First(pc'[h]) \in {"idle", "update_run"}
    BY <1>1, <1>2, <1>4, NextAccess
<1>7. \A b \in Accesses : Left(h, b)' <=> First(pc'[h]) = b
    BY LeftFirst
<1> QED
    BY <1>1, <1>2, <1>3, <1>4, <1>5, <1>6, <1>7 DEF Left, Accesses

LEMMA AfterCall ==
    ASSUME IInv, NEW h \in Handles, NEW t \in Shapes, GoesOn(h, t)
    PROVE  /\ pc' \in [Handles -> Seq(Accesses)]
           /\ \A g \in Handles : pc'[g] \in Shapes
           /\ \A g \in Handles \ {h}, b \in Accesses : Left(g, b)' <=> Left(g, b)
           /\ \A b \in Accesses : Left(h, b)' <=> b = First(t)
<1>1. pc \in [Handles -> Seq(Accesses)] /\ \A g \in Handles : pc[g] \in Shapes
    BY DEF IInv, TypeOK, past, CallsOK
<1>2. /\ pc' \in [Handles -> Seq(Accesses)] /\ pc'[h] = t
      /\ \A g \in Handles \ {h} : pc'[g] = pc[g]
      /\ \A g \in Handles : pc'[g] \in Shapes
    BY <1>1, ShapesAreAccesses DEF GoesOn
<1>3. \A b \in Accesses : Left(h, b)' <=> First(pc'[h]) = b
    BY LeftFirst
<1> QED
    BY <1>2, <1>3 DEF Left

\* The draft of a handle is a checkpoint over the present table.
LEMMA BuiltDraft ==
    ASSUME IInv, NEW h \in Handles, Built(h),
           state'[h] \in AgentState, status'[h] \in Statuses
    PROVE  /\ draft' \in [Handles -> Checkpoint \cup {NoDraft}]
           /\ draft'[h] \in Checkpoint
           /\ \A g \in Handles \ {h} : draft'[g] = draft[g]
           /\ Grown(checkpoints, clock, draft'[h], Inserted)
<1>1. /\ clock \in 0..MaxClock /\ base[h] \in 0..MaxCheckpoints
      /\ undone[h] \in SUBSET (1..MaxCheckpoints)
      /\ Inserted \in 0..MaxCheckpoints
      /\ checkpoints \in Seq(Checkpoint)
      /\ draft \in [Handles -> Checkpoint \cup {NoDraft}]
    BY BoundsAssumption DEF IInv, TypeOK, past, Inserted
<1> DEFINE d == [stamp |-> clock, status |-> status'[h], state |-> state'[h],
                 owner |-> h, base |-> base[h], undone |-> undone[h],
                 knows |-> Inserted]
<1>2. d \in Checkpoint
    BY <1>1 DEF Checkpoint
<1>3. draft'[h] = d /\ \A g \in Handles \ {h} : draft'[g] = draft[g]
    BY <1>1 DEF Built
<1>4. draft' \in [Handles -> Checkpoint \cup {NoDraft}]
    BY <1>1, <1>2 DEF Built
<1>5. \A i \in 1..Inserted : checkpoints[i].stamp <= clock
    BY DEF IInv, StampsGrow, Grown
<1>6. Grown(checkpoints, clock, d, Inserted)
    BY <1>1, <1>5 DEF Grown
<1> QED
    BY <1>2, <1>3, <1>4, <1>6

\* A step that leaves the table alone keeps its order.
LEMMA TableUntouched ==
    ASSUME IInv, UNCHANGED <<clock, checkpoints>>,
           \A g \in Handles : Left(g, "insert")' =>
               \/ Left(g, "insert") /\ draft'[g] = draft[g]
               \/ Grown(checkpoints, clock, draft'[g], Inserted)
    PROVE  StampsGrow'
<1>1. Inserted' = Inserted
    BY DEF Inserted
<1>2. \A g \in Handles : Left(g, "insert")' => Grown(checkpoints, clock, draft'[g], Inserted)
    BY DEF IInv, StampsGrow
<1> QED
    BY <1>1, <1>2 DEF IInv, StampsGrow, Grown

\* What the types say of the variables, taken apart.
LEMMA TypesOf ==
    ASSUME IInv
    PROVE  /\ clock \in 0..MaxClock /\ runs \in Statuses
           /\ checkpoints \in Seq(Checkpoint) /\ Inserted \in 0..MaxCheckpoints
           /\ \A i \in DOMAIN checkpoints : checkpoints[i] \in Checkpoint
           /\ approvals \in Seq(Approval) /\ Len(approvals) \in 0..MaxApprovals
           /\ status \in [Handles -> Statuses] /\ state \in [Handles -> AgentState]
           /\ base \in [Handles -> 0..MaxCheckpoints]
           /\ undone \in [Handles -> SUBSET (1..MaxCheckpoints)]
           /\ found \in [Handles -> 0..MaxApprovals]
           /\ draft \in [Handles -> Checkpoint \cup {NoDraft}]
BY BoundsAssumption DEF IInv, TypeOK, past, Inserted

LEMMA ResumeStep ==
    ASSUME IInv, NEW h \in Handles, ReadRun(h) \/ ReadCheckpoint(h)
    PROVE  IInv'
<1> USE TypesOf
<1>1. CASE ReadRun(h)
    <2>1. /\ GoesOn(h, <<"read_checkpoint", "update_run", "update_run">>)
          /\ UNCHANGED <<clock, tables, state, draft, found, past, revivers>>
          /\ status' = [status EXCEPT ![h] = runs] /\ pc[h] = Nobody
        BY <1>1 DEF ReadRun
    <2>2. /\ pc' \in [Handles -> Seq(Accesses)] /\ \A g \in Handles : pc'[g] \in Shapes
          /\ \A g \in Handles \ {h}, b \in Accesses : Left(g, b)' <=> Left(g, b)
          /\ \A b \in Accesses : Left(h, b)' <=> b = "read_checkpoint"
        BY <2>1, AfterCall DEF Shapes, First
    <2>3. \A b \in Accesses : Left(h, b) <=> b = "read_run"
        <3>1. First(pc[h]) = "read_run"
            BY <2>1 DEF First, Nobody
        <3> QED
            BY <3>1, LeftFirst
    <2>4. TypeOK'
        BY <2>1, <2>2, <2>3 DEF IInv, TypeOK, past, tables, Inserted, Accesses
    <2>5. CallsOK'
        BY <2>1, <2>2, <2>3 DEF IInv, CallsOK, tables, Accesses
    <2>6. StampsGrow'
        BY <2>1, <2>2, <2>3, TableUntouched DEF tables, Accesses
    <2> QED
        BY <2>4, <2>5, <2>6 DEF IInv
<1>2. CASE ReadCheckpoint(h)
    <2>1. /\ Does(h, "read_checkpoint") /\ base' = [base EXCEPT ![h] = Inserted]
          /\ UNCHANGED <<clock, tables, draft, found, undone, revivers>>
        BY <1>2 DEF ReadCheckpoint
    <2>2. /\ pc' \in [Handles -> Seq(Accesses)] /\ \A g \in Handles : pc'[g] \in Shapes
          /\ \A g \in Handles \ {h}, b \in Accesses : Left(g, b)' <=> Left(g, b)
          /\ \A b \in Accesses : Left(h, b) <=> b = "read_checkpoint"
          /\ \A b \in Accesses : Left(h, b)' => b = "update_run"
        BY <2>1, AfterAccess DEF Accesses
    <2>3. PICK i \in DOMAIN checkpoints :
              /\ status' = [status EXCEPT ![h] = ResumeStatus(@, checkpoints[i].status)]
              /\ state' = [state EXCEPT ![h] = checkpoints[i].state]
        BY <1>2 DEF ReadCheckpoint, NewestOf
    <2>4. checkpoints[i].state \in AgentState
        BY DEF Checkpoint
    <2>5. ResumeStatus(status[h], checkpoints[i].status) \in Statuses
        BY DEF ResumeStatus, Statuses, Terminal
    <2>6. TypeOK'
        BY <2>1, <2>2, <2>3, <2>4, <2>5 DEF IInv, TypeOK, past, tables, Inserted, Accesses
    <2>7. CallsOK'
        BY <2>2, <2>3 DEF IInv, CallsOK, Accesses
    <2>8. StampsGrow'
        BY <2>1, <2>2, TableUntouched DEF tables, Accesses
    <2> QED
        BY <2>6, <2>7, <2>8 DEF IInv
<1> QED
    BY <1>1, <1>2

\* The writes of a handle: the row, the draft, the checkpoint, the approval.
LEMMA WriteStep ==
    ASSUME IInv, NEW h \in Handles,
           UpdateRun(h) \/ Build(h) \/ Insert(h) \/ UpdateApproval(h)
    PROVE  IInv'
<1> USE TypesOf
<1>1. CASE UpdateRun(h)
    <2>1. /\ pc' \in [Handles -> Seq(Accesses)] /\ \A g \in Handles : pc'[g] \in Shapes
          /\ \A g \in Handles \ {h}, b \in Accesses : Left(g, b)' <=> Left(g, b)
          /\ \A b \in Accesses : Left(h, b) <=> b = "update_run"
          /\ \A b \in Accesses : Left(h, b)' => b = "update_run"
        BY <1>1, AfterAccess DEF UpdateRun, Accesses
    <2>2. /\ UNCHANGED <<clock, checkpoints, approvals, status, state, draft, found, past>>
          /\ runs' = status[h]
          /\ revivers' \in SUBSET Handles
        BY <1>1 DEF UpdateRun, IInv, TypeOK
    <2>3. TypeOK'
        BY <2>1, <2>2 DEF IInv, TypeOK, past, Inserted, Accesses
    <2>4. CallsOK'
        BY <2>1, <2>2 DEF IInv, CallsOK, Accesses
    <2>5. StampsGrow'
        BY <2>1, <2>2, TableUntouched DEF Accesses
    <2> QED
        BY <2>3, <2>4, <2>5 DEF IInv
<1>2. CASE Build(h)
    <2>1. /\ pc' \in [Handles -> Seq(Accesses)] /\ \A g \in Handles : pc'[g] \in Shapes
          /\ \A g \in Handles \ {h}, b \in Accesses : Left(g, b)' <=> Left(g, b)
          /\ \A b \in Accesses : Left(h, b) <=> b = "build"
          /\ \A b \in Accesses : Left(h, b)' => b = "insert"
          /\ Left(h, "insert")'
        BY <1>2, AfterAccess DEF Build, Accesses
    <2>2. UNCHANGED <<clock, tables, status, state, found, past, revivers>> /\ Built(h)
        BY <1>2 DEF Build
    <2>3. /\ draft' \in [Handles -> Checkpoint \cup {NoDraft}] /\ draft'[h] \in Checkpoint
          /\ \A g \in Handles \ {h} : draft'[g] = draft[g]
          /\ Grown(checkpoints, clock, draft'[h], Inserted)
        BY <2>2, BuiltDraft
    <2>4. TypeOK'
        BY <2>1, <2>2, <2>3 DEF IInv, TypeOK, past, tables, Inserted, Accesses
    <2>5. CallsOK'
        BY <2>1, <2>2 DEF IInv, CallsOK, Accesses
    <2>6. StampsGrow'
        BY <2>1, <2>2, <2>3, TableUntouched DEF tables, Accesses
    <2> QED
        BY <2>4, <2>5, <2>6 DEF IInv
<1>3. CASE Insert(h)
    <2>1. /\ pc' \in [Handles -> Seq(Accesses)] /\ \A g \in Handles : pc'[g] \in Shapes
          /\ \A g \in Handles \ {h}, b \in Accesses : Left(g, b)' <=> Left(g, b)
          /\ \A b \in Accesses : Left(h, b) <=> b = "insert"
          /\ \A b \in Accesses : Left(h, b)' => b = "update_run"
        BY <1>3, AfterAccess DEF Insert, Accesses
    <2>2. /\ UNCHANGED <<clock, runs, approvals, status, state, found, past, revivers>>
          /\ checkpoints' = Append(checkpoints, draft[h])
          /\ draft' = [draft EXCEPT ![h] = NoDraft] /\ Inserted < MaxCheckpoints
        BY <1>3 DEF Insert
    <2>3. draft[h] \in Checkpoint /\ Grown(checkpoints, clock, draft[h], Inserted)
        BY <2>1 DEF IInv, TypeOK, past, StampsGrow, Accesses
    <2>4. /\ checkpoints' \in Seq(Checkpoint) /\ Inserted' = Inserted + 1
          /\ \A i \in 1..Inserted : checkpoints'[i] = checkpoints[i]
          /\ checkpoints'[Inserted + 1] = draft[h]
        BY <2>2, <2>3 DEF Inserted
    <2>5. TypeOK'
        <3>1. Inserted' <= MaxCheckpoints
            BY <2>2, <2>4, BoundsAssumption
        <3>2. /\ draft' \in [Handles -> Checkpoint \cup {NoDraft}]
              /\ draft'[h] = NoDraft /\ \A g \in Handles \ {h} : draft'[g] = draft[g]
            BY <2>2
        <3>3. \A g \in Handles :
                /\ IF Left(g, "insert")' THEN draft'[g] \in Checkpoint ELSE draft'[g] = NoDraft
                /\ IF Left(g, "update_approval")' THEN found[g] \in DOMAIN approvals
                                                  ELSE found[g] = 0
            BY <2>1, <3>2 DEF IInv, TypeOK, past, Accesses
        <3> QED
            BY <2>1, <2>2, <2>4, <3>1, <3>2, <3>3 DEF IInv, TypeOK, past
    <2>6. CallsOK'
        BY <2>1, <2>2 DEF IInv, CallsOK, Accesses
    <2>7. ASSUME NEW c \in Checkpoint, NEW r \in 0..Inserted,
                 Grown(checkpoints, clock, c, r)
          PROVE  Grown(checkpoints', clock, c, r)
        <3>1. c.knows \in Nat /\ c.knows <= r /\ c.stamp <= clock
              /\ \A i \in 1..c.knows : checkpoints[i].stamp <= c.stamp
            BY <2>7 DEF Grown, Checkpoint
        <3>2. \A i \in 1..c.knows : i \in 1..Inserted
            BY <3>1
        <3> QED
            BY <2>4, <3>1, <3>2 DEF Grown
    <2>8. \A i \in 1..Inserted' : Grown(checkpoints', clock, checkpoints'[i], i - 1)
        <3>1. ASSUME NEW i \in 1..Inserted
              PROVE  Grown(checkpoints', clock, checkpoints'[i], i - 1)
            <4>1. checkpoints[i] \in Checkpoint /\ i - 1 \in 0..Inserted
                BY DEF Inserted
            <4>2. Grown(checkpoints, clock, checkpoints[i], i - 1)
                BY DEF IInv, StampsGrow
            <4> QED
                BY <4>1, <4>2, <2>4, <2>7
        <3>2. Grown(checkpoints', clock, checkpoints'[Inserted + 1], Inserted)
            BY <2>3, <2>4, <2>7
        <3>3. ASSUME NEW i \in 1..Inserted'
              PROVE  Grown(checkpoints', clock, checkpoints'[i], i - 1)
            <4>1. i \in 1..Inserted \/ i = Inserted + 1
                BY <2>4
            <4>2. CASE i = Inserted + 1
                <5>1. i - 1 = Inserted
                    BY <4>2
                <5> QED
                    BY <3>2, <4>2, <5>1
            <4> QED
                BY <3>1, <4>1, <4>2
        <3> QED
            BY <3>3
    <2>9. ASSUME NEW g \in Handles, Left(g, "insert")'
          PROVE  Grown(checkpoints', clock, draft'[g], Inserted')
        <3>1. g # h /\ Left(g, "insert")
            BY <2>1, <2>9 DEF Accesses
        <3>2. draft'[g] = draft[g] /\ draft[g] \in Checkpoint
            BY <3>1, <2>2 DEF IInv, TypeOK, past
        <3>3. Grown(checkpoints, clock, draft[g], Inserted)
            BY <3>1 DEF IInv, StampsGrow
        <3>4. Grown(checkpoints', clock, draft[g], Inserted)
            BY <3>2, <3>3, <2>7
        <3> QED
            BY <3>2, <3>4, <2>4 DEF Grown, Checkpoint
    <2>10. StampsGrow'
        BY <2>2, <2>8, <2>9 DEF StampsGrow
    <2> QED
        BY <2>5, <2>6, <2>10 DEF IInv
<1>4. CASE UpdateApproval(h)
    <2>1. /\ pc' \in [Handles -> Seq(Accesses)] /\ \A g \in Handles : pc'[g] \in Shapes
          /\ \A g \in Handles \ {h}, b \in Accesses : Left(g, b)' <=> Left(g, b)
          /\ \A b \in Accesses : Left(h, b) <=> b = "update_approval"
          /\ \A b \in Accesses : Left(h, b)' => b = "build"
        BY <1>4, AfterAccess DEF UpdateApproval, Accesses
    <2>2. /\ UNCHANGED <<clock, runs, checkpoints, status, state, draft, past, revivers>>
          /\ approvals' = [approvals EXCEPT ![found[h]].status = state[h].approval]
          /\ found' = [found EXCEPT ![h] = 0]
        BY <1>4 DEF UpdateApproval
    <2>3. state[h].approval \in Decisions
        BY <2>1 DEF IInv, CallsOK, Accesses
    <2>4. approvals' \in Seq(Approval) /\ Len(approvals') = Len(approvals)
        <3>1. found[h] \in 1..Len(approvals)
            BY <2>1 DEF IInv, TypeOK, past, Accesses
        <3> DEFINE a == [approvals[found[h]] EXCEPT !.status = state[h].approval]
        <3>2. a \in Approval
            <4>1. approvals[found[h]] \in Approval
                BY <3>1
            <4> QED
                BY <4>1, <2>3 DEF Approval
        <3>3. approvals' = [approvals EXCEPT ![found[h]] = a]
            BY <2>2
        <3> QED
            BY <3>1, <3>2, <3>3
    <2>5. DOMAIN approvals' = DOMAIN approvals
        BY <2>2
    <2>6. TypeOK'
        <3>1. \A g \in Handles :
                /\ IF Left(g, "insert")' THEN draft[g] \in Checkpoint ELSE draft[g] = NoDraft
                /\ IF Left(g, "update_approval")' THEN found'[g] \in DOMAIN approvals
                                                  ELSE found'[g] = 0
            BY <2>1, <2>2 DEF IInv, TypeOK, past, Accesses
        <3>2. found' \in [Handles -> 0..MaxApprovals]
            BY <2>2, BoundsAssumption
        <3> QED
            BY <2>1, <2>2, <2>4, <2>5, <3>1, <3>2 DEF IInv, TypeOK, past, Inserted
    <2>7. CallsOK'
        BY <2>1, <2>2 DEF IInv, CallsOK, Accesses
    <2>8. StampsGrow'
        BY <2>1, <2>2, TableUntouched DEF Accesses
    <2> QED
        BY <2>6, <2>7, <2>8 DEF IInv
<1> QED
    BY <1>1, <1>2, <1>3, <1>4

\* What a host calls: a new draft or a request goes on its way.
LEMMA CallStep ==
    ASSUME IInv, NEW h \in Handles, Call(h)
    PROVE  IInv'
<1> USE TypesOf
<1>1. ~Left(h, "insert") /\ ~Left(h, "update_approval") /\ Idle(h)
    BY DEF Call, CompleteStep, RequestApproval, Decide, Finish, Halt, Reset, MayCall, Idle, Left
<1>2. ASSUME NEW t \in Shapes, First(t) = "insert", GoesOn(h, t), Built(h),
             state' \in [Handles -> AgentState], status' \in [Handles -> Statuses],
             UNCHANGED <<clock, tables, found, past>>, revivers' \in SUBSET Handles,
             \A g \in Handles \ {h} : state'[g] = state[g]
      PROVE  IInv'
    <2>1. /\ pc' \in [Handles -> Seq(Accesses)] /\ \A g \in Handles : pc'[g] \in Shapes
          /\ \A g \in Handles \ {h}, b \in Accesses : Left(g, b)' <=> Left(g, b)
          /\ \A b \in Accesses : Left(h, b)' <=> b = "insert"
        BY <1>2, AfterCall
    <2>2. /\ draft' \in [Handles -> Checkpoint \cup {NoDraft}] /\ draft'[h] \in Checkpoint
          /\ \A g \in Handles \ {h} : draft'[g] = draft[g]
          /\ Grown(checkpoints, clock, draft'[h], Inserted)
        BY <1>2, BuiltDraft
    <2>3. TypeOK'
        BY <1>1, <1>2, <2>1, <2>2 DEF IInv, TypeOK, past, tables, Inserted, Accesses
    <2>4. CallsOK'
        BY <1>2, <2>1 DEF IInv, CallsOK, Accesses
    <2>5. StampsGrow'
        BY <1>2, <2>1, <2>2, TableUntouched DEF tables, Accesses
    <2> QED
        BY <2>3, <2>4, <2>5 DEF IInv
<1>3. CASE CompleteStep(h)
    <2>1. state[h].planIndex + 1 \in 0..PlanLength
        BY <1>3, BoundsAssumption DEF CompleteStep, StepsLeft, AgentState
    <2>2. state' \in [Handles -> AgentState]
        BY <1>3, <2>1 DEF CompleteStep, AgentState
    <2>3. First(<<"insert", "update_run">>) = "insert"
        BY DEF First
    <2> QED
        BY <1>2, <1>3, <2>2, <2>3 DEF CompleteStep, Shapes, IInv, TypeOK
<1>4. CASE \E to \in Endings : Finish(h, to)
    <2>1. PICK to \in Endings : Finish(h, to)
        BY <1>4
    <2>2. status' \in [Handles -> Statuses]
        BY <2>1, ChoicesAssumption DEF Finish, Statuses
    <2>3. First(<<"insert", "update_run", "update_run">>) = "insert"
        BY DEF First
    <2> QED
        BY <1>2, <2>1, <2>2, <2>3 DEF Finish, Shapes, IInv, TypeOK
<1>5. CASE RequestApproval(h)
    <2>1. /\ approvals' = Append(approvals, [stamp |-> clock, status |-> "pending"])
          /\ state' = [state EXCEPT ![h].approval = "pending",
                                    ![h].asked = Len(approvals')]
          /\ status' = [status EXCEPT ![h] = "waiting"]
          /\ Len(approvals) < MaxApprovals
          /\ GoesOn(h, <<"build", "insert", "update_run", "update_run">>)
          /\ UNCHANGED <<clock, runs, checkpoints, draft, found, past>>
          /\ revivers' \in SUBSET Handles
        BY <1>5 DEF RequestApproval, Sets, IInv, TypeOK
    <2>2. First(<<"build", "insert", "update_run", "update_run">>) = "build"
        BY DEF First
    <2>3. /\ pc' \in [Handles -> Seq(Accesses)] /\ \A g \in Handles : pc'[g] \in Shapes
          /\ \A g \in Handles \ {h}, b \in Accesses : Left(g, b)' <=> Left(g, b)
          /\ \A b \in Accesses : Left(h, b)' <=> b = "build"
        BY <2>1, <2>2, AfterCall DEF Shapes
    <2>4. /\ approvals' \in Seq(Approval) /\ Len(approvals') = Len(approvals) + 1
          /\ Len(approvals') \in 0..MaxApprovals
        BY <2>1, BoundsAssumption DEF Approval
    <2>5. state' \in [Handles -> AgentState] /\ status' \in [Handles -> Statuses]
        BY <2>1, <2>4, ZenonT(60) DEF AgentState, Statuses
    <2>6. DOMAIN approvals \subseteq DOMAIN approvals'
        BY <2>4
    <2>7. TypeOK'
        <3>1. \A g \in Handles :
                /\ IF Left(g, "insert")' THEN draft[g] \in Checkpoint ELSE draft[g] = NoDraft
                /\ IF Left(g, "update_approval")' THEN found[g] \in DOMAIN approvals'
                                                  ELSE found[g] = 0
            BY <1>1, <2>3, <2>6 DEF IInv, TypeOK, past, Accesses
        <3>2. UNCHANGED <<clock, runs, checkpoints, draft, found, base, undone>>
              /\ revivers' \in SUBSET Handles
            BY <2>1 DEF past
        <3> QED
            BY <2>3, <2>4, <2>5, <3>1, <3>2 DEF IInv, TypeOK, Inserted
    <2>8. CallsOK'
        BY <2>1, <2>3 DEF IInv, CallsOK, Accesses
    <2>9. StampsGrow'
        BY <1>1, <2>1, <2>3, TableUntouched DEF Accesses
    <2> QED
        BY <2>7, <2>8, <2>9 DEF IInv
<1>6. CASE \E verdict \in Verdicts : Decide(h, verdict)
    <2>1. PICK verdict \in Verdicts : Decide(h, verdict)
        BY <1>6
    <2>2. PICK i \in DOMAIN approvals : found' = [found EXCEPT ![h] = i]
        BY <2>1 DEF Decide, LatestApprovals
    <2> DEFINE t == <<"update_approval", "build", "insert", "update_run", "update_run">>
    <2>3. /\ state' = [state EXCEPT ![h].approval = verdict]
          /\ status' = [status EXCEPT ![h] =
                          IF verdict = "approved" THEN "running" ELSE "paused"]
          /\ GoesOn(h, t)
          /\ UNCHANGED <<clock, tables, draft, past>>
          /\ revivers' \in SUBSET Handles
        BY <2>1 DEF Decide, Sets, IInv, TypeOK
    <2>4. First(t) = "update_approval"
        BY DEF First
    <2>5. /\ pc' \in [Handles -> Seq(Accesses)] /\ \A g \in Handles : pc'[g] \in Shapes
          /\ \A g \in Handles \ {h}, b \in Accesses : Left(g, b)' <=> Left(g, b)
          /\ \A b \in Accesses : Left(h, b)' <=> b = "update_approval"
        BY <2>3, <2>4, AfterCall DEF Shapes
    <2>6. verdict \in Decisions
        BY ChoicesAssumption DEF Decisions
    <2>7. state' \in [Handles -> AgentState] /\ status' \in [Handles -> Statuses]
        BY <2>3, <2>6 DEF AgentState, Statuses
    <2>8. found' \in [Handles -> 0..MaxApprovals]
        BY <2>2, BoundsAssumption
    <2>9. TypeOK'
        <3>1. \A g \in Handles :
                /\ IF Left(g, "insert")' THEN draft[g] \in Checkpoint ELSE draft[g] = NoDraft
                /\ IF Left(g, "update_approval")' THEN found'[g] \in DOMAIN approvals
                                                  ELSE found'[g] = 0
            BY <1>1, <2>2, <2>5 DEF IInv, TypeOK, past, Accesses
        <3> QED
            BY <2>3, <2>5, <2>7, <2>8, <3>1 DEF IInv, TypeOK, past, tables, Inserted
    <2>10. CallsOK'
        BY <2>3, <2>5, <2>6 DEF IInv, CallsOK, Accesses
    <2>11. StampsGrow'
        BY <1>1, <2>3, <2>5, TableUntouched DEF tables, Accesses
    <2> QED
        BY <2>9, <2>10, <2>11 DEF IInv
<1>7. CASE Halt(h)
    <2>1. status' \in [Handles -> Statuses] /\ revivers' \in SUBSET Handles
        BY <1>7 DEF Halt, Sets, Statuses, IInv, TypeOK
    <2>2. First(<<"insert", "update_run", "update_run">>) = "insert"
        BY DEF First
    <2> QED
        BY <1>2, <1>7, <2>1, <2>2 DEF Halt, Shapes
<1>8. CASE Reset(h)
    <2>1. PICK i \in DOMAIN checkpoints :
            /\ state' = [state EXCEPT ![h] = checkpoints[i].state]
            /\ undone' = [undone EXCEPT ![h] =
                            {j \in DOMAIN checkpoints : Later(checkpoints, j, i)}]
        BY <1>8 DEF Reset
    <2>2. /\ status' = [status EXCEPT ![h] = "running"]
          /\ GoesOn(h, <<"update_run">>)
          /\ UNCHANGED <<clock, tables, draft, found, base>>
          /\ revivers' \in SUBSET Handles
        BY <1>8 DEF Reset, Sets, IInv, TypeOK
    <2>3. First(<<"update_run">>) = "update_run"
        BY DEF First
    <2>4. /\ pc' \in [Handles -> Seq(Accesses)] /\ \A g \in Handles : pc'[g] \in Shapes
          /\ \A g \in Handles \ {h}, b \in Accesses : Left(g, b)' <=> Left(g, b)
          /\ \A b \in Accesses : Left(h, b)' <=> b = "update_run"
        BY <2>2, <2>3, AfterCall DEF Shapes
    <2>5. state' \in [Handles -> AgentState] /\ status' \in [Handles -> Statuses]
        BY <2>1, <2>2 DEF Checkpoint, Statuses
    <2>6. undone' \in [Handles -> SUBSET (1..MaxCheckpoints)]
        <3>1. DOMAIN checkpoints \subseteq 1..MaxCheckpoints
            BY BoundsAssumption DEF Inserted
        <3> QED
            BY <2>1, <3>1
    <2>7. TypeOK'
        BY <1>1, <2>2, <2>4, <2>5, <2>6 DEF IInv, TypeOK, tables, Inserted, Accesses
    <2>8. CallsOK'
        BY <2>1, <2>4 DEF IInv, CallsOK, Accesses
    <2>9. StampsGrow'
        BY <1>1, <2>2, <2>4, TableUntouched DEF tables, Accesses
    <2> QED
        BY <2>7, <2>8, <2>9 DEF IInv
<1> QED
    BY <1>3, <1>4, <1>5, <1>6, <1>7, <1>8 DEF Call

LEMMA LeaveStep ==
    ASSUME IInv, NEW h \in Handles, Leave(h)
    PROVE  IInv'
<1> USE TypesOf
<1>1. /\ GoesOn(h, Nobody) /\ UNCHANGED <<clock, tables>>
      /\ status' = [status EXCEPT ![h] = "running"]
      /\ state' = [state EXCEPT ![h] = FreshState]
      /\ draft' = [draft EXCEPT ![h] = NoDraft]
      /\ found' = [found EXCEPT ![h] = 0] /\ base' = [base EXCEPT ![h] = 0]
      /\ undone' = [undone EXCEPT ![h] = {}]
      /\ revivers' = revivers \ {h}
    BY DEF Leave
<1>2. First(Nobody) = "read_run" /\ Nobody \in Shapes
    BY DEF First, Nobody, Shapes
<1>3. /\ pc' \in [Handles -> Seq(Accesses)] /\ \A g \in Handles : pc'[g] \in Shapes
      /\ \A g \in Handles \ {h}, b \in Accesses : Left(g, b)' <=> Left(g, b)
      /\ \A b \in Accesses : Left(h, b)' <=> b = "read_run"
    BY <1>1, <1>2, AfterCall
<1>4. /\ FreshState \in AgentState /\ 0 \in 0..MaxCheckpoints /\ 0 \in 0..MaxApprovals
      /\ "running" \in Statuses
    BY BoundsAssumption DEF FreshState, AgentState, Statuses
<1>5. TypeOK'
    <2>1. \A g \in Handles :
            /\ IF Left(g, "insert")' THEN draft'[g] \in Checkpoint ELSE draft'[g] = NoDraft
            /\ IF Left(g, "update_approval")' THEN found'[g] \in DOMAIN approvals
                                              ELSE found'[g] = 0
        BY <1>1, <1>3 DEF IInv, TypeOK, past, Accesses
    <2> QED
        BY <1>1, <1>3, <1>4, <2>1 DEF IInv, TypeOK, past, tables, Inserted
<1>6. CallsOK'
    BY <1>1, <1>3 DEF IInv, CallsOK, Accesses
<1>7. StampsGrow'
    BY <1>1, <1>3, TableUntouched DEF tables, Accesses
<1> QED
    BY <1>5, <1>6, <1>7 DEF IInv

LEMMA TickStep ==
    ASSUME IInv, Tick
    PROVE  IInv'
<1> USE TypesOf
<1>1. /\ clock' = clock + 1 /\ clock < MaxClock
      /\ UNCHANGED <<tables, handleVars, revivers>>
    BY DEF Tick
<1>2. TypeOK'
    BY <1>1, BoundsAssumption DEF IInv, TypeOK, past, tables, handleVars, past, Left, Inserted
<1>3. CallsOK'
    BY <1>1 DEF IInv, CallsOK, handleVars, Left
<1>4. ASSUME NEW c \in Checkpoint, NEW r, Grown(checkpoints, clock, c, r)
      PROVE  Grown(checkpoints, clock', c, r)
    BY <1>1, <1>4 DEF Grown, Checkpoint
<1>5. \A i \in 1..Inserted : Grown(checkpoints, clock', checkpoints[i], i - 1)
    BY <1>4 DEF IInv, StampsGrow, Inserted
<1>6. \A h \in Handles : Left(h, "insert") => Grown(checkpoints, clock', draft[h], Inserted)
    BY <1>4 DEF IInv, StampsGrow, TypeOK
<1>7. StampsGrow'
    BY <1>1, <1>5, <1>6 DEF StampsGrow, Inserted, tables, handleVars, past, Left
<1> QED
    BY <1>2, <1>3, <1>7 DEF IInv

LEMMA NextIInv == IInv /\ [Next]_vars => IInv'
<1> SUFFICES ASSUME IInv, [Next]_vars PROVE IInv'
    OBVIOUS
<1>1. CASE Tick
    BY <1>1, TickStep
<1>2. ASSUME NEW h \in Handles, Access(h) PROVE IInv'
    BY <1>2, ResumeStep, WriteStep DEF Access
<1>3. ASSUME NEW h \in Handles, Call(h) PROVE IInv'
    BY <1>3, CallStep
<1>4. ASSUME NEW h \in Handles, Leave(h) PROVE IInv'
    BY <1>4, LeaveStep
<1>5. CASE UNCHANGED vars
    BY <1>5 DEF IInv, TypeOK, past, CallsOK, StampsGrow, Grown, vars, tables, handleVars, past, Left,
       Inserted
<1> QED
    BY <1>1, <1>2, <1>3, <1>4, <1>5 DEF Next

LEMMA Invariance == Spec => []IInv
<1>1. Init => IInv
    BY InitIInv
<1>2. IInv /\ [Next]_vars => IInv'
    BY NextIInv
<1> QED
    BY <1>1, <1>2, PTL DEF Spec

-----------------------------------------------------------------------------

\* Every variable stays in its domain, drafts and found approvals are there
\* exactly while a call needs them.
THEOREM TypeCorrect == Spec => []TypeOK
BY Invariance, PTL DEF IInv

\* The checkpoint a resume picks is one that none in the table has been begun
\* after: handles that follow each other go on from the last row.
THEOREM LatestIsNewest == Spec => []NewestSupersedes
<1>1. ASSUME IInv PROVE NewestSupersedes
    <2> SUFFICES ASSUME NEW i \in NewestOf(checkpoints), NEW j \in DOMAIN checkpoints,
                        ~(checkpoints[j].knows < i)
                 PROVE  FALSE
        BY DEF NewestSupersedes
    <2>1. /\ i \in 1..Inserted /\ j \in 1..Inserted /\ Inserted \in Nat
          /\ checkpoints[i] \in Checkpoint /\ checkpoints[j] \in Checkpoint
        BY <1>1, TypesOf DEF NewestOf, Inserted
    <2>2. /\ checkpoints[i].stamp \in Nat /\ checkpoints[j].stamp \in Nat
          /\ checkpoints[j].knows \in Nat
        BY <2>1 DEF Checkpoint
    <2>3. /\ checkpoints[j].knows <= j - 1
          /\ \A k \in 1..checkpoints[j].knows : checkpoints[k].stamp <= checkpoints[j].stamp
        BY <1>1, <2>1 DEF IInv, StampsGrow, Grown
    <2>4. i < j /\ checkpoints[i].stamp <= checkpoints[j].stamp
        BY <2>1, <2>2, <2>3
    <2>5. i = j \/ Later(checkpoints, i, j)
        BY DEF NewestOf
    <2> QED
        BY <2>1, <2>2, <2>4, <2>5 DEF Later
<1> QED
    BY <1>1, Invariance, PTL

-----------------------------------------------------------------------------
(* A finished run.                                                         *)

\* While the row says that the run is over, a handle that came later knows it.
LaterOnesKnow ==
    runs \in Terminal =>
        \A h \in Handles : Held(h) /\ h \notin revivers => status[h] \in Terminal

LEMMA NextLaterOnesKnow ==
    ASSUME IInv, LaterOnesKnow, [Next]_vars
    PROVE  LaterOnesKnow'
<1> USE TypesOf DEF LaterOnesKnow
<1>0. pc \in [Handles -> Seq(Accesses)]
    BY DEF IInv, TypeOK, past
<1>1. ASSUME NEW h \in Handles, ReadRun(h) PROVE LaterOnesKnow'
    <2>1. /\ pc[h] = Nobody /\ status' = [status EXCEPT ![h] = runs]
          /\ UNCHANGED <<runs, revivers>>
          /\ \A g \in Handles \ {h} : pc'[g] = pc[g]
        BY <1>0, <1>1 DEF ReadRun, GoesOn, tables
    <2> QED
        BY <2>1 DEF Held
<1>2. ASSUME NEW h \in Handles, ReadCheckpoint(h) PROVE LaterOnesKnow'
    <2>1. /\ Held(h) /\ UNCHANGED <<runs, revivers>>
          /\ \A g \in Handles \ {h} : pc'[g] = pc[g]
        BY <1>0, <1>2 DEF ReadCheckpoint, Does, Left, Held, Nobody, tables
    <2>2. PICK i \in DOMAIN checkpoints :
              status' = [status EXCEPT ![h] = ResumeStatus(@, checkpoints[i].status)]
        BY <1>2 DEF ReadCheckpoint, NewestOf
    <2>3. status[h] \in Terminal => status'[h] \in Terminal
        BY <2>2 DEF ResumeStatus
    <2> QED
        BY <2>1, <2>2, <2>3 DEF Held
<1>3. ASSUME NEW h \in Handles, UpdateRun(h) PROVE LaterOnesKnow'
    <2>1. /\ Held(h) /\ UNCHANGED status /\ runs' = status[h]
          /\ \A g \in Handles \ {h} : pc'[g] = pc[g]
        BY <1>0, <1>3 DEF UpdateRun, Does, Left, Held, Nobody
    <2>2. revivers' = IF runs' \in Terminal /\ runs \notin Terminal
                       THEN {g \in Handles : Held(g)} ELSE revivers
        BY <1>3 DEF UpdateRun
    <2> QED
        BY <2>1, <2>2 DEF Held
<1>4. ASSUME NEW h \in Handles, Build(h) \/ Insert(h) \/ UpdateApproval(h)
      PROVE  LaterOnesKnow'
    <2>1. /\ Held(h) /\ UNCHANGED <<runs, revivers, status>>
          /\ \A g \in Handles \ {h} : pc'[g] = pc[g]
        BY <1>0, <1>4 DEF Build, Insert, UpdateApproval, Does, Left, Held, Nobody, tables
    <2> QED
        BY <2>1 DEF Held
<1>5. ASSUME NEW h \in Handles, Call(h) PROVE LaterOnesKnow'
    <2>1. /\ Held(h) /\ UNCHANGED runs
          /\ status'[h] \in Terminal \/ status'[h] = status[h]
             \/ (runs \in Terminal => h \in revivers')
          /\ revivers \subseteq revivers'
          /\ \A g \in Handles \ {h} : pc'[g] = pc[g] /\ status'[g] = status[g]
        <3>1. Held(h)
            <4>1. Idle(h)
                BY <1>5 DEF Call, CompleteStep, RequestApproval, Decide, Finish, Halt, Reset, MayCall
            <4>2. <<>> # Nobody
                BY DEF Nobody
            <4> QED
                BY <4>1, <4>2 DEF Idle, Held
        <3>2. /\ UNCHANGED runs /\ \E t : pc' = [pc EXCEPT ![h] = t]
              /\ \/ \E to \in Endings : status' = [status EXCEPT ![h] = to] /\ UNCHANGED revivers
                 \/ UNCHANGED <<status, revivers>>
                 \/ \E to : Sets(h, to)
            <4>1. CASE CompleteStep(h)
                BY <4>1 DEF CompleteStep, GoesOn, tables
            <4>2. CASE RequestApproval(h)
                BY <4>2 DEF RequestApproval, GoesOn
            <4>3. CASE \E verdict \in Verdicts : Decide(h, verdict)
                BY <4>3 DEF Decide, GoesOn, tables
            <4>4. CASE \E to \in Endings : Finish(h, to)
                BY <4>4 DEF Finish, GoesOn, tables
            <4>5. CASE Halt(h)
                BY <4>5 DEF Halt, GoesOn, tables
            <4>6. CASE Reset(h)
                BY <4>6 DEF Reset, GoesOn, tables
            <4> QED
                BY <1>5, <4>1, <4>2, <4>3, <4>4, <4>5, <4>6 DEF Call
        <3>3. Endings \subseteq Terminal
            BY ChoicesAssumption DEF Terminal
        <3> QED
            BY <1>0, <3>1, <3>2, <3>3 DEF Sets
    <2> QED
        BY <2>1 DEF Held
<1>6. ASSUME NEW h \in Handles, Leave(h) PROVE LaterOnesKnow'
    <2>1. /\ pc'[h] = Nobody /\ UNCHANGED runs /\ revivers' = revivers \ {h}
          /\ \A g \in Handles \ {h} : pc'[g] = pc[g] /\ status'[g] = status[g]
        BY <1>0, <1>6 DEF Leave, GoesOn, tables
    <2> QED
        BY <2>1 DEF Held
<1>7. CASE Tick \/ UNCHANGED vars
    BY <1>7 DEF Tick, vars, tables, handleVars, past, Held
<1> QED
    BY <1>1, <1>2, <1>3, <1>4, <1>5, <1>6, <1>7 DEF Next, Access

\* A run that is completed or aborted is set back only by a handle that was
\* there when it came to be so, or that has asked, decided, halted or been
\* reset since; a resume by itself, whenever it begins, leaves it over.
THEOREM LateResumeKeepsTerminal == Spec => ResumeKeepsTerminal
<1>1. Init => LaterOnesKnow
    BY DEF Init, LaterOnesKnow, Terminal
<1>2. IInv /\ LaterOnesKnow /\ [Next]_vars => LaterOnesKnow'
    BY NextLaterOnesKnow
<1>3. ASSUME IInv, LaterOnesKnow, [Next]_vars PROVE [PutBackByReviver]_vars
    <2>1. SUFFICES ASSUME runs \in Terminal, runs' \notin Terminal
                   PROVE  \E h \in revivers : Left(h, "update_run") /\ pc'[h] = Tail(pc[h])
        BY DEF PutBackByReviver
    <2>2. PICK h \in Handles : UpdateRun(h)
        BY <1>3, <2>1 DEF Next, Access, Call, ReadRun, ReadCheckpoint, Build, Insert,
           UpdateApproval, CompleteStep, RequestApproval, Decide, Finish, Halt, Reset,
           Leave, Tick, vars, tables
    <2>3. /\ Left(h, "update_run") /\ pc'[h] = Tail(pc[h]) /\ runs' = status[h]
        BY <1>3, <2>2 DEF UpdateRun, Does, IInv, TypeOK
    <2>4. Held(h)
        BY <2>3 DEF Held, Left, Nobody
    <2>5. h \in revivers
        BY <1>3, <2>1, <2>3, <2>4 DEF LaterOnesKnow
    <2> QED
        BY <2>3, <2>5
<1> QED
    BY <1>1, <1>2, <1>3, Invariance, PTL DEF Spec, ResumeKeepsTerminal

-----------------------------------------------------------------------------
(* Requests and decisions.                                                 *)

\* The request that a state is about is in the table; if the state holds a
\* decision, the request has one or another one was not older.
Asks(table, s) == s.approval # "none" => s.asked \in DOMAIN table
Settled(table, s) ==
    s.approval \in Decisions =>
        \/ Decided(table[s.asked])
        \/ \E r \in DOMAIN table \ {s.asked} : table[r].stamp >= table[s.asked].stamp
Recorded(table, s) == Asks(table, s) /\ Settled(table, s)

\* A handle on its way to the approvals table has found a row that is not
\* older than the request its state is about.
HandleRecorded(h) ==
    /\ Asks(approvals, state[h])
    /\ IF Left(h, "update_approval")
       THEN approvals[found[h]].stamp >= approvals[state[h].asked].stamp
       ELSE Settled(approvals, state[h])
    /\ Left(h, "insert") => Recorded(approvals, draft[h].state)

Requests ==
    /\ \A h \in Handles : HandleRecorded(h)
    /\ \A i \in DOMAIN checkpoints : Recorded(approvals, checkpoints[i].state)

\* Rows are added and decided, and keep their stamps.
RowsStay ==
    /\ DOMAIN approvals \subseteq DOMAIN approvals'
    /\ \A r \in DOMAIN approvals :
         /\ approvals'[r].stamp = approvals[r].stamp
         /\ Decided(approvals[r]) => Decided(approvals'[r])

LEMMA RecordedStays ==
    ASSUME RowsStay, NEW s, Asks(approvals, s)
    PROVE  /\ Asks(approvals', s)
           /\ Settled(approvals, s) => Settled(approvals', s)
BY DEF RowsStay, Asks, Settled, Decisions

LEMMA UnchangedStay == approvals' = approvals => RowsStay
BY DEF RowsStay

LEMMA AppendStays ==
    ASSUME IInv, NEW a, approvals' = Append(approvals, a)
    PROVE  RowsStay /\ Len(approvals') \in DOMAIN approvals'
<1>1. approvals \in Seq(Approval)
    BY DEF IInv, TypeOK, past
<1>2. /\ DOMAIN approvals = 1..Len(approvals) /\ Len(approvals) \in Nat
      /\ DOMAIN approvals' = 1..(Len(approvals) + 1)
      /\ Len(approvals') = Len(approvals) + 1
      /\ \A r \in 1..Len(approvals) : approvals'[r] = approvals[r]
    BY <1>1
<1> QED
    BY <1>2 DEF RowsStay

LEMMA DecisionStays ==
    ASSUME IInv, NEW h \in Handles, UpdateApproval(h)
    PROVE  RowsStay /\ Decided(approvals'[found[h]])
<1>1. /\ approvals \in Seq(Approval) /\ found[h] \in DOMAIN approvals
      /\ state[h].approval \in Decisions
      /\ approvals' = [approvals EXCEPT ![found[h]].status = state[h].approval]
    BY DEF UpdateApproval, Does, IInv, TypeOK, CallsOK
<1>2. \A r \in DOMAIN approvals : approvals[r] \in Approval
    BY <1>1
<1>3. /\ DOMAIN approvals' = DOMAIN approvals
      /\ approvals'[found[h]] = [approvals[found[h]] EXCEPT !.status = state[h].approval]
      /\ \A r \in DOMAIN approvals \ {found[h]} : approvals'[r] = approvals[r]
    BY <1>1
<1>4. /\ approvals'[found[h]].stamp = approvals[found[h]].stamp
      /\ approvals'[found[h]].status = state[h].approval
    BY <1>1, <1>2, <1>3 DEF Approval
<1> QED
    BY <1>1, <1>3, <1>4 DEF RowsStay, Decided

\* A handle that a step leaves alone.
LEMMA OtherRecorded ==
    ASSUME IInv, Requests, RowsStay, NEW g \in Handles,
           \A b \in Accesses : Left(g, b)' <=> Left(g, b),
           state'[g] = state[g], draft'[g] = draft[g], found'[g] = found[g]
    PROVE  HandleRecorded(g)'
<1>0. "update_approval" \in Accesses /\ "insert" \in Accesses
    BY DEF Accesses
<1>1. HandleRecorded(g)
    BY DEF Requests
<1>2. Asks(approvals', state'[g])
    BY <1>1, RecordedStays DEF HandleRecorded
<1>3. Left(g, "insert")' => Recorded(approvals', draft'[g].state)
    BY <1>0, <1>1, RecordedStays DEF HandleRecorded, Recorded
<1>4. ASSUME Left(g, "update_approval")'
      PROVE  approvals'[found'[g]].stamp >= approvals'[state'[g].asked].stamp
    <2>1. /\ Left(g, "update_approval") /\ found[g] \in DOMAIN approvals
          /\ state[g].approval \in Decisions
        BY <1>0, <1>4 DEF IInv, TypeOK, past, CallsOK
    <2>2. state[g].asked \in DOMAIN approvals
        BY <1>1, <2>1 DEF HandleRecorded, Asks, Decisions
    <2> QED
        BY <1>1, <2>1, <2>2 DEF HandleRecorded, RowsStay
<1>5. ASSUME ~Left(g, "update_approval")' PROVE Settled(approvals', state'[g])
    BY <1>0, <1>1, <1>5, RecordedStays DEF HandleRecorded
<1> QED
    BY <1>2, <1>3, <1>4, <1>5 DEF HandleRecorded

\* A handle that is not on its way to the approvals table after the step.
LEMMA SelfRecorded ==
    ASSUME NEW h \in Handles, ~Left(h, "update_approval")',
           Recorded(approvals', state'[h]),
           Left(h, "insert")' => Recorded(approvals', draft'[h].state)
    PROVE  HandleRecorded(h)'
BY DEF HandleRecorded, Recorded

\* Only the handle's own variables change.
Alone(h) ==
    \A g \in Handles \ {h} :
        /\ \A b \in Accesses : Left(g, b)' <=> Left(g, b)
        /\ state'[g] = state[g] /\ draft'[g] = draft[g] /\ found'[g] = found[g]
        /\ base'[g] = base[g] /\ undone'[g] = undone[g]

LEMMA RecordedAll ==
    ASSUME IInv, Requests, RowsStay, NEW h \in Handles, Alone(h), HandleRecorded(h)',
           checkpoints' = checkpoints
    PROVE  Requests'
<1>1. \A g \in Handles : HandleRecorded(g)'
    BY OtherRecorded DEF Alone
<1>2. \A i \in DOMAIN checkpoints : Recorded(approvals', checkpoints[i].state)
    BY RecordedStays DEF Requests, Recorded
<1> QED
    BY <1>1, <1>2 DEF Requests

\* Where a handle is in its call, before and after each kind of step.
LEMMA StepControl ==
    ASSUME IInv, NEW h \in Handles, Access(h) \/ Call(h) \/ Leave(h)
    PROVE  /\ Alone(h)
           /\ ReadRun(h) => \A b \in Accesses : Left(h, b)' <=> b = "read_checkpoint"
           /\ ReadCheckpoint(h) => \A b \in Accesses : Left(h, b)' => b = "update_run"
           /\ UpdateRun(h) => /\ ~Left(h, "update_approval")
                              /\ \A b \in Accesses : Left(h, b)' => b = "update_run"
           /\ Build(h) => /\ ~Left(h, "update_approval")
                          /\ \A b \in Accesses : Left(h, b)' => b = "insert"
           /\ Insert(h) => /\ Left(h, "insert") /\ ~Left(h, "update_approval")
                           /\ \A b \in Accesses : Left(h, b)' => b = "update_run"
           /\ UpdateApproval(h) => /\ Left(h, "update_approval")
                                   /\ \A b \in Accesses : Left(h, b)' => b = "build"
           /\ CompleteStep(h) => \A b \in Accesses : Left(h, b)' <=> b = "insert"
           /\ Halt(h) \/ (\E to \in Endings : Finish(h, to)) =>
                \A b \in Accesses : Left(h, b)' <=> b = "insert"
           /\ RequestApproval(h) => \A b \in Accesses : Left(h, b)' <=> b = "build"
           /\ (\E verdict \in Verdicts : Decide(h, verdict)) =>
                \A b \in Accesses : Left(h, b)' <=> b = "update_approval"
           /\ Reset(h) => \A b \in Accesses : Left(h, b)' <=> b = "update_run"
           /\ Leave(h) => \A b \in Accesses : Left(h, b)' <=> b = "read_run"
<1> USE TypesOf
<1>0. \A g \in Handles \ {h}, b \in Accesses : Left(g, b)' <=> Left(g, b)
    <2>1. \E t : pc' = [pc EXCEPT ![h] = t]
        BY DEF Access, ReadRun, ReadCheckpoint, UpdateRun, Build, Insert, UpdateApproval,
           Call, CompleteStep, RequestApproval, Decide, Finish, Halt, Reset, Leave, Does, GoesOn
    <2>2. \A g \in Handles \ {h} : pc'[g] = pc[g]
        BY <2>1 DEF IInv, TypeOK, past
    <2> QED
        BY <2>2 DEF Left
<1>1. Alone(h)
    <2>1. CASE Access(h)
        BY <1>0, <2>1 DEF Access, ReadRun, ReadCheckpoint, UpdateRun, Build, Insert,
           UpdateApproval, Built, Alone, past
    <2>2. CASE CompleteStep(h) \/ RequestApproval(h)
        BY <1>0, <2>2 DEF CompleteStep, RequestApproval, Built, Alone, past
    <2>3. CASE \E verdict \in Verdicts : Decide(h, verdict)
        BY <1>0, <2>3 DEF Decide, Alone, past
    <2>4. CASE \E to \in Endings : Finish(h, to)
        BY <1>0, <2>4 DEF Finish, Built, Alone, past
    <2>5. CASE Leave(h)
        BY <1>0, <2>5 DEF Leave, Alone
    <2>6. CASE Halt(h)
        BY <1>0, <2>6 DEF Halt, Built, Alone, past
    <2>7. CASE Reset(h)
        BY <1>0, <2>7 DEF Reset, Alone
    <2> QED
        BY <2>1, <2>2, <2>3, <2>4, <2>5, <2>6, <2>7 DEF Call
<1>2. ReadRun(h) => \A b \in Accesses : Left(h, b)' <=> b = "read_checkpoint"
    BY AfterCall DEF ReadRun, Shapes, First
<1>3. ReadCheckpoint(h) => \A b \in Accesses : Left(h, b)' => b = "update_run"
    BY AfterAccess DEF ReadCheckpoint, Accesses
<1>4. UpdateRun(h) => /\ ~Left(h, "update_approval")
                      /\ \A b \in Accesses : Left(h, b)' => b = "update_run"
    BY AfterAccess DEF UpdateRun, Accesses
<1>5. Build(h) => /\ ~Left(h, "update_approval")
                  /\ \A b \in Accesses : Left(h, b)' => b = "insert"
    BY AfterAccess DEF Build, Accesses
<1>6. Insert(h) => /\ Left(h, "insert") /\ ~Left(h, "update_approval")
                   /\ \A b \in Accesses : Left(h, b)' => b = "update_run"
    BY AfterAccess DEF Insert, Accesses
<1>7. UpdateApproval(h) => /\ Left(h, "update_approval")
                           /\ \A b \in Accesses : Left(h, b)' => b = "build"
    BY AfterAccess DEF UpdateApproval, Accesses
<1>8. CompleteStep(h) => \A b \in Accesses : Left(h, b)' <=> b = "insert"
    BY AfterCall DEF CompleteStep, Shapes, First
<1>9. Halt(h) \/ (\E to \in Endings : Finish(h, to)) =>
         \A b \in Accesses : Left(h, b)' <=> b = "insert"
    BY AfterCall DEF Halt, Finish, Shapes, First
<1>10. RequestApproval(h) => \A b \in Accesses : Left(h, b)' <=> b = "build"
    BY AfterCall DEF RequestApproval, Shapes, First
<1>11. (\E verdict \in Verdicts : Decide(h, verdict)) =>
           \A b \in Accesses : Left(h, b)' <=> b = "update_approval"
    BY AfterCall DEF Decide, Shapes, First
<1>12. Leave(h) => \A b \in Accesses : Left(h, b)' <=> b = "read_run"
    BY AfterCall DEF Leave, Nobody, Shapes, First
<1>13. Reset(h) => \A b \in Accesses : Left(h, b)' <=> b = "update_run"
    BY AfterCall DEF Reset, Shapes, First
<1> QED
    BY <1>1, <1>2, <1>3, <1>4, <1>5, <1>6, <1>7, <1>8, <1>9, <1>10, <1>11, <1>12, <1>13

LEMMA FreshRecorded == \A table : Recorded(table, FreshState)
BY DEF Recorded, Asks, Settled, FreshState, Decisions

LEMMA NextRequests ==
    ASSUME IInv, Requests, [Next]_vars
    PROVE  Requests'
<1> USE TypesOf
<1>0. {"update_approval", "insert", "build", "update_run", "read_checkpoint", "read_run"}
        \subseteq Accesses
    BY DEF Accesses
<1>a. ASSUME NEW h \in Handles, ~Left(h, "update_approval")
      PROVE  Recorded(approvals, state[h])
    BY <1>a DEF Requests, HandleRecorded, Recorded
<1>b. \A i \in DOMAIN checkpoints : Recorded(approvals, checkpoints[i].state)
    BY DEF Requests
<1>1. ASSUME NEW h \in Handles, ReadRun(h) PROVE Requests'
    <2>1. /\ Alone(h) /\ ~Left(h, "insert")' /\ ~Left(h, "update_approval")'
        BY <1>0, <1>1, StepControl DEF Access
    <2>2. UNCHANGED <<state, approvals, checkpoints>> /\ ~Left(h, "update_approval")
        BY <1>1 DEF ReadRun, tables, Left, Nobody
    <2>3. HandleRecorded(h)'
        BY <1>a, <2>1, <2>2, SelfRecorded
    <2> QED
        BY <2>1, <2>2, <2>3, UnchangedStay, RecordedAll
<1>2. ASSUME NEW h \in Handles, ReadCheckpoint(h) PROVE Requests'
    <2>1. /\ Alone(h) /\ ~Left(h, "insert")' /\ ~Left(h, "update_approval")'
        BY <1>0, <1>2, StepControl DEF Access
    <2>2. UNCHANGED <<approvals, checkpoints>>
        BY <1>2 DEF ReadCheckpoint, tables
    <2>3. PICK i \in DOMAIN checkpoints : state' = [state EXCEPT ![h] = checkpoints[i].state]
        BY <1>2 DEF ReadCheckpoint, NewestOf
    <2>4. Recorded(approvals', state'[h])
        BY <1>b, <2>2, <2>3
    <2>5. HandleRecorded(h)'
        BY <2>1, <2>4, SelfRecorded
    <2> QED
        BY <2>1, <2>2, <2>5, UnchangedStay, RecordedAll
<1>3. ASSUME NEW h \in Handles, UpdateRun(h) PROVE Requests'
    <2>1. /\ Alone(h) /\ ~Left(h, "insert")' /\ ~Left(h, "update_approval")'
          /\ ~Left(h, "update_approval")
        BY <1>0, <1>3, StepControl DEF Access
    <2>2. UNCHANGED <<state, approvals, checkpoints>>
        BY <1>3 DEF UpdateRun
    <2>3. HandleRecorded(h)'
        BY <1>a, <2>1, <2>2, SelfRecorded
    <2> QED
        BY <2>1, <2>2, <2>3, UnchangedStay, RecordedAll
<1>4. ASSUME NEW h \in Handles, Build(h) PROVE Requests'
    <2>1. Alone(h) /\ ~Left(h, "update_approval")' /\ ~Left(h, "update_approval")
        BY <1>0, <1>4, StepControl DEF Access
    <2>2. UNCHANGED <<state, approvals, checkpoints>> /\ draft'[h].state = state'[h]
        BY <1>4 DEF Build, Built, tables
    <2>3. HandleRecorded(h)'
        BY <1>a, <2>1, <2>2, SelfRecorded
    <2> QED
        BY <2>1, <2>2, <2>3, UnchangedStay, RecordedAll
<1>5. ASSUME NEW h \in Handles, Insert(h) PROVE Requests'
    <2>1. /\ Alone(h) /\ ~Left(h, "insert")' /\ ~Left(h, "update_approval")'
          /\ Left(h, "insert") /\ ~Left(h, "update_approval")
        BY <1>0, <1>5, StepControl DEF Access
    <2>2. UNCHANGED <<state, approvals>> /\ checkpoints' = Append(checkpoints, draft[h])
        BY <1>5 DEF Insert
    <2>3. HandleRecorded(h)'
        BY <1>a, <2>1, <2>2, SelfRecorded
    <2>4. \A g \in Handles : HandleRecorded(g)'
        BY <2>1, <2>2, <2>3, OtherRecorded, UnchangedStay DEF Alone
    <2>5. Recorded(approvals, draft[h].state)
        BY <2>1 DEF Requests, HandleRecorded
    <2>6. \A i \in DOMAIN checkpoints' :
            checkpoints'[i] = draft[h] \/ (i \in DOMAIN checkpoints /\ checkpoints'[i] = checkpoints[i])
        BY <2>2
    <2>7. \A i \in DOMAIN checkpoints' : Recorded(approvals', checkpoints'[i].state)
        BY <1>b, <2>2, <2>5, <2>6
    <2> QED
        BY <2>4, <2>7 DEF Requests
<1>6. ASSUME NEW h \in Handles, UpdateApproval(h) PROVE Requests'
    <2>1. /\ Alone(h) /\ ~Left(h, "insert")' /\ ~Left(h, "update_approval")'
          /\ Left(h, "update_approval")
        BY <1>0, <1>6, StepControl DEF Access
    <2>2. UNCHANGED <<state, checkpoints>>
        BY <1>6 DEF UpdateApproval
    <2>3. RowsStay /\ Decided(approvals'[found[h]])
        BY <1>6, DecisionStays
    <2>4. /\ Asks(approvals, state[h]) /\ found[h] \in DOMAIN approvals
          /\ approvals[found[h]].stamp >= approvals[state[h].asked].stamp
          /\ state[h].approval \in Decisions
        BY <2>1 DEF Requests, HandleRecorded, IInv, TypeOK, CallsOK
    <2>5. state[h].asked \in DOMAIN approvals
        BY <2>4 DEF Asks, Decisions
    <2>6. Settled(approvals', state[h])
        <3>1. CASE found[h] = state[h].asked
            BY <2>3, <3>1 DEF Settled
        <3>2. CASE found[h] # state[h].asked
            <4>1. /\ found[h] \in DOMAIN approvals' \ {state[h].asked}
                  /\ approvals'[found[h]].stamp >= approvals'[state[h].asked].stamp
                BY <2>3, <2>4, <2>5, <3>2 DEF RowsStay
            <4> QED
                BY <4>1 DEF Settled
        <3> QED
            BY <3>1, <3>2
    <2>7. Recorded(approvals', state'[h])
        BY <2>2, <2>3, <2>4, <2>6, RecordedStays DEF Recorded
    <2>8. HandleRecorded(h)'
        BY <2>1, <2>7, SelfRecorded
    <2> QED
        BY <2>1, <2>2, <2>3, <2>8, RecordedAll
<1>7. ASSUME NEW h \in Handles,
             CompleteStep(h) \/ Halt(h) \/ \E to \in Endings : Finish(h, to)
      PROVE  Requests'
    <2>1. Alone(h) /\ ~Left(h, "update_approval")'
        BY <1>0, <1>7, StepControl DEF Call
    <2>2. /\ ~Left(h, "update_approval") /\ UNCHANGED <<approvals, checkpoints>>
          /\ draft'[h].state = state'[h]
        BY <1>7 DEF CompleteStep, Halt, Finish, MayCall, Idle, Left, Built, tables
    <2>3. /\ state'[h].approval = state[h].approval /\ state'[h].asked = state[h].asked
        BY <1>7 DEF CompleteStep, Halt, Finish, AgentState
    <2>4. Recorded(approvals', state'[h])
        BY <1>a, <2>2, <2>3 DEF Recorded, Asks, Settled
    <2>5. HandleRecorded(h)'
        BY <2>1, <2>2, <2>4, SelfRecorded
    <2> QED
        BY <2>1, <2>2, <2>5, UnchangedStay, RecordedAll
<1>8. ASSUME NEW h \in Handles, RequestApproval(h) PROVE Requests'
    <2>1. Alone(h) /\ ~Left(h, "update_approval")' /\ ~Left(h, "insert")'
        BY <1>0, <1>8, StepControl DEF Call
    <2>2. /\ approvals' = Append(approvals, [stamp |-> clock, status |-> "pending"])
          /\ checkpoints' = checkpoints
          /\ state'[h].approval = "pending" /\ state'[h].asked = Len(approvals')
        BY <1>8 DEF RequestApproval, AgentState
    <2>3. RowsStay /\ Len(approvals') \in DOMAIN approvals'
        BY <2>2, AppendStays
    <2>4. Recorded(approvals', state'[h])
        BY <2>2, <2>3 DEF Recorded, Asks, Settled, Decisions
    <2>5. HandleRecorded(h)'
        BY <2>1, <2>4, SelfRecorded
    <2> QED
        BY <2>1, <2>2, <2>3, <2>5, RecordedAll
<1>9. ASSUME NEW h \in Handles, NEW verdict \in Verdicts, Decide(h, verdict)
      PROVE  Requests'
    <2>1. Alone(h) /\ Left(h, "update_approval")' /\ ~Left(h, "insert")'
        BY <1>0, <1>9, StepControl DEF Call
    <2>2. /\ ~Left(h, "update_approval") /\ UNCHANGED <<approvals, checkpoints>>
          /\ state[h].approval # "none" /\ state'[h].asked = state[h].asked
        BY <1>9 DEF Decide, MayCall, Idle, Left, tables, AgentState
    <2>3. PICK i \in LatestApprovals : found' = [found EXCEPT ![h] = i]
        BY <1>9 DEF Decide
    <2>4. state[h].asked \in DOMAIN approvals
        BY <1>a, <2>2 DEF Recorded, Asks
    <2>5. approvals[i].stamp >= approvals[state[h].asked].stamp
        <3>1. /\ approvals[state[h].asked] \in Approval /\ approvals[i] \in Approval
            BY <2>3, <2>4 DEF LatestApprovals
        <3> QED
            BY <2>3, <2>4, <3>1 DEF LatestApprovals, Approval
    <2>6. found'[h] = i
        BY <2>3
    <2>7. Asks(approvals', state'[h])
        BY <2>2, <2>4 DEF Asks
    <2>8. HandleRecorded(h)'
        BY <2>1, <2>2, <2>5, <2>6, <2>7 DEF HandleRecorded
    <2> QED
        BY <2>1, <2>2, <2>8, UnchangedStay, RecordedAll
<1>10. ASSUME NEW h \in Handles, Leave(h) PROVE Requests'
    <2>1. Alone(h) /\ ~Left(h, "update_approval")' /\ ~Left(h, "insert")'
        BY <1>0, <1>10, StepControl
    <2>2. UNCHANGED <<approvals, checkpoints>> /\ state'[h] = FreshState
        BY <1>10 DEF Leave, tables
    <2>3. HandleRecorded(h)'
        BY <2>1, <2>2, FreshRecorded, SelfRecorded
    <2> QED
        BY <2>1, <2>2, <2>3, UnchangedStay, RecordedAll
<1>12. ASSUME NEW h \in Handles, Reset(h) PROVE Requests'
    <2>1. Alone(h) /\ ~Left(h, "update_approval")' /\ ~Left(h, "insert")'
        BY <1>0, <1>12, StepControl DEF Call
    <2>2. UNCHANGED <<approvals, checkpoints>>
        BY <1>12 DEF Reset, tables
    <2>3. PICK i \in DOMAIN checkpoints : state' = [state EXCEPT ![h] = checkpoints[i].state]
        BY <1>12 DEF Reset
    <2>4. Recorded(approvals', state'[h])
        BY <1>b, <2>2, <2>3
    <2>5. HandleRecorded(h)'
        BY <2>1, <2>4, SelfRecorded
    <2> QED
        BY <2>1, <2>2, <2>5, UnchangedStay, RecordedAll
<1>11. CASE Tick \/ UNCHANGED vars
    <2>1. UNCHANGED <<approvals, checkpoints, state, draft, found, pc>>
        BY <1>11 DEF Tick, vars, tables, handleVars, past
    <2>2. \A g \in Handles : HandleRecorded(g)'
        BY <2>1 DEF Requests, HandleRecorded, Left
    <2> QED
        BY <1>b, <2>1, <2>2 DEF Requests
<1> QED
    BY <1>1, <1>2, <1>3, <1>4, <1>5, <1>6, <1>7, <1>8, <1>9, <1>10, <1>11,
       <1>12 DEF Next, Access, Call

\* A decision reaches the request it is about, or there is another request
\* that the storage could not tell to be older.
THEOREM DecisionsReachTheirRequest == Spec => []OwnRequestDecided
<1>1. Init => Requests
    <2> SUFFICES ASSUME Init PROVE Requests
        OBVIOUS
    <2>1. \A h \in Handles : ~Left(h, "insert") /\ ~Left(h, "update_approval")
        BY DEF Init, Left, Nobody
    <2> QED
        BY <2>1, FreshRecorded DEF Init, Requests, HandleRecorded, Recorded
<1>2. IInv /\ Requests /\ [Next]_vars => Requests'
    BY NextRequests
<1>3. Requests => OwnRequestDecided
    BY DEF Requests, HandleRecorded, Settled, OwnRequestDecided
<1> QED
    BY <1>1, <1>2, <1>3, Invariance, PTL DEF Spec

-----------------------------------------------------------------------------
(* What is lost.                                                           *)

\* A handle resumed before it built, its draft is of its present state, and it
\* knows of its own rows that came before.
Lineage ==
    /\ \A k \in DOMAIN checkpoints : checkpoints[k].base < k
    /\ \A h \in Handles : base[h] <= Inserted
    /\ \A h \in Handles : Left(h, "insert") =>
         /\ draft[h].owner = h /\ draft[h].base = base[h] /\ draft[h].undone = undone[h]
         /\ draft[h].state = state[h]
         /\ \A n \in DOMAIN checkpoints :
              checkpoints[n].owner = h => n <= draft[h].knows

\* Another handle wrote a later checkpoint without having seen row i, or one
\* wrote after a reset behind it.
Excused(i) ==
    \E k \in DOMAIN checkpoints : Overlaps(k, i) \/ i \in checkpoints[k].undone

\* The handle has the state of a checkpoint, or of the new run.
Hydrated(h) == Held(h) /\ ~Left(h, "read_checkpoint")

\* Handle g has a state that row i went into.
Knows(g, i) ==
    /\ Hydrated(g) /\ i \notin undone[g]
    /\ g = checkpoints[i].owner \/ base[g] >= i

\* A row that is not excused: the later rows are as far as it is, and so are
\* those who have seen it, its owner and whoever resumed since.
KeepsUp ==
    \A i \in DOMAIN checkpoints : ~Excused(i) =>
        /\ \A k \in DOMAIN checkpoints :
             Later(checkpoints, k, i) =>
                 checkpoints[k].state.planIndex >= checkpoints[i].state.planIndex
        /\ \A g \in Handles :
             Knows(g, i) => state[g].planIndex >= checkpoints[i].state.planIndex

\* Cursors and row numbers are numbers.
LEMMA Numbers ==
    ASSUME IInv
    PROVE  /\ \A g \in Handles : state[g].planIndex \in Nat /\ base[g] \in Nat
           /\ \A i \in DOMAIN checkpoints :
                /\ checkpoints[i].state.planIndex \in Nat
                /\ checkpoints[i].base \in Nat /\ checkpoints[i].knows \in Nat
<1>1. \A s \in AgentState : s.planIndex \in Nat
    BY DEF AgentState
<1>2. \A g \in Handles : state[g] \in AgentState /\ base[g] \in Nat
    BY TypesOf
<1>3. \A i \in DOMAIN checkpoints : checkpoints[i] \in Checkpoint
    BY TypesOf
<1>4. \A c \in Checkpoint : c.state \in AgentState /\ c.base \in Nat /\ c.knows \in Nat
    BY DEF Checkpoint
<1> QED
    BY <1>1, <1>2, <1>3, <1>4

LEMMA NumbersAfter ==
    ASSUME IInv'
    PROVE  \A g \in Handles : state'[g].planIndex \in Nat
<1>1. \A s \in AgentState : s.planIndex \in Nat
    BY DEF AgentState
<1>2. state' \in [Handles -> AgentState]
    BY DEF IInv, TypeOK, past
<1> QED
    BY <1>1, <1>2

\* The newest checkpoint is as far as a row that is not excused.
LEMMA NewestKeepsUp ==
    ASSUME IInv, KeepsUp, NEW n \in NewestOf(checkpoints),
           NEW i \in DOMAIN checkpoints, ~Excused(i)
    PROVE  checkpoints[n].state.planIndex >= checkpoints[i].state.planIndex
<1>1. n \in DOMAIN checkpoints /\ (n = i \/ Later(checkpoints, n, i))
    BY DEF NewestOf
<1>2. checkpoints[i].state.planIndex \in Nat
    BY Numbers
<1> QED
    BY <1>1, <1>2 DEF KeepsUp

\* Steps that leave the table alone.
LEMMA LineageStays ==
    ASSUME IInv, Lineage, NEW h \in Handles, Alone(h), checkpoints' = checkpoints,
           base'[h] <= Inserted,
           Left(h, "insert")' =>
               /\ draft'[h].owner = h /\ draft'[h].base = base'[h]
               /\ draft'[h].undone = undone'[h] /\ draft'[h].state = state'[h]
               /\ draft'[h].knows = Inserted
    PROVE  Lineage'
<1>0. "insert" \in Accesses /\ Inserted' = Inserted
    BY DEF Accesses, Inserted
<1>1. \A g \in Handles : base'[g] <= Inserted'
    BY <1>0 DEF Alone, Lineage
<1>2. ASSUME NEW g \in Handles, Left(g, "insert")'
      PROVE  /\ draft'[g].owner = g /\ draft'[g].base = base'[g]
             /\ draft'[g].undone = undone'[g] /\ draft'[g].state = state'[g]
             /\ \A n \in DOMAIN checkpoints' :
                  checkpoints'[n].owner = g => n <= draft'[g].knows
    <2>1. CASE g = h
        BY <1>2, <2>1, TypesOf DEF Inserted
    <2>2. CASE g # h
        BY <1>0, <1>2, <2>2 DEF Alone, Lineage
    <2> QED
        BY <2>1, <2>2
<1> QED
    BY <1>1, <1>2 DEF Lineage

LEMMA KeepsUpStays ==
    ASSUME IInv, IInv', KeepsUp, NEW h \in Handles, Alone(h), checkpoints' = checkpoints,
           \A g \in Handles \ {h} : Held(g)' => Held(g),
           Hydrated(h)' =>
               \/ /\ Hydrated(h) /\ base'[h] = base[h] /\ undone'[h] = undone[h]
                  /\ state'[h].planIndex >= state[h].planIndex
               \/ \A i \in DOMAIN checkpoints : ~Excused(i) =>
                    i \in undone'[h] \/ state'[h].planIndex >= checkpoints[i].state.planIndex
    PROVE  KeepsUp'
<1> SUFFICES ASSUME NEW i \in DOMAIN checkpoints, ~Excused(i)
             PROVE  /\ \A k \in DOMAIN checkpoints :
                         Later(checkpoints, k, i) =>
                             checkpoints[k].state.planIndex >= checkpoints[i].state.planIndex
                    /\ \A g \in Handles :
                         Hydrated(g)' /\ i \notin undone'[g]
                         /\ (g = checkpoints[i].owner \/ base'[g] >= i) =>
                             state'[g].planIndex >= checkpoints[i].state.planIndex
    BY DEF KeepsUp, Excused, Overlaps, Later, Knows
<1>1. \A k \in DOMAIN checkpoints :
        Later(checkpoints, k, i) => checkpoints[k].state.planIndex >= checkpoints[i].state.planIndex
    BY DEF KeepsUp
<1>2. ASSUME NEW g \in Handles, Hydrated(g)', i \notin undone'[g],
             g = checkpoints[i].owner \/ base'[g] >= i
      PROVE  state'[g].planIndex >= checkpoints[i].state.planIndex
    <2>1. CASE g # h
        BY <1>2, <2>1 DEF Alone, KeepsUp, Knows, Hydrated, Accesses
    <2>2. CASE g = h /\ Hydrated(h) /\ base'[h] = base[h] /\ undone'[h] = undone[h]
                     /\ state'[h].planIndex >= state[h].planIndex
        <3>1. state[h].planIndex >= checkpoints[i].state.planIndex
            BY <1>2, <2>2 DEF KeepsUp, Knows
        <3>2. /\ state[h].planIndex \in Nat /\ state'[h].planIndex \in Nat
              /\ checkpoints[i].state.planIndex \in Nat
            BY Numbers, NumbersAfter
        <3> QED
            BY <1>2, <2>2, <3>1, <3>2
    <2> QED
        BY <1>2, <2>1, <2>2
<1> QED
    BY <1>1, <1>2

LEMMA NextLineage ==
    ASSUME IInv, IInv', Lineage, KeepsUp, [Next]_vars
    PROVE  Lineage' /\ KeepsUp'
<1> USE TypesOf
<1>0. /\ {"update_approval", "insert", "build", "update_run", "read_checkpoint", "read_run"}
           \subseteq Accesses
      /\ Inserted \in Nat
      /\ pc \in [Handles -> Seq(Accesses)] /\ pc' \in [Handles -> Seq(Accesses)]
      /\ \A g \in Handles : /\ state[g].planIndex \in Nat /\ state'[g].planIndex \in Nat
                            /\ base[g] \in Nat
      /\ \A i \in DOMAIN checkpoints :
           checkpoints[i].state.planIndex \in Nat /\ checkpoints[i].base \in Nat
    <2>1. /\ pc \in [Handles -> Seq(Accesses)] /\ pc' \in [Handles -> Seq(Accesses)]
          /\ checkpoints \in Seq(Checkpoint)
        BY DEF IInv, TypeOK, past
    <2>2. {"update_approval", "insert", "build", "update_run", "read_checkpoint", "read_run"}
              \subseteq Accesses
        BY DEF Accesses
    <2>3. Inserted \in Nat
        BY <2>1 DEF Inserted
    <2> HIDE TypesOf
    <2> QED
        BY <2>1, <2>2, <2>3, Numbers, NumbersAfter
<1>a. ASSUME NEW h \in Handles, Access(h) \/ Call(h) \/ Leave(h)
      PROVE  \A g \in Handles \ {h} : Held(g)' => Held(g)
    <2>1. \E t : pc' = [pc EXCEPT ![h] = t]
        BY <1>a DEF Access, ReadRun, ReadCheckpoint, UpdateRun, Build, Insert,
           UpdateApproval, Call, CompleteStep, RequestApproval, Decide, Finish, Halt,
           Reset, Leave, Does, GoesOn
    <2> QED
        BY <1>0, <2>1 DEF Held
\* A step of a handle that has its state already and does not build.
<1>b. ASSUME NEW h \in Handles, Access(h) \/ Call(h) \/ Leave(h), Alone(h),
             UNCHANGED <<checkpoints, past>>, ~Left(h, "insert")',
             Hydrated(h)' => Hydrated(h) /\ state'[h].planIndex >= state[h].planIndex
      PROVE  Lineage' /\ KeepsUp'
    <2>1. base'[h] <= Inserted /\ UNCHANGED <<base, undone>>
        BY <1>b DEF Lineage, past
    <2>2. Lineage'
        BY <1>b, <2>1, LineageStays
    <2>3. KeepsUp'
        BY <1>a, <1>b, <2>1, KeepsUpStays
    <2> QED
        BY <2>2, <2>3
\* A step that builds a draft.
<1>c. ASSUME NEW h \in Handles, Access(h) \/ Call(h), Alone(h), Built(h),
             UNCHANGED <<checkpoints, past>>, Hydrated(h),
             state'[h].planIndex >= state[h].planIndex
      PROVE  Lineage' /\ KeepsUp'
    <2>1. /\ draft'[h].owner = h /\ draft'[h].base = base'[h]
          /\ draft'[h].undone = undone'[h]
          /\ draft'[h].state = state'[h] /\ draft'[h].knows = Inserted
        BY <1>c DEF Built, past
    <2>2. base'[h] <= Inserted /\ UNCHANGED <<base, undone>>
        BY <1>c DEF Lineage, past
    <2>3. Lineage'
        BY <1>c, <2>1, <2>2, LineageStays
    <2>4. KeepsUp'
        BY <1>a, <1>c, <2>2, KeepsUpStays
    <2> QED
        BY <2>3, <2>4
<1>1. ASSUME NEW h \in Handles, ReadRun(h) PROVE Lineage' /\ KeepsUp'
    <2>1. /\ Alone(h) /\ Left(h, "read_checkpoint")' /\ ~Left(h, "insert")'
        BY <1>0, <1>1, StepControl DEF Access
    <2>2. UNCHANGED <<checkpoints, past>> /\ ~Hydrated(h)'
        BY <1>1, <2>1 DEF ReadRun, tables, Hydrated
    <2> QED
        BY <1>1, <1>b, <2>1, <2>2 DEF Access
<1>2. ASSUME NEW h \in Handles, ReadCheckpoint(h) PROVE Lineage' /\ KeepsUp'
    <2>1. Alone(h) /\ ~Left(h, "insert")'
        BY <1>0, <1>2, StepControl DEF Access
    <2>2. checkpoints' = checkpoints /\ base'[h] = Inserted
        BY <1>2 DEF ReadCheckpoint, tables
    <2>3. PICK n \in NewestOf(checkpoints) :
              state' = [state EXCEPT ![h] = checkpoints[n].state]
        BY <1>2 DEF ReadCheckpoint
    <2>4. \A i \in DOMAIN checkpoints : ~Excused(i) =>
              state'[h].planIndex >= checkpoints[i].state.planIndex
        BY <2>3, NewestKeepsUp
    <2>5. Lineage'
        BY <1>0, <2>1, <2>2, LineageStays
    <2>6. KeepsUp'
        BY <1>2, <1>a, <2>1, <2>2, <2>4, KeepsUpStays DEF Access
    <2> QED
        BY <2>5, <2>6
<1>3. ASSUME NEW h \in Handles, UpdateRun(h) \/ UpdateApproval(h)
      PROVE  Lineage' /\ KeepsUp'
    <2>1. Alone(h) /\ ~Left(h, "insert")'
        BY <1>0, <1>3, StepControl DEF Access
    <2>2. /\ UNCHANGED <<checkpoints, past, state>>
          /\ Left(h, "update_run") \/ Left(h, "update_approval")
        BY <1>3 DEF UpdateRun, UpdateApproval, Does
    <2>3. Hydrated(h)
        BY <2>2 DEF Hydrated, Held, Left, Nobody
    <2>4. state'[h].planIndex >= state[h].planIndex
        BY <1>0, <2>2
    <2> QED
        BY <1>3, <1>b, <2>1, <2>2, <2>3, <2>4 DEF Access
<1>4. ASSUME NEW h \in Handles, Build(h) PROVE Lineage' /\ KeepsUp'
    <2>1. Alone(h)
        BY <1>4, StepControl DEF Access
    <2>2. /\ UNCHANGED <<checkpoints, past, state>> /\ Left(h, "build") /\ Built(h)
        BY <1>4 DEF Build, Does, tables
    <2>3. Hydrated(h)
        BY <2>2 DEF Hydrated, Held, Left, Nobody
    <2>4. state'[h].planIndex >= state[h].planIndex
        BY <1>0, <2>2
    <2> QED
        BY <1>4, <1>c, <2>1, <2>2, <2>3, <2>4 DEF Access
<1>5. ASSUME NEW h \in Handles,
             CompleteStep(h) \/ Halt(h) \/ \E to \in Endings : Finish(h, to)
      PROVE  Lineage' /\ KeepsUp'
    <2>1. Alone(h)
        BY <1>5, StepControl DEF Call
    <2>2. UNCHANGED <<checkpoints, past>> /\ Idle(h) /\ Built(h)
        BY <1>5 DEF CompleteStep, Halt, Finish, MayCall, tables
    <2>3. state'[h].planIndex >= state[h].planIndex
        BY <1>0, <1>5 DEF CompleteStep, Halt, Finish, AgentState
    <2>4. Hydrated(h)
        BY <2>2 DEF Hydrated, Held, Left, Nobody, Idle
    <2> QED
        BY <1>5, <1>c, <2>1, <2>2, <2>3, <2>4 DEF Call
<1>6. ASSUME NEW h \in Handles,
             RequestApproval(h) \/ \E verdict \in Verdicts : Decide(h, verdict)
      PROVE  Lineage' /\ KeepsUp'
    <2>1. Alone(h) /\ ~Left(h, "insert")'
        BY <1>0, <1>6, StepControl DEF Call
    <2>2. UNCHANGED <<checkpoints, past>> /\ Idle(h)
        BY <1>6 DEF RequestApproval, Decide, MayCall, tables
    <2>3. state'[h].planIndex >= state[h].planIndex
        <3>1. state'[h].planIndex = state[h].planIndex
            BY <1>6 DEF RequestApproval, Decide, AgentState
        <3> QED
            BY <1>0, <3>1
    <2>4. Hydrated(h)
        BY <2>2 DEF Hydrated, Held, Left, Nobody, Idle
    <2> QED
        BY <1>6, <1>b, <2>1, <2>2, <2>3, <2>4 DEF Call
<1>7. ASSUME NEW h \in Handles, Leave(h) PROVE Lineage' /\ KeepsUp'
    <2>1. Alone(h) /\ ~Left(h, "insert")'
        BY <1>0, <1>7, StepControl
    <2>2. checkpoints' = checkpoints /\ base'[h] = 0 /\ pc'[h] = Nobody
        BY <1>0, <1>7 DEF Leave, GoesOn, tables
    <2>3. ~Hydrated(h)'
        BY <2>2 DEF Hydrated, Held
    <2>4. Lineage'
        BY <1>0, <2>1, <2>2, LineageStays
    <2>5. KeepsUp'
        BY <1>7, <1>a, <2>1, <2>2, <2>3, KeepsUpStays
    <2> QED
        BY <2>4, <2>5
\* A reset takes the handle to a row that only those it gives up are later than.
<1>10. ASSUME NEW h \in Handles, Reset(h) PROVE Lineage' /\ KeepsUp'
    <2>1. Alone(h) /\ ~Left(h, "insert")'
        BY <1>0, <1>10, StepControl DEF Call
    <2>2. UNCHANGED <<checkpoints, base>>
        BY <1>10 DEF Reset, tables
    <2>3. PICK m \in DOMAIN checkpoints :
            /\ state' = [state EXCEPT ![h] = checkpoints[m].state]
            /\ undone' = [undone EXCEPT ![h] =
                            {j \in DOMAIN checkpoints : Later(checkpoints, j, m)}]
        BY <1>10 DEF Reset
    <2>4. ASSUME NEW i \in DOMAIN checkpoints, ~Excused(i), i \notin undone'[h]
          PROVE  state'[h].planIndex >= checkpoints[i].state.planIndex
        <3>1. ~Later(checkpoints, i, m) /\ state'[h] = checkpoints[m].state
            BY <2>3, <2>4
        <3>2. checkpoints[i].stamp \in Nat /\ checkpoints[m].stamp \in Nat
              /\ i \in Nat /\ m \in Nat
            <4>1. checkpoints[i] \in Checkpoint /\ checkpoints[m] \in Checkpoint
                OBVIOUS
            <4>2. i \in 1..Inserted /\ m \in 1..Inserted
                BY DEF Inserted
            <4>3. \A c \in Checkpoint : c.stamp \in Nat
                BY DEF Checkpoint
            <4> HIDE TypesOf
            <4> QED
                BY <1>0, <4>1, <4>2, <4>3
        <3>3. i = m \/ Later(checkpoints, m, i)
            BY <3>1, <3>2 DEF Later
        <3> QED
            BY <1>0, <2>4, <3>1, <3>3 DEF KeepsUp
    <2>5. base'[h] <= Inserted
        BY <2>2 DEF Lineage
    <2>6. Lineage'
        BY <2>1, <2>2, <2>5, LineageStays
    <2>7. KeepsUp'
        BY <1>10, <1>a, <2>1, <2>2, <2>4, KeepsUpStays DEF Call
    <2> QED
        BY <2>6, <2>7
\* The draft becomes the last row.
<1>8. ASSUME NEW h \in Handles, Insert(h) PROVE Lineage' /\ KeepsUp'
    <2>1. /\ Alone(h) /\ Left(h, "insert") /\ ~Left(h, "insert")'
          /\ UNCHANGED <<state, base, undone>>
        BY <1>0, <1>8, StepControl DEF Access, Insert, past
    <2> DEFINE r == Inserted + 1
    <2>2. /\ draft[h] \in Checkpoint /\ draft[h].owner = h /\ draft[h].base = base[h]
          /\ draft[h].undone = undone[h]
          /\ draft[h].state = state[h] /\ base[h] <= Inserted
          /\ \A n \in DOMAIN checkpoints :
               checkpoints[n].owner = h =>
                   n <= draft[h].knows /\ checkpoints[n].stamp <= draft[h].stamp
          /\ draft[h].knows <= Inserted
        BY <2>1 DEF Lineage, IInv, TypeOK, StampsGrow, Grown, Inserted
    <2>3. /\ Inserted' = r /\ DOMAIN checkpoints = 1..Inserted /\ DOMAIN checkpoints' = 1..r
          /\ checkpoints'[r] = draft[h]
          /\ \A i \in DOMAIN checkpoints : checkpoints'[i] = checkpoints[i]
        BY <1>0, <1>8, <2>2 DEF Insert, Inserted
    <2>d. \A n \in DOMAIN checkpoints' :
             n # r => n \in DOMAIN checkpoints /\ checkpoints'[n] = checkpoints[n]
        <3> HIDE TypesOf
        <3>1. \A n \in 1..r : n # r => n \in 1..Inserted
            BY <1>0
        <3> QED
            BY <2>3, <3>1
    <2>4. Lineage'
        <3>1. \A k \in DOMAIN checkpoints' : checkpoints'[k].base < k
            <4>1. \A k \in 1..Inserted : checkpoints[k].base < k
                BY <2>3 DEF Lineage
            <4>2. draft[h].base < r
                BY <1>0, <2>2
            <4>3. SUFFICES ASSUME NEW k \in 1..r PROVE checkpoints'[k].base < k
                BY <2>3
            <4>4. CASE k = r
                BY <2>3, <4>2, <4>4
            <4>5. CASE k # r
                <5>1. k \in 1..Inserted
                    BY <1>0, <4>5
                <5> QED
                    BY <2>3, <4>1, <5>1
            <4> QED
                BY <4>4, <4>5
        <3>3. \A g \in Handles : base'[g] <= Inserted'
            BY <1>0, <2>1, <2>3 DEF Lineage
        <3>4. ASSUME NEW g \in Handles, Left(g, "insert")'
              PROVE  /\ draft'[g].owner = g /\ draft'[g].base = base'[g]
                     /\ draft'[g].undone = undone'[g] /\ draft'[g].state = state'[g]
                     /\ \A n \in DOMAIN checkpoints' :
                          checkpoints'[n].owner = g => n <= draft'[g].knows
            <4>1. g # h /\ Left(g, "insert") /\ draft'[g] = draft[g]
                BY <1>0, <2>1, <3>4 DEF Alone
            <4>2. ASSUME NEW n \in DOMAIN checkpoints', checkpoints'[n].owner = g
                  PROVE  n <= draft'[g].knows
                <5>1. n # r
                    BY <2>2, <2>3, <4>1, <4>2
                <5>2. n \in DOMAIN checkpoints
                    BY <2>d, <4>2, <5>1
                <5>3. checkpoints[n].owner = g
                    BY <2>d, <4>2, <5>1
                <5>4. \A m \in DOMAIN checkpoints :
                         checkpoints[m].owner = g => m <= draft[g].knows
                    BY <4>1 DEF Lineage
                <5> HIDE TypesOf
                <5> QED
                    BY <4>1, <5>2, <5>3, <5>4
            <4> QED
                BY <2>1, <4>1, <4>2 DEF Lineage
        <3> QED
            BY <3>1, <3>3, <3>4 DEF Lineage
    <2>5. KeepsUp'
        <3> SUFFICES ASSUME NEW i \in DOMAIN checkpoints', ~Excused(i)'
                     PROVE  /\ \A k \in DOMAIN checkpoints' : Later(checkpoints', k, i) =>
                                 checkpoints'[k].state.planIndex >= checkpoints'[i].state.planIndex
                            /\ \A g \in Handles :
                                 Hydrated(g)' /\ i \notin undone[g]
                                 /\ (g = checkpoints'[i].owner \/ base[g] >= i) =>
                                     state[g].planIndex >= checkpoints'[i].state.planIndex
            BY <2>1 DEF KeepsUp, Knows
        <3>0. \A g \in Handles : Hydrated(g)' => Hydrated(g)
            <4>1. Hydrated(h)
                BY <2>1 DEF Hydrated, Held, Left, Nobody
            <4> QED
                BY <1>0, <1>8, <1>a, <2>1, <4>1 DEF Access, Hydrated, Alone
        <3>h. Hydrated(h)
            BY <2>1 DEF Hydrated, Held, Left, Nobody
        <3>e. \A k \in DOMAIN checkpoints' :
                ~(Later(checkpoints', k, i) /\ checkpoints'[k].owner # checkpoints'[i].owner
                  /\ checkpoints'[k].base < i)
                /\ i \notin checkpoints'[k].undone
            BY DEF Excused, Overlaps
        <3>r. r \in DOMAIN checkpoints' /\ checkpoints'[r].stamp = draft[h].stamp
            BY <1>0, <2>3
        <3>1. CASE i = r
            <4>1. ASSUME NEW k \in DOMAIN checkpoints', Later(checkpoints', k, r) PROVE FALSE
                <5>1. checkpoints'[k].stamp \in Nat /\ draft[h].stamp \in Nat /\ k \in 1..r
                    <6>1. checkpoints' \in Seq(Checkpoint)
                        BY DEF IInv, TypeOK
                    <6>2. checkpoints'[k] \in Checkpoint
                        BY <6>1
                    <6> QED
                        BY <2>2, <2>3, <6>2 DEF Checkpoint
                <5>2. k \in DOMAIN checkpoints /\ checkpoints'[k].stamp > draft[h].stamp
                    BY <1>0, <2>3, <3>r, <4>1, <5>1 DEF Later
                <5>3. checkpoints[k].owner # h
                    BY <2>2, <2>3, <5>1, <5>2
                <5>4. checkpoints[k].base < r
                    <6>1. checkpoints[k].base < k /\ checkpoints[k].base \in Nat
                        BY <1>0, <5>2 DEF Lineage
                    <6> QED
                        BY <1>0, <5>1, <6>1
                <5> QED
                    BY <2>2, <2>3, <3>1, <3>e, <4>1, <5>2, <5>3, <5>4
            <4>2. ASSUME NEW g \in Handles, g = checkpoints'[i].owner \/ base[g] >= i
                  PROVE  state[g].planIndex >= checkpoints'[i].state.planIndex
                <5>1. base[g] <= Inserted
                    BY DEF Lineage
                <5>2. g = h
                    BY <1>0, <2>2, <2>3, <3>1, <4>2, <5>1
                <5>3. checkpoints'[i].state = state[h]
                    BY <2>2, <2>3, <3>1
                <5> QED
                    BY <1>0, <5>2, <5>3
            <4> QED
                BY <3>1, <4>1, <4>2
        <3>2. CASE i # r
            <4>1. i \in DOMAIN checkpoints /\ checkpoints'[i] = checkpoints[i]
                BY <1>0, <2>3, <3>2
            <4>2. ~Excused(i)
                <5> SUFFICES ASSUME NEW k \in DOMAIN checkpoints,
                                    Overlaps(k, i) \/ i \in checkpoints[k].undone
                             PROVE  FALSE
                    BY DEF Excused
                <5>1. k \in DOMAIN checkpoints' /\ checkpoints'[k] = checkpoints[k]
                    BY <1>0, <2>3
                <5> QED
                    BY <3>e, <4>1, <5>1 DEF Overlaps, Later
            <4>4. i \notin undone[h]
                BY <2>2, <2>3, <3>e, <3>r
            <4>5. ASSUME NEW k \in DOMAIN checkpoints', Later(checkpoints', k, i)
                  PROVE  checkpoints'[k].state.planIndex >= checkpoints'[i].state.planIndex
                <5>1. CASE k = r
                    <6>1. h = checkpoints[i].owner \/ base[h] >= i
                        <7>1. Later(checkpoints', r, i) /\ r \in DOMAIN checkpoints'
                            BY <3>r, <4>5, <5>1
                        <7>2. checkpoints'[r].owner = checkpoints'[i].owner \/ ~(checkpoints'[r].base < i)
                            BY <3>e, <7>1
                        <7>3. h = checkpoints[i].owner \/ ~(base[h] < i)
                            BY <2>2, <2>3, <4>1, <7>2
                        <7>4. base[h] \in Nat /\ i \in Nat
                            BY <1>0, <2>3, <4>1
                        <7> HIDE TypesOf
                        <7> QED
                            BY <7>3, <7>4
                    <6>2. state[h].planIndex >= checkpoints[i].state.planIndex
                        BY <3>h, <4>1, <4>2, <4>4, <6>1 DEF KeepsUp, Knows
                    <6> QED
                        BY <2>2, <2>3, <4>1, <5>1, <6>2
                <5>2. CASE k # r
                    <6>1. k \in DOMAIN checkpoints /\ checkpoints'[k] = checkpoints[k]
                        BY <2>d, <5>2
                    <6>2. Later(checkpoints, k, i)
                        <7> HIDE TypesOf
                        <7>1. /\ checkpoints'[k].stamp = checkpoints[k].stamp
                              /\ checkpoints'[i].stamp = checkpoints[i].stamp
                            BY <4>1, <6>1
                        <7>2. \/ checkpoints'[i].stamp < checkpoints'[k].stamp
                              \/ checkpoints'[i].stamp = checkpoints'[k].stamp /\ i < k
                            BY <4>5 DEF Later
                        <7> QED
                            BY <7>1, <7>2 DEF Later
                    <6> QED
                        BY <4>1, <4>2, <6>1, <6>2 DEF KeepsUp
                <5> QED
                    BY <5>1, <5>2
            <4>6. ASSUME NEW g \in Handles, Hydrated(g)', i \notin undone[g],
                         g = checkpoints'[i].owner \/ base[g] >= i
                  PROVE  state[g].planIndex >= checkpoints'[i].state.planIndex
                <5>1. Hydrated(g)
                    BY <3>0, <4>6
                <5> QED
                    BY <4>1, <4>2, <4>6, <5>1 DEF KeepsUp, Knows
            <4> QED
                BY <4>5, <4>6
        <3> QED
            BY <3>1, <3>2
    <2> QED
        BY <2>4, <2>5
<1>9. CASE Tick \/ UNCHANGED vars
    <2>1. UNCHANGED <<checkpoints, state, base, undone, draft, pc>>
        BY <1>9 DEF Tick, vars, tables, handleVars, past
    <2>2. Lineage'
        BY <2>1 DEF Lineage, Left, Inserted
    <2>3. KeepsUp'
        BY <2>1 DEF KeepsUp, Excused, Overlaps, Later, Knows, Hydrated, Held, Left
    <2> QED
        BY <2>2, <2>3
<1> QED
    BY <1>1, <1>2, <1>3, <1>4, <1>5, <1>6, <1>7, <1>8, <1>9, <1>10 DEF Next, Access, Call

\* Work is missing from the newest checkpoint only if a handle that had not
\* seen it wrote a later one, or if a strict reset took it back; handles that
\* follow each other lose none, wherever the earlier one died.
THEOREM OnlyOverlapLoses == Spec => []LostOnlyToOverlap
<1>1. Init => Lineage /\ KeepsUp
    <2> SUFFICES ASSUME Init PROVE Lineage /\ KeepsUp
        OBVIOUS
    <2>1. \A h \in Handles : ~Left(h, "insert")
        BY DEF Init, Left, Nobody
    <2>2. DOMAIN checkpoints = {} /\ Inserted = 0
        BY DEF Init, Inserted
    <2> QED
        BY <2>1, <2>2 DEF Init, Lineage, KeepsUp
<1>2. IInv /\ Lineage /\ KeepsUp /\ [Next]_vars => (Lineage /\ KeepsUp)'
    BY NextIInv, NextLineage
<1>3. ASSUME IInv, KeepsUp PROVE LostOnlyToOverlap
    <2> SUFFICES ASSUME NEW n \in NewestOf(checkpoints), NEW i \in DOMAIN checkpoints,
                        checkpoints[i].state.planIndex > checkpoints[n].state.planIndex,
                        ~Excused(i)
                 PROVE  FALSE
        BY DEF LostOnlyToOverlap, Excused
    <2>1. checkpoints[n].state.planIndex >= checkpoints[i].state.planIndex
        BY <1>3, NewestKeepsUp
    <2>2. checkpoints[n].state.planIndex \in Nat /\ checkpoints[i].state.planIndex \in Nat
        BY <1>3, Numbers DEF NewestOf
    <2> QED
        BY <2>1, <2>2
<1> QED
    BY <1>1, <1>2, <1>3, Invariance, PTL DEF Spec
=============================================================================
