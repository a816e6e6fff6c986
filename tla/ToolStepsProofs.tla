-------------------------- MODULE ToolStepsProofs --------------------------
(***************************************************************************)
(* Theorems about ToolSteps, for every set of calls, every pattern list,   *)
(* every type of step and every interval: what had an effect is in the     *)
(* newest checkpoint, checkpoints are as many as they have to be, and what *)
(* they hold is compared with exactly what no excluded path hides.         *)
(***************************************************************************)
EXTENDS ToolSteps, ResultHashProofs, FiniteSetTheorems, TLAPS

Entry == [type : StepTypes, memory : BOOLEAN, count : Nat,
          outcome : {"open", "returned", "failed"}]
Record == [step : Nat, target : Targets, class : EffectClasses \cup {"read_only"}]

InStep == pc \in {"step", "sync", "checkpoint", "note"}
Current == Len(steps)

\* The step in hand is the last one begun and not ended; records are of steps
\* that were begun; each step has at most one count, from its _sync_run on.
Begun ==
    /\ steps \in Seq(Entry) /\ Current <= MaxSteps
    /\ ledger \in Seq(Record)
    /\ \A r \in 1..Len(ledger) : ledger[r].step \in 1..Current
    /\ taken \in Nat
    /\ InStep => /\ Current # 0 /\ steps[Current].outcome = "open"
                 /\ ctx.type = steps[Current].type /\ ctx.memory = steps[Current].memory
    /\ row <= Current
    /\ pc \in {"step", "sync"} => row < Current /\ steps[Current].count = 0
    /\ pc \in {"checkpoint", "note"} => steps[Current].count = stepCount
    /\ pc = "note" => newest.at = stepCount

IInv == TypeOK /\ Begun

LEMMA InitIInv == Init => IInv
<1> SUFFICES ASSUME Init PROVE IInv
    OBVIOUS
<1>1. TypeOK
    BY StepsAssumption DEF Init, TypeOK, NoStep, NoTools
<1>2. Begun
    BY StepsAssumption DEF Init, Begun, InStep, Current
<1> QED
    BY <1>1, <1>2 DEF IInv

\* What the types say, without the CASE of TypeOK.
LEMMA Types ==
    ASSUME IInv
    PROVE  /\ Current \in Nat /\ Len(ledger) \in Nat /\ row \in Nat /\ stepCount \in Nat
           /\ newest.at \in Nat /\ newest.at <= row
           /\ \A n \in 1..Current : steps[n] \in Entry
           /\ DOMAIN steps = 1..Current
           /\ pc = "sync" => stepCount = row + 1
           /\ pc \in {"idle", "step", "checkpoint", "note"} => stepCount = row
           /\ ctx.relevant \in BOOLEAN /\ ctx.memory \in BOOLEAN /\ ctx.failed \in BOOLEAN
BY DEF IInv, TypeOK, Begun, Current

\* A step is begun: the last entry is new.
LEMMA Opened ==
    ASSUME IInv, NEW type \in StepTypes, BeginStep(type)
    PROVE  /\ steps' \in Seq(Entry) /\ Current' = Current + 1
           /\ \A n \in 1..Current : steps'[n] = steps[n]
           /\ steps'[Current + 1] =
                [type |-> type, memory |-> FALSE, count |-> 0, outcome |-> "open"]
<1>1. [type |-> type, memory |-> FALSE, count |-> 0, outcome |-> "open"] \in Entry
    BY DEF Entry
<1> QED
    BY <1>1 DEF BeginStep, IInv, Begun, Current

\* A step is ended, or what it is remembered for changes: of the last entry
\* some fields.
LEMMA Edited ==
    ASSUME IInv, InStep, NEW e \in Entry, steps' = [steps EXCEPT ![Current] = e]
    PROVE  /\ steps' \in Seq(Entry) /\ Current' = Current
           /\ \A n \in 1..(Current - 1) : steps'[n] = steps[n]
           /\ steps'[Current] = e
BY DEF IInv, Begun, Current

EndedAs(outcome) ==
    [type |-> steps[Current].type, memory |-> steps[Current].memory,
     count |-> stepCount, outcome |-> outcome]
Counted ==
    [type |-> steps[Current].type, memory |-> steps[Current].memory,
     count |-> stepCount, outcome |-> "open"]
Remembered ==
    [type |-> steps[Current].type, memory |-> TRUE,
     count |-> steps[Current].count, outcome |-> "open"]

LEMMA Edits ==
    ASSUME IInv, InStep
    PROVE  /\ \A o \in {"returned", "failed"} :
                /\ EndedAs(o) \in Entry
                /\ Ends(o) => steps' = [steps EXCEPT ![Current] = EndedAs(o)]
           /\ Counted \in Entry /\ Remembered \in Entry
           /\ [steps EXCEPT ![Len(steps)].count = stepCount]
                 = [steps EXCEPT ![Current] = Counted]
           /\ Remember => steps' = [steps EXCEPT ![Current] = Remembered]
<1>1. /\ Current \in 1..Current /\ steps[Current] \in Entry /\ stepCount \in Nat
      /\ steps[Current].outcome = "open"
    BY Types DEF IInv, Begun
<1>2. /\ steps[Current].type \in StepTypes /\ steps[Current].memory \in BOOLEAN
      /\ steps[Current].count \in Nat
      /\ steps[Current] = [type |-> steps[Current].type, memory |-> steps[Current].memory,
                           count |-> steps[Current].count, outcome |-> "open"]
    BY <1>1 DEF Entry
<1>3. ASSUME NEW o \in {"returned", "failed"}
      PROVE  EndedAs(o) \in Entry /\ (Ends(o) => steps' = [steps EXCEPT ![Current] = EndedAs(o)])
    BY <1>1, <1>2 DEF EndedAs, Entry, Ends, Current
<1>4. Counted \in Entry /\ Remembered \in Entry
    BY <1>1, <1>2 DEF Counted, Remembered, Entry
<1>5. [steps EXCEPT ![Len(steps)].count = stepCount] = [steps EXCEPT ![Current] = Counted]
    <2>1. [steps[Current] EXCEPT !.count = stepCount] = Counted
        BY <1>2 DEF Counted
    <2>2. [steps EXCEPT ![Current].count = stepCount]
             = [steps EXCEPT ![Current] = [steps[Current] EXCEPT !.count = stepCount]]
        OBVIOUS
    <2> QED
        BY <2>1, <2>2 DEF Current
<1>6. Remember => steps' = [steps EXCEPT ![Current] = Remembered]
    BY <1>1, <1>2 DEF Remembered, Remember, Current
<1> QED
    BY <1>3, <1>4, <1>5, <1>6

\* What _end_step does once the row is written.
LEMMA Synced ==
    ASSUME IInv, Sync
    PROVE  /\ InStep /\ stepCount = row + 1 /\ row' = row + 1 /\ row < Current
           /\ UNCHANGED <<state, stepCount, ledger, newest, taken>>
           /\ \/ /\ pc' = "idle" /\ ctx' = NoStep
                 /\ steps' = [steps EXCEPT ![Current] = EndedAs("failed")]
              \/ /\ ~WantsCheckpoint /\ pc' = "idle" /\ ctx' = NoStep
                 /\ steps' = [steps EXCEPT ![Current] = EndedAs("returned")]
              \/ /\ WantsCheckpoint /\ pc' = "checkpoint" /\ ctx' = ctx
                 /\ steps' = [steps EXCEPT ![Current] = Counted]
<1>1. /\ InStep /\ stepCount = row + 1 /\ row' = row + 1 /\ row < Current
      /\ UNCHANGED <<state, stepCount, ledger, newest, taken>>
    BY Types DEF Sync, InStep, IInv, Begun
<1>2. \/ Ends("failed")
      \/ ~WantsCheckpoint /\ Ends("returned")
      \/ /\ WantsCheckpoint /\ pc' = "checkpoint" /\ ctx' = ctx
         /\ steps' = [steps EXCEPT ![Len(steps)].count = stepCount]
    <2> HIDE DEF WantsCheckpoint, Ends
    <2> QED
        BY Types DEF Sync
<1> QED
    BY <1>1, <1>2, Edits DEF Ends

-----------------------------------------------------------------------------

\* Every step keeps the domains, and the entries of steps that were ended.
LEMMA NextTypes ==
    ASSUME IInv, [Next]_vars
    PROVE  TypeOK'
<1> USE Types, StepsAssumption DEF IInv, TypeOK
<1>0. \A c \in Calls : c.name \in Targets /\ EffectClass(c) \in EffectClasses \cup {"read_only"}
    BY CallsAssumption DEF Targets, EffectClass, EffectClasses, Declarations
<1>1. ASSUME NEW type \in StepTypes, BeginStep(type) PROVE TypeOK'
    BY <1>1 DEF BeginStep, NoStep
<1>2. ASSUME NEW c \in Calls, SetToolResult(c) PROVE TypeOK'
    <2>1. c.result \in Values /\ c.exclude \in Excludes /\ Current \in 1..MaxSteps
        BY <1>2, CallsAssumption DEF SetToolResult, Begun, InStep, Current
    <2>2. [result |-> c.result, exclude |-> c.exclude, step |-> Len(steps)] \in Commitments
        BY <2>1 DEF Commitments, Current
    <2>3. /\ DOMAIN state' \subseteq Targets
          /\ \A t \in DOMAIN state' : state'[t] \in Commitments
        BY <1>0, <1>2, <2>2 DEF SetToolResult
    <2>4. \A r \in 1..Len(ledger') :
             ledger'[r].target \in Targets /\ ledger'[r].class \in EffectClasses \cup {"read_only"}
        BY <1>0, <1>2 DEF SetToolResult, Begun
    <2>5. ctx' \in [type : StepTypes \cup {"none"}, relevant : BOOLEAN,
                    memory : BOOLEAN, failed : BOOLEAN]
        BY <1>2 DEF SetToolResult, ReadOnly, MatchesPattern
    <2> QED
        BY <1>2, <2>3, <2>4, <2>5 DEF SetToolResult
<1>3. CASE Remember
    BY <1>3 DEF Remember
<1>4. ASSUME NEW failed \in BOOLEAN, LeaveStep(failed) PROVE TypeOK'
    BY <1>4 DEF LeaveStep
<1>5. CASE Sync
    <2>1. row' \in 0..MaxSteps /\ newest'.at \in 0..row'
        BY <1>5, Synced DEF Begun
    <2>2. /\ pc' \in {"idle", "checkpoint"} /\ stepCount' = row'
          /\ UNCHANGED <<state, newest, ledger>> /\ ctx' \in {ctx, NoStep}
        BY <1>5, Synced
    <2>3. ctx' \in [type : StepTypes \cup {"none"}, relevant : BOOLEAN,
                    memory : BOOLEAN, failed : BOOLEAN]
        <3>1. NoStep \in [type : StepTypes \cup {"none"}, relevant : BOOLEAN,
                          memory : BOOLEAN, failed : BOOLEAN]
            BY DEF NoStep
        <3> QED
            BY <2>2, <3>1
    <2> HIDE Types
    <2> QED
        BY <2>1, <2>2, <2>3
<1>6. CASE Checkpoint
    <2>1. /\ UNCHANGED <<ctx, state, stepCount, row, ledger>> /\ pc' = "note"
          /\ newest'.state = state /\ newest'.at = stepCount /\ stepCount = row
        BY <1>6 DEF Checkpoint
    <2> QED
        BY <2>1
<1>10. CASE NoteCheckpoint
    <2>1. /\ UNCHANGED <<state, stepCount, row, ledger, newest>> /\ pc' = "idle"
          /\ ctx' = NoStep /\ stepCount = row
        BY <1>10 DEF NoteCheckpoint, Ends
    <2>2. ctx' \in [type : StepTypes \cup {"none"}, relevant : BOOLEAN,
                    memory : BOOLEAN, failed : BOOLEAN]
        BY <2>1 DEF NoStep
    <2> HIDE Types
    <2> QED
        BY <2>1, <2>2
<1>7. CASE Crash
    BY <1>7 DEF Crash, NoStep, NoTools
<1>8. CASE Resume
    BY <1>8 DEF Resume, CountInRow
<1>9. CASE UNCHANGED vars
    BY <1>9 DEF vars
<1> QED
    BY <1>1, <1>2, <1>3, <1>4, <1>5, <1>6, <1>7, <1>8, <1>9, <1>10 DEF Next

\* What a step of the run does to the history of its steps: the one in hand
\* changes, one may be added, all others stay as they are.
LEMMA NextBegun ==
    ASSUME IInv, [Next]_vars
    PROVE  /\ Begun'
           /\ Current <= Current'
           /\ \A n \in 1..Current : (InStep /\ n = Current) \/ steps'[n] = steps[n]
<1> DEFINE Keeps == /\ Current <= Current'
                    /\ \A n \in 1..Current : (InStep /\ n = Current) \/ steps'[n] = steps[n]
<1>0. /\ steps \in Seq(Entry) /\ Current \in Nat /\ Current <= MaxSteps /\ MaxSteps \in Nat
      /\ row \in Nat /\ row <= Current /\ taken \in Nat
      /\ ledger \in Seq(Record) /\ \A r \in 1..Len(ledger) : ledger[r].step \in 1..Current
    BY Types, StepsAssumption DEF IInv, Begun
<1>a. InStep => /\ Current # 0 /\ steps[Current] \in Entry /\ steps[Current].outcome = "open"
                /\ ctx.type = steps[Current].type /\ ctx.memory = steps[Current].memory
    BY Types DEF IInv, Begun
<1>b. /\ pc \in {"step", "sync"} => row < Current /\ steps[Current].count = 0
      /\ pc \in {"checkpoint", "note"} => steps[Current].count = stepCount
    BY DEF IInv, Begun
\* No entry and no record changes.
<1>c. ASSUME UNCHANGED <<steps, ledger, row>>, taken' \in {taken, taken + 1},
             \/ pc' \in {"none", "idle"}
             \/ /\ \/ pc = "step" /\ pc' = "sync"
                   \/ /\ pc = "checkpoint" /\ pc' = "note"
                      /\ stepCount' = stepCount /\ newest'.at = stepCount
                /\ ctx'.type = ctx.type /\ ctx'.memory = ctx.memory
      PROVE  Begun' /\ Keeps
    BY <1>0, <1>a, <1>b, <1>c DEF Begun, InStep, Current
\* The entry of the step in hand does.
<1>d. ASSUME InStep, NEW e \in Entry, steps' = [steps EXCEPT ![Current] = e],
             UNCHANGED <<ledger>>, taken' \in Nat, row' \in {row, row + 1}, row' <= Current,
             \/ pc' = "idle"
             \/ /\ pc' = "checkpoint" /\ e.outcome = "open" /\ e.count = stepCount'
                /\ ctx'.type = e.type /\ ctx'.memory = e.memory
             \/ /\ pc' = "step" /\ row' < Current /\ e.count = 0 /\ e.outcome = "open"
                /\ ctx'.type = e.type /\ ctx'.memory = e.memory
      PROVE  Begun' /\ Keeps
    <2>1. /\ steps' \in Seq(Entry) /\ Current' = Current
          /\ \A n \in 1..(Current - 1) : steps'[n] = steps[n]
          /\ steps'[Current'] = e
        BY <1>d, Edited
    <2> QED
        BY <1>0, <1>a, <1>d, <2>1 DEF Begun, InStep
<1>1. ASSUME NEW type \in StepTypes, BeginStep(type) PROVE Begun' /\ Keeps
    <2>1. /\ UNCHANGED <<ledger, row, taken>> /\ pc' = "step" /\ Current < MaxSteps
        BY <1>1 DEF BeginStep, Current
    <2>2. ctx'.type = type /\ ctx'.memory = FALSE
        BY <1>1 DEF BeginStep, NoStep
    <2>3. /\ steps' \in Seq(Entry) /\ Current' = Current + 1
          /\ steps'[Current'] =
               [type |-> type, memory |-> FALSE, count |-> 0, outcome |-> "open"]
          /\ \A n \in 1..Current : steps'[n] = steps[n]
        BY <1>1, Opened
    <2>4. /\ steps'[Current'].outcome = "open" /\ steps'[Current'].count = 0
          /\ steps'[Current'].type = type /\ steps'[Current'].memory = FALSE
        BY <2>3
    <2> QED
        <3>1. row' <= Current' /\ row' < Current' /\ Current' <= MaxSteps /\ Current' # 0
              /\ \A r \in 1..Len(ledger') : ledger'[r].step \in 1..Current'
            BY <1>0, <2>1, <2>3
        <3>2. Begun'
            BY <1>0, <2>1, <2>2, <2>3, <2>4, <3>1 DEF Begun
        <3> QED
            BY <1>0, <2>3, <3>2
<1>2. ASSUME NEW c \in Calls, SetToolResult(c) PROVE Begun' /\ Keeps
    <2>1. [step |-> Current, target |-> c.name, class |-> EffectClass(c)] \in Record
        BY <1>0, CallsAssumption
        DEF Record, Targets, EffectClass, EffectClasses, Declarations
    <2>2. pc = "step" /\ pc' = "step" /\ UNCHANGED <<row, taken, steps>>
        BY <1>2 DEF SetToolResult
    <2>3. /\ ledger' \in Seq(Record)
          /\ \A r \in 1..Len(ledger') : ledger'[r].step \in 1..Current
        BY <1>0, <1>2, <1>a, <2>1, <2>2 DEF SetToolResult, Current, InStep
    <2>4. ctx'.type = ctx.type /\ ctx'.memory = ctx.memory
        BY <1>2 DEF SetToolResult, IInv, TypeOK
    <2> QED
        BY <1>0, <1>a, <1>b, <2>2, <2>3, <2>4 DEF Begun, InStep, Current
<1>3. CASE Remember
    <2>1. /\ UNCHANGED <<ledger, row, taken, pc>> /\ pc = "step" /\ InStep
          /\ steps' = [steps EXCEPT ![Current] = Remembered] /\ Remembered \in Entry
        BY <1>3, Edits DEF Remember, InStep
    <2>2. ctx'.type = ctx.type /\ ctx'.memory = TRUE
        BY <1>3 DEF Remember, IInv, TypeOK
    <2> QED
        BY <1>0, <1>a, <1>b, <1>d, <2>1, <2>2 DEF Remembered
<1>4. ASSUME NEW failed \in BOOLEAN, LeaveStep(failed) PROVE Begun' /\ Keeps
    <2>1. ctx'.type = ctx.type /\ ctx'.memory = ctx.memory
        BY <1>4 DEF LeaveStep, IInv, TypeOK
    <2> QED
        BY <1>4, <1>c, <2>1 DEF LeaveStep
<1>5. CASE Sync
    <2>1. /\ InStep /\ row' = row + 1 /\ row < Current /\ UNCHANGED <<ledger, taken>>
          /\ EndedAs("failed") \in Entry /\ EndedAs("returned") \in Entry /\ Counted \in Entry
        BY <1>5, Synced, Edits
    <2>2. PICK e \in Entry : /\ steps' = [steps EXCEPT ![Current] = e]
                             /\ \/ pc' = "idle"
                                \/ pc' = "checkpoint" /\ e = Counted /\ ctx' = ctx
        BY <1>5, <2>1, Synced
    <2>3. taken' \in Nat /\ row' \in {row, row + 1} /\ row' <= Current
        BY <1>0, <2>1
    <2>4. CASE pc' = "idle"
        BY <1>d, <2>1, <2>2, <2>3, <2>4
    <2>5. CASE pc' = "checkpoint" /\ e = Counted /\ ctx' = ctx
        <3>1. /\ e.outcome = "open" /\ ctx'.type = e.type /\ ctx'.memory = e.memory
              /\ e.count = stepCount'
            BY <1>5, <1>a, <2>1, <2>5, Synced DEF Counted
        <3> QED
            BY <1>d, <2>1, <2>2, <2>3, <2>5, <3>1
    <2> QED
        BY <2>2, <2>4, <2>5
<1>6. CASE Checkpoint
    BY <1>6, <1>c DEF Checkpoint
<1>9. CASE NoteCheckpoint
    <2>1. /\ InStep /\ Ends("returned") /\ UNCHANGED <<ledger, taken>>
          /\ row' = row /\ pc' = "idle"
        BY <1>9, Types DEF NoteCheckpoint, InStep, Ends
    <2> QED
        BY <1>0, <1>d, <2>1, Edits
<1>7. CASE Crash \/ Resume
    BY <1>7, <1>c DEF Crash, Resume
<1>8. CASE UNCHANGED vars
    <2>1. /\ UNCHANGED <<steps, ledger, row, taken, ctx, pc, stepCount, newest>>
          /\ Current' = Current
        BY <1>8 DEF vars, Current
    <2>2. pc = "note" => newest.at = stepCount
        BY DEF IInv, Begun
    <2> QED
        BY <1>0, <1>a, <1>b, <2>1, <2>2 DEF Begun, InStep
<1> QED
    BY <1>1, <1>2, <1>3, <1>4, <1>5, <1>6, <1>7, <1>8, <1>9 DEF Next

LEMMA NextIInv == IInv /\ [Next]_vars => IInv'
BY NextTypes, NextBegun DEF IInv

LEMMA Invariance == Spec => []IInv
BY InitIInv, NextIInv, PTL DEF Spec

\* Every variable stays in its domain; the row's count is the handle's but for
\* the step that is being ended, in every crash and resume, and no newer
\* checkpoint is ahead of it.
THEOREM TypeCorrect == Spec => []TypeOK
BY Invariance, PTL DEF IInv
-----------------------------------------------------------------------------
(* What is committed.                                                      *)

\* A commitment of the record's step, or of a later one.
Covers(s, r) == ledger[r].target \in DOMAIN s /\ s[ledger[r].target].step >= ledger[r].step

\* Memory has the commitments of the step in hand and all of the newest
\* checkpoint, or later ones; that is the step's own once it is taken.
Ahead ==
    /\ \A s \in {state, newest.state} : \A t \in DOMAIN s : s[t].step \in 1..Current
    /\ InStep => \A r \in 1..Len(ledger) : ledger[r].step = Current => Covers(state, r)
    /\ pc # "none" => \A t \in DOMAIN newest.state :
                        t \in DOMAIN state /\ state[t].step >= newest.state[t].step
    /\ pc = "note" => newest.state = state

\* The flag is that of the last call in the step.
Flagged ==
    /\ InStep /\ ~ctx.relevant => \A r \in 1..Len(ledger) :
         ledger[r].step = Current /\ IsEffect(r) =>
             \E q \in (r + 1)..Len(ledger) : ledger[q].step = Current /\ ~IsEffect(q)
    /\ InStep /\ ctx.relevant =>
         \E r \in 1..Len(ledger) : ledger[r].step = Current /\ IsEffect(r)

\* A call's commitment, record and flag.
LEMMA Recorded ==
    ASSUME IInv, NEW c \in Calls, SetToolResult(c)
    PROVE  /\ pc = "step" /\ pc' = "step" /\ UNCHANGED <<stepCount, row, newest, taken, steps>>
           /\ Current' = Current
           /\ Len(ledger') = Len(ledger) + 1
           /\ \A r \in 1..Len(ledger) : ledger'[r] = ledger[r]
           /\ ledger'[Len(ledger) + 1].step = Current
           /\ ledger'[Len(ledger) + 1].target = c.name
           /\ ledger'[Len(ledger) + 1].class # "read_only" <=> ctx'.relevant
           /\ DOMAIN state' = DOMAIN state \cup {c.name}
           /\ state'[c.name].step = Current
           /\ \A t \in DOMAIN state : t # c.name => state'[t] = state[t]
<1>1. /\ pc = "step" /\ pc' = "step" /\ UNCHANGED <<stepCount, row, newest, taken, steps>>
      /\ Current' = Current
    BY DEF SetToolResult, Current
<1>2. ledger' = Append(ledger, [step |-> Current, target |-> c.name, class |-> EffectClass(c)])
    BY DEF SetToolResult, Current
<1>3. ledger \in Seq(Record) /\ Len(ledger) \in Nat
    BY DEF IInv, Begun
<1>4. /\ Len(ledger') = Len(ledger) + 1
      /\ \A r \in 1..Len(ledger) : ledger'[r] = ledger[r]
      /\ ledger'[Len(ledger) + 1] =
           [step |-> Current, target |-> c.name, class |-> EffectClass(c)]
    BY <1>2, <1>3
<1>5. EffectClass(c) # "read_only" <=> ~ReadOnly(c)
    BY CallsAssumption DEF EffectClass, ReadOnly, Declarations
<1>6. ctx'.relevant = ~ReadOnly(c)
    BY DEF SetToolResult, IInv, TypeOK
<1>7. ledger'[Len(ledger) + 1].class # "read_only" <=> ctx'.relevant
    <2>1. ledger'[Len(ledger) + 1].class = EffectClass(c)
        BY <1>4
    <2>2. ctx'.relevant <=> ~ReadOnly(c)
        BY <1>6
    <2> QED
        BY <1>5, <2>1, <2>2
<1>8. /\ DOMAIN state' = DOMAIN state \cup {c.name}
      /\ state'[c.name].step = Current
      /\ \A t \in DOMAIN state : t # c.name => state'[t] = state[t]
    BY DEF SetToolResult, Current
<1> QED
    BY <1>1, <1>4, <1>7, <1>8

\* Between two calls nothing in the ledger or in a state changes; what a
\* checkpoint or a resume does is to make memory and newest the same.
LEMMA NextAhead ==
    ASSUME IInv, Ahead, [Next]_vars
    PROVE  Ahead'
<1>0. /\ Current \in Nat /\ Current' \in Nat /\ Current <= Current' /\ Len(ledger) \in Nat
      /\ \A r \in 1..Len(ledger) : ledger[r].step \in 1..Current
      /\ \A s \in {state, newest.state} : \A t \in DOMAIN s : s[t].step \in 1..Current
    BY Types, NextIInv, NextBegun DEF Ahead, IInv, Begun, Current
<1>1. ASSUME NEW type \in StepTypes, BeginStep(type) PROVE Ahead'
    <2>1. /\ UNCHANGED <<state, ledger, newest>> /\ Current' = Current + 1
          /\ pc = "idle" /\ pc' = "step"
        BY <1>1, Opened DEF BeginStep
    <2> QED
        BY <1>0, <2>1 DEF Ahead, InStep, Covers
<1>2. ASSUME NEW c \in Calls, SetToolResult(c) PROVE Ahead'
    <2>0. /\ pc = "step" /\ pc' = "step" /\ newest' = newest /\ Current' = Current
          /\ Len(ledger') = Len(ledger) + 1
          /\ \A r \in 1..Len(ledger) : ledger'[r] = ledger[r]
          /\ ledger'[Len(ledger) + 1].step = Current
          /\ ledger'[Len(ledger) + 1].target = c.name
          /\ DOMAIN state' = DOMAIN state \cup {c.name}
          /\ state'[c.name].step = Current
          /\ \A t \in DOMAIN state : t # c.name => state'[t] = state[t]
        BY <1>2, Recorded
    <2>1. Current \in 1..Current
        BY <1>0, <2>0, Types DEF IInv, Begun, InStep
    <2>2. \A t \in DOMAIN state' : state'[t].step \in 1..Current
        BY <1>0, <2>0, <2>1
    <2>3. \A r \in 1..Len(ledger') : ledger'[r].step = Current => Covers(state, r)'
        <3> SUFFICES ASSUME NEW r \in 1..Len(ledger'), ledger'[r].step = Current
                     PROVE  Covers(state, r)'
            OBVIOUS
        <3>1. CASE r = Len(ledger) + 1
            BY <1>0, <2>0, <3>1 DEF Covers
        <3>2. CASE r # Len(ledger) + 1
            <4>1. r \in 1..Len(ledger) /\ ledger'[r] = ledger[r]
                BY <1>0, <2>0, <3>2
            <4>2. Covers(state, r)
                BY <2>0, <4>1 DEF Ahead, InStep
            <4>3. \/ ledger[r].target = c.name
                  \/ ledger[r].target # c.name
                OBVIOUS
            <4> QED
                BY <1>0, <2>0, <4>1, <4>2, <4>3 DEF Covers
        <3> QED
            BY <3>1, <3>2
    <2>4. ASSUME NEW t \in DOMAIN newest.state
          PROVE  t \in DOMAIN state' /\ state'[t].step >= newest.state[t].step
        <3>1. t \in DOMAIN state /\ state[t].step >= newest.state[t].step
            BY <2>0 DEF Ahead
        <3> QED
            BY <1>0, <2>0, <3>1
    <2> QED
        BY <1>0, <2>0, <2>2, <2>3, <2>4 DEF Ahead
<1>3. CASE Remember \/ Sync \/ \E failed \in BOOLEAN : LeaveStep(failed)
    <2>1. /\ UNCHANGED <<state, ledger, newest>> /\ Current' = Current /\ pc # "none" /\ InStep
          /\ pc' # "note"
        <3>1. CASE Remember
            BY <3>1, Edits, Edited DEF Remember, InStep
        <3>2. CASE Sync
            <4>1. pc' # "note"
                BY <3>2, Synced
            <4> QED
                BY <3>2, <4>1, Synced, Edits, Edited DEF Sync
        <3>3. CASE \E failed \in BOOLEAN : LeaveStep(failed)
            BY <3>3 DEF LeaveStep, InStep, Current
        <3> QED
            BY <1>3, <3>1, <3>2, <3>3
    <2> QED
        BY <1>0, <2>1 DEF Ahead, Covers
<1>4. CASE Checkpoint
    <2>1. /\ state' = state /\ newest'.state = state /\ Current' = Current /\ ledger' = ledger
          /\ InStep
        BY <1>4 DEF Checkpoint, InStep, Current
    <2> QED
        BY <1>0, <2>1 DEF Ahead, Covers
<1>7. CASE NoteCheckpoint
    <2>1. /\ state' = state /\ newest' = newest /\ Current' = Current
          /\ pc = "note" /\ pc' = "idle"
        BY <1>7, Edits, Edited DEF NoteCheckpoint, InStep, Ends
    <2> QED
        BY <1>0, <2>1 DEF Ahead, InStep
<1>5. CASE Crash \/ Resume
    <2>1. newest' = newest /\ Current' = Current /\ pc' \in {"none", "idle"}
        BY <1>5 DEF Crash, Resume, Current
    <2>2. state' = newest.state \/ (pc' = "none" /\ state' = NoTools)
        BY <1>5 DEF Crash, Resume
    <2>3. DOMAIN NoTools = {}
        BY DEF NoTools
    <2> QED
        BY <1>0, <2>1, <2>2, <2>3 DEF Ahead, InStep
<1>6. CASE UNCHANGED vars
    BY <1>6 DEF vars, Ahead, InStep, Current, Covers
<1> QED
    BY <1>1, <1>2, <1>3, <1>4, <1>5, <1>6, <1>7 DEF Next

LEMMA NextFlagged ==
    ASSUME IInv, Flagged, [Next]_vars
    PROVE  Flagged'
<1>0. /\ Current \in Nat /\ Len(ledger) \in Nat /\ ctx.relevant \in BOOLEAN
      /\ \A r \in 1..Len(ledger) : ledger[r].step \in 1..Current
    BY Types DEF IInv, Begun
<1>1. ASSUME NEW type \in StepTypes, BeginStep(type) PROVE Flagged'
    <2>1. ledger' = ledger /\ Current' = Current + 1 /\ ~ctx'.relevant
        BY <1>1, Opened DEF BeginStep, NoStep
    <2> QED
        BY <1>0, <2>1 DEF Flagged, IsEffect
<1>2. ASSUME NEW c \in Calls, SetToolResult(c) PROVE Flagged'
    <2> DEFINE new == Len(ledger) + 1
    <2>1. /\ Current' = Current /\ Len(ledger') = new /\ new \in 1..new
          /\ ledger'[new].step = Current
        <3>1. Current' = Current /\ Len(ledger') = new /\ ledger'[new].step = Current
            BY <1>2, Recorded
        <3> QED
            BY <1>0, <3>1
    <2>a. ledger'[new].class # "read_only" <=> ctx'.relevant
        BY <1>2, Recorded
    <2>2. ASSUME ~ctx'.relevant, NEW r \in 1..Len(ledger'), ledger'[r].class # "read_only"
          PROVE  new \in (r + 1)..Len(ledger')
        <3>1. r # new
            BY <2>a, <2>2
        <3> QED
            BY <1>0, <2>1, <2>2, <3>1
    <2> QED
        BY <2>1, <2>a, <2>2 DEF Flagged, IsEffect
<1>3. CASE \/ Remember \/ Sync \/ Checkpoint \/ NoteCheckpoint
           \/ \E failed \in BOOLEAN : LeaveStep(failed)
    <2>1. /\ ledger' = ledger /\ Current' = Current /\ InStep
          /\ InStep' => ctx'.relevant = ctx.relevant
        <3>1. CASE Remember
            BY <3>1, Edits, Edited DEF Remember, InStep, IInv, TypeOK
        <3>2. CASE Sync
            BY <3>2, Synced, Edits, Edited DEF InStep
        <3>3. CASE Checkpoint
            BY <3>3 DEF Checkpoint, InStep, Current
        <3>5. CASE NoteCheckpoint
            BY <3>5, Edits, Edited DEF NoteCheckpoint, InStep, Ends
        <3>4. CASE \E failed \in BOOLEAN : LeaveStep(failed)
            BY <3>4 DEF LeaveStep, InStep, Current, IInv, TypeOK
        <3> QED
            BY <1>3, <3>1, <3>2, <3>3, <3>4, <3>5
    <2> QED
        BY <1>0, <2>1 DEF Flagged, IsEffect
<1>4. CASE Crash \/ Resume
    BY <1>4 DEF Crash, Resume, InStep, Flagged
<1>5. CASE UNCHANGED vars
    BY <1>5 DEF vars, Flagged, InStep, Current, IsEffect
<1> QED
    BY <1>1, <1>2, <1>3, <1>4, <1>5 DEF Next
\* Records are added by calls and stay; a call's step is open.
LEMMA LedgerGrows ==
    ASSUME IInv, [Next]_vars
    PROVE  /\ Len(ledger) \in Nat /\ Len(ledger') \in Nat /\ Len(ledger) <= Len(ledger')
           /\ \A r \in 1..Len(ledger) : ledger'[r] = ledger[r]
           /\ \A r \in 1..Len(ledger') :
                r \in 1..Len(ledger) \/ steps'[ledger'[r].step].outcome = "open"
<1>0. Len(ledger) \in Nat
    BY DEF IInv, Begun
<1>1. ASSUME NEW c \in Calls, SetToolResult(c)
      PROVE  /\ Len(ledger') = Len(ledger) + 1
             /\ \A r \in 1..Len(ledger) : ledger'[r] = ledger[r]
             /\ steps'[ledger'[Len(ledger) + 1].step].outcome = "open"
    <2>1. /\ pc = "step" /\ steps' = steps /\ ledger'[Len(ledger) + 1].step = Current
          /\ Len(ledger') = Len(ledger) + 1
          /\ \A r \in 1..Len(ledger) : ledger'[r] = ledger[r]
        BY <1>1, Recorded
    <2>2. steps[Current].outcome = "open"
        BY <2>1 DEF IInv, Begun, InStep
    <2> QED
        BY <2>1, <2>2
<1>2. (\E c \in Calls : SetToolResult(c)) \/ ledger' = ledger
    BY DEF Next, vars, BeginStep, Remember, LeaveStep, Sync, Checkpoint, NoteCheckpoint,
           Crash, Resume
<1> QED
    BY <1>0, <1>1, <1>2

\* How a step comes to have returned.
LEMMA Returns ==
    ASSUME IInv, Ahead, [Next]_vars, InStep, steps'[Current].outcome = "returned"
    PROVE  /\ steps'[Current].type = ctx.type /\ steps'[Current].memory = ctx.memory
           /\ \/ Sync /\ ~WantsCheckpoint /\ newest' = newest
              \/ NoteCheckpoint /\ newest'.state = state
<1>0. /\ Current \in Nat /\ Current # 0 /\ steps[Current].outcome = "open"
      /\ ctx.type = steps[Current].type /\ ctx.memory = steps[Current].memory
      /\ EndedAs("returned") \in Entry /\ EndedAs("failed") \in Entry /\ Counted \in Entry
      /\ Remembered \in Entry
    BY Types, Edits DEF IInv, Begun
<1>1. ASSUME NEW e \in Entry, steps' = [steps EXCEPT ![Current] = e] PROVE steps'[Current] = e
    BY <1>1, Edited
<1>2. ~UNCHANGED steps
    BY <1>0
<1>3. ~Remember
    BY <1>0, <1>1, Edits DEF Remembered
<1>4. \A type \in StepTypes : ~BeginStep(type)
    BY DEF BeginStep, InStep
<1>5. CASE Sync
    <2>1. steps' # [steps EXCEPT ![Current] = EndedAs("failed")]
        BY <1>0, <1>1 DEF EndedAs
    <2>2. steps' # [steps EXCEPT ![Current] = Counted]
        BY <1>0, <1>1 DEF Counted
    <2>3. /\ ~WantsCheckpoint /\ newest' = newest
          /\ steps' = [steps EXCEPT ![Current] = EndedAs("returned")]
        BY <1>5, <2>1, <2>2, Synced
    <2> QED
        BY <1>0, <1>1, <1>5, <2>3 DEF EndedAs
<1>6. CASE NoteCheckpoint
    <2>1. newest'.state = state /\ steps' = [steps EXCEPT ![Current] = EndedAs("returned")]
        BY <1>6, Edits DEF NoteCheckpoint, Ahead
    <2> QED
        BY <1>0, <1>1, <1>6, <2>1 DEF EndedAs
<1> QED
    BY <1>2, <1>3, <1>4, <1>5, <1>6
    DEF Next, vars, SetToolResult, LeaveStep, Checkpoint, Crash, Resume

\* Records of a step that had returned already: its checkpoint, or one that
\* has at least its commitments, is the newest.
LEMMA NewestStays ==
    ASSUME IInv, Ahead, [Next]_vars, NEW t \in DOMAIN newest.state
    PROVE  t \in DOMAIN newest'.state /\ newest'.state[t].step >= newest.state[t].step
<1>1. CASE Checkpoint
    <2>1. newest'.state = state /\ pc # "none"
        BY <1>1 DEF Checkpoint
    <2> QED
        BY <2>1 DEF Ahead
<1>2. CASE ~Checkpoint
    <2>1. newest' = newest
        BY <1>2 DEF Next, vars, BeginStep, SetToolResult, Remember, LeaveStep, Sync,
                    NoteCheckpoint, Crash, Resume
    <2>2. newest.state[t].step \in Nat
        BY DEF Ahead
    <2> QED
        BY <2>1, <2>2
<1> QED
    BY <1>1, <1>2

LEMMA NextEffects ==
    ASSUME IInv, Ahead, Flagged, EffectsCheckpointed, [Next]_vars
    PROVE  EffectsCheckpointed'
<1> SUFFICES ASSUME NEW r \in 1..Len(ledger'), IsEffect(r)', ~TakenBack(r)',
                    StepOf(r)'.outcome = "returned",
                    StepOf(r)'.type \in {"tool_call", "llm_call"}
             PROVE  Covers(newest.state, r)'
    BY DEF EffectsCheckpointed, Covers
<1> DEFINE n == ledger[r].step
<1>1. /\ r \in 1..Len(ledger) /\ ledger'[r] = ledger[r] /\ n \in 1..Current
      /\ Len(ledger) \in Nat /\ Len(ledger') \in Nat /\ Len(ledger) <= Len(ledger')
      /\ \A q \in 1..Len(ledger) : ledger'[q] = ledger[q]
      /\ Current \in Nat
    BY LedgerGrows, Types DEF StepOf, IInv, Begun
<1>2. /\ IsEffect(r) /\ steps'[n].outcome = "returned"
      /\ steps'[n].type \in {"tool_call", "llm_call"}
    BY <1>1 DEF IsEffect, StepOf
\* What was taken back stays so.
<1>3. steps'[n].type = "tool_call" =>
        ~ \E q \in (r + 1)..Len(ledger) : ledger[q].step = n /\ ~IsEffect(q)
    BY <1>1 DEF TakenBack, StepOf, IsEffect
<1>4. CASE InStep /\ n = Current
    <2>1. /\ ctx.type = steps'[n].type
          /\ \/ Sync /\ ~WantsCheckpoint
             \/ NoteCheckpoint /\ newest'.state = state
        BY <1>2, <1>4, Returns
    <2>2. CASE Sync /\ ~WantsCheckpoint
        <3>1. ctx.type = "tool_call" /\ ~ctx.relevant
            BY <1>2, <2>1, <2>2 DEF WantsCheckpoint, SideEffectBoundary
        <3> QED
            BY <1>1, <1>2, <1>3, <1>4, <2>1, <3>1 DEF Flagged
    <2>3. CASE NoteCheckpoint /\ newest'.state = state
        BY <1>1, <1>4, <2>3 DEF Ahead, Covers
    <2> QED
        BY <2>1, <2>2, <2>3
<1>5. CASE ~(InStep /\ n = Current)
    <2>1. steps'[n] = steps[n]
        BY <1>1, <1>5, NextBegun
    <2>2. ~TakenBack(r)
        BY <1>3, <2>1 DEF TakenBack, StepOf
    <2>3. Covers(newest.state, r)
        BY <1>1, <1>2, <2>1, <2>2 DEF EffectsCheckpointed, Covers, StepOf
    <2>4. /\ ledger[r].target \in DOMAIN newest'.state
          /\ newest'.state[ledger[r].target].step >= newest.state[ledger[r].target].step
        BY <2>3, NewestStays DEF Covers
    <2>5. /\ newest.state[ledger[r].target].step \in Nat
          /\ newest'.state[ledger[r].target].step \in Nat
        BY <2>3, <2>4, NextAhead DEF Ahead, Covers
    <2> QED
        BY <1>1, <2>3, <2>4, <2>5 DEF Covers
<1> QED
    BY <1>4, <1>5

\* Every effect of a tool call or LLM call step that has returned is committed
\* in the newest checkpoint, unless the step's own read took the flag back.
THEOREM EffectsDurable == Spec => []EffectsCheckpointed
<1>1. Init => Ahead /\ Flagged /\ EffectsCheckpointed
    BY DEF Init, Ahead, Flagged, EffectsCheckpointed, InStep, NoTools
<1>2. IInv /\ Ahead /\ Flagged /\ EffectsCheckpointed /\ [Next]_vars
        => Ahead' /\ Flagged' /\ EffectsCheckpointed'
    BY NextAhead, NextFlagged, NextEffects
<1> QED
    BY <1>1, <1>2, Invariance, PTL DEF Spec
-----------------------------------------------------------------------------
(* How many checkpoints there are.                                         *)

\* A period that ended since the newest checkpoint ended on a step that has
\* not returned.
PeriodsMissed ==
    \A m \in (newest.at + 1)..row : m % Interval = 0 =>
        \E n \in 1..Current : steps[n].count = m /\ steps[n].outcome # "returned"

LEMMA NextPeriodsMissed ==
    ASSUME Interval > 0, IInv, PeriodsMissed, [Next]_vars
    PROVE  PeriodsMissed'
<1>0. /\ Current \in Nat /\ Current' \in Nat /\ Current <= Current' /\ row \in Nat
      /\ newest.at \in Nat /\ \A n \in 1..Current : steps[n] \in Entry
    BY Types, NextIInv, NextBegun DEF IInv, Begun, Current
<1>a. InStep => Current # 0 /\ steps[Current].outcome = "open"
    BY DEF IInv, Begun
\* The witnesses stay.
<1>b. ASSUME row' = row, newest' = newest,
             \A n \in 1..Current : /\ steps'[n].count = steps[n].count
                                   /\ steps'[n].outcome = steps[n].outcome
      PROVE  PeriodsMissed'
    BY <1>0, <1>b DEF PeriodsMissed
<1>1. ASSUME NEW type \in StepTypes, BeginStep(type) PROVE PeriodsMissed'
    BY <1>1, <1>b, Opened DEF BeginStep
<1>2. CASE Remember
    <2>1. /\ row' = row /\ newest' = newest /\ InStep /\ Remembered \in Entry
          /\ steps' = [steps EXCEPT ![Current] = Remembered]
        BY <1>2, Edits DEF Remember, InStep
    <2>2. /\ \A n \in 1..(Current - 1) : steps'[n] = steps[n]
          /\ steps'[Current] = Remembered
        BY <2>1, Edited
    <2>3. steps'[Current].count = steps[Current].count /\ steps'[Current].outcome = "open"
        BY <2>2 DEF Remembered
    <2> QED
        BY <1>0, <1>a, <1>b, <2>1, <2>2, <2>3
<1>3. CASE Sync
    <2>1. /\ InStep /\ row' = row + 1 /\ stepCount = row + 1 /\ newest' = newest
          /\ steps[Current].count = 0
        BY <1>3, Synced DEF Sync, IInv, Begun
    <2>2. PICK e \in Entry : /\ steps' = [steps EXCEPT ![Current] = e]
                             /\ e.count = stepCount
                             /\ e.outcome # "returned" \/ ~WantsCheckpoint
        <3>1. /\ EndedAs("failed") \in Entry /\ EndedAs("returned") \in Entry
              /\ Counted \in Entry
            BY <2>1, Edits
        <3>2. /\ EndedAs("failed").count = stepCount /\ EndedAs("failed").outcome = "failed"
              /\ EndedAs("returned").count = stepCount
              /\ Counted.count = stepCount /\ Counted.outcome = "open"
            BY DEF EndedAs, Counted
        <3> QED
            BY <1>3, <3>1, <3>2, Synced
    <2>3. /\ \A n \in 1..(Current - 1) : steps'[n] = steps[n]
          /\ steps'[Current] = e /\ Current' = Current
        BY <2>1, <2>2, Edited
    <2>4. ASSUME NEW m \in (newest.at + 1)..row', m % Interval = 0
          PROVE  \E n \in 1..Current : steps'[n].count = m /\ steps'[n].outcome # "returned"
        <3>1. CASE m = row + 1
            <4>1. WantsCheckpoint
                BY <2>1, <2>4, <3>1 DEF WantsCheckpoint, Periodic
            <4> QED
                BY <1>0, <1>a, <2>1, <2>2, <2>3, <3>1, <4>1
        <3>2. CASE m # row + 1
            <4>1. m \in (newest.at + 1)..row
                BY <1>0, <2>1, <3>2
            <4>2. PICK n \in 1..Current : steps[n].count = m /\ steps[n].outcome # "returned"
                BY <2>4, <4>1 DEF PeriodsMissed
            <4>3. n # Current
                BY <1>0, <2>1, <4>1, <4>2
            <4> QED
                BY <1>0, <2>3, <4>2, <4>3
        <3> QED
            BY <3>1, <3>2
    <2> QED
        BY <2>1, <2>3, <2>4 DEF PeriodsMissed
<1>4. CASE Checkpoint
    <2>1. newest'.at = row /\ row' = row
        BY <1>4, Types DEF Checkpoint
    <2> QED
        BY <1>0, <2>1 DEF PeriodsMissed
<1>5. CASE \/ \E c \in Calls : SetToolResult(c)
           \/ \E failed \in BOOLEAN : LeaveStep(failed)
           \/ Crash \/ Resume \/ UNCHANGED vars
    BY <1>5, <1>b DEF SetToolResult, LeaveStep, Crash, Resume, vars
<1>6. CASE NoteCheckpoint
    <2>1. row' = row /\ newest' = newest /\ newest.at = row /\ newest.at \in Nat
        BY <1>0, <1>6, Types DEF NoteCheckpoint, IInv, Begun
    <2> QED
        BY <1>0, <2>1 DEF PeriodsMissed
<1> QED
    BY <1>1, <1>2, <1>3, <1>4, <1>5, <1>6 DEF Next

\* Among as many numbers in a row as a period is long one is a multiple of it.
LEMMA MultipleWithin ==
    ASSUME NEW a \in Nat, NEW k \in Nat, k > 0
    PROVE  \E m \in (a + 1)..(a + k) : m % k = 0
<1> DEFINE q == a \div k
<1>1. q \in Nat /\ a = k * q + (a % k) /\ a % k \in 0..(k - 1)
    BY Z3
<1>2. k * (q + 1) = k * q + k /\ (k * (q + 1)) % k = 0 /\ k * q \in Nat
    BY <1>1, Z3
<1>3. k * (q + 1) \in (a + 1)..(a + k)
    <2> DEFINE p == k * q
               r == a % k
    <2>1. p \in Nat /\ r \in 0..(k - 1) /\ a = p + r /\ k * (q + 1) = p + k
        BY <1>1, <1>2
    <2> HIDE DEF p, r, q
    <2> QED
        BY <2>1
<1> QED
    BY <1>2, <1>3

\* The newest checkpoint is a period old or older only if the step on which a
\* period ended failed or died.
THEOREM PeriodsKept == Spec => []PeriodKept
<1>1. CASE Interval > 0
    <2>1. Init => PeriodsMissed
        BY DEF Init, PeriodsMissed
    <2>2. IInv /\ PeriodsMissed /\ [Next]_vars => PeriodsMissed'
        BY <1>1, NextPeriodsMissed
    <2>3. ASSUME IInv, PeriodsMissed PROVE PeriodKept
        <3> SUFFICES ASSUME row - newest.at >= Interval
                     PROVE  \E n \in DOMAIN steps :
                              /\ steps[n].count > newest.at /\ steps[n].count % Interval = 0
                              /\ steps[n].outcome # "returned"
            BY DEF PeriodKept
        <3>1. newest.at \in Nat /\ row \in Nat /\ Interval \in Nat /\ DOMAIN steps = 1..Current
            BY <2>3, Types, StepsAssumption
        <3>2. PICK m \in (newest.at + 1)..(newest.at + Interval) : m % Interval = 0
            BY <1>1, <3>1, MultipleWithin
        <3>3. m \in (newest.at + 1)..row
            BY <3>1, <3>2
        <3> QED
            BY <2>3, <3>1, <3>2, <3>3 DEF PeriodsMissed
    <2> QED
        BY <2>1, <2>2, <2>3, Invariance, PTL DEF Spec
<1>2. CASE ~(Interval > 0)
    <2>1. PeriodKept
        BY <1>2 DEF PeriodKept
    <2> QED
        BY <2>1, PTL
<1> QED
    BY <1>1, <1>2
Earning == {n \in DOMAIN steps : Earns(n)}
Periods(count) == IF Interval = 0 THEN 0 ELSE count \div Interval
Allowed == Cardinality(Earning) + Periods(row)

\* On its way to a checkpoint a step has earned it, or a period has it free.
OnTheWay == pc = "checkpoint" => taken + 1 <= Allowed

Sparse == taken <= Allowed /\ OnTheWay

LEMMA PeriodsGrow ==
    ASSUME NEW count \in Nat
    PROVE  /\ Periods(count) \in Nat /\ Periods(count + 1) \in Nat
           /\ Periods(count + 1) >= Periods(count)
           /\ Interval > 0 /\ (count + 1) % Interval = 0 =>
                Periods(count + 1) >= Periods(count) + 1
<1>1. CASE Interval = 0
    BY <1>1 DEF Periods
<1>2. CASE Interval # 0
    <2>1. Interval \in Nat /\ Interval > 0
        BY <1>2, StepsAssumption
    <2>2. /\ count \div Interval \in Nat /\ (count + 1) \div Interval \in Nat
          /\ (count + 1) \div Interval >= count \div Interval
        BY <2>1, Z3
    <2>3. (count + 1) % Interval = 0 =>
             (count + 1) \div Interval >= (count \div Interval) + 1
        BY <2>1, Z3
    <2> QED
        BY <1>2, <2>2, <2>3 DEF Periods
<1> QED
    BY <1>1, <1>2

LEMMA EarningFinite ==
    ASSUME IInv
    PROVE  IsFiniteSet(Earning) /\ Cardinality(Earning) \in Nat
<1>1. IsFiniteSet(1..Current)
    BY FS_Interval, Types
<1>2. Earning \subseteq 1..Current
    BY Types DEF Earning
<1> QED
    BY <1>1, <1>2, FS_Subset, FS_CardinalityType

LEMMA EarningFiniteAfter ==
    ASSUME IInv'
    PROVE  IsFiniteSet(Earning') /\ Cardinality(Earning') \in Nat
<1>1. Current' \in Nat /\ DOMAIN steps' = 1..Current'
    BY DEF IInv, Begun, Current
<1>2. IsFiniteSet(1..Current')
    BY <1>1, FS_Interval
<1>3. Earning' \subseteq 1..Current'
    BY <1>1 DEF Earning
<1> QED
    BY <1>2, <1>3, FS_Subset, FS_CardinalityType

\* A step that earned its checkpoint is as good as returned: it may die, but
\* it does not fail any more.
LEMMA EarningGrows ==
    ASSUME IInv, [Next]_vars
    PROVE  Earning \subseteq Earning' /\ Cardinality(Earning) <= Cardinality(Earning')
<1>1. ASSUME NEW n \in Earning PROVE n \in Earning'
    <2>1. /\ n \in 1..Current /\ Earns(n) /\ Current \in Nat /\ Current' \in Nat
          /\ DOMAIN steps' = 1..Current' /\ Current <= Current'
        BY <1>1, Types, NextIInv, NextBegun DEF Earning, IInv, Begun, Current
    <2>2. /\ steps'[n].count = steps[n].count /\ steps'[n].outcome \in {steps[n].outcome, "returned"}
          /\ steps'[n].type = steps[n].type /\ steps'[n].memory = steps[n].memory
        <3>1. CASE steps'[n] = steps[n]
            BY <3>1
        <3>2. CASE InStep /\ n = Current /\ ~UNCHANGED steps
            <4>1. pc \in {"checkpoint", "note"} /\ steps[n].count = stepCount
                BY <2>1, <3>2 DEF Earns, IInv, Begun, InStep
            <4>2. NoteCheckpoint
                BY <3>2, <4>1 DEF Next, vars, BeginStep, SetToolResult, Remember, LeaveStep, Sync,
                                  Checkpoint, Crash, Resume
            <4>3. /\ EndedAs("returned") \in Entry
                  /\ steps' = [steps EXCEPT ![Current] = EndedAs("returned")]
                BY <3>2, <4>2, Edits DEF NoteCheckpoint
            <4>4. steps'[n] = EndedAs("returned")
                BY <3>2, <4>3, Edited
            <4> QED
                BY <3>2, <4>1, <4>4 DEF EndedAs
        <3> QED
            BY <2>1, <3>1, <3>2, NextBegun
    <2>4. ASSUME NEW r \in 1..Len(ledger), ledger[r].step = n, IsEffect(r)
          PROVE  r \in 1..Len(ledger') /\ ledger'[r].step = n /\ IsEffect(r)'
        BY <2>4, LedgerGrows DEF IsEffect
    <2>5. Earns(n)'
        BY <2>1, <2>2, <2>4 DEF Earns
    <2> QED
        BY <2>1, <2>5 DEF Earning
<1>2. IsFiniteSet(Earning')
    BY NextIInv, EarningFiniteAfter
<1> QED
    BY <1>1, <1>2, FS_Subset

\* A step that goes on to its checkpoint for a reason of its own earns it.
LEMMA SyncEarns ==
    ASSUME IInv, Flagged, Sync, pc' = "checkpoint",
           SideEffectBoundary \/ ctx.type = "llm_call" \/ ctx.memory
    PROVE  Cardinality(Earning') >= Cardinality(Earning) + 1
<1>0. [Next]_vars /\ IInv' /\ InStep
    BY NextIInv DEF Next, Sync, InStep
<1>1. /\ Current \in Nat /\ Current # 0 /\ steps[Current].count = 0
      /\ ctx.type = steps[Current].type /\ ctx.memory = steps[Current].memory
      /\ Counted \in Entry /\ steps' = [steps EXCEPT ![Current] = Counted]
      /\ stepCount = row + 1 /\ row \in Nat
    BY <1>0, Types, Edits, Synced DEF IInv, Begun, Sync
<1>2. Current' = Current /\ steps'[Current] = Counted
    BY <1>0, <1>1, Edited
<1>3. /\ steps'[Current].outcome = "open" /\ steps'[Current].type = ctx.type
      /\ steps'[Current].memory = ctx.memory /\ steps'[Current].count > 0
    BY <1>1, <1>2 DEF Counted
<1>4. ledger' = ledger
    BY DEF Sync
<1>5. SideEffectBoundary => /\ ctx.type = "tool_call"
                            /\ \E r \in 1..Len(ledger) : ledger[r].step = Current /\ IsEffect(r)
    BY <1>0 DEF SideEffectBoundary, Flagged
<1>6. \/ steps'[Current].type = "llm_call" \/ steps'[Current].memory
      \/ /\ steps'[Current].type = "tool_call"
         /\ \E r \in 1..Len(ledger') : ledger'[r].step = Current /\ IsEffect(r)'
    <2>1. CASE SideEffectBoundary
        BY <1>3, <1>4, <1>5, <2>1 DEF IsEffect
    <2>2. CASE ctx.type = "llm_call" \/ ctx.memory
        BY <1>3, <2>2
    <2> QED
        BY <2>1, <2>2
<1>7. Current \in Earning'
    <2>1. DOMAIN steps' = 1..Current
        BY <1>0, <1>2, Types DEF IInv, Begun, Current
    <2>2. \A m : m = Current => (m \in Earning' <=> m \in DOMAIN steps' /\ Earns(m)')
        BY DEF Earning
    <2>3. \A m : m = Current => Earns(m)'
        BY <1>3, <1>6 DEF Earns
    <2> QED
        BY <1>1, <2>1, <2>2, <2>3
<1>8. Current \notin Earning
    BY <1>1 DEF Earning, Earns
<1>9. Earning \cup {Current} \subseteq Earning' /\ IsFiniteSet(Earning') /\ IsFiniteSet(Earning)
    BY <1>0, <1>7, EarningGrows, EarningFinite, EarningFiniteAfter
<1>10. Cardinality(Earning \cup {Current}) = Cardinality(Earning) + 1
    BY <1>8, <1>9, FS_AddElement
<1> QED
    BY <1>9, <1>10, FS_Subset

LEMMA NextSparse ==
    ASSUME IInv, Flagged, Sparse, [Next]_vars
    PROVE  Sparse'
<1>0. /\ Cardinality(Earning) \in Nat /\ Cardinality(Earning') \in Nat
      /\ Cardinality(Earning) <= Cardinality(Earning')
      /\ row \in Nat /\ Periods(row) \in Nat /\ taken \in Nat
      /\ Allowed = Cardinality(Earning) + Periods(row)
      /\ Allowed' = Cardinality(Earning') + Periods(row')
    <2>1. Cardinality(Earning') \in Nat
        BY NextIInv, EarningFiniteAfter
    <2>2. Cardinality(Earning) \in Nat /\ Cardinality(Earning) <= Cardinality(Earning')
        BY EarningFinite, EarningGrows
    <2>3. row \in Nat /\ Periods(row) \in Nat /\ taken \in Nat
        BY Types, PeriodsGrow DEF IInv, Begun
    <2>4. /\ Allowed = Cardinality(Earning) + Periods(row)
          /\ Allowed' = Cardinality(Earning') + Periods(row')
        BY DEF Allowed, Periods
    <2> QED
        BY <2>1, <2>2, <2>3, <2>4
<1>1. CASE Sync
    <2>1. /\ InStep /\ stepCount = row + 1 /\ row' = row + 1 /\ taken' = taken
          /\ \/ pc' = "idle"
             \/ WantsCheckpoint /\ pc' = "checkpoint" /\ ctx' = ctx
        BY <1>1, Synced
    <2>2. Allowed <= Allowed' /\ (Periodic => Allowed + 1 <= Allowed')
        BY <1>0, <2>1, PeriodsGrow DEF Periodic
    <2>3. Allowed \in Nat /\ Allowed' \in Nat
        BY <1>0, <2>1, PeriodsGrow
    <2>4. OnTheWay'
        <3> SUFFICES ASSUME pc' = "checkpoint" PROVE taken' + 1 <= Allowed'
            BY DEF OnTheWay
        <3>1. CASE SideEffectBoundary \/ ctx.type = "llm_call" \/ ctx.memory
            <4>1. Cardinality(Earning') >= Cardinality(Earning) + 1
                BY <1>1, <3>1, SyncEarns
            <4>2. Periods(row') \in Nat /\ Periods(row') >= Periods(row)
                BY <1>0, <2>1, PeriodsGrow
            <4> QED
                BY <1>0, <2>1, <4>1, <4>2 DEF Sparse
        <3>2. CASE Periodic
            BY <1>0, <2>1, <2>2, <2>3, <3>2 DEF Sparse
        <3> QED
            BY <2>1, <3>1, <3>2 DEF WantsCheckpoint
    <2> QED
        BY <1>0, <2>1, <2>2, <2>3, <2>4 DEF Sparse
<1>2. CASE Checkpoint
    <2>1. taken' = taken + 1 /\ row' = row /\ pc = "checkpoint" /\ pc' = "note"
        BY <1>2 DEF Checkpoint
    <2> QED
        BY <1>0, <2>1 DEF Sparse, OnTheWay
<1>5. CASE NoteCheckpoint
    <2>1. taken' = taken /\ row' = row /\ pc' = "idle"
        BY <1>5, Types DEF NoteCheckpoint, Ends
    <2> QED
        BY <1>0, <2>1 DEF Sparse, OnTheWay
<1>3. CASE \/ \E type \in StepTypes : BeginStep(type)
           \/ \E c \in Calls : SetToolResult(c)
           \/ \E failed \in BOOLEAN : LeaveStep(failed)
           \/ Remember \/ Crash \/ Resume
    <2>1. taken' = taken /\ row' = row /\ pc' # "checkpoint"
        BY <1>3 DEF BeginStep, SetToolResult, LeaveStep, Remember, Crash, Resume
    <2> QED
        BY <1>0, <2>1 DEF Sparse, OnTheWay
<1>4. CASE UNCHANGED vars
    BY <1>4 DEF vars, Sparse, OnTheWay, Allowed, Earning, Earns, IsEffect
<1> QED
    BY <1>1, <1>2, <1>3, <1>4, <1>5 DEF Next

\* There is at most one checkpoint for each step that earned one and one for
\* each full period, whatever fails, dies and is resumed.
THEOREM CheckpointsAreSparse == Spec => []SparseCheckpoints
<1>1. Init => Flagged /\ Sparse
    <2> SUFFICES ASSUME Init PROVE Flagged /\ Sparse
        OBVIOUS
    <2>1. Flagged /\ OnTheWay /\ taken = 0 /\ row = 0
        BY DEF Init, Flagged, InStep, OnTheWay
    <2>2. Cardinality(Earning) \in Nat /\ Periods(0) \in Nat
        BY InitIInv, EarningFinite, PeriodsGrow
    <2> QED
        BY <2>1, <2>2 DEF Sparse, Allowed
<1>2. IInv /\ Flagged /\ Sparse /\ [Next]_vars => Flagged' /\ Sparse'
    BY NextFlagged, NextSparse
<1>3. Sparse => SparseCheckpoints
    BY DEF Sparse, Allowed, Earning, Periods, SparseCheckpoints
<1> QED
    BY <1>1, <1>2, <1>3, Invariance, PTL DEF Spec

-----------------------------------------------------------------------------
(* What a resume compares.                                                 *)

\* Whatever results and exclusions are committed and whatever the host brings
\* at a resume, a mismatch is reported exactly if they differ at a node that
\* no excluded path leads to.
THEOREM MismatchesAreVisible == Spec => []MismatchIffVisible
<1>1. TypeOK => MismatchIffVisible
    <2> SUFFICES ASSUME TypeOK, NEW t \in DOMAIN newest.state, NEW current \in Values
                 PROVE  LET c == newest.state[t]
                        IN  Mismatch(c.result, c.exclude, current)
                              <=> Visible[c.result][c.exclude] # Visible[current][c.exclude]
        BY DEF MismatchIffVisible
    <2> DEFINE c == newest.state[t]
    <2>1. c.result \in Values /\ c.exclude \in Excludes
        BY DEF TypeOK, Commitments
    <2> HIDE DEF c
    <2>2. Mismatch(c.result, c.exclude, current) <=>
            Stripped[current][c.exclude] # Stripped[c.result][c.exclude]
        BY <2>1 DEF Mismatch, StrippedBy
    <2>3. Stripped[current][c.exclude] = Stripped[c.result][c.exclude] <=>
            Visible[current][c.exclude] = Visible[c.result][c.exclude]
        BY <2>1, StrippedIffVisible
    <2> QED
        BY <2>2, <2>3 DEF c
<1> QED
    BY <1>1, TypeCorrect, PTL
=============================================================================
