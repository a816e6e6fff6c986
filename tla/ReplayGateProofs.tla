-------------------------- MODULE ReplayGateProofs --------------------------
(***************************************************************************)
(* Theorems about ReplayGate, for every set of tools and payloads, any     *)
(* number of handles on the run, and calls that pass the gate or avoid it. *)
(*                                                                         *)
(* What the ledger claims is counted three times by the properties: over   *)
(* all records, over the records of a target, and over those of a target   *)
(* with one payload.  Backed counts for any set W of (target, outbound)    *)
(* pairs at once: the records in W, and the calls in W that have returned  *)
(* and are not recorded yet, are no more than the calls in W that reached  *)
(* a tool.                                                                 *)
(***************************************************************************)
EXTENDS ReplayGate, FiniteSetTheorems, SequenceTheorems, TLAPS

Outbounds == Payloads \cup {NoPayload}

\* A record without a payload may stand for any payload of its target.
Claims == {W \in SUBSET (Targets \X Outbounds) :
              \A t \in Targets : <<t, NoPayload>> \in W => {t} \X Payloads \subseteq W}

\* Claims that tell no payloads apart.
Whole(W) == \A t \in Targets : \A p \in Payloads : <<t, p>> \in W => <<t, NoPayload>> \in W

RowsIn(W) == {i \in 1..Len(ledger) : <<ledger[i].target, ledger[i].outbound>> \in W}
RecordingIn(W) ==
    {h \in Handles : pc[h] = "record" /\ <<call[h].target, Outbound(call[h])>> \in W}
MadeIn(W) == {c \in Made : <<c[1], c[2]>> \in W}

Counted(W) == Cardinality(RowsIn(W)) + Cardinality(RecordingIn(W))

Backed ==
    \A W \in Claims : /\ Counted(W) <= Cardinality(MadeIn(W))
                      /\ ~torn /\ Whole(W) => Counted(W) = Cardinality(MadeIn(W))

RowsOf(t) == {i \in 1..Len(ledger) : ledger[i].target = t}

\* The newest record of a target exists if one does.
HasLatest ==
    \A t \in Targets : RowsOf(t) = {} \/ \E i \in RowsOf(t) : \A j \in RowsOf(t) : j <= i

Domains ==
    /\ ledger \in Seq(Record)
    /\ done \in SUBSET Targets /\ known \in [Handles -> SUBSET Targets]
    /\ pc \in [Handles -> Points] /\ call \in [Handles -> Call]
    /\ effects \in [Targets -> [Payloads -> 0..MaxEffects]]
    /\ torn \in BOOLEAN

PriorRecord ==
    \A h \in Handles : pc[h] \in {"compare", "flag"} => call[h].prior \in 1..Len(ledger)

IInv == Domains /\ HasLatest /\ PriorRecord /\ Calls <= MaxEffects /\ Backed

-----------------------------------------------------------------------------
(* The sets that are counted.                                              *)

LEMMA FirstNumbers ==
    ASSUME NEW n \in Nat
    PROVE  IsFiniteSet(1..n) /\ Cardinality(1..n) = n
<1>1. Cardinality(1..n) = IF 1 > n THEN 0 ELSE n - 1 + 1
    BY FS_Interval
<1> QED
    BY <1>1, FS_Interval

LEMMA SetsFinite ==
    ASSUME Domains, NEW W
    PROVE  /\ IsFiniteSet(Made) /\ Cardinality(Made) \in Nat
           /\ IsFiniteSet(MadeIn(W)) /\ Cardinality(MadeIn(W)) \in Nat
           /\ IsFiniteSet(RowsIn(W)) /\ Cardinality(RowsIn(W)) \in Nat
           /\ IsFiniteSet(RecordingIn(W)) /\ Cardinality(RecordingIn(W)) \in Nat
           /\ Len(ledger) \in Nat
<1>1. IsFiniteSet(Targets \X (Payloads \X (1..MaxEffects)))
    <2>1. IsFiniteSet(1..MaxEffects) /\ IsFiniteSet(Targets) /\ IsFiniteSet(Payloads)
        BY FirstNumbers, GateAssumption
    <2>2. IsFiniteSet(Payloads \X (1..MaxEffects))
        BY <2>1, FS_Product
    <2> QED
        BY <2>1, <2>2, FS_Product
<1>2. IsFiniteSet(Targets \X Payloads \X (1..MaxEffects))
    <2> DEFINE S == Targets \X (Payloads \X (1..MaxEffects))
               T == Targets \X Payloads \X (1..MaxEffects)
               f == [x \in S |-> <<x[1], x[2][1], x[2][2]>>]
    <2>1. f \in Bijection(S, T)
        <3>1. f \in [S -> T]
            OBVIOUS
        <3>2. ASSUME NEW x \in S, NEW y \in S, f[x] = f[y] PROVE x = y
            BY <3>2
        <3>3. ASSUME NEW z \in T PROVE \E x \in S : f[x] = z
            <4>1. <<z[1], <<z[2], z[3]>>>> \in S /\ f[<<z[1], <<z[2], z[3]>>>>] = z
                OBVIOUS
            <4> QED
                BY <4>1
        <3> QED
            BY <3>1, <3>2, <3>3 DEF Bijection, Injection, Surjection, IsInjective
    <2> QED
        BY <1>1, <2>1, FS_Bijection DEF ExistsBijection
<1>3. IsFiniteSet(Made)
    BY <1>2, FS_Subset DEF Made
<1>4. IsFiniteSet(MadeIn(W))
    BY <1>3, FS_Subset DEF MadeIn
<1>5. Len(ledger) \in Nat
    BY DEF Domains
<1>6. IsFiniteSet(RowsIn(W))
    BY <1>5, FirstNumbers, FS_Subset DEF RowsIn
<1>7. IsFiniteSet(RecordingIn(W))
    BY GateAssumption, FS_Subset DEF RecordingIn
<1>8. \A S : IsFiniteSet(S) => Cardinality(S) \in Nat
    BY FS_CardinalityType
<1> QED
    BY <1>3, <1>4, <1>5, <1>6, <1>7, <1>8

LEMMA CallsType == ASSUME IInv PROVE Calls \in Nat /\ MaxEffects \in Nat
BY SetsFinite, GateAssumption DEF IInv, Calls

\* A pair has been made as often as effects says.
LEMMA MadeOfPair ==
    ASSUME Domains, NEW t \in Targets, NEW p \in Payloads
    PROVE  Cardinality(MadeIn({<<t, p>>})) = effects[t][p]
<1>0. effects[t][p] \in 0..MaxEffects /\ MaxEffects \in Nat
    BY GateAssumption DEF Domains
<1> DEFINE S == 1..effects[t][p]
           T == MadeIn({<<t, p>>})
           f == [n \in S |-> <<t, p, n>>]
<1>1. f \in Bijection(S, T)
    <2>1. f \in [S -> T]
        BY <1>0 DEF MadeIn, Made
    <2>2. ASSUME NEW x \in S, NEW y \in S, f[x] = f[y] PROVE x = y
        BY <2>2
    <2>3. ASSUME NEW z \in T PROVE \E n \in S : f[n] = z
        <3>1. z = <<t, p, z[3]>> /\ z[3] \in 1..MaxEffects /\ z[3] <= effects[t][p]
            BY DEF MadeIn, Made
        <3> QED
            BY <1>0, <3>1
    <2> QED
        BY <2>1, <2>2, <2>3 DEF Bijection, Injection, Surjection, IsInjective
<1>2. IsFiniteSet(S) /\ Cardinality(S) = effects[t][p]
    BY <1>0, FirstNumbers
<1> QED
    BY <1>1, <1>2, FS_Bijection DEF ExistsBijection

LEMMA LedgerWithinCalls ==
    ASSUME IInv
    PROVE  /\ Len(ledger) + Cardinality({h \in Handles : pc[h] = "record"}) <= Calls
           /\ Len(ledger) \in 0..MaxEffects
<1> DEFINE W == Targets \X Outbounds
<1>1. W \in Claims
    BY DEF Claims, Outbounds
<1>2. RowsIn(W) = 1..Len(ledger)
    <2>1. ASSUME NEW i \in 1..Len(ledger)
          PROVE  ledger[i].target \in Targets /\ ledger[i].outbound \in Outbounds
        <3>1. ledger[i] \in Record
            BY DEF IInv, Domains
        <3> QED
            BY <3>1 DEF Record, Outbounds
    <2> QED
        BY <2>1 DEF RowsIn
<1>3. RecordingIn(W) = {h \in Handles : pc[h] = "record"}
    BY DEF RecordingIn, Outbound, Outbounds, IInv, Domains, Call
<1>4. MadeIn(W) = Made
    BY DEF MadeIn, Made, Outbounds
<1>5. Cardinality(1..Len(ledger)) = Len(ledger) /\ Len(ledger) \in Nat
    BY FirstNumbers, SetsFinite DEF IInv
<1>6. Counted(W) <= Cardinality(MadeIn(W))
    BY <1>1 DEF IInv, Backed
<1> HIDE DEF W
<1>7. Cardinality(RecordingIn(W)) \in Nat /\ Cardinality(Made) \in Nat
    BY SetsFinite DEF IInv
<1>8. Cardinality(RowsIn(W)) + Cardinality(RecordingIn(W)) <= Calls
    BY <1>4, <1>6 DEF Calls, Counted
<1> QED
    BY <1>2, <1>3, <1>5, <1>7, <1>8, GateAssumption DEF IInv, Calls

\* get_latest_side_effect_for_target returns the newest record of the target.
LEMMA LatestIsNewest ==
    ASSUME Domains, HasLatest, NEW t \in Targets
    PROVE  \/ RowsOf(t) = {} /\ Latest(t) = 0
           \/ Latest(t) \in RowsOf(t) /\ \A j \in RowsOf(t) : j <= Latest(t)
BY DEF HasLatest, RowsOf, Latest

\* The calls in progress that have returned are all in the ledger's bound, so
\* a call that the bound admits is one more for its pair and for no other.
LEMMA OneMoreCall ==
    ASSUME IInv, NEW t \in Targets, NEW p \in Payloads, Calls < MaxEffects,
           effects' = [effects EXCEPT ![t][p] = @ + 1]
    PROVE  /\ effects' \in [Targets -> [Payloads -> 0..MaxEffects]]
           /\ Calls' = Calls + 1
           /\ \A W : Cardinality(MadeIn(W)') =
                     Cardinality(MadeIn(W)) + IF <<t, p>> \in W THEN 1 ELSE 0
<1> DEFINE new == <<t, p, effects[t][p] + 1>>
<1>0. effects[t][p] \in 0..MaxEffects /\ MaxEffects \in Nat /\ Calls \in Nat
    BY SetsFinite, GateAssumption DEF IInv, Domains, Calls
<1>1. effects[t][p] < MaxEffects
    <2>1. Cardinality(MadeIn({<<t, p>>})) <= Calls
        BY SetsFinite, FS_Subset DEF IInv, Calls, MadeIn
    <2> QED
        BY <1>0, <2>1, MadeOfPair DEF IInv
<1>2. effects' \in [Targets -> [Payloads -> 0..MaxEffects]]
    BY <1>0, <1>1 DEF IInv, Domains
<1>3. \A u \in Targets, q \in Payloads :
        effects'[u][q] = IF u = t /\ q = p THEN effects[t][p] + 1 ELSE effects[u][q]
    BY DEF IInv, Domains
<1>4. new \in Targets \X Payloads \X (1..MaxEffects) /\ new \notin Made
    BY <1>0, <1>1 DEF Made
<1>5. ASSUME NEW c \in Targets \X Payloads \X (1..MaxEffects)
      PROVE  c \in Made' <=> c \in Made \cup {new}
    <2>1. /\ c[1] \in Targets /\ c[2] \in Payloads /\ c[3] \in 1..MaxEffects
          /\ c = new <=> c[1] = t /\ c[2] = p /\ c[3] = effects[t][p] + 1
        OBVIOUS
    <2>2. effects[c[1]][c[2]] \in 0..MaxEffects
        BY <2>1 DEF IInv, Domains
    <2>3. /\ c \in Made' <=> c[3] <= effects'[c[1]][c[2]]
          /\ c \in Made <=> c[3] <= effects[c[1]][c[2]]
        BY DEF Made
    <2> HIDE DEF new
    <2> QED
        BY <1>0, <1>3, <2>1, <2>2, <2>3
<1>6. Made' = Made \cup {new}
    BY <1>4, <1>5 DEF Made
<1> HIDE DEF new
<1>7. \A W : MadeIn(W)' = IF <<t, p>> \in W THEN MadeIn(W) \cup {new} ELSE MadeIn(W)
    BY <1>6 DEF MadeIn, new
<1>8. \A W : new \notin MadeIn(W)
    BY <1>4 DEF MadeIn
<1>9. ASSUME NEW W
      PROVE  Cardinality(MadeIn(W)') =
             Cardinality(MadeIn(W)) + IF <<t, p>> \in W THEN 1 ELSE 0
    <2>1. IsFiniteSet(MadeIn(W)) /\ Cardinality(MadeIn(W)) \in Nat
        BY SetsFinite DEF IInv
    <2>2. Cardinality(MadeIn(W) \cup {new}) = Cardinality(MadeIn(W)) + 1
        BY <1>8, <2>1, FS_AddElement
    <2>3. CASE <<t, p>> \in W
        BY <1>7, <2>2, <2>3
    <2>4. CASE <<t, p>> \notin W
        BY <1>7, <2>1, <2>4
    <2> QED
        BY <2>3, <2>4
<1>10. Calls' = Calls + 1
    BY <1>4, <1>6, SetsFinite, FS_AddElement DEF IInv, Calls
<1> QED
    BY <1>2, <1>9, <1>10
-----------------------------------------------------------------------------
(* The steps.                                                              *)

SameRows ==
    /\ Len(ledger') = Len(ledger)
    /\ \A i \in 1..Len(ledger) : /\ ledger'[i].target = ledger[i].target
                                 /\ ledger'[i].outbound = ledger[i].outbound

\* h is the only handle whose place or call may change.
OnlyMoves(h) == \A g \in Handles \ {h} : pc'[g] = pc[g] /\ call'[g] = call[g]

LEMMA InitIInv == Init => IInv
<1> SUFFICES ASSUME Init PROVE IInv
    OBVIOUS
<1>1. NoCall \in Call
    BY GateAssumption DEF NoCall, Call, KindNames
<1>2. Domains
    <2>1. <<>> \in Seq(Record) /\ 0 \in 0..MaxEffects
        BY GateAssumption
    <2> QED
        BY <1>1, <2>1 DEF Init, Domains, Points
<1>3. HasLatest /\ PriorRecord
    BY DEF Init, HasLatest, RowsOf, PriorRecord
<1>4. Made = {}
    <2>1. ASSUME NEW c \in Targets \X Payloads \X (1..MaxEffects) PROVE c \notin Made
        <3>1. c[1] \in Targets /\ c[2] \in Payloads /\ c[3] \in 1..MaxEffects
            OBVIOUS
        <3>2. effects[c[1]][c[2]] = 0
            BY <3>1 DEF Init
        <3> QED
            BY <3>1, <3>2, GateAssumption DEF Made
    <2> QED
        BY <2>1 DEF Made
<1>5. Calls <= MaxEffects
    BY <1>4, FS_EmptySet, GateAssumption DEF Calls
<1>6. ASSUME NEW W PROVE Counted(W) = 0 /\ Cardinality(MadeIn(W)) = 0
    <2>1. RowsIn(W) = {} /\ RecordingIn(W) = {} /\ MadeIn(W) = {}
        BY <1>4 DEF Init, RowsIn, RecordingIn, MadeIn
    <2> QED
        BY <2>1, FS_EmptySet DEF Counted
<1>7. Backed
    BY <1>6 DEF Backed
<1> QED
    BY <1>2, <1>3, <1>5, <1>7 DEF IInv

\* A step that adds no record and no call, and moves no handle into or out of
\* "record", leaves everything that is counted alone.
LEMMA NothingCounted ==
    ASSUME IInv, SameRows, NEW h \in Handles, OnlyMoves(h),
           pc[h] # "record", pc'[h] # "record", effects' = effects, torn' = torn
    PROVE  HasLatest' /\ (Calls <= MaxEffects)' /\ Backed'
<1>1. Made' = Made
    BY DEF Made
<1>2. \A W : RowsIn(W)' = RowsIn(W) /\ MadeIn(W)' = MadeIn(W)
    BY <1>1 DEF RowsIn, MadeIn, SameRows
<1>3. \A W : RecordingIn(W)' = RecordingIn(W)
    BY DEF RecordingIn, OnlyMoves
<1>4. Backed'
    BY <1>2, <1>3 DEF IInv, Backed, Counted
<1>5. \A t : RowsOf(t)' = RowsOf(t)
    BY DEF RowsOf, SameRows
<1> QED
    BY <1>1, <1>4, <1>5 DEF IInv, HasLatest, Calls

\* A handle that leaves "record" without a record leaves less to be counted.
LEMMA CallForgotten ==
    ASSUME IInv, ledger' = ledger, NEW h \in Handles, OnlyMoves(h),
           pc'[h] # "record", effects' = effects, torn' = (torn \/ pc[h] = "record")
    PROVE  HasLatest' /\ (Calls <= MaxEffects)' /\ Backed'
<1>1. CASE pc[h] # "record"
    <2>1. SameRows /\ torn' = torn
        BY <1>1 DEF SameRows, IInv, Domains
    <2> QED
        BY <1>1, <2>1, NothingCounted
<1>2. CASE pc[h] = "record"
    <2>1. Made' = Made /\ torn'
        BY <1>2 DEF Made
    <2>2. \A W : RowsIn(W)' = RowsIn(W) /\ MadeIn(W)' = MadeIn(W)
        BY <2>1 DEF RowsIn, MadeIn
    <2>3. \A W : RecordingIn(W)' \subseteq RecordingIn(W)
        BY DEF RecordingIn, OnlyMoves
    <2>4. ASSUME NEW W PROVE Counted(W)' <= Counted(W) /\ Counted(W)' \in Nat
        <3>1. /\ Cardinality(RowsIn(W)) \in Nat /\ IsFiniteSet(RecordingIn(W))
              /\ Cardinality(RecordingIn(W)) \in Nat
            BY SetsFinite DEF IInv
        <3>2. /\ IsFiniteSet(RecordingIn(W)')
              /\ Cardinality(RecordingIn(W)') <= Cardinality(RecordingIn(W))
            BY <2>3, <3>1, FS_Subset
        <3>3. Cardinality(RecordingIn(W)') \in Nat
            BY <3>2, FS_CardinalityType
        <3> QED
            BY <2>2, <3>1, <3>2, <3>3 DEF Counted
    <2>5. \A W : Counted(W) \in Nat /\ Cardinality(MadeIn(W)) \in Nat
        BY SetsFinite DEF IInv, Counted
    <2>6. Backed'
        <3> SUFFICES ASSUME NEW W \in Claims PROVE Counted(W)' <= Cardinality(MadeIn(W)')
            BY <2>1 DEF Backed
        <3>1. Counted(W) <= Cardinality(MadeIn(W))
            BY DEF IInv, Backed
        <3> QED
            BY <2>2, <2>4, <2>5, <3>1
    <2> QED
        BY <2>1, <2>6 DEF IInv, HasLatest, RowsOf, Calls
<1> QED
    BY <1>1, <1>2

LEMMA InvokeIInv == ASSUME IInv, NEW h \in Handles, Invoke(h) PROVE IInv'
<1> DEFINE c == call[h]
           pair == <<c.target, Outbound(c)>>
<1>0. /\ pc[h] = "invoke" /\ pc' = [pc EXCEPT ![h] = "record"] /\ Calls < MaxEffects
      /\ effects' = [effects EXCEPT ![c.target][c.payload] = @ + 1]
      /\ UNCHANGED <<ledger, done, known, call, torn>>
      /\ c \in Call /\ c.target \in Targets /\ c.payload \in Payloads
      /\ pc \in [Handles -> Points]
    BY DEF Invoke, Goto, Reached, IInv, Domains, Call
<1>1. /\ effects' \in [Targets -> [Payloads -> 0..MaxEffects]]
      /\ Calls' = Calls + 1
      /\ \A W : Cardinality(MadeIn(W)') =
                Cardinality(MadeIn(W)) + IF <<c.target, c.payload>> \in W THEN 1 ELSE 0
    BY <1>0, OneMoreCall
<1>2. \A W : RowsIn(W)' = RowsIn(W)
    BY <1>0 DEF RowsIn
<1>3. \A W : /\ RecordingIn(W)' = RecordingIn(W) \cup (IF pair \in W THEN {h} ELSE {})
             /\ h \notin RecordingIn(W)
    BY <1>0 DEF RecordingIn
<1>4. \A W \in Claims : /\ pair \in W => <<c.target, c.payload>> \in W
                        /\ Whole(W) /\ <<c.target, c.payload>> \in W => pair \in W
    BY <1>0 DEF Claims, Whole, Outbound
<1> HIDE DEF pair, c
<1>5. ASSUME NEW W
      PROVE  /\ Counted(W)' = Counted(W) + IF pair \in W THEN 1 ELSE 0
             /\ Counted(W) \in Nat /\ Cardinality(MadeIn(W)) \in Nat
    <2>1. /\ Cardinality(RowsIn(W)) \in Nat /\ Cardinality(MadeIn(W)) \in Nat
          /\ IsFiniteSet(RecordingIn(W)) /\ Cardinality(RecordingIn(W)) \in Nat
        BY SetsFinite DEF IInv
    <2>2. Cardinality(RecordingIn(W) \cup {h}) = Cardinality(RecordingIn(W)) + 1
        BY <1>3, <2>1, FS_AddElement
    <2>3. Cardinality(RecordingIn(W)') =
          Cardinality(RecordingIn(W)) + IF pair \in W THEN 1 ELSE 0
        <3>1. CASE pair \in W
            BY <1>3, <2>2, <3>1
        <3>2. CASE pair \notin W
            <4>1. RecordingIn(W)' = RecordingIn(W)
                BY <1>3, <3>2
            <4> QED
                BY <2>1, <3>2, <4>1
        <3> QED
            BY <3>1, <3>2
    <2>4. RowsIn(W)' = RowsIn(W)
        BY <1>2
    <2> QED
        BY <2>1, <2>3, <2>4 DEF Counted
<1>6. Backed'
    <2> SUFFICES ASSUME NEW W \in Claims
                 PROVE  /\ Counted(W)' <= Cardinality(MadeIn(W)')
                        /\ ~torn' /\ Whole(W) => Counted(W)' = Cardinality(MadeIn(W)')
        BY DEF Backed, Whole
    <2>1. /\ Counted(W) <= Cardinality(MadeIn(W))
          /\ ~torn /\ Whole(W) => Counted(W) = Cardinality(MadeIn(W))
        BY DEF IInv, Backed
    <2> QED
        BY <1>0, <1>1, <1>4, <1>5, <2>1
<1>7. Domains'
    BY <1>0, <1>1 DEF IInv, Domains, Points
<1>8. PriorRecord' /\ HasLatest'
    BY <1>0 DEF IInv, PriorRecord, HasLatest, RowsOf
<1>9. (Calls <= MaxEffects)'
    BY <1>0, <1>1, CallsType
<1> QED
    BY <1>6, <1>7, <1>8, <1>9 DEF IInv

LEMMA InvokeRaisesIInv == ASSUME IInv, NEW h \in Handles, InvokeRaises(h) PROVE IInv'
<1> DEFINE c == call[h]
<1>0. /\ pc[h] = "invoke" /\ pc' = [pc EXCEPT ![h] = "idle"] /\ OnlyMoves(h)
      /\ UNCHANGED <<ledger, done, known, call>>
      /\ c \in Call /\ c.target \in Targets /\ c.payload \in Payloads
      /\ pc \in [Handles -> Points] /\ SameRows
    BY DEF InvokeRaises, Goto, OnlyMoves, IInv, Domains, Call, SameRows
<1>1. PriorRecord'
    BY <1>0 DEF IInv, PriorRecord
<1>2. CASE effects' = effects /\ torn' = torn
    <2>1. HasLatest' /\ (Calls <= MaxEffects)' /\ Backed'
        BY <1>0, <1>2, NothingCounted
    <2> QED
        BY <1>0, <1>1, <1>2, <2>1 DEF IInv, Domains, Points
<1>3. CASE Calls < MaxEffects /\ effects' = Reached(h) /\ torn' = TRUE
    <2>1. /\ effects' \in [Targets -> [Payloads -> 0..MaxEffects]]
          /\ Calls' = Calls + 1
          /\ \A W : Cardinality(MadeIn(W)') =
                    Cardinality(MadeIn(W)) + IF <<c.target, c.payload>> \in W THEN 1 ELSE 0
        <3>1. effects' = [effects EXCEPT ![c.target][c.payload] = @ + 1]
            BY <1>3 DEF Reached
        <3> QED
            BY <1>0, <1>3, <3>1, OneMoreCall
    <2>2. \A W : RowsIn(W)' = RowsIn(W) /\ RecordingIn(W)' = RecordingIn(W)
        BY <1>0 DEF RowsIn, RecordingIn
    <2>3. \A W : Counted(W) \in Nat /\ Cardinality(MadeIn(W)) \in Nat
        BY SetsFinite DEF IInv, Counted
    <2>4. Backed'
        <3> SUFFICES ASSUME NEW W \in Claims PROVE Counted(W)' <= Cardinality(MadeIn(W)')
            BY <1>3 DEF Backed
        <3>1. Counted(W) <= Cardinality(MadeIn(W))
            BY DEF IInv, Backed
        <3>2. Counted(W)' = Counted(W)
            BY <2>2 DEF Counted
        <3> HIDE DEF c
        <3> QED
            BY <2>1, <2>3, <3>1, <3>2
    <2>5. Domains'
        <3>1. torn' \in BOOLEAN
            BY <1>3
        <3>2. pc' \in [Handles -> Points]
            BY <1>0 DEF Points
        <3>3. UNCHANGED <<ledger, done, known, call>> /\ Domains
            BY <1>0 DEF IInv
        <3>4. effects' \in [Targets -> [Payloads -> 0..MaxEffects]]
            BY <2>1
        <3> QED
            BY <3>1, <3>2, <3>3, <3>4 DEF Domains
    <2>6. HasLatest'
        <3>1. \A t : RowsOf(t)' = RowsOf(t)
            BY <1>0 DEF RowsOf
        <3> QED
            BY <3>1 DEF IInv, HasLatest
    <2>7. (Calls <= MaxEffects)'
        BY <1>3, <2>1, CallsType
    <2> QED
        BY <1>1, <2>4, <2>5, <2>6, <2>7 DEF IInv
<1> QED
    BY <1>2, <1>3 DEF InvokeRaises

LEMMA RecordEffectIInv == ASSUME IInv, NEW h \in Handles, RecordEffect(h) PROVE IInv'
<1> DEFINE c == call[h]
           pair == <<c.target, Outbound(c)>>
           last == Len(ledger) + 1
<1>0. /\ pc[h] = "record" /\ pc' = [pc EXCEPT ![h] = "end_step"]
      /\ ledger' = Append(ledger, NewRecord(c))
      /\ UNCHANGED <<done, known, call, effects, torn>>
      /\ c \in Call /\ c.target \in Targets /\ Outbound(c) \in Outbounds
      /\ pc \in [Handles -> Points] /\ ledger \in Seq(Record)
    BY DEF RecordEffect, Goto, IInv, Domains, Call, Outbound, Outbounds
<1>1. /\ NewRecord(c) \in Record
      /\ NewRecord(c).target = c.target /\ NewRecord(c).outbound = Outbound(c)
    BY <1>0 DEF NewRecord, Record, Outbounds
<1>2. /\ ledger' \in Seq(Record) /\ Len(ledger') = last /\ Len(ledger) \in Nat
      /\ \A i \in 1..Len(ledger) : ledger'[i] = ledger[i]
      /\ ledger'[last] = NewRecord(c)
    BY <1>0, <1>1
<1>3. Made' = Made /\ \A W : MadeIn(W)' = MadeIn(W)
    BY <1>0 DEF Made, MadeIn
<1> HIDE DEF c
<1>4. ASSUME NEW W
      PROVE  RowsIn(W)' = RowsIn(W) \cup (IF pair \in W THEN {last} ELSE {}) /\ last \notin RowsIn(W)
    <2>1. ASSUME NEW i \in 1..last
          PROVE  <<ledger'[i].target, ledger'[i].outbound>> =
                 IF i = last THEN pair ELSE <<ledger[i].target, ledger[i].outbound>>
        BY <1>1, <1>2
    <2>2. 1..last = (1..Len(ledger)) \cup {last} /\ last \notin 1..Len(ledger)
        BY <1>2
    <2> HIDE DEF pair, last
    <2> QED
        BY <1>2, <2>1, <2>2 DEF RowsIn
<1>5. \A W : RecordingIn(W)' = RecordingIn(W) \ {h} /\ (h \in RecordingIn(W) <=> pair \in W)
    BY <1>0 DEF RecordingIn, c
<1> HIDE DEF pair, last
<1>6. ASSUME NEW W PROVE Counted(W)' = Counted(W)
    <2>1. /\ IsFiniteSet(RowsIn(W)) /\ Cardinality(RowsIn(W)) \in Nat
          /\ IsFiniteSet(RecordingIn(W)) /\ Cardinality(RecordingIn(W)) \in Nat
        BY SetsFinite DEF IInv
    <2>2. Cardinality(RowsIn(W) \cup {last}) = Cardinality(RowsIn(W)) + 1
        BY <1>4, <2>1, FS_AddElement
    <2>3. Cardinality(RecordingIn(W) \ {h}) =
          Cardinality(RecordingIn(W)) - IF pair \in W THEN 1 ELSE 0
        <3>1. Cardinality(RecordingIn(W) \ {h}) =
              IF h \in RecordingIn(W) THEN Cardinality(RecordingIn(W)) - 1
                                      ELSE Cardinality(RecordingIn(W))
            BY <2>1, FS_RemoveElement
        <3> QED
            BY <1>5, <2>1, <3>1
    <2>4. Cardinality(RowsIn(W)') = Cardinality(RowsIn(W)) + IF pair \in W THEN 1 ELSE 0
        <3>1. CASE pair \in W
            BY <1>4, <2>2, <3>1
        <3>2. CASE pair \notin W
            <4>1. RowsIn(W)' = RowsIn(W)
                BY <1>4, <3>2
            <4> QED
                BY <2>1, <3>2, <4>1
        <3> QED
            BY <3>1, <3>2
    <2>5. RecordingIn(W)' = RecordingIn(W) \ {h}
        BY <1>5
    <2> QED
        BY <2>1, <2>3, <2>4, <2>5 DEF Counted
<1>7. Backed'
    BY <1>0, <1>3, <1>6 DEF IInv, Backed
<1>8. HasLatest'
    <2>1. \A t : RowsOf(t)' = RowsOf(t) \cup IF t = c.target THEN {last} ELSE {}
        <3>1. ASSUME NEW i \in 1..last
              PROVE  ledger'[i].target = IF i = last THEN c.target ELSE ledger[i].target
            BY <1>1, <1>2 DEF last
        <3>2. 1..last = (1..Len(ledger)) \cup {last} /\ last \notin 1..Len(ledger)
            BY <1>2 DEF last
        <3> QED
            BY <1>2, <3>1, <3>2 DEF RowsOf
    <2>2. \A t : \A i \in RowsOf(t) : i <= last
        BY <1>2 DEF RowsOf, last
    <2> SUFFICES ASSUME NEW t \in Targets
                 PROVE  RowsOf(t)' = {} \/ \E i \in RowsOf(t)' : \A j \in RowsOf(t)' : j <= i
        BY DEF HasLatest
    <2>3. CASE t = c.target
        <3>1. last \in RowsOf(t)' /\ last <= last
            BY <1>2, <2>1, <2>3 DEF last
        <3> QED
            BY <2>1, <2>2, <3>1
    <2>4. CASE t # c.target
        <3>1. RowsOf(t)' = RowsOf(t)
            BY <2>1, <2>4
        <3> QED
            BY <3>1 DEF IInv, HasLatest
    <2> QED
        BY <2>3, <2>4
<1>9. Domains' /\ PriorRecord' /\ (Calls <= MaxEffects)'
    <2>1. Domains'
        BY <1>0, <1>2 DEF IInv, Domains, Points
    <2>2. PriorRecord'
        BY <1>0, <1>2 DEF IInv, PriorRecord, last
    <2> QED
        BY <1>3, <2>1, <2>2 DEF IInv, Calls
<1> QED
    BY <1>7, <1>8, <1>9 DEF IInv

\* Open, Begin, and the steps of the gate and of the end of a step: they count
\* nothing.
LEMMA UncountedIInv ==
    ASSUME IInv, NEW h \in Handles, OnlyMoves(h),
           pc[h] # "record", pc'[h] \in Points \ {"record"}, UNCHANGED <<ledger, effects, torn>>,
           pc' \in [Handles -> Points], call' \in [Handles -> Call],
           done' \in SUBSET Targets, known' \in [Handles -> SUBSET Targets],
           pc'[h] \in {"compare", "flag"} => call'[h].prior \in 1..Len(ledger)
    PROVE  IInv'
<1>1. SameRows
    BY DEF SameRows
<1>2. HasLatest' /\ (Calls <= MaxEffects)' /\ Backed'
    BY <1>1, NothingCounted
<1>3. Domains' /\ PriorRecord'
    BY DEF IInv, Domains, PriorRecord, OnlyMoves
<1> QED
    BY <1>2, <1>3 DEF IInv

LEMMA HostIInv ==
    ASSUME IInv, NEW h \in Handles,
           \/ Open(h) \/ EndStep(h) \/ CompleteStep(h) \/ LeaveStep(h) \/ CompareOutbound(h)
           \/ \E t \in Targets, p \in Payloads, kind \in Kinds : Begin(h, t, p, kind)
    PROVE  IInv'
<1>0. /\ pc \in [Handles -> Points] /\ call \in [Handles -> Call]
      /\ done \in SUBSET Targets /\ known \in [Handles -> SUBSET Targets]
    BY DEF IInv, Domains
<1>1. CASE Open(h)
    <2>1. OnlyMoves(h) /\ pc'[h] = "idle" /\ pc' \in [Handles -> Points]
        BY <1>0, <1>1 DEF Open, Goto, OnlyMoves, Points
    <2> QED
        BY <1>0, <1>1, <2>1, UncountedIInv DEF Open, Goto, Points
<1>2. CASE EndStep(h)
    <2>1. OnlyMoves(h) /\ pc'[h] = "returned" /\ pc' \in [Handles -> Points]
        BY <1>0, <1>2 DEF EndStep, Goto, OnlyMoves, Points
    <2>2. done' \in SUBSET Targets
        BY <1>0, <1>2 DEF EndStep
    <2> QED
        BY <1>0, <1>2, <2>1, <2>2, UncountedIInv DEF EndStep, Goto, Points
<1>3. CASE CompleteStep(h)
    <2>1. OnlyMoves(h) /\ pc'[h] = "idle" /\ pc' \in [Handles -> Points]
        BY <1>0, <1>3 DEF CompleteStep, Goto, OnlyMoves, Points
    <2>2. known' \in [Handles -> SUBSET Targets] /\ done' \in SUBSET Targets
        BY <1>0, <1>3 DEF CompleteStep, Call
    <2> QED
        BY <1>0, <1>3, <2>1, <2>2, UncountedIInv DEF CompleteStep, Goto, Points
<1>4. CASE LeaveStep(h)
    <2>1. OnlyMoves(h) /\ pc'[h] = "idle" /\ pc' \in [Handles -> Points]
        BY <1>0, <1>4 DEF LeaveStep, Goto, OnlyMoves, Points
    <2> QED
        BY <1>0, <1>4, <2>1, UncountedIInv DEF LeaveStep, Goto, Points
<1>5. CASE CompareOutbound(h)
    <2>1. /\ OnlyMoves(h) /\ pc[h] = "compare" /\ pc'[h] \in {"flag", "invoke"}
          /\ pc' \in [Handles -> Points]
        BY <1>0, <1>5 DEF CompareOutbound, Goto, OnlyMoves, Points
    <2>2. call'[h].prior \in 1..Len(ledger)
        BY <1>5, <2>1 DEF CompareOutbound, IInv, PriorRecord
    <2> QED
        BY <1>0, <1>5, <2>1, <2>2, UncountedIInv DEF CompareOutbound, Points
<1>6. CASE \E t \in Targets, p \in Payloads, kind \in Kinds : Begin(h, t, p, kind)
    <2>1. PICK t \in Targets, p \in Payloads, kind \in Kinds : Begin(h, t, p, kind)
        BY <1>6
    <2>2. /\ OnlyMoves(h) /\ pc[h] = "idle" /\ pc'[h] \in {"permit", "invoke"}
          /\ pc' \in [Handles -> Points]
        BY <1>0, <2>1 DEF Begin, Goto, OnlyMoves, Points
    <2>3. call' \in [Handles -> Call]
        BY <1>0, <2>1, GateAssumption DEF Begin, Call
    <2> QED
        BY <1>0, <2>1, <2>2, <2>3, UncountedIInv DEF Begin, Points
<1> QED
    BY <1>1, <1>2, <1>3, <1>4, <1>5, <1>6

LEMMA PermitReplayIInv == ASSUME IInv, NEW h \in Handles, PermitReplay(h) PROVE IInv'
<1> DEFINE t == call[h].target
<1>0. /\ pc \in [Handles -> Points] /\ call \in [Handles -> Call]
      /\ ledger \in Seq(Record) /\ t \in Targets
    BY DEF IInv, Domains, Call
<1>1. /\ OnlyMoves(h) /\ pc[h] = "permit" /\ pc' \in [Handles -> Points]
      /\ pc'[h] = IF LatestHash(t) = NoPayload THEN "invoke" ELSE "compare"
    BY <1>0 DEF PermitReplay, Goto, OnlyMoves, Points
<1>2. Latest(t) \in 0..Len(ledger) /\ Latest(t) \in 0..MaxEffects
    <2>1. Len(ledger) \in 0..MaxEffects /\ MaxEffects \in Nat
        BY LedgerWithinCalls, GateAssumption
    <2>2. Latest(t) \in RowsOf(t) \/ Latest(t) = 0
        BY <1>0, LatestIsNewest DEF IInv
    <2> HIDE DEF t
    <2> QED
        BY <2>1, <2>2 DEF RowsOf
<1>3. LatestHash(t) # NoPayload => Latest(t) \in 1..Len(ledger)
    BY <1>2, LedgerWithinCalls DEF LatestHash
<1>4. call' = [call EXCEPT ![h].prior = Latest(t)]
    BY DEF PermitReplay
<1> HIDE DEF t
<1>5. call' \in [Handles -> Call] /\ call'[h].prior = Latest(t)
    BY <1>0, <1>2, <1>4 DEF Call
<1>6. /\ done' \in SUBSET Targets /\ known' \in [Handles -> SUBSET Targets]
      /\ UNCHANGED <<ledger, effects, torn>>
    BY DEF PermitReplay, IInv, Domains
<1> QED
    BY <1>1, <1>3, <1>5, <1>6, UncountedIInv DEF Points

\* A divergence changes one flag of one record.
LEMMA FlaggedRows ==
    ASSUME IInv, NEW h \in Handles, FlagDivergence(h)
    PROVE  SameRows /\ ledger' \in Seq(Record)
<1> DEFINE k == call[h].prior
           r == [ledger[k] EXCEPT !.permitted = FALSE]
<1>0. ledger \in Seq(Record) /\ k \in 1..Len(ledger) /\ ledger' = [ledger EXCEPT ![k] = r]
    BY DEF FlagDivergence, Goto, IInv, Domains, PriorRecord
<1>1. ledger[k] \in Record
    BY <1>0
<1>2. r \in Record /\ r.target = ledger[k].target /\ r.outbound = ledger[k].outbound
    BY <1>1 DEF Record
<1> HIDE DEF k, r
<1>3. /\ ledger' \in Seq(Record) /\ Len(ledger') = Len(ledger)
      /\ \A j \in 1..Len(ledger) : ledger'[j] = IF j = k THEN r ELSE ledger[j]
    BY <1>0, <1>2, ExceptSeq
<1> QED
    BY <1>2, <1>3 DEF SameRows

LEMMA FlagDivergenceIInv == ASSUME IInv, NEW h \in Handles, FlagDivergence(h) PROVE IInv'
<1>1. /\ pc[h] = "flag" /\ pc' = [pc EXCEPT ![h] = "idle"] /\ OnlyMoves(h)
      /\ UNCHANGED <<done, known, call, effects, torn>> /\ pc \in [Handles -> Points]
    BY DEF FlagDivergence, Goto, OnlyMoves, IInv, Domains
<1>2. SameRows /\ ledger' \in Seq(Record)
    BY FlaggedRows
<1>3. pc' \in [Handles -> Points] /\ pc'[h] = "idle"
    BY <1>1 DEF Points
<1>4. HasLatest' /\ (Calls <= MaxEffects)' /\ Backed'
    BY <1>1, <1>2, <1>3, NothingCounted
<1>5. Domains' /\ PriorRecord'
    BY <1>1, <1>2, <1>3 DEF IInv, Domains, PriorRecord, SameRows
<1> QED
    BY <1>4, <1>5 DEF IInv

LEMMA CrashIInv == ASSUME IInv, NEW h \in Handles, Crash(h) PROVE IInv'
<1>1. /\ ledger' = ledger /\ OnlyMoves(h) /\ pc'[h] = "down" /\ effects' = effects
      /\ torn' = (torn \/ pc[h] = "record")
    BY DEF Crash, OnlyMoves, IInv, Domains
<1>2. HasLatest' /\ (Calls <= MaxEffects)' /\ Backed'
    BY <1>1, CallForgotten
<1>3. NoCall \in Call
    BY GateAssumption DEF NoCall, Call, KindNames
<1>4. torn' \in BOOLEAN
    BY DEF Crash, IInv, Domains
<1>5. /\ pc' \in [Handles -> Points] /\ call' \in [Handles -> Call]
      /\ known' \in [Handles -> SUBSET Targets] /\ done' = done
    BY <1>3 DEF Crash, IInv, Domains, Points
<1>6. Domains'
    BY <1>1, <1>4, <1>5 DEF IInv, Domains
<1>7. PriorRecord'
    BY <1>1 DEF IInv, PriorRecord, OnlyMoves
<1> QED
    BY <1>2, <1>6, <1>7 DEF IInv

LEMMA NextIInv == IInv /\ [Next]_vars => IInv'
<1> SUFFICES ASSUME IInv, [Next]_vars PROVE IInv'
    OBVIOUS
<1>1. CASE UNCHANGED vars
    <2>1. Made' = Made
        BY <1>1 DEF vars, Made
    <2>2. \A W : RowsIn(W)' = RowsIn(W) /\ RecordingIn(W)' = RecordingIn(W) /\ MadeIn(W)' = MadeIn(W)
        BY <1>1, <2>1 DEF vars, RowsIn, RecordingIn, MadeIn
    <2> QED
        BY <1>1, <2>1, <2>2
        DEF vars, IInv, Domains, HasLatest, RowsOf, PriorRecord, Calls, Backed, Counted
<1>2. CASE Next
    BY <1>2, HostIInv, PermitReplayIInv, FlagDivergenceIInv, InvokeIInv, InvokeRaisesIInv,
       RecordEffectIInv, CrashIInv DEF Next
<1> QED
    BY <1>1, <1>2

LEMMA Invariance == Spec => []IInv
BY InitIInv, NextIInv, PTL DEF Spec

-----------------------------------------------------------------------------

\* Every variable stays in its domain for any number of handles, the record a
\* flagged call points to exists, and the ledger stays within the calls made.
THEOREM TypeCorrect == Spec => []TypeOK
<1>1. IInv => TypeOK
    BY LedgerWithinCalls DEF IInv, Domains, PriorRecord, TypeOK
<1> QED
    BY <1>1, Invariance, PTL

LEMMA CountsOfTarget ==
    ASSUME Domains, NEW t \in Targets
    PROVE  \E W \in Claims : /\ Whole(W) /\ RowsIn(W) = RowsOf(t)
                             /\ RecordingIn(W) = {h \in Handles : pc[h] = "record" /\ call[h].target = t}
                             /\ MadeIn(W) = {c \in Made : c[1] = t}
<1> DEFINE W == {t} \X Outbounds
<1>1. W \in Claims /\ Whole(W)
    BY DEF Claims, Whole, Outbounds
<1>2. \A i \in 1..Len(ledger) : ledger[i].outbound \in Outbounds
    <2> SUFFICES ASSUME NEW i \in 1..Len(ledger) PROVE ledger[i].outbound \in Outbounds
        OBVIOUS
    <2>1. ledger[i] \in Record
        BY DEF Domains
    <2> QED
        BY <2>1 DEF Record, Outbounds
<1>3. \A h \in Handles : Outbound(call[h]) \in Outbounds
    BY DEF Domains, Call, Outbound, Outbounds
<1>4. \A c \in Made : c[2] \in Outbounds
    BY DEF Made, Outbounds
<1>5. RowsIn(W) = RowsOf(t)
    BY <1>2 DEF RowsIn, RowsOf
<1>6. RecordingIn(W) = {h \in Handles : pc[h] = "record" /\ call[h].target = t}
    BY <1>3 DEF RecordingIn
<1>7. MadeIn(W) = {c \in Made : c[1] = t}
    BY <1>4 DEF MadeIn
<1> QED
    BY <1>1, <1>5, <1>6, <1>7

\* The ledger claims no call that did not reach the tool, of a target and of
\* any payload, whatever raised or crashed and however handles interleave.
THEOREM LedgerIsTrue == Spec => []LedgerTruth
<1>1. ASSUME IInv, NEW t \in Targets PROVE RecordsOf(t) <= EffectsOf(t)
    <2>1. PICK W \in Claims : RowsIn(W) = RowsOf(t) /\ MadeIn(W) = {c \in Made : c[1] = t}
        BY <1>1, CountsOfTarget DEF IInv
    <2>2. Counted(W) <= Cardinality(MadeIn(W))
        BY <1>1 DEF IInv, Backed
    <2>3. /\ Cardinality(RowsIn(W)) \in Nat /\ Cardinality(RecordingIn(W)) \in Nat
          /\ Cardinality(MadeIn(W)) \in Nat
        BY <1>1, SetsFinite DEF IInv
    <2>4. RecordsOf(t) = Cardinality(RowsIn(W)) /\ EffectsOf(t) = Cardinality(MadeIn(W))
        BY <2>1 DEF RecordsOf, RowsOf, EffectsOf
    <2> QED
        BY <2>2, <2>3, <2>4 DEF Counted
<1>2. ASSUME IInv, NEW t \in Targets, NEW p \in Payloads PROVE Records(t, p) <= effects[t][p]
    <2> DEFINE W == {<<t, p>>}
    <2>1. W \in Claims
        BY GateAssumption DEF Claims, Outbounds
    <2>2. Counted(W) <= Cardinality(MadeIn(W))
        BY <1>2, <2>1 DEF IInv, Backed
    <2>3. Cardinality(RowsIn(W)) \in Nat /\ Cardinality(RecordingIn(W)) \in Nat
        BY <1>2, SetsFinite DEF IInv
    <2>4. Cardinality(MadeIn(W)) = effects[t][p] /\ effects[t][p] \in Nat
        BY <1>2, MadeOfPair, GateAssumption DEF IInv, Domains
    <2>5. RowsIn(W) = {i \in 1..Len(ledger) : ledger[i].target = t /\ ledger[i].outbound = p}
        BY DEF RowsIn
    <2> HIDE DEF W
    <2> QED
        BY <2>2, <2>3, <2>4, <2>5 DEF Counted, Records
<1>3. IInv => LedgerTruth
    BY <1>1, <1>2 DEF LedgerTruth
<1> QED
    BY <1>3, Invariance, PTL

\* As long as no call ended between its effect and its record, the ledger and
\* the calls that are about to be recorded are all that reached the tools.
THEOREM LedgerIsComplete == Spec => []LedgerComplete
<1>1. ASSUME IInv, ~torn, NEW t \in Targets
      PROVE  EffectsOf(t) = RecordsOf(t)
                + Cardinality({h \in Handles : pc[h] = "record" /\ call[h].target = t})
    <2>1. PICK W \in Claims : /\ Whole(W) /\ RowsIn(W) = RowsOf(t)
                              /\ RecordingIn(W) = {h \in Handles : pc[h] = "record" /\ call[h].target = t}
                              /\ MadeIn(W) = {c \in Made : c[1] = t}
        BY <1>1, CountsOfTarget DEF IInv
    <2>2. Counted(W) = Cardinality(MadeIn(W))
        BY <1>1, <2>1 DEF IInv, Backed
    <2>3. RecordsOf(t) = Cardinality(RowsIn(W)) /\ EffectsOf(t) = Cardinality(MadeIn(W))
        BY <2>1 DEF RecordsOf, RowsOf, EffectsOf
    <2> QED
        BY <2>1, <2>2, <2>3 DEF Counted
<1>2. IInv => LedgerComplete
    BY <1>1 DEF LedgerComplete
<1> QED
    BY <1>2, Invariance, PTL
-----------------------------------------------------------------------------
(* One handle at a time.                                                   *)

Alone == \A g, h \in Handles : g = h

\* One handle holds the run: what it knows is what the newest checkpoint says,
\* and it calls the tool of no step that is completed.
KnownIsDone ==
    \A h \in Handles : pc[h] # "down" =>
        /\ known[h] = done
        /\ pc[h] # "idle" => call[h].target \notin done

\* All records of a target carry the payload of the call that is about to be
\* made or recorded, if there is one.
AllGated ==
    /\ \A h \in Handles : pc[h] \notin {"down", "idle"} => call[h].kind = "gated"
    /\ \A i \in 1..Len(ledger) : ledger[i].outbound \in Payloads
OnePayload ==
    /\ \A i, j \in 1..Len(ledger) :
          ledger[i].target = ledger[j].target => ledger[i].outbound = ledger[j].outbound
    /\ \A h \in Handles : pc[h] \in {"invoke", "record"} =>
          \A i \in RowsOf(call[h].target) : ledger[i].outbound = call[h].payload

LEMMA NextKnownIsDone == Alone /\ IInv /\ KnownIsDone /\ [Next]_vars => KnownIsDone'
<1> SUFFICES ASSUME Alone, IInv, KnownIsDone, [Next]_vars PROVE KnownIsDone'
    OBVIOUS
<1>0. /\ pc \in [Handles -> Points] /\ call \in [Handles -> Call]
      /\ done \in SUBSET Targets /\ known \in [Handles -> SUBSET Targets]
    BY DEF IInv, Domains
<1>1. CASE UNCHANGED vars
    BY <1>1 DEF vars, KnownIsDone
<1> SUFFICES ASSUME NEW h \in Handles,
                    \/ Open(h) \/ PermitReplay(h) \/ CompareOutbound(h) \/ FlagDivergence(h)
                    \/ Invoke(h) \/ InvokeRaises(h) \/ RecordEffect(h) \/ EndStep(h)
                    \/ CompleteStep(h) \/ LeaveStep(h) \/ Crash(h)
                    \/ \E t \in Targets, p \in Payloads, kind \in Kinds : Begin(h, t, p, kind)
             PROVE  KnownIsDone'
    BY <1>1 DEF Next
<1>2. CASE Open(h)
    BY <1>0, <1>2 DEF Open, Goto, Alone, KnownIsDone
<1>3. CASE PermitReplay(h)
    <2>1. /\ known' = known /\ done' = done /\ pc[h] = "permit"
          /\ call'[h].target = call[h].target
        BY <1>0, <1>3 DEF PermitReplay, Goto, Call
    <2> QED
        BY <1>0, <2>1 DEF Alone, KnownIsDone
<1>4. CASE CompareOutbound(h) \/ FlagDivergence(h) \/ Invoke(h) \/ InvokeRaises(h)
           \/ RecordEffect(h) \/ LeaveStep(h)
    <2>1. /\ known' = known /\ done' = done /\ call' = call
          /\ pc[h] \notin {"down", "idle"}
        BY <1>0, <1>4 DEF CompareOutbound, FlagDivergence, Invoke, InvokeRaises, RecordEffect,
                          LeaveStep, Goto
    <2> QED
        BY <1>0, <2>1 DEF Alone, KnownIsDone
<1>5. CASE EndStep(h)
    <2>1. /\ known' = known /\ done' \in {known[h], done} /\ call' = call /\ pc[h] = "end_step"
        BY <1>5 DEF EndStep, Goto
    <2> QED
        BY <1>0, <2>1 DEF Alone, KnownIsDone
<1>6. CASE CompleteStep(h)
    BY <1>0, <1>6 DEF CompleteStep, Goto, Alone, KnownIsDone
<1>7. CASE Crash(h)
    BY <1>0, <1>7 DEF Crash, Alone, KnownIsDone
<1>8. CASE \E t \in Targets, p \in Payloads, kind \in Kinds : Begin(h, t, p, kind)
    BY <1>0, <1>8 DEF Begin, Goto, Alone, KnownIsDone
<1> QED
    BY <1>2, <1>3, <1>4, <1>5, <1>6, <1>7, <1>8

\* With one handle at a time, however its calls are passed to tool(), the tool
\* of a step that a checkpoint has as completed is not called again.
THEOREM CompletedStepsStay == Alone => (Spec => CompletedNotRedone)
<1> SUFFICES ASSUME Alone PROVE Spec => CompletedNotRedone
    OBVIOUS
<1>1. Init => KnownIsDone
    BY DEF Init, KnownIsDone
<1>2. IInv /\ KnownIsDone /\ [Next]_vars => KnownIsDone'
    BY NextKnownIsDone
<1>3. IInv /\ KnownIsDone /\ [Next]_vars => [\A t \in done : effects'[t] = effects[t]]_vars
    <2> SUFFICES ASSUME IInv, KnownIsDone, [Next]_vars
                 PROVE  [\A t \in done : effects'[t] = effects[t]]_vars
        OBVIOUS
    <2>1. CASE effects' = effects
        BY <2>1
    <2>2. ASSUME NEW h \in Handles, Invoke(h) \/ InvokeRaises(h), effects' = Reached(h)
          PROVE  \A t \in done : effects'[t] = effects[t]
        <3>1. call[h].target \notin done
            BY <2>2 DEF Invoke, InvokeRaises, Goto, KnownIsDone
        <3> QED
            BY <2>2, <3>1 DEF Reached, IInv, Domains
    <2>3. CASE UNCHANGED vars
        BY <2>3 DEF vars
    <2>4. CASE Next
        <3>1. effects' = effects \/ \E h \in Handles : (Invoke(h) \/ InvokeRaises(h)) /\ effects' = Reached(h)
            BY <2>4 DEF Next, Open, PermitReplay, CompareOutbound, FlagDivergence, Invoke,
                InvokeRaises, RecordEffect, EndStep, CompleteStep, LeaveStep, Crash, Begin
        <3> QED
            BY <2>1, <2>2, <3>1
    <2> QED
        BY <2>3, <2>4
<1> QED
    BY <1>1, <1>2, <1>3, Invariance, PTL DEF Spec, CompletedNotRedone

LEMMA NextAllGated ==
    ASSUME Kinds = {"gated"}, IInv, AllGated, [Next]_vars PROVE AllGated'
<1>0. /\ pc \in [Handles -> Points] /\ call \in [Handles -> Call] /\ ledger \in Seq(Record)
    BY DEF IInv, Domains
<1>1. CASE UNCHANGED vars
    BY <1>1 DEF vars, AllGated
<1> SUFFICES ASSUME NEW h \in Handles,
                    \/ Open(h) \/ PermitReplay(h) \/ CompareOutbound(h) \/ FlagDivergence(h)
                    \/ Invoke(h) \/ InvokeRaises(h) \/ RecordEffect(h) \/ EndStep(h)
                    \/ CompleteStep(h) \/ LeaveStep(h) \/ Crash(h)
                    \/ \E t \in Targets, p \in Payloads, kind \in Kinds : Begin(h, t, p, kind)
             PROVE  AllGated'
    BY <1>1 DEF Next
<1>2. CASE Open(h) \/ CompareOutbound(h) \/ Invoke(h) \/ InvokeRaises(h) \/ EndStep(h)
           \/ CompleteStep(h) \/ LeaveStep(h)
    BY <1>0, <1>2 DEF Open, CompareOutbound, Invoke, InvokeRaises, EndStep, CompleteStep,
                      LeaveStep, Goto, AllGated
<1>3. CASE PermitReplay(h)
    <2>1. ledger' = ledger /\ \A g \in Handles : call'[g].kind = call[g].kind
        BY <1>0, <1>3 DEF PermitReplay, Call
    <2> QED
        BY <1>0, <1>3, <2>1 DEF PermitReplay, Goto, AllGated
<1>4. CASE FlagDivergence(h)
    <2>1. SameRows
        BY <1>4, FlaggedRows DEF IInv
    <2> QED
        BY <1>0, <1>4, <2>1 DEF SameRows, FlagDivergence, Goto, AllGated
<1>5. CASE RecordEffect(h)
    <2>1. call[h].kind = "gated" /\ call[h].payload \in Payloads
        BY <1>0, <1>5 DEF RecordEffect, Goto, AllGated, Call
    <2>2. NewRecord(call[h]) \in Record /\ NewRecord(call[h]).outbound = call[h].payload
        BY <1>0, <2>1 DEF NewRecord, Outbound, Record, Call
    <2> HIDE DEF NewRecord
    <2> QED
        BY <1>0, <1>5, <2>1, <2>2 DEF RecordEffect, Goto, AllGated
<1>6. CASE Crash(h)
    BY <1>0, <1>6 DEF Crash, AllGated
<1>7. CASE \E t \in Targets, p \in Payloads, kind \in Kinds : Begin(h, t, p, kind)
    BY <1>0, <1>7 DEF Begin, Goto, AllGated
<1> QED
    BY <1>2, <1>3, <1>4, <1>5, <1>6, <1>7

\* The hash the gate reads is that of all records of the target, or there are
\* none.
LEMMA GateReads ==
    ASSUME IInv, AllGated, OnePayload, NEW t \in Targets
    PROVE  IF LatestHash(t) = NoPayload THEN RowsOf(t) = {}
           ELSE \A i \in RowsOf(t) : ledger[i].outbound = LatestHash(t)
<1>1. CASE RowsOf(t) = {}
    BY <1>1
<1>2. CASE RowsOf(t) # {}
    <2>1. Latest(t) \in RowsOf(t)
        BY <1>2, LatestIsNewest DEF IInv
    <2>2. Latest(t) \in 1..Len(ledger) /\ ledger[Latest(t)].target = t
        BY <2>1 DEF RowsOf
    <2>3. LatestHash(t) = ledger[Latest(t)].outbound /\ LatestHash(t) # NoPayload
        BY <2>2, GateAssumption DEF LatestHash, AllGated
    <2> QED
        BY <2>2, <2>3 DEF OnePayload, RowsOf
<1> QED
    BY <1>1, <1>2

LEMMA NextOnePayload ==
    ASSUME Alone, Kinds = {"gated"}, IInv, AllGated, OnePayload, [Next]_vars PROVE OnePayload'
<1>0. /\ pc \in [Handles -> Points] /\ call \in [Handles -> Call] /\ ledger \in Seq(Record)
    BY DEF IInv, Domains
<1>1. CASE UNCHANGED vars
    BY <1>1 DEF vars, OnePayload, RowsOf
<1> SUFFICES ASSUME NEW h \in Handles,
                    \/ Open(h) \/ PermitReplay(h) \/ CompareOutbound(h) \/ FlagDivergence(h)
                    \/ Invoke(h) \/ InvokeRaises(h) \/ RecordEffect(h) \/ EndStep(h)
                    \/ CompleteStep(h) \/ LeaveStep(h) \/ Crash(h)
                    \/ \E t \in Targets, p \in Payloads, kind \in Kinds : Begin(h, t, p, kind)
             PROVE  OnePayload'
    BY <1>1 DEF Next
<1> DEFINE t == call[h].target
           Agreed == \A i \in RowsOf(t) : ledger[i].outbound = call[h].payload
<1>2. t \in Targets
    BY <1>0 DEF Call
<1>3. \A g \in Handles : g = h
    BY DEF Alone
<1>4. ASSUME ledger' = ledger, pc'[h] \notin {"invoke", "record"} PROVE OnePayload'
    BY <1>3, <1>4 DEF OnePayload
<1>5. CASE \/ Open(h) \/ InvokeRaises(h) \/ EndStep(h) \/ CompleteStep(h) \/ LeaveStep(h)
           \/ Crash(h) \/ \E u \in Targets, p \in Payloads, kind \in Kinds : Begin(h, u, p, kind)
    <2>1. ledger' = ledger /\ pc'[h] \notin {"invoke", "record"}
        BY <1>0, <1>5 DEF Open, InvokeRaises, EndStep, CompleteStep, LeaveStep, Crash, Begin,
                          Goto, Gated
    <2> QED
        BY <1>4, <2>1
<1>6. ASSUME ledger' = ledger, call'[h].target = t, call'[h].payload = call[h].payload, Agreed
      PROVE  OnePayload'
    <2>1. RowsOf(t)' = {i \in 1..Len(ledger) : ledger[i].target = t}
        BY <1>6 DEF RowsOf
    <2> QED
        BY <1>3, <1>6 DEF OnePayload, RowsOf
<1>7. CASE PermitReplay(h)
    <2>1. /\ ledger' = ledger /\ call'[h].target = t /\ call'[h].payload = call[h].payload
          /\ pc'[h] = IF LatestHash(t) = NoPayload THEN "invoke" ELSE "compare"
        BY <1>0, <1>7 DEF PermitReplay, Goto, Call
    <2>2. CASE LatestHash(t) = NoPayload
        <3>1. Agreed
            BY <1>2, <2>2, GateReads
        <3> QED
            BY <1>6, <2>1, <3>1
    <2>3. CASE LatestHash(t) # NoPayload
        BY <1>4, <2>1, <2>3
    <2> QED
        BY <2>2, <2>3
<1>8. CASE CompareOutbound(h)
    <2>1. /\ ledger' = ledger /\ call' = call
          /\ pc'[h] = IF Diverges(h) THEN "flag" ELSE "invoke"
        BY <1>0, <1>8 DEF CompareOutbound, Goto
    <2>2. CASE Diverges(h)
        BY <1>4, <2>1, <2>2
    <2>3. CASE ~Diverges(h)
        <3>1. Agreed
            BY <1>2, <2>3, GateReads DEF Diverges
        <3> QED
            BY <1>6, <2>1, <3>1
    <2> QED
        BY <2>2, <2>3
<1>9. CASE Invoke(h)
    <2>1. ledger' = ledger /\ call' = call /\ Agreed
        BY <1>9 DEF Invoke, Goto, OnePayload
    <2> QED
        BY <1>6, <2>1
<1>10. CASE FlagDivergence(h)
    <2>1. SameRows /\ pc'[h] = "idle" /\ call' = call
        BY <1>0, <1>10, FlaggedRows DEF FlagDivergence, Goto
    <2> QED
        BY <1>3, <2>1 DEF OnePayload, SameRows
<1>11. CASE RecordEffect(h)
    <2> DEFINE r == NewRecord(call[h])
               last == Len(ledger) + 1
    <2>1. pc'[h] = "end_step" /\ ledger' = Append(ledger, r) /\ Agreed
        BY <1>0, <1>11 DEF RecordEffect, Goto, OnePayload
    <2>2. r.target = t /\ r.outbound = call[h].payload
        BY <1>11 DEF RecordEffect, Goto, AllGated, NewRecord, Outbound
    <2>3. /\ Len(ledger') = last /\ Len(ledger) \in Nat
          /\ \A i \in 1..Len(ledger) : ledger'[i] = ledger[i]
          /\ ledger'[last] = r
        BY <1>0, <2>1
    <2>4. ASSUME NEW i \in 1..last, NEW j \in 1..last, ledger'[i].target = ledger'[j].target
          PROVE  ledger'[i].outbound = ledger'[j].outbound
        <3> HIDE DEF r, t
        <3>1. CASE i = last /\ j = last
            BY <3>1
        <3>2. CASE i = last /\ j # last
            <4>1. j \in RowsOf(t) /\ ledger'[j] = ledger[j]
                BY <2>2, <2>3, <2>4, <3>2 DEF RowsOf
            <4> QED
                BY <2>1, <2>2, <2>3, <3>2, <4>1
        <3>3. CASE i # last /\ j = last
            <4>1. i \in RowsOf(t) /\ ledger'[i] = ledger[i]
                BY <2>2, <2>3, <2>4, <3>3 DEF RowsOf
            <4> QED
                BY <2>1, <2>2, <2>3, <3>3, <4>1
        <3>4. CASE i # last /\ j # last
            BY <2>3, <2>4, <3>4 DEF OnePayload
        <3> QED
            BY <3>1, <3>2, <3>3, <3>4
    <2> HIDE DEF r
    <2> QED
        BY <1>3, <2>1, <2>3, <2>4 DEF OnePayload
<1> QED
    BY <1>5, <1>7, <1>8, <1>9, <1>10, <1>11

\* One handle whose calls all pass the gate never commits two payloads for a
\* target, over crashes, failures and retries.
THEOREM OnePayloadPerTarget ==
    Alone /\ Kinds = {"gated"} => (Spec => []RecordsAgree)
<1> SUFFICES ASSUME Alone, Kinds = {"gated"} PROVE Spec => []RecordsAgree
    OBVIOUS
<1>1. Init => AllGated /\ OnePayload
    BY DEF Init, AllGated, OnePayload, RowsOf
<1>2. IInv /\ AllGated /\ OnePayload /\ [Next]_vars => AllGated' /\ OnePayload'
    BY NextAllGated, NextOnePayload
<1>3. OnePayload => RecordsAgree
    BY DEF OnePayload, RecordsAgree
<1> QED
    BY <1>1, <1>2, <1>3, Invariance, PTL DEF Spec
=============================================================================
