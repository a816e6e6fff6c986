------------------------ MODULE ResumePoliciesProofs ------------------------
(***************************************************************************)
(* Theorems about ResumePolicies, for every set of tools and versions,     *)
(* everything a host may bring to a resume, and every policy mapping.      *)
(*                                                                         *)
(* First the matrix: the flags it lists are those that are raised, each    *)
(* once and in a fixed order.  Then the loop of apply_policies over them.  *)
(***************************************************************************)
EXTENDS ResumePolicies, SequenceTheorems, TLAPS

-----------------------------------------------------------------------------
(* The flags of the matrix.                                                *)

\* The position of a flag in triggered_flags.
Rank == [tool_schema_changed |-> 1, tool_result_hash_mismatch |-> 2,
         file_tree_hash_mismatch |-> 3, model_id_changed |-> 4,
         intent_string_changed |-> 5, plan_sequence_changed |-> 6,
         approval_state_changed |-> 7, behavioral_drift_flagged |-> 8,
         outbound_payload_divergence |-> 9]

LEMMA FlagsRanked ==
    /\ Len(FlagOrder) = 9 /\ \A i \in 1..9 : FlagOrder[i] \in Flags /\ Rank[FlagOrder[i]] = i
    /\ \A flag \in Flags : Rank[flag] \in 1..9 /\ FlagOrder[Rank[flag]] = flag
<1>1. Len(FlagOrder) = 9
    BY DEF FlagOrder
<1>2. \A i \in 1..9 : i = 1 \/ i = 2 \/ i = 3 \/ i = 4 \/ i = 5 \/ i = 6 \/ i = 7 \/ i = 8 \/ i = 9
    OBVIOUS
<1>3. \A i \in 1..9 : Rank[FlagOrder[i]] = i
    BY <1>2 DEF FlagOrder, Rank
<1> QED
    BY <1>1, <1>3 DEF Flags

\* s lists the flags of a set R among the first k, once each and in order.
Lists(s, R, k) ==
    /\ s \in Seq(Flags)
    /\ \A i \in 1..Len(s) : s[i] \in R /\ Rank[s[i]] <= k
    /\ \A i, j \in 1..Len(s) : i < j => Rank[s[i]] < Rank[s[j]]
    /\ \A flag \in Flags \cap R : Rank[flag] <= k => \E i \in 1..Len(s) : s[i] = flag

LEMMA ListsOneMore ==
    ASSUME NEW s, NEW R, NEW k \in 1..9, Lists(s, R, k - 1)
    PROVE  Lists(s \o (IF FlagOrder[k] \in R THEN <<FlagOrder[k]>> ELSE <<>>), R, k)
<1> DEFINE flag == FlagOrder[k]
           n == Len(s)
<1>0. flag \in Flags /\ Rank[flag] = k /\ s \in Seq(Flags) /\ n \in Nat
    BY FlagsRanked DEF Lists
<1>1. \A f \in Flags : Rank[f] \in 1..9 /\ (Rank[f] <= k => Rank[f] <= k - 1 \/ f = flag)
    BY FlagsRanked
<1>2. \A i \in 1..n : s[i] \in Flags
    BY <1>0
<1>3. CASE flag \notin R
    <2>1. s \o <<>> = s
        BY <1>0
    <2>2. \A i \in 1..n : Rank[s[i]] <= k
        BY <1>1, <1>2, SMTT(30) DEF Lists
    <2> HIDE DEF flag
    <2>3. \A f \in Flags \cap R : Rank[f] <= k => Rank[f] <= k - 1
        BY <1>1, <1>3
    <2>4. Lists(s, R, k)
        BY <2>2, <2>3 DEF Lists
    <2> QED
        BY <1>3, <2>1, <2>4 DEF flag
<1>4. CASE flag \in R
    <2> DEFINE u == s \o <<flag>>
    <2>1. /\ u \in Seq(Flags) /\ Len(u) = n + 1
          /\ \A i \in 1..n : u[i] = s[i]
          /\ u[n + 1] = flag
        BY <1>0
    <2> HIDE DEF u, flag
    <2>2. \A i \in 1..(n + 1) : u[i] \in R /\ Rank[u[i]] <= k
        <3> SUFFICES ASSUME NEW i \in 1..(n + 1) PROVE u[i] \in R /\ Rank[u[i]] <= k
            OBVIOUS
        <3>1. CASE i = n + 1
            BY <1>0, <1>4, <2>1, <3>1
        <3>2. CASE i # n + 1
            <4>1. i \in 1..n /\ u[i] = s[i]
                BY <1>0, <2>1, <3>2
            <4>2. Rank[s[i]] \in 1..9 /\ Rank[s[i]] <= k - 1 /\ s[i] \in R
                BY <1>1, <1>2, <4>1 DEF Lists
            <4> QED
                BY <4>1, <4>2
        <3> QED
            BY <3>1, <3>2
    <2>3. \A i, j \in 1..(n + 1) : i < j => Rank[u[i]] < Rank[u[j]]
        <3> SUFFICES ASSUME NEW i \in 1..(n + 1), NEW j \in 1..(n + 1), i < j
                     PROVE  Rank[u[i]] < Rank[u[j]]
            OBVIOUS
        <3>1. i \in 1..n /\ u[i] = s[i] /\ Rank[s[i]] \in 1..9 /\ Rank[s[i]] <= k - 1
            BY <1>0, <1>1, <1>2, <2>1 DEF Lists
        <3>2. CASE j = n + 1
            BY <1>0, <2>1, <3>1, <3>2, SMTT(30)
        <3>3. CASE j # n + 1
            BY <1>0, <2>1, <3>1, <3>3, SMTT(30) DEF Lists
        <3> QED
            BY <3>2, <3>3
    <2>4. \A f \in Flags \cap R : Rank[f] <= k => \E i \in 1..(n + 1) : u[i] = f
        <3> SUFFICES ASSUME NEW f \in Flags \cap R, Rank[f] <= k
                     PROVE  \E i \in 1..(n + 1) : u[i] = f
            OBVIOUS
        <3>1. CASE f = flag
            BY <1>0, <2>1, <3>1
        <3>2. CASE f # flag
            <4>1. PICK i \in 1..n : s[i] = f
                BY <1>1, <3>2 DEF Lists
            <4>2. i \in 1..(n + 1) /\ u[i] = f
                BY <1>0, <2>1, <4>1
            <4> QED
                BY <4>2
        <3> QED
            BY <3>1, <3>2
    <2>5. Lists(u, R, k)
        BY <2>1, <2>2, <2>3, <2>4 DEF Lists
    <2> QED
        BY <1>4, <2>5 DEF u, flag
<1> QED
    BY <1>3, <1>4

LEMMA TriggeredInOrder ==
    ASSUME NEW ckpt, NEW ledger, NEW cur
    PROVE  LET R == {flag \in Flags : Raised(flag, ckpt, ledger, cur)}
           IN  Lists(TriggeredFlags(ckpt, ledger, cur), R, 9)
<1> DEFINE R == {flag \in Flags : Raised(flag, ckpt, ledger, cur)}
           Flag(i) == IF FlagOrder[i] \in R THEN <<FlagOrder[i]>> ELSE <<>>
<1>1. \A i \in 1..9 : FlagOrder[i] \in R <=> Raised(FlagOrder[i], ckpt, ledger, cur)
    BY FlagsRanked
<1>2. TriggeredFlags(ckpt, ledger, cur) =
        Flag(1) \o Flag(2) \o Flag(3) \o Flag(4) \o Flag(5) \o Flag(6) \o Flag(7) \o Flag(8) \o Flag(9)
    <2> DEFINE Part(i) == IF Raised(FlagOrder[i], ckpt, ledger, cur)
                          THEN <<FlagOrder[i]>> ELSE <<>>
    <2>1. TriggeredFlags(ckpt, ledger, cur) =
            Part(1) \o Part(2) \o Part(3) \o Part(4) \o Part(5) \o Part(6) \o Part(7)
                    \o Part(8) \o Part(9)
        BY Zenon DEF TriggeredFlags
    <2>2. \A i \in 1..9 : Part(i) = Flag(i)
        BY <1>1
    <2> HIDE DEF Part, Flag
    <2>3. /\ Part(1) = Flag(1) /\ Part(2) = Flag(2) /\ Part(3) = Flag(3)
          /\ Part(4) = Flag(4) /\ Part(5) = Flag(5) /\ Part(6) = Flag(6)
          /\ Part(7) = Flag(7) /\ Part(8) = Flag(8) /\ Part(9) = Flag(9)
        BY <2>2
    <2> QED
        BY <2>1, <2>3, Zenon
<1>3. Lists(<<>>, R, 0)
    BY FlagsRanked DEF Lists
<1> HIDE DEF R
<1>4. <<>> \o Flag(1) = Flag(1)
    BY FlagsRanked
<1>5. \A s : \A k \in 1..9 : Lists(s, R, k - 1) => Lists(s \o Flag(k), R, k)
    BY ListsOneMore
<1> HIDE DEF Flag
<1>6. Lists(Flag(1), R, 1)
    <2>1. 1 - 1 = 0 /\ 1 \in 1..9
        OBVIOUS
    <2>2. Lists(<<>> \o Flag(1), R, 1)
        BY <1>3, <1>5, <2>1
    <2> QED
        BY <1>4, <2>2
<1>7. Lists(Flag(1) \o Flag(2), R, 2)
    BY <1>5, <1>6
<1>8. Lists(Flag(1) \o Flag(2) \o Flag(3), R, 3)
    BY <1>5, <1>7
<1>9. Lists(Flag(1) \o Flag(2) \o Flag(3) \o Flag(4), R, 4)
    BY <1>5, <1>8
<1>10. Lists(Flag(1) \o Flag(2) \o Flag(3) \o Flag(4) \o Flag(5), R, 5)
    BY <1>5, <1>9
<1>11. Lists(Flag(1) \o Flag(2) \o Flag(3) \o Flag(4) \o Flag(5) \o Flag(6), R, 6)
    BY <1>5, <1>10
<1>12. Lists(Flag(1) \o Flag(2) \o Flag(3) \o Flag(4) \o Flag(5) \o Flag(6) \o Flag(7), R, 7)
    BY <1>5, <1>11
<1>13. Lists(Flag(1) \o Flag(2) \o Flag(3) \o Flag(4) \o Flag(5) \o Flag(6) \o Flag(7) \o Flag(8), R, 8)
    BY <1>5, <1>12
<1>14. Lists(TriggeredFlags(ckpt, ledger, cur), R, 9)
    BY <1>2, <1>5, <1>13
<1> QED
    BY <1>14 DEF R

\* has_divergence and triggered_flags agree, which are two lists in the code.
LEMMA DivergenceIsFlagged ==
    ASSUME NEW ckpt, NEW ledger, NEW cur
    PROVE  HasDivergence(ckpt, ledger, cur) <=> \E flag \in Flags : Raised(flag, ckpt, ledger, cur)
<1>1. \A flag \in Flags :
        \/ flag \in {"tool_schema_changed", "tool_result_hash_mismatch",
                     "behavioral_drift_flagged", "outbound_payload_divergence"}
        \/ flag \in DOMAIN ScalarOf /\ ScalarOf[flag] \in Scalars
    BY FlagsRanked DEF Rank, ScalarOf, Scalars, FlagOrder, Flags
<1>2. \A f \in Scalars : \E flag \in Flags :
        /\ flag \notin {"tool_schema_changed", "tool_result_hash_mismatch",
                        "behavioral_drift_flagged", "outbound_payload_divergence"}
        /\ ScalarOf[flag] = f
    BY DEF ScalarOf, Scalars, FlagOrder, Flags
<1>3. {"tool_schema_changed", "tool_result_hash_mismatch",
       "behavioral_drift_flagged", "outbound_payload_divergence"} \subseteq Flags
    BY DEF FlagOrder, Flags
<1>4. ASSUME NEW flag \in Flags, Raised(flag, ckpt, ledger, cur)
      PROVE  HasDivergence(ckpt, ledger, cur)
    BY <1>1, <1>4 DEF Raised, HasDivergence
<1>5. ASSUME HasDivergence(ckpt, ledger, cur)
      PROVE  \E flag \in Flags : Raised(flag, ckpt, ledger, cur)
    BY <1>2, <1>3, <1>5 DEF Raised, HasDivergence
<1> QED
    BY <1>4, <1>5

\* What resume hands to apply_policies: the flags whose comparisons differ, all
\* of them and no other, once each, in the matrix's order; and the summary
\* has_divergence, which reads the matrix's Booleans and not the list, agrees.
THEOREM FlagsHanded ==
    ASSUME NEW ckpt, NEW ledger, NEW cur
    PROVE  LET flags == TriggeredFlags(ckpt, ledger, cur)
           IN  /\ flags \in Seq(Flags)
               /\ {flags[i] : i \in 1..Len(flags)} = {f \in Flags : Raised(f, ckpt, ledger, cur)}
               /\ \A i, j \in 1..Len(flags) : i < j => Rank[flags[i]] < Rank[flags[j]]
               /\ HasDivergence(ckpt, ledger, cur) <=> flags # <<>>
<1> DEFINE flags == TriggeredFlags(ckpt, ledger, cur)
           R == {f \in Flags : Raised(f, ckpt, ledger, cur)}
<1>1. Lists(flags, R, 9)
    BY TriggeredInOrder
<1>2. HasDivergence(ckpt, ledger, cur) <=> R # {}
    BY DivergenceIsFlagged
<1> HIDE DEF flags, R
<1>3. R \subseteq Flags
    BY DEF R
<1>4. \A f \in Flags : Rank[f] <= 9
    BY FlagsRanked
<1>5. {flags[i] : i \in 1..Len(flags)} = R
    BY <1>1, <1>3, <1>4 DEF Lists
<1>6. flags \in Seq(Flags)
    BY <1>1 DEF Lists
<1>7. flags # <<>> <=> R # {}
    <2>1. flags # <<>> => Len(flags) \in Nat \ {0}
        BY <1>6, EmptySeq
    <2>2. flags = <<>> => 1..Len(flags) = {}
        BY EmptySeq
    <2>3. flags # <<>> => 1 \in 1..Len(flags)
        BY <2>1
    <2>4. 1 \in 1..Len(flags) => flags[1] \in R
        BY <1>5
    <2>5. R # {} => 1..Len(flags) # {}
        BY <1>5
    <2> QED
        BY <2>2, <2>3, <2>4, <2>5
<1>8. \A i, j \in 1..Len(flags) : i < j => Rank[flags[i]] < Rank[flags[j]]
    BY <1>1 DEF Lists
<1> QED
    BY <1>2, <1>5, <1>6, <1>7, <1>8 DEF flags, R
-----------------------------------------------------------------------------
(* Type correctness.                                                       *)

Status == {"running", "paused", "aborted"}
Checkpoint == [status : Status, art : Artifacts, green : 0..Unknown]

\* A green mark points to a checkpoint that exists or is unknown.
Greens == 0..Newest \cup {Unknown}

\* The environment has everything: only a host leaves a field out.
Environment == [scalar : [Scalars -> Versions], schemas : [Tools -> Versions],
                results : [Tools -> Versions], outbound : [Tools -> Versions],
                drift : BOOLEAN]

TablesOK ==
    /\ checkpoints \in Seq(Checkpoint) /\ Newest <= MaxCheckpoints
    /\ \A i \in 1..Newest : checkpoints[i].green \in Greens
    /\ run \in [status : Status, green : Greens]

HandleOK ==
    /\ live \in BOOLEAN /\ art \in Artifacts /\ green \in Greens
    /\ pending \subseteq SUBSET Tools
    /\ outcomes \in Seq(Flags)
    /\ matrix \in [mismatches : SUBSET Tools, target : Greens]
    /\ seen \subseteq Flags /\ called \subseteq Tools

WorldOK == env \in Environment /\ sent \in [Tools -> Value]

Domains == WorldOK /\ TablesOK /\ HandleOK

LEMMA GreensFacts ==
    ASSUME Newest \in Nat, Newest <= MaxCheckpoints
    PROVE  /\ 0 \in Greens /\ Unknown \in Greens /\ 1..Newest \subseteq Greens
           /\ Greens \subseteq 0..Unknown
           /\ \A g \in Greens : g \in 1..Newest \/ g = 0 \/ g = Unknown
BY PoliciesAssumption DEF Greens, Unknown

LEMMA NoArtifactsType == NoArtifacts \in Artifacts
BY PoliciesAssumption DEF NoArtifacts, Artifacts, Value, Scalars

LEMMA CheckpointSaved ==
    ASSUME TablesOK, NEW status \in Status, NEW a \in Artifacts, NEW g \in Greens,
           Newest < MaxCheckpoints, checkpoints' = Saved(status, a, g)
    PROVE  /\ Newest' = Newest + 1 /\ Newest \in Nat /\ Greens \subseteq Greens'
           /\ checkpoints' \in Seq(Checkpoint) /\ (Newest <= MaxCheckpoints)'
           /\ \A i \in 1..Newest' : checkpoints'[i].green \in Greens'
<1> DEFINE c == [status |-> status, art |-> a, green |-> g]
<1>0. checkpoints \in Seq(Checkpoint) /\ Newest = Len(checkpoints) /\ Newest \in Nat
      /\ MaxCheckpoints \in Nat
    BY PoliciesAssumption DEF TablesOK, Newest
<1>1. c \in Checkpoint /\ c.green = g
    <2>1. g \in 0..Unknown
        BY <1>0, GreensFacts DEF TablesOK
    <2> QED
        BY <2>1 DEF Checkpoint
<1> HIDE DEF c
<1>2. checkpoints' = Append(checkpoints, c)
    BY DEF Saved, c
<1>3. /\ checkpoints' \in Seq(Checkpoint) /\ Len(checkpoints') = Newest + 1
      /\ \A i \in 1..Newest : checkpoints'[i] = checkpoints[i]
      /\ checkpoints'[Newest + 1] = c
    BY <1>0, <1>1, <1>2
<1>4. Newest' = Newest + 1
    BY <1>3 DEF Newest
<1>5. Greens \subseteq Greens'
    BY <1>0, <1>4 DEF Greens, Unknown
<1>6. \A i \in 1..(Newest + 1) : checkpoints'[i].green \in Greens'
    <2> SUFFICES ASSUME NEW i \in 1..(Newest + 1) PROVE checkpoints'[i].green \in Greens'
        OBVIOUS
    <2>1. CASE i = Newest + 1
        BY <1>1, <1>3, <1>5, <2>1
    <2>2. CASE i # Newest + 1
        BY <1>0, <1>3, <1>5, <2>2 DEF TablesOK
    <2> QED
        BY <2>1, <2>2
<1> QED
    BY <1>0, <1>3, <1>4, <1>5, <1>6

LEMMA InitDomains == Init => Domains
<1> SUFFICES ASSUME Init PROVE Domains
    OBVIOUS
<1>1. Newest = 0 /\ checkpoints = <<>> /\ outcomes = <<>>
    BY DEF Init, Newest
<1>2. WorldOK
    BY PoliciesAssumption DEF Init, WorldOK, Environment, Value, Scalars
<1>3. Newest \in Nat /\ Newest <= MaxCheckpoints /\ 0 \in Greens
    BY <1>1, GreensFacts, PoliciesAssumption
<1>4. TablesOK
    BY <1>1, <1>3 DEF Init, TablesOK, Status
<1>5. HandleOK
    BY <1>1, <1>3, NoArtifactsType DEF Init, HandleOK, NoMatrix
<1> QED
    BY <1>2, <1>4, <1>5 DEF Domains

\* What a host brings is of the environment or left out.
LEMMA BroughtType ==
    ASSUME WorldOK, NEW fields, NEW ckpt \in Artifacts
    PROVE  Brought(fields, ckpt) \in Current
BY DEF WorldOK, Environment, Brought, Current, Value

LEMMA DriftDomains == Domains /\ Drift => Domains'
<1> SUFFICES ASSUME Domains, Drift PROVE Domains'
    OBVIOUS
<1>1. env \in Environment
    BY DEF Domains, WorldOK
<1>2. env' \in Environment
    <2>1. CASE \E f \in Drifting \cap Scalars, v \in Versions : env' = [env EXCEPT !.scalar[f] = v]
        BY <1>1, <2>1 DEF Environment
    <2>2. CASE \E f \in Drifting \cap {"schemas", "results", "outbound"}, v \in Versions : Change(f, v)
        <3>1. PICK f \in {"schemas", "results", "outbound"}, v \in Versions, t \in Tools :
                env' = [env EXCEPT ![f][t] = v]
            BY <2>2 DEF Change
        <3>2. CASE f = "schemas"
            BY <1>1, <3>1, <3>2 DEF Environment
        <3>3. CASE f = "results"
            BY <1>1, <3>1, <3>3 DEF Environment
        <3>4. CASE f = "outbound"
            BY <1>1, <3>1, <3>4 DEF Environment
        <3> QED
            BY <3>1, <3>2, <3>3, <3>4
    <2>3. CASE env' = [env EXCEPT !.drift = ~@]
        BY <1>1, <2>3 DEF Environment
    <2> QED
        BY <2>1, <2>2, <2>3 DEF Drift
<1>3. UNCHANGED <<sent, checkpoints, run, live, art, green, pending, outcomes, matrix, seen, called>>
    BY DEF Drift, tables, handle, routing, history
<1> QED
    BY <1>2, <1>3 DEF Domains, WorldOK, TablesOK, HandleOK, Newest, Greens

LEMMA WorkDomains ==
    ASSUME Domains, \/ SetFileTree \/ LlmStep \/ \E id \in 1..Newest \cup {Unknown} : MarkGreen(id)
                    \/ \E t \in Tools, sends \in BOOLEAN : ToolStep(t, sends)
    PROVE  Domains'
<1>0. /\ env \in Environment /\ art \in Artifacts /\ sent \in [Tools -> Value]
      /\ Newest \in Nat /\ run \in [status : Status, green : Greens]
    BY DEF Domains, WorldOK, HandleOK, TablesOK, Newest
<1>1. CASE SetFileTree
    <2>1. art' \in Artifacts
        BY <1>0, <1>1 DEF SetFileTree, Environment, Artifacts, Value, Scalars
    <2> QED
        BY <1>1, <2>1 DEF SetFileTree, Domains, WorldOK, TablesOK, HandleOK, Newest, Greens,
                          world, tables, routing, history
<1>2. ASSUME art' \in Artifacts, Checkpointed(art'),
             UNCHANGED <<env, run, live, green, outcomes, matrix, seen>>,
             sent' \in [Tools -> Value], pending' \subseteq SUBSET Tools, called' \subseteq Tools
      PROVE  Domains'
    <2>1. run.status \in Status /\ green \in Greens /\ Newest < MaxCheckpoints
        BY <1>0, <1>2 DEF Domains, HandleOK, Checkpointed
    <2>2. /\ Newest' = Newest + 1 /\ Greens \subseteq Greens'
          /\ checkpoints' \in Seq(Checkpoint) /\ (Newest <= MaxCheckpoints)'
          /\ \A i \in 1..Newest' : checkpoints'[i].green \in Greens'
        BY <1>2, <2>1, CheckpointSaved DEF Checkpointed, Domains
    <2>3. TablesOK'
        BY <1>0, <1>2, <2>2 DEF TablesOK
    <2>4. HandleOK'
        BY <1>2, <2>2 DEF Domains, HandleOK
    <2> QED
        BY <1>2, <2>3, <2>4 DEF Domains, WorldOK
<1>3. CASE LlmStep
    <2>1. art' \in Artifacts
        BY <1>0, <1>3 DEF LlmStep, Environment, Artifacts, Value, Scalars
    <2>2. /\ Checkpointed(art')
          /\ UNCHANGED <<env, run, live, green, outcomes, matrix, seen, sent, pending, called>>
        BY <1>3 DEF LlmStep, world, routing, history
    <2> QED
        BY <1>2, <2>1, <2>2 DEF Domains, WorldOK, HandleOK
<1>4. CASE \E id \in 1..Newest \cup {Unknown} : MarkGreen(id)
    <2>1. PICK id \in 1..Newest \cup {Unknown} : MarkGreen(id)
        BY <1>4
    <2>a. id \in Greens
        BY <1>0, GreensFacts DEF Domains, TablesOK
    <2>2. UNCHANGED <<env, sent, checkpoints, live, art, pending, outcomes, matrix, seen, called>>
        BY <2>1 DEF MarkGreen, world, routing, history
    <2>3. green' \in Greens /\ run' \in [status : Status, green : Greens]
        BY <1>0, <2>1, <2>a DEF MarkGreen
    <2> QED
        BY <2>2, <2>3 DEF Domains, WorldOK, TablesOK, HandleOK, Newest, Greens
<1>5. CASE \E t \in Tools, sends \in BOOLEAN : ToolStep(t, sends)
    <2>1. PICK t \in Tools, sends \in BOOLEAN : ToolStep(t, sends)
        BY <1>5
    <2>2. art' \in Artifacts
        BY <1>0, <2>1 DEF ToolStep, Environment, Artifacts, Value
    <2>3. /\ UNCHANGED <<env, run, live, green, outcomes, matrix, seen>>
          /\ Checkpointed(art') \/ UNCHANGED checkpoints
        BY <2>1 DEF ToolStep, world, routing
    <2>4. sent' \in [Tools -> Value]
        BY <1>0, <2>1 DEF ToolStep, Environment, Value
    <2>5. pending' \subseteq SUBSET Tools /\ called' \subseteq Tools
        BY <2>1 DEF ToolStep, ClearRevalidation, Domains, HandleOK
    <2>6. CASE UNCHANGED checkpoints
        BY <2>2, <2>3, <2>4, <2>5, <2>6 DEF Domains, WorldOK, TablesOK, HandleOK, Newest, Greens
    <2> QED
        BY <1>2, <2>2, <2>3, <2>4, <2>5, <2>6
<1> QED
    BY <1>1, <1>3, <1>4, <1>5

\* The checkpoint a resume or a reset hydrates.
LEMMA Hydration ==
    ASSUME Domains, NEW i \in 1..Newest, NEW r \in [status : Status, green : Greens]
    PROVE  /\ checkpoints[i].art \in Artifacts /\ checkpoints[i].green \in Greens
           /\ Hydrated(r, checkpoints[i]) \in [status : Status, green : Greens]
           /\ Hydrated(r, checkpoints[i]).status = r.status
<1>1. checkpoints[i] \in Checkpoint /\ checkpoints[i].green \in Greens /\ Newest \in Nat
    BY DEF Domains, TablesOK, Newest
<1>2. checkpoints[i].art \in Artifacts /\ checkpoints[i].green \in Greens
    BY <1>1, PoliciesAssumption DEF Checkpoint
<1> QED
    BY <1>2 DEF Hydrated

LEMMA ResumeDomains == ASSUME Domains, NEW fields, Resume(fields) PROVE Domains'
<1> DEFINE ckpt == checkpoints[Newest]
           cur == Brought(fields, ckpt.art)
           r0 == [run EXCEPT !.status = ResumeStatus(@)]
           r == Hydrated(r0, ckpt)
           flags == TriggeredFlags(ckpt.art, sent, cur)
<1>0. Newest \in 1..Newest /\ Newest \in Nat /\ run \in [status : Status, green : Greens]
      /\ WorldOK
    BY DEF Resume, Domains, TablesOK, Newest
<1>1. r0 \in [status : Status, green : Greens]
    BY <1>0 DEF ResumeStatus, Status
<1>2. /\ ckpt.art \in Artifacts /\ ckpt.green \in Greens
      /\ r \in [status : Status, green : Greens]
    BY <1>0, <1>1, Hydration
<1>3. cur \in Current
    BY <1>0, <1>2, BroughtType
<1>4. flags \in Seq(Flags) /\ {flags[i] : i \in 1..Len(flags)} \subseteq Flags
    BY FlagsHanded
<1>5. ResultMismatches(ckpt.art, cur) \subseteq Tools
    BY DEF ResultMismatches, Named
<1>6. /\ run' = r /\ art' = ckpt.art /\ green' = ckpt.green
      /\ outcomes' = IF HasDivergence(ckpt.art, sent, cur) THEN flags ELSE <<>>
      /\ matrix' = [mismatches |-> ResultMismatches(ckpt.art, cur),
                    target |-> IF r.green = 0 THEN ckpt.green ELSE r.green]
      /\ seen' = {flags[i] : i \in 1..Len(flags)}
      /\ live' = TRUE /\ pending' = {} /\ called' = {}
      /\ UNCHANGED <<env, sent, checkpoints>>
    BY DEF Resume, world
<1> HIDE DEF ckpt, cur, r, flags
<1>7. outcomes' \in Seq(Flags)
    BY <1>4, <1>6
<1>8. matrix' \in [mismatches : SUBSET Tools, target : Greens]
    BY <1>2, <1>5, <1>6
<1> QED
    BY <1>2, <1>4, <1>6, <1>7, <1>8 DEF Domains, WorldOK, TablesOK, HandleOK, Newest, Greens

LEMMA TailOfOutcomes ==
    ASSUME outcomes \in Seq(Flags), outcomes # <<>>, outcomes' = Tail(outcomes)
    PROVE  /\ outcomes' \in Seq(Flags) /\ Len(outcomes) \in Nat \ {0}
           /\ Len(outcomes') = Len(outcomes) - 1
           /\ \A i \in 1..Len(outcomes') : outcomes'[i] = outcomes[i + 1]
           /\ Head(outcomes) = outcomes[1] /\ outcomes[1] \in Flags
BY EmptySeq

\* abort and halt write a checkpoint with the status they leave.
LEMMA StoppedTables ==
    ASSUME Domains, NEW status \in Status, Stopped(status)
    PROVE  TablesOK' /\ Greens \subseteq Greens'
<1>1. green \in Greens /\ art \in Artifacts /\ Newest < MaxCheckpoints
    BY DEF Domains, HandleOK, Stopped
<1>2. /\ Newest' = Newest + 1 /\ Greens \subseteq Greens'
      /\ checkpoints' \in Seq(Checkpoint) /\ (Newest <= MaxCheckpoints)'
      /\ \A i \in 1..Newest' : checkpoints'[i].green \in Greens'
    BY <1>1, CheckpointSaved DEF Domains, Stopped
<1>3. run' \in [status : Status, green : Greens']
    <2>1. run \in [status : Status, green : Greens] /\ run' = [run EXCEPT !.status = status]
        BY DEF Domains, TablesOK, Stopped
    <2>2. run' \in [status : Status, green : Greens]
        BY <2>1
    <2> QED
        BY <1>2, <2>2
<1> QED
    BY <1>2, <1>3 DEF TablesOK

LEMMA LostHandle ==
    ASSUME Domains, LoseHandle, UNCHANGED world, UNCHANGED sent, TablesOK'
    PROVE  Domains'
<1>1. Newest' \in Nat
    <2>1. checkpoints' \in Seq(Checkpoint)
        BY DEF TablesOK
    <2> QED
        BY <2>1 DEF Newest
<1>2. 0 \in Greens' /\ <<>> \in Seq(Flags)
    BY <1>1 DEF Greens
<1>3. matrix' \in [mismatches : SUBSET Tools, target : Greens']
    BY <1>2 DEF LoseHandle, NoMatrix
<1>4. HandleOK'
    BY <1>2, <1>3, NoArtifactsType DEF LoseHandle, HandleOK
<1> QED
    BY <1>4 DEF Domains, WorldOK, world

LEMMA EnforceDomains == ASSUME Domains, Enforce \/ Exit PROVE Domains'
<1>0. /\ Newest \in Nat /\ outcomes \in Seq(Flags) /\ run \in [status : Status, green : Greens]
      /\ matrix \in [mismatches : SUBSET Tools, target : Greens]
    BY DEF Domains, TablesOK, HandleOK, Newest, Greens
<1>1. CASE EnforceAbort
    <2>1. TablesOK'
        BY <1>1, StoppedTables DEF EnforceAbort, Status
    <2> QED
        BY <1>1, <2>1, LostHandle DEF EnforceAbort
<1>2. CASE Exit
    <2>1. TablesOK'
        BY <1>2 DEF Exit, tables, Domains, TablesOK, Newest, Greens
    <2> QED
        BY <1>2, <2>1, LostHandle DEF Exit
<1>3. ASSUME Enforces(Action(Head(outcomes))), outcomes' = Tail(outcomes)
      PROVE  outcomes' \in Seq(Flags)
    BY <1>0, <1>3, TailOfOutcomes DEF Enforces
<1>4. CASE EnforceReset
    <2>1. outcomes' \in Seq(Flags)
        BY <1>3, <1>4 DEF EnforceReset, Enforces
    <2>2. UNCHANGED <<env, sent, checkpoints, live, pending, matrix, seen, called>>
        BY <1>4 DEF EnforceReset, world, history
    <2>3. CASE matrix.target = 0
        <3>1. UNCHANGED <<run, art, green>>
            BY <1>4, <2>3 DEF EnforceReset
        <3> QED
            BY <2>1, <2>2, <3>1 DEF Domains, WorldOK, TablesOK, HandleOK, Newest, Greens
    <2>4. CASE matrix.target # 0
        <3>a. matrix.target # Unknown
            BY <1>4, <2>4 DEF EnforceReset
        <3> DEFINE ckpt == checkpoints[matrix.target]
        <3>1. /\ art' = ckpt.art /\ green' = ckpt.green
              /\ run' = [Hydrated(run, ckpt) EXCEPT !.status = "running"]
            BY <1>4, <2>4 DEF EnforceReset
        <3>2. matrix.target \in 1..Newest
            BY <1>0, <2>4, <3>a, GreensFacts DEF Domains, TablesOK
        <3>3. /\ ckpt.art \in Artifacts /\ ckpt.green \in Greens
              /\ Hydrated(run, ckpt) \in [status : Status, green : Greens]
            BY <1>0, <3>2, Hydration
        <3> HIDE DEF ckpt
        <3>4. run' \in [status : Status, green : Greens]
            BY <3>1, <3>3 DEF Status
        <3> QED
            BY <2>1, <2>2, <3>1, <3>3, <3>4 DEF Domains, WorldOK, TablesOK, HandleOK, Newest, Greens
    <2> QED
        BY <2>3, <2>4
<1>5. CASE EnforceRevalidate
    <2>1. outcomes' \in Seq(Flags)
        BY <1>3, <1>5 DEF EnforceRevalidate, Enforces
    <2>2. UNCHANGED <<env, sent, checkpoints, run, live, art, green, matrix, seen, called>>
        BY <1>5 DEF EnforceRevalidate, world, tables, history
    <2>3. pending' \subseteq SUBSET Tools
        BY <1>0, <1>5 DEF EnforceRevalidate, Domains, HandleOK
    <2> QED
        BY <2>1, <2>2, <2>3 DEF Domains, WorldOK, TablesOK, HandleOK, Newest, Greens
<1>6. CASE EnforceHalt
    <2>1. outcomes' \in Seq(Flags)
        BY <1>3, <1>6 DEF EnforceHalt, Enforces
    <2>2. TablesOK' /\ Greens \subseteq Greens'
        BY <1>6, StoppedTables DEF EnforceHalt, Status
    <2>3. UNCHANGED <<env, sent, live, art, green, pending, matrix, seen, called>>
        BY <1>6 DEF EnforceHalt, world, history
    <2> QED
        BY <2>1, <2>2, <2>3 DEF Domains, WorldOK, HandleOK
<1>7. CASE EnforceMissing
    <2>1. TablesOK'
        BY <1>7 DEF EnforceMissing, tables, Domains, TablesOK, Newest, Greens
    <2> QED
        BY <1>7, <2>1, LostHandle DEF EnforceMissing
<1> QED
    BY <1>1, <1>2, <1>4, <1>5, <1>6, <1>7 DEF Enforce

LEMMA NextDomains == Domains /\ [Next]_vars => Domains'
<1>1. ASSUME Domains, UNCHANGED vars PROVE Domains'
    BY <1>1 DEF vars, world, tables, handle, routing, history, Domains, WorldOK, TablesOK,
                HandleOK, Newest, Greens
<1> QED
    BY <1>1, DriftDomains, WorkDomains, ResumeDomains, EnforceDomains DEF Next

LEMMA DomainsInvariance == Spec => []Domains
BY InitDomains, NextDomains, PTL DEF Spec

\* Every variable stays in its domain, whatever the mapping and the fields a
\* host brings: the checkpoint a strict reset is answered is in the table
\* unless the host marked an unknown id (mark_green_checkpoint looks up none).
THEOREM TypeCorrect == Spec => []TypeOK
<1>1. ASSUME Domains PROVE TypeOK
    <2>1. Newest \in Nat /\ Newest <= MaxCheckpoints /\ MaxCheckpoints \in Nat
        BY <1>1, PoliciesAssumption DEF Domains, TablesOK, Newest
    <2>2. env \in Current
        BY <1>1 DEF Domains, WorldOK, Environment, Current, Value
    <2>3. run \in RunRow
        BY <1>1, <2>1, GreensFacts DEF Domains, TablesOK, RunRow, Status
    <2>4. Checkpoint = [status : {"running", "paused", "aborted"}, art : Artifacts,
                        green : 0..Unknown]
        BY DEF Checkpoint, Status
    <2> QED
        BY <1>1, <2>2, <2>3, <2>4 DEF Domains, WorldOK, TablesOK, HandleOK, TypeOK, Greens
<1> QED
    BY <1>1, DomainsInvariance, PTL
-----------------------------------------------------------------------------
(* apply_policies.                                                         *)

\* Flags whose outcome is still to be enforced.
Left == {outcomes[i] : i \in 1..Len(outcomes)}

Revalidated == "tool_result_hash_mismatch"

\* The loop works through the flags in order; what it is done with ranks
\* before what is left, and no abort is among it.  A result mismatch is a flag.
Routing ==
    /\ \A i, j \in 1..Len(outcomes) : i < j => Rank[outcomes[i]] < Rank[outcomes[j]]
    /\ Left \subseteq seen
    /\ \A flag \in seen \ Left :
          /\ Action(flag) # "abort"
          /\ \A next \in Left : Rank[flag] < Rank[next]
    /\ matrix.mismatches # {} => Revalidated \in seen

\* The tools of the one matrix are what there is to revalidate.
Revalidating ==
    /\ pending \subseteq {matrix.mismatches}
    /\ Revalidated \in seen \ Left /\ Action(Revalidated) = "run_assertions" =>
          matrix.mismatches \in pending \/ matrix.mismatches \cap called # {}

\* No flag after one that halts resets the state, and the status with it.
NoResetAfterHalt ==
    \A i, j \in 1..Len(FlagOrder) :
        i < j /\ Action(FlagOrder[i]) = "halt_for_human" => Action(FlagOrder[j]) # "load_checkpoint"

Halted ==
    \A flag \in seen \ Left : Action(flag) = "halt_for_human" => run.status # "running"

\* One outcome is done with and leaves what is not done.
LEMMA OneOutcome ==
    ASSUME Domains, Routing, outcomes # <<>>, outcomes' = Tail(outcomes), UNCHANGED seen
    PROVE  /\ Head(outcomes) \in seen /\ Left' \subseteq Left
           /\ seen \ Left' = (seen \ Left) \cup {Head(outcomes)}
           /\ \A next \in Left' : Rank[Head(outcomes)] < Rank[next]
           /\ \A i, j \in 1..Len(outcomes') : i < j => Rank[outcomes'[i]] < Rank[outcomes'[j]]
           /\ \A flag \in seen \ Left : Rank[flag] < Rank[Head(outcomes)]
<1>1. /\ Len(outcomes) \in Nat \ {0} /\ Len(outcomes') = Len(outcomes) - 1
      /\ \A i \in 1..Len(outcomes') : outcomes'[i] = outcomes[i + 1]
      /\ Head(outcomes) = outcomes[1]
    BY TailOfOutcomes DEF Domains, HandleOK
<1>2. \A i \in 1..Len(outcomes') : i + 1 \in 1..Len(outcomes) /\ 1 < i + 1
    BY <1>1
<1>3. ASSUME NEW i \in 1..Len(outcomes), i # 1
      PROVE  i - 1 \in 1..Len(outcomes') /\ outcomes'[i - 1] = outcomes[i]
    <2>1. i - 1 \in 1..Len(outcomes') /\ (i - 1) + 1 = i
        BY <1>1, <1>3
    <2> QED
        BY <1>1, <2>1
<1>4. 1 \in 1..Len(outcomes) /\ Head(outcomes) \in Left
    BY <1>1 DEF Left
<1>5. Left' \subseteq Left
    BY <1>1, <1>2 DEF Left
<1>6. \A next \in Left' : Rank[Head(outcomes)] < Rank[next]
    BY <1>1, <1>2, <1>4 DEF Left, Routing
<1>7. Left = Left' \cup {Head(outcomes)}
    BY <1>1, <1>3, <1>4, <1>5, SMTT(30) DEF Left
<1>8. Head(outcomes) \in Flags /\ Rank[Head(outcomes)] \in 1..9
    BY <1>4, FlagsRanked DEF Routing, Domains, HandleOK
<1>9. Head(outcomes) \notin Left'
    BY <1>6, <1>8
<1>10. \A i, j \in 1..Len(outcomes') : i < j => Rank[outcomes'[i]] < Rank[outcomes'[j]]
    <2> SUFFICES ASSUME NEW i \in 1..Len(outcomes'), NEW j \in 1..Len(outcomes'), i < j
                 PROVE  Rank[outcomes'[i]] < Rank[outcomes'[j]]
        OBVIOUS
    <2>1. /\ i + 1 \in 1..Len(outcomes) /\ j + 1 \in 1..Len(outcomes) /\ i + 1 < j + 1
          /\ outcomes'[i] = outcomes[i + 1] /\ outcomes'[j] = outcomes[j + 1]
        BY <1>1, <1>2
    <2> QED
        BY <2>1 DEF Routing
<1> QED
    BY <1>4, <1>5, <1>6, <1>7, <1>9, <1>10 DEF Routing

\* A host at work has no outcome left, and it changes no status.
LEMMA Working ==
    ASSUME Domains, \/ Drift \/ SetFileTree \/ LlmStep \/ \E id \in 1..Newest \cup {Unknown} : MarkGreen(id)
                    \/ \E t \in Tools, sends \in BOOLEAN : ToolStep(t, sends)
    PROVE  /\ UNCHANGED <<outcomes, seen, matrix>> /\ run'.status = run.status
           /\ \/ UNCHANGED <<pending, called>>
              \/ \E t \in Tools : pending' = ClearRevalidation(t) /\ called' = called \cup {t}
<1>1. run \in [status : Status, green : Greens]
    BY DEF Domains, TablesOK
<1> QED
    BY <1>1 DEF Drift, SetFileTree, LlmStep, MarkGreen, ToolStep, tables, handle, routing, history

\* resume hands every flag of its matrix to apply_policies.
LEMMA Resumed ==
    ASSUME Domains, NEW fields, Resume(fields)
    PROVE  /\ seen' = Left'
           /\ \A i, j \in 1..Len(outcomes') : i < j => Rank[outcomes'[i]] < Rank[outcomes'[j]]
           /\ matrix'.mismatches # {} => Revalidated \in seen'
           /\ pending' = {}
<1> DEFINE ckpt == checkpoints[Newest].art
           cur == Brought(fields, ckpt)
           flags == TriggeredFlags(ckpt, sent, cur)
<1>1. /\ outcomes' = IF HasDivergence(ckpt, sent, cur) THEN flags ELSE <<>>
      /\ matrix'.mismatches = ResultMismatches(ckpt, cur)
      /\ seen' = {flags[i] : i \in 1..Len(flags)}
      /\ pending' = {}
    BY DEF Resume
<1>2. /\ {flags[i] : i \in 1..Len(flags)} = {f \in Flags : Raised(f, ckpt, sent, cur)}
      /\ \A i, j \in 1..Len(flags) : i < j => Rank[flags[i]] < Rank[flags[j]]
      /\ HasDivergence(ckpt, sent, cur) <=> flags # <<>>
    BY FlagsHanded
<1>3. outcomes' = flags
    BY <1>1, <1>2
<1>4. Revalidated \in Flags
    BY DEF Revalidated, Flags, FlagOrder
<1>5. ResultMismatches(ckpt, cur) # {} => Raised(Revalidated, ckpt, sent, cur)
    BY DEF Raised, Revalidated
<1> HIDE DEF ckpt, cur, flags
<1>6. seen' = Left'
    BY <1>1, <1>3 DEF Left
<1> QED
    BY <1>1, <1>2, <1>3, <1>4, <1>5, <1>6

LEMMA NothingLeft ==
    ASSUME LoseHandle
    PROVE  /\ seen' = {} /\ Left' = {} /\ outcomes' = <<>> /\ pending' = {}
           /\ matrix'.mismatches = {}
BY DEF LoseHandle, Left, NoMatrix

LEMMA NextRouting ==
    ASSUME Domains, Routing, Revalidating, [Next]_vars PROVE Routing' /\ Revalidating'
<1>1. CASE UNCHANGED vars
    BY <1>1 DEF vars, handle, routing, history, Routing, Revalidating, Left
<1>2. CASE \/ Drift \/ SetFileTree \/ LlmStep \/ \E id \in 1..Newest \cup {Unknown} : MarkGreen(id)
           \/ \E t \in Tools, sends \in BOOLEAN : ToolStep(t, sends)
    <2>1. /\ UNCHANGED <<outcomes, seen, matrix>>
          /\ \/ UNCHANGED <<pending, called>>
             \/ \E t \in Tools : pending' = ClearRevalidation(t) /\ called' = called \cup {t}
        BY <1>2, Working
    <2>2. Left' = Left
        BY <2>1 DEF Left
    <2>3. Routing'
        BY <2>1, <2>2 DEF Routing
    <2>4. Revalidating'
        BY <2>1, <2>2 DEF Revalidating, ClearRevalidation
    <2> QED
        BY <2>3, <2>4
<1>3. CASE \E fields \in Supplied : Resume(fields)
    <2>1. /\ seen' = Left' /\ pending' = {}
          /\ \A i, j \in 1..Len(outcomes') : i < j => Rank[outcomes'[i]] < Rank[outcomes'[j]]
          /\ matrix'.mismatches # {} => Revalidated \in seen'
        BY <1>3, Resumed
    <2> QED
        BY <2>1 DEF Routing, Revalidating
<1>4. CASE EnforceAbort \/ EnforceMissing \/ Exit
    <2>1. LoseHandle
        BY <1>4 DEF EnforceAbort, EnforceMissing, Exit
    <2>2. \A i, j \in 1..Len(outcomes') : i < j => Rank[outcomes'[i]] < Rank[outcomes'[j]]
        BY <2>1, NothingLeft, EmptySeq
    <2> QED
        BY <2>1, <2>2, NothingLeft DEF Routing, Revalidating
<1>5. CASE EnforceReset \/ EnforceRevalidate \/ EnforceHalt
    <2>1. /\ outcomes # <<>> /\ outcomes' = Tail(outcomes) /\ UNCHANGED <<seen, matrix, called>>
          /\ Action(Head(outcomes)) # "abort"
        BY <1>5 DEF EnforceReset, EnforceRevalidate, EnforceHalt, Enforces, history
    <2>2. /\ Head(outcomes) \in seen /\ Left' \subseteq Left
          /\ seen \ Left' = (seen \ Left) \cup {Head(outcomes)}
          /\ \A next \in Left' : Rank[Head(outcomes)] < Rank[next]
          /\ \A i, j \in 1..Len(outcomes') : i < j => Rank[outcomes'[i]] < Rank[outcomes'[j]]
        BY <2>1, OneOutcome
    <2>3. \A flag \in seen' \ Left' : flag \in seen \ Left \/ flag = Head(outcomes)
        BY <2>1, <2>2
    <2>4. Routing'
        BY <2>1, <2>2, <2>3 DEF Routing
    <2>5. pending' \subseteq pending \cup {matrix.mismatches} /\ pending \subseteq pending'
        BY <1>5 DEF EnforceReset, EnforceRevalidate, EnforceHalt
    <2>6. Action(Head(outcomes)) = "run_assertions" => matrix.mismatches \in pending'
        BY <1>5 DEF EnforceReset, EnforceRevalidate, EnforceHalt, Enforces
    <2>7. Revalidating'
        BY <2>1, <2>3, <2>5, <2>6 DEF Revalidating
    <2> QED
        BY <2>4, <2>7
<1> QED
    BY <1>1, <1>2, <1>3, <1>4, <1>5 DEF Next, Enforce

LEMMA NextHalted ==
    ASSUME NoResetAfterHalt, Domains, Routing, Halted, [Next]_vars PROVE Halted'
<1>1. CASE UNCHANGED vars
    BY <1>1 DEF vars, tables, routing, history, Halted, Left
<1>2. CASE \/ Drift \/ SetFileTree \/ LlmStep \/ \E id \in 1..Newest \cup {Unknown} : MarkGreen(id)
           \/ \E t \in Tools, sends \in BOOLEAN : ToolStep(t, sends)
    <2>1. UNCHANGED <<outcomes, seen>> /\ run'.status = run.status
        BY <1>2, Working
    <2> QED
        BY <2>1 DEF Halted, Left
<1>3. CASE \E fields \in Supplied : Resume(fields)
    BY <1>3, Resumed DEF Halted
<1>4. CASE EnforceAbort \/ EnforceMissing \/ Exit
    BY <1>4, NothingLeft DEF EnforceAbort, EnforceMissing, Exit, Halted
<1>5. CASE EnforceReset \/ EnforceRevalidate \/ EnforceHalt
    <2> DEFINE head == Head(outcomes)
    <2>1. outcomes # <<>> /\ outcomes' = Tail(outcomes) /\ UNCHANGED seen
        BY <1>5 DEF EnforceReset, EnforceRevalidate, EnforceHalt, Enforces, history
    <2>2. /\ head \in seen /\ seen \ Left' = (seen \ Left) \cup {head}
          /\ \A flag \in seen \ Left : Rank[flag] < Rank[head]
        BY <2>1, OneOutcome
    <2>3. \A flag \in seen' \ Left' : flag \in seen \ Left \/ flag = head
        BY <2>1, <2>2
    <2> HIDE DEF head
    <2>4. CASE EnforceHalt
        <3>1. run'.status = "paused"
            BY <2>4 DEF EnforceHalt, Stopped, Domains, TablesOK
        <3> QED
            BY <3>1 DEF Halted
    <2>5. CASE EnforceRevalidate
        <3>1. run' = run /\ Action(head) # "halt_for_human"
            BY <2>5 DEF EnforceRevalidate, Enforces, tables, head
        <3> QED
            BY <2>3, <3>1 DEF Halted
    <2>6. CASE EnforceReset
        <3>1. Action(head) = "load_checkpoint"
            BY <2>6 DEF EnforceReset, Enforces, head
        <3>2. seen \subseteq Flags
            BY DEF Domains, HandleOK
        <3>3. ASSUME NEW flag \in seen \ Left PROVE Action(flag) # "halt_for_human"
            <4>1. /\ Rank[flag] \in 1..Len(FlagOrder) /\ Rank[head] \in 1..Len(FlagOrder)
                  /\ FlagOrder[Rank[flag]] = flag /\ FlagOrder[Rank[head]] = head
                  /\ Rank[flag] < Rank[head]
                BY <2>2, <3>2, FlagsRanked
            <4> QED
                BY <3>1, <4>1 DEF NoResetAfterHalt
        <3> QED
            BY <2>3, <3>1, <3>3 DEF Halted
    <2> QED
        BY <1>5, <2>4, <2>5, <2>6
<1> QED
    BY <1>1, <1>2, <1>3, <1>4, <1>5 DEF Next, Enforce

LEMMA RoutingInvariance == Spec => [](Routing /\ Revalidating)
<1>1. Init => Routing /\ Revalidating
    <2> SUFFICES ASSUME Init PROVE Routing /\ Revalidating
        OBVIOUS
    <2>1. Len(outcomes) = 0 /\ seen = {} /\ pending = {} /\ matrix.mismatches = {}
        BY EmptySeq DEF Init, NoMatrix
    <2>2. Left = {}
        BY <2>1 DEF Left
    <2> QED
        BY <2>1, <2>2 DEF Routing, Revalidating
<1>2. Domains /\ Routing /\ Revalidating /\ [Next]_vars => Routing' /\ Revalidating'
    BY NextRouting
<1> QED
    BY <1>1, <1>2, DomainsInvariance, PTL DEF Spec

-----------------------------------------------------------------------------

\* A handle that resume returns has no flag that is answered by an abort, and
\* is halted if one is answered by a halt: for every mapping in which no flag
\* that resets comes after one that halts, and the default one is such.
THEOREM OutcomesHold == NoResetAfterHalt => (Spec => []PoliciesEnforced)
<1> SUFFICES ASSUME NoResetAfterHalt PROVE Spec => []PoliciesEnforced
    OBVIOUS
<1>1. Init => Halted
    BY DEF Init, Halted
<1>2. Domains /\ Routing /\ Halted /\ [Next]_vars => Halted'
    BY NextHalted
<1>3. ASSUME Routing, Halted PROVE PoliciesEnforced
    <2>1. outcomes = <<>> => Left = {}
        BY EmptySeq DEF Left
    <2> QED
        BY <1>3, <2>1 DEF PoliciesEnforced, Returned, Routing, Halted
<1>4. Routing /\ Halted => PoliciesEnforced
    BY <1>3
<1> QED
    BY <1>1, <1>2, <1>4, DomainsInvariance, RoutingInvariance, PTL DEF Spec

\* A drifted result whose policy is to revalidate is pending until a tool
\* whose result had drifted is called again, whatever the other policies do.
THEOREM RevalidationKept == Spec => []RevalidationPending
<1>1. ASSUME Routing, Revalidating PROVE RevalidationPending
    <2>1. outcomes = <<>> => Left = {}
        BY EmptySeq DEF Left
    <2> QED
        BY <1>1, <2>1 DEF RevalidationPending, Returned, Routing, Revalidating, Revalidated,
                          Mismatched, Covered
<1> QED
    BY <1>1, RoutingInvariance, PTL

\* A field that the host brings and that differs makes the matrix diverge.
LEMMA DifferenceDiverges ==
    ASSUME Domains, NEW fields, Differs(fields)
    PROVE  LET ckpt == checkpoints[Newest].art
           IN  HasDivergence(ckpt, sent, Brought(fields, ckpt))
<1> DEFINE ckpt == checkpoints[Newest].art
           cur == Brought(fields, ckpt)
<1>1. env \in Environment /\ Unset \notin Versions
    BY UnsetAssumption DEF Domains, WorldOK
<1>2. CASE \E f \in fields \cap Scalars : ckpt.scalar[f] # env.scalar[f]
    <2>1. PICK f \in fields \cap Scalars : ckpt.scalar[f] # env.scalar[f]
        BY <1>2
    <2>2. cur.scalar[f] = env.scalar[f] /\ env.scalar[f] # Unset
        BY <1>1, <2>1 DEF Brought, Environment
    <2> QED
        BY <2>1, <2>2 DEF HasDivergence, ScalarChanged
<1>3. CASE "schemas" \in fields /\ \E t \in Tools : ckpt.schemas[t] \notin {Unset, env.schemas[t]}
    <2>1. PICK t \in Tools : ckpt.schemas[t] \notin {Unset, env.schemas[t]}
        BY <1>3
    <2>2. cur.schemas[t] = env.schemas[t] /\ env.schemas[t] # Unset
        BY <1>1, <1>3, <2>1 DEF Brought, Environment
    <2> QED
        BY <2>1, <2>2 DEF HasDivergence, SchemasChanged, Named
<1>4. CASE "results" \in fields /\ \E t \in Tools : ckpt.results[t] \notin {Unset, env.results[t]}
    <2>1. PICK t \in Tools : ckpt.results[t] \notin {Unset, env.results[t]}
        BY <1>4
    <2>2. cur.results[t] = env.results[t] /\ env.results[t] # Unset
        BY <1>1, <1>4, <2>1 DEF Brought, Environment
    <2> QED
        BY <2>1, <2>2 DEF HasDivergence, ResultMismatches, Named
<1>5. CASE "outbound" \in fields /\ \E t \in Tools : sent[t] \notin {Unset, env.outbound[t]}
    <2>1. PICK t \in Tools : sent[t] \notin {Unset, env.outbound[t]}
        BY <1>5
    <2>2. cur.outbound[t] = env.outbound[t] /\ env.outbound[t] # Unset
        BY <1>1, <1>5, <2>1 DEF Brought, Environment
    <2> QED
        BY <2>1, <2>2 DEF HasDivergence, OutboundDivergences, Named
<1>6. CASE "drift" \in fields /\ env.drift
    BY <1>6 DEF HasDivergence, Brought
<1> QED
    BY <1>2, <1>3, <1>4, <1>5, <1>6 DEF Differs

\* Whatever a host brings that differs from the newest checkpoint or from the
\* ledger leaves the resume with an outcome to enforce.
THEOREM DifferencesAnswered == Spec => ComparedIsAnswered
<1>1. Domains =>
        [\A fields \in Supplied : Resume(fields) /\ Differs(fields) => outcomes' # <<>>]_vars
    <2> SUFFICES ASSUME Domains, NEW fields \in Supplied, Resume(fields), Differs(fields)
                 PROVE  outcomes' # <<>>
        OBVIOUS
    <2> DEFINE ckpt == checkpoints[Newest].art
               cur == Brought(fields, ckpt)
    <2>1. HasDivergence(ckpt, sent, cur)
        BY DifferenceDiverges
    <2>2. TriggeredFlags(ckpt, sent, cur) # <<>>
        BY <2>1, FlagsHanded
    <2>3. outcomes' = IF HasDivergence(ckpt, sent, cur) THEN TriggeredFlags(ckpt, sent, cur) ELSE <<>>
        BY DEF Resume
    <2> QED
        BY <2>1, <2>2, <2>3
<1> QED
    BY <1>1, DomainsInvariance, PTL DEF ComparedIsAnswered
=============================================================================
