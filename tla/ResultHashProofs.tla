-------------------------- MODULE ResultHashProofs --------------------------
(***************************************************************************)
(* Proofs about ResultHash: that stripping a value and the nodes of a      *)
(* value are well defined, and that two values are stripped to the same    *)
(* exactly if the same of them is visible.                                 *)
(*                                                                         *)
(* Induction is by the least counterexample: a set of values that is not   *)
(* empty has one of whose parts none is in the set.  Recursive functions   *)
(* are shown to exist by putting approximations together, one for each     *)
(* depth, which agree where they are defined.                              *)
(***************************************************************************)
EXTENDS ResultHash, WellFoundedInduction, SequenceTheorems, TLAPS

-----------------------------------------------------------------------------
(* Least counterexamples.                                                  *)

LEMMA LeastNumber ==
    ASSUME NEW T \in SUBSET Nat, T # {}
    PROVE  \E m \in T : \A k \in T : m <= k
<1>1. PICK m \in T : \A k \in T : <<k, m>> \notin OpToRel(<, Nat)
    BY WFMin, NatLessThanWellFounded, Zenon
<1>2. \A k \in T : ~(k < m)
    BY <1>1, Zenon DEF OpToRel
<1> QED
    BY <1>2

LEMMA Shallowest ==
    ASSUME NEW B \in SUBSET Values, B # {}
    PROVE  \E v \in B : \A i \in Positions(v) : Content(v)[i] \notin B
<1> DEFINE T == {Depth[v] : v \in B}
<1>1. T \in SUBSET Nat /\ T # {}
    BY ValuesAssumption
<1>2. PICK m \in T : \A k \in T : m <= k
    BY <1>1, LeastNumber
<1>3. PICK v \in B : m = Depth[v]
    BY <1>2
<1>4. ASSUME NEW i \in Positions(v), Content(v)[i] \in B
      PROVE  FALSE
    <2>1. Depth[v] <= Depth[Content(v)[i]]
        BY <1>2, <1>3, <1>4
    <2> QED
        BY <2>1, <1>4, ValuesAssumption
<1> QED
    BY <1>3, <1>4

-----------------------------------------------------------------------------
(* Sequences.                                                              *)

LEMMA ConsEqual ==
    ASSUME NEW S, NEW a \in S, NEW b \in S, NEW s \in Seq(S), NEW t \in Seq(S),
           <<a>> \o s = <<b>> \o t
    PROVE  a = b /\ s = t
<1>1. /\ Len(<<a>> \o s) = Len(s) + 1 /\ Len(<<b>> \o t) = Len(t) + 1
      /\ (<<a>> \o s)[1] = a /\ (<<b>> \o t)[1] = b
    OBVIOUS
<1>2. ASSUME NEW k \in 1..Len(s)
      PROVE  (<<a>> \o s)[k + 1] = s[k]
    OBVIOUS
<1>3. ASSUME NEW k \in 1..Len(t)
      PROVE  (<<b>> \o t)[k + 1] = t[k]
    OBVIOUS
<1>4. Len(s) = Len(t)
    BY <1>1
<1>5. \A k \in 1..Len(s) : s[k] = t[k]
    BY <1>2, <1>3, <1>4
<1> QED
    BY <1>1, <1>4, <1>5, SeqEqual

LEMMA PrefixPointwise ==
    ASSUME NEW S, NEW s \in Seq(S), NEW t \in Seq(S)
    PROVE  IsPrefix(s, t) <=> Len(s) <= Len(t) /\ \A k \in 1..Len(s) : s[k] = t[k]
<1> SUFFICES ASSUME Len(s) <= Len(t)
             PROVE  SubSeq(s, 1, Len(s)) = SubSeq(t, 1, Len(s))
                      <=> \A k \in 1..Len(s) : s[k] = t[k]
    BY DEF IsPrefix
<1>1. SubSeq(s, 1, Len(s)) = s
    OBVIOUS
<1>2. /\ SubSeq(t, 1, Len(s)) \in Seq(S) /\ Len(SubSeq(t, 1, Len(s))) = Len(s)
      /\ \A k \in 1..Len(s) : SubSeq(t, 1, Len(s))[k] = t[k]
    OBVIOUS
<1> QED
    BY <1>1, <1>2, SeqEqual

LEMMA PrefixOfCons ==
    ASSUME NEW S, NEW e \in Seq(S), e # <<>>, NEW a \in S, NEW t \in Seq(S)
    PROVE  IsPrefix(e, <<a>> \o t) <=> e[1] = a /\ IsPrefix(Tail(e), t)
<1> DEFINE u == <<a>> \o t
           r == Tail(e)
<1>1. /\ u \in Seq(S) /\ Len(u) = Len(t) + 1 /\ u[1] = a
      /\ \A k \in 1..Len(t) : u[k + 1] = t[k]
    OBVIOUS
<1>2. /\ r \in Seq(S) /\ Len(e) \in Nat \ {0} /\ Len(r) = Len(e) - 1
      /\ \A k \in 1..Len(e) - 1 : r[k] = e[k + 1]
    OBVIOUS
<1> HIDE DEF u, r
<1>3. IsPrefix(e, u) <=> Len(e) <= Len(u) /\ \A k \in 1..Len(e) : e[k] = u[k]
    BY <1>1, PrefixPointwise
<1>4. IsPrefix(r, t) <=> Len(e) - 1 <= Len(t) /\ \A k \in 1..Len(e) - 1 : e[k + 1] = t[k]
    <2>1. IsPrefix(r, t) <=> Len(r) <= Len(t) /\ \A k \in 1..Len(r) : r[k] = t[k]
        BY <1>2, PrefixPointwise
    <2> QED
        BY <1>2, <2>1
<1>5. ASSUME IsPrefix(e, u)
      PROVE  e[1] = a /\ IsPrefix(r, t)
    <2>1. e[1] = a
        BY <1>1, <1>2, <1>3, <1>5
    <2>2. ASSUME NEW k \in 1..Len(e) - 1
          PROVE  e[k + 1] = t[k]
        <3>1. k + 1 \in 1..Len(e) /\ k \in 1..Len(t)
            BY <1>1, <1>2, <1>3, <1>5
        <3> QED
            BY <1>1, <1>3, <1>5, <3>1
    <2> QED
        BY <1>1, <1>2, <1>3, <1>4, <1>5, <2>1, <2>2
<1>6. ASSUME e[1] = a, IsPrefix(r, t)
      PROVE  IsPrefix(e, u)
    <2>1. ASSUME NEW k \in 1..Len(e), k # 1
          PROVE  e[k] = u[k]
        <3>1. k - 1 \in 1..Len(e) - 1 /\ k - 1 \in 1..Len(t) /\ (k - 1) + 1 = k
            BY <1>2, <1>4, <1>6, <2>1
        <3> QED
            BY <1>1, <1>4, <1>6, <3>1
    <2> QED
        BY <1>1, <1>2, <1>3, <1>4, <1>6, <2>1
<1> QED
    BY <1>5, <1>6 DEF u, r

-----------------------------------------------------------------------------
(* The recursions.                                                         *)

\* One step of the recursion of Stripped and one of Nodes, for a function g
\* that stands for the recursive calls.
StripStep(g, v) ==
    [ex \in Excludes |->
        CASE TypeOf(v) = "dict" ->
               <<"dict", [k \in {l \in DOMAIN Content(v) : <<l>> \notin ex} |->
                            g[Content(v)[k]][Below(ex, k)]]>>
          [] TypeOf(v) = "list" ->
               <<"list", [i \in DOMAIN Content(v) |-> g[Content(v)[i]][ex]]>>
          [] OTHER -> v]
NodeStep(g, v) ==
    {[way |-> <<>>, keys |-> <<>>, is |-> Root(v)]}
    \cup UNION {{Lifted(v, i, n) : n \in g[Content(v)[i]]} : i \in Positions(v)}
Step(which, g, v) == IF which = "strip" THEN StripStep(g, v) ELSE NodeStep(g, v)

LEMMA StepLocal ==
    ASSUME NEW which, NEW g, NEW h, NEW v \in Values,
           \A i \in Positions(v) : g[Content(v)[i]] = h[Content(v)[i]]
    PROVE  Step(which, g, v) = Step(which, h, v)
<1>1. StripStep(g, v) = StripStep(h, v)
    <2>1. CASE TypeOf(v) = "dict"
        BY <2>1 DEF StripStep, Positions
    <2>2. CASE TypeOf(v) = "list"
        BY <2>2 DEF StripStep, Positions
    <2>3. CASE TypeOf(v) \notin {"dict", "list"}
        BY <2>3 DEF StripStep
    <2> QED
        BY <2>1, <2>2, <2>3
<1>2. NodeStep(g, v) = NodeStep(h, v)
    BY DEF NodeStep
<1> QED
    BY <1>1, <1>2 DEF Step

\* The values nested less than n deep, and the recursion on them alone.
Shallow(n) == {v \in Values : Depth[v] < n}
Solves(which, n, g) == g = [v \in Shallow(n) |-> Step(which, g, v)]

LEMMA SolutionAt ==
    ASSUME NEW which, NEW n, NEW g, Solves(which, n, g), NEW v \in Shallow(n)
    PROVE  g[v] = Step(which, g, v)
<1> DEFINE h == [w \in Shallow(n) |-> Step(which, g, w)]
<1>1. h[v] = Step(which, g, v)
    OBVIOUS
<1>2. g = h
    BY Zenon DEF Solves
<1> QED
    BY <1>1, <1>2, Zenon

LEMMA PartsShallow ==
    ASSUME NEW n \in Nat, NEW v \in Shallow(n), NEW i \in Positions(v)
    PROVE  Content(v)[i] \in Shallow(n)
BY ValuesAssumption DEF Shallow

LEMMA SolutionsAgree ==
    ASSUME NEW which, NEW m \in Nat, NEW n \in Nat, NEW g, NEW h,
           Solves(which, m, g), Solves(which, n, h),
           NEW v \in Shallow(m) \cap Shallow(n)
    PROVE  g[v] = h[v]
<1> DEFINE B == {w \in Shallow(m) \cap Shallow(n) : g[w] # h[w]}
<1> SUFFICES ASSUME B # {} PROVE FALSE
    OBVIOUS
<1>1. B \in SUBSET Values
    BY DEF Shallow
<1>2. PICK w \in B : \A i \in Positions(w) : Content(w)[i] \notin B
    BY <1>1, Shallowest
<1>3. \A i \in Positions(w) : g[Content(w)[i]] = h[Content(w)[i]]
    BY <1>2, PartsShallow
<1>4. Step(which, g, w) = Step(which, h, w)
    BY <1>1, <1>3, StepLocal
<1>5. g[w] = h[w]
    BY <1>4, SolutionAt
<1> QED
    BY <1>5

LEMMA SolutionExists ==
    ASSUME NEW which, NEW n \in Nat
    PROVE  \E g : Solves(which, n, g)
<1> DEFINE T == {m \in Nat : ~\E g : Solves(which, m, g)}
<1> SUFFICES ASSUME T # {} PROVE FALSE
    OBVIOUS
<1>1. PICK m \in T : \A k \in T : m <= k
    BY LeastNumber
<1>2. CASE m = 0
    <2> DEFINE g == [v \in Shallow(m) |-> {}]
    <2>1. Shallow(m) = {}
        BY <1>2, ValuesAssumption DEF Shallow
    <2>2. Solves(which, m, g)
        BY <2>1 DEF Solves
    <2> QED
        BY <2>2
<1>3. CASE m # 0
    <2>1. m - 1 \in Nat /\ m - 1 \notin T
        BY <1>1, <1>3
    <2>2. PICK g : Solves(which, m - 1, g)
        BY <2>1
    <2> DEFINE h == [v \in Shallow(m) |-> Step(which, g, v)]
    <2>3. ASSUME NEW v \in Shallow(m)
          PROVE  Step(which, g, v) = Step(which, h, v)
        <3>1. ASSUME NEW i \in Positions(v)
              PROVE  g[Content(v)[i]] = h[Content(v)[i]]
            <4>1. Content(v)[i] \in Shallow(m) /\ Content(v)[i] \in Shallow(m - 1)
                BY <1>1, <3>1, ValuesAssumption DEF Shallow
            <4>2. g[Content(v)[i]] = Step(which, g, Content(v)[i])
                BY <2>2, <4>1, SolutionAt
            <4> QED
                BY <4>1, <4>2
        <3>2. v \in Values
            BY DEF Shallow
        <3> HIDE DEF h
        <3> QED
            BY <3>1, <3>2, StepLocal
    <2>4. h = [v \in Shallow(m) |-> Step(which, h, v)]
        BY <2>3
    <2> QED
        BY <2>4 DEF Solves
<1> QED
    BY <1>2, <1>3

LEMMA RecursionExists ==
    ASSUME NEW which
    PROVE  \E f : f = [v \in Values |-> Step(which, f, v)]
<1> DEFINE G(n) == CHOOSE g : Solves(which, n, g)
           f == [v \in Values |-> G(Depth[v] + 1)[v]]
<1>1. \A n \in Nat : Solves(which, n, G(n))
    BY SolutionExists
<1> HIDE DEF G
<1>2. ASSUME NEW v \in Values
      PROVE  f[v] = Step(which, f, v)
    <2> DEFINE n == Depth[v] + 1
    <2>1. n \in Nat /\ v \in Shallow(n) /\ Solves(which, n, G(n))
        BY <1>1, ValuesAssumption DEF Shallow
    <2>2. f[v] = Step(which, G(n), v)
        BY <2>1, SolutionAt
    <2>3. ASSUME NEW i \in Positions(v)
          PROVE  G(n)[Content(v)[i]] = f[Content(v)[i]]
        <3> DEFINE w == Content(v)[i]
                   m == Depth[w] + 1
        <3>1. w \in Values /\ m \in Nat /\ w \in Shallow(m)
            BY ValuesAssumption DEF Shallow
        <3>2. w \in Shallow(n) /\ Solves(which, m, G(m))
            BY <1>1, <2>1, <3>1, PartsShallow
        <3>3. G(n)[w] = G(m)[w]
            BY <2>1, <3>1, <3>2, SolutionsAgree
        <3> QED
            BY <3>1, <3>3
    <2> HIDE DEF f, n
    <2>4. Step(which, G(n), v) = Step(which, f, v)
        BY <2>3, StepLocal
    <2> QED
        BY <2>2, <2>4
<1>3. f = [v \in Values |-> Step(which, f, v)]
    BY <1>2
<1> QED
    BY <1>3

\* Stripped and Nodes satisfy the equations that define them.
LEMMA StrippedDef == Stripped = [v \in Values |-> StripStep(Stripped, v)]
<1>1. PICK f : f = [v \in Values |-> Step("strip", f, v)]
    BY RecursionExists
<1>2. f = [v \in Values |-> StripStep(f, v)]
    BY <1>1 DEF Step
<1> QED
    <2> SUFFICES \E g : g = [v \in Values |-> StripStep(g, v)]
        BY Zenon DEF Stripped, StripStep
    <2> QED
        BY <1>2, Zenon

LEMMA NodesDef == Nodes = [v \in Values |-> NodeStep(Nodes, v)]
<1>1. PICK f : f = [v \in Values |-> Step("nodes", f, v)]
    BY RecursionExists
<1>2. f = [v \in Values |-> NodeStep(f, v)]
    BY <1>1 DEF Step
<1> QED
    BY <1>2, Zenon DEF Nodes, NodeStep

-----------------------------------------------------------------------------
(* The parts of a value that no path hides, and the paths below them.      *)

Shown(v, ex) == {i \in Positions(v) : TypeOf(v) = "dict" => <<i>> \notin ex}
Inner(v, ex, i) == IF TypeOf(v) = "dict" THEN Below(ex, i) ELSE ex

LEMMA InnerIsExclude ==
    ASSUME NEW v \in Values, NEW ex \in Excludes, NEW i
    PROVE  Inner(v, ex, i) \in Excludes
<1>1. CASE \E p \in ex : p[1] = i
    BY <1>1, ExcludesAssumption DEF Inner
<1>2. CASE ~\E p \in ex : p[1] = i
    <2>1. Below(ex, i) = {}
        BY <1>2 DEF Below
    <2> QED
        BY <2>1, ExcludesAssumption DEF Inner
<1> QED
    BY <1>1, <1>2

\* What _strip_keys makes of a value with parts, and of one without.
LEMMA StrippedParts ==
    ASSUME NEW v \in Values, NEW ex \in Excludes, TypeOf(v) # "leaf"
    PROVE  Stripped[v][ex] =
             <<TypeOf(v), [i \in Shown(v, ex) |->
                             Stripped[Content(v)[i]][Inner(v, ex, i)]]>>
<1>1. Stripped[v] = StripStep(Stripped, v)
    BY StrippedDef
<1>2. CASE TypeOf(v) = "dict"
    <2>1. Stripped[v][ex] =
            <<"dict", [k \in {l \in DOMAIN Content(v) : <<l>> \notin ex} |->
                         Stripped[Content(v)[k]][Below(ex, k)]]>>
        BY <1>1, <1>2 DEF StripStep
    <2> QED
        BY <1>2, <2>1 DEF Shown, Inner, Positions
<1>3. CASE TypeOf(v) = "list"
    <2>1. Stripped[v][ex] =
            <<"list", [i \in DOMAIN Content(v) |-> Stripped[Content(v)[i]][ex]]>>
        BY <1>1, <1>3 DEF StripStep
    <2> QED
        BY <1>3, <2>1 DEF Shown, Inner, Positions
<1> QED
    BY <1>2, <1>3, ValuesAssumption

LEMMA StrippedLeaf ==
    ASSUME NEW v \in Values, NEW ex \in Excludes, TypeOf(v) = "leaf"
    PROVE  Stripped[v][ex] = v
<1>1. Stripped[v] = StripStep(Stripped, v)
    BY StrippedDef
<1> QED
    BY <1>1 DEF StripStep

-----------------------------------------------------------------------------
(* Nodes.                                                                  *)

Turns == {"dict", "list"} \X (Keys \cup Nat)
IsNode(n) ==
    /\ n.way \in Seq(Turns) /\ n.keys \in Seq(Keys)
    /\ n = [way |-> n.way, keys |-> n.keys, is |-> n.is]
RootNode(v) == [way |-> <<>>, keys |-> <<>>, is |-> Root(v)]

LEMMA NodesParts ==
    ASSUME NEW v \in Values
    PROVE  \A n : n \in Nodes[v] <=>
               \/ n = RootNode(v)
               \/ \E i \in Positions(v) : \E m \in Nodes[Content(v)[i]] : n = Lifted(v, i, m)
<1>1. Nodes[v] = NodeStep(Nodes, v)
    BY NodesDef
<1> QED
    BY <1>1 DEF NodeStep, RootNode

LEMMA PositionTypes ==
    ASSUME NEW v \in Values, NEW i \in Positions(v)
    PROVE  /\ TypeOf(v) \in {"dict", "list"} /\ i \in Keys \cup Nat
           /\ TypeOf(v) = "dict" => i \in Keys
<1>1. CASE TypeOf(v) = "dict"
    BY <1>1, ValuesAssumption DEF Positions
<1>2. CASE TypeOf(v) = "list"
    BY <1>2, ValuesAssumption DEF Positions
<1> QED
    BY <1>1, <1>2, ValuesAssumption DEF Positions

LEMMA LiftedType ==
    ASSUME NEW v \in Values, NEW i \in Positions(v), NEW n, IsNode(n)
    PROVE  IsNode(Lifted(v, i, n))
<1>1. <<TypeOf(v), i>> \in Turns
    BY PositionTypes DEF Turns
<1>2. <<<<TypeOf(v), i>>>> \o n.way \in Seq(Turns)
    BY <1>1 DEF IsNode
<1>3. TypeOf(v) = "dict" => <<i>> \o n.keys \in Seq(Keys)
    BY PositionTypes DEF IsNode
<1> QED
    BY <1>2, <1>3 DEF IsNode, Lifted

LEMMA NodeType == \A v \in Values : \A n \in Nodes[v] : IsNode(n)
<1> DEFINE B == {v \in Values : \E n \in Nodes[v] : ~IsNode(n)}
<1> SUFFICES ASSUME B # {} PROVE FALSE
    OBVIOUS
<1>1. PICK v \in B : \A i \in Positions(v) : Content(v)[i] \notin B
    BY Shallowest
<1>2. \A i \in Positions(v) : \A n \in Nodes[Content(v)[i]] : IsNode(n)
    BY <1>1, ValuesAssumption
<1>3. IsNode(RootNode(v))
    BY DEF IsNode, RootNode
<1>4. \A n \in Nodes[v] : IsNode(n)
    BY <1>2, <1>3, NodesParts, LiftedType
<1> QED
    BY <1>4

\* Different parts give different nodes.
LEMMA LiftedOnce ==
    ASSUME NEW v \in Values, NEW w \in Values, TypeOf(v) = TypeOf(w),
           NEW i \in Positions(v), NEW j \in Positions(w),
           NEW n, NEW m, IsNode(n), IsNode(m),
           Lifted(v, i, n) = Lifted(w, j, m)
    PROVE  i = j /\ n = m
<1> DEFINE a == <<TypeOf(v), i>>
           b == <<TypeOf(v), j>>
<1>1. /\ <<a>> \o n.way = <<b>> \o m.way
      /\ TypeOf(v) = "dict" => <<i>> \o n.keys = <<j>> \o m.keys
      /\ TypeOf(v) # "dict" => n.keys = m.keys
      /\ n.is = m.is
    BY SMTT(30) DEF Lifted
<1>2. a = b /\ n.way = m.way
    <2>1. a \in Turns /\ b \in Turns
        BY PositionTypes DEF Turns
    <2>2. n.way \in Seq(Turns) /\ m.way \in Seq(Turns)
        BY DEF IsNode
    <2>3. <<a>> \o n.way = <<b>> \o m.way
        BY <1>1
    <2> HIDE DEF a, b
    <2> QED
        BY ONLY <2>1, <2>2, <2>3, ConsEqual, ZenonT(60)
<1>3. n.keys = m.keys
    <2>1. n.keys \in Seq(Keys) /\ m.keys \in Seq(Keys)
        BY DEF IsNode
    <2>2. CASE TypeOf(v) = "dict"
        <3>1. i \in Keys /\ j \in Keys /\ <<i>> \o n.keys = <<j>> \o m.keys
            BY <1>1, <2>2, PositionTypes
        <3> QED
            BY ONLY <2>1, <3>1, ConsEqual, ZenonT(60)
    <2> QED
        BY <1>1, <2>2
<1> QED
    BY <1>1, <1>2, <1>3 DEF IsNode

LEMMA RootNotLifted ==
    ASSUME NEW v \in Values, NEW w \in Values, NEW i \in Positions(v), NEW n, IsNode(n)
    PROVE  RootNode(w) # Lifted(v, i, n)
<1>1. Len(<<<<TypeOf(v), i>>>> \o n.way) # 0
    BY PositionTypes DEF IsNode, Turns
<1>2. Lifted(v, i, n).way # <<>>
    BY <1>1 DEF Lifted
<1> QED
    BY <1>2 DEF RootNode

-----------------------------------------------------------------------------
(* What is visible of a value.                                             *)

LEMMA RootVisible ==
    ASSUME NEW v \in Values, NEW ex \in Excludes
    PROVE  ~Excluded(RootNode(v), ex)
<1> SUFFICES ASSUME NEW e \in ex, IsPrefix(e, RootNode(v).keys) PROVE FALSE
    BY DEF Excluded
<1>1. e \in Seq(Keys) /\ e # <<>>
    BY ExcludesAssumption
<1>2. Len(e) <= 0
    BY DEF IsPrefix, RootNode
<1> QED
    BY <1>1, <1>2

\* A path hides a node if it hides the part that the node is in, or if what
\* is left of it below that part hides the node there.
LEMMA LiftedExcluded ==
    ASSUME NEW v \in Values, NEW ex \in Excludes, NEW i \in Positions(v),
           NEW n, IsNode(n)
    PROVE  Excluded(Lifted(v, i, n), ex) <=>
             i \notin Shown(v, ex) \/ Excluded(n, Inner(v, ex, i))
<1>1. CASE TypeOf(v) = "dict"
    <2>1. Lifted(v, i, n).keys = <<i>> \o n.keys /\ i \in Keys /\ n.keys \in Seq(Keys)
        BY <1>1, PositionTypes DEF Lifted, IsNode
    <2>2. \A e \in ex : e \in Seq(Keys) /\ e # <<>>
        BY ExcludesAssumption
    <2>3. \A e \in ex : IsPrefix(e, Lifted(v, i, n).keys) <=>
                          e[1] = i /\ IsPrefix(Tail(e), n.keys)
        BY <2>1, <2>2, PrefixOfCons
    <2>4. i \notin Shown(v, ex) <=> <<i>> \in ex
        BY <1>1 DEF Shown
    <2>5. Excluded(n, Inner(v, ex, i)) <=>
            \E e \in ex : Len(e) > 1 /\ e[1] = i /\ IsPrefix(Tail(e), n.keys)
        BY <1>1 DEF Excluded, Inner, Below
    <2>6. ASSUME NEW e \in ex, e[1] = i, IsPrefix(Tail(e), n.keys)
          PROVE  <<i>> \in ex \/ Len(e) > 1
        <3>1. Len(e) = 1 => e = <<i>>
            BY <2>2, <2>6, SeqEqual
        <3> QED
            BY <2>2, <3>1
    <2>7. <<i>> \in ex => IsPrefix(<<i>>, Lifted(v, i, n).keys)
        <3>1. <<i>>[1] = i /\ Tail(<<i>>) = <<>>
            OBVIOUS
        <3>2. IsPrefix(<<>>, n.keys)
            BY <2>1 DEF IsPrefix
        <3> QED
            BY <2>3, <3>1, <3>2
    <2> QED
        BY <2>3, <2>4, <2>5, <2>6, <2>7 DEF Excluded
<1>2. CASE TypeOf(v) # "dict"
    BY <1>2 DEF Excluded, Lifted, Shown, Inner
<1> QED
    BY <1>1, <1>2

\* What is visible of a value with parts is its root and, of each part that
\* is shown, what is visible there.
LEMMA VisibleParts ==
    ASSUME NEW v \in Values, NEW ex \in Excludes
    PROVE  \A n : n \in Visible[v][ex] <=>
               \/ n = RootNode(v)
               \/ \E i \in Shown(v, ex) :
                    \E m \in Visible[Content(v)[i]][Inner(v, ex, i)] : n = Lifted(v, i, m)
<1>1. Visible[v][ex] = {n \in Nodes[v] : ~Excluded(n, ex)}
    BY DEF Visible
<1>2. ASSUME NEW i \in Shown(v, ex)
      PROVE  Visible[Content(v)[i]][Inner(v, ex, i)] =
               {m \in Nodes[Content(v)[i]] : ~Excluded(m, Inner(v, ex, i))}
    <2>1. Content(v)[i] \in Values /\ Inner(v, ex, i) \in Excludes
        BY ValuesAssumption, InnerIsExclude DEF Shown
    <2> QED
        BY <2>1 DEF Visible
<1>3. \A i \in Positions(v) : \A m \in Nodes[Content(v)[i]] :
        Excluded(Lifted(v, i, m), ex) <=>
          i \notin Shown(v, ex) \/ Excluded(m, Inner(v, ex, i))
    BY LiftedExcluded, NodeType, ValuesAssumption
<1>4. Shown(v, ex) \subseteq Positions(v)
    BY DEF Shown
<1>5. ASSUME NEW n, n \in Visible[v][ex], n # RootNode(v)
      PROVE  \E i \in Shown(v, ex) :
               \E m \in Visible[Content(v)[i]][Inner(v, ex, i)] : n = Lifted(v, i, m)
    <2>0. PICK i \in Positions(v) : \E m \in Nodes[Content(v)[i]] : n = Lifted(v, i, m)
        BY <1>1, <1>5, NodesParts
    <2>1. PICK m \in Nodes[Content(v)[i]] : n = Lifted(v, i, m)
        BY <2>0
    <2>2. i \in Shown(v, ex) /\ ~Excluded(m, Inner(v, ex, i))
        BY <1>1, <1>3, <1>5, <2>1
    <2> QED
        BY <1>2, <2>1, <2>2
<1>6. ASSUME NEW i \in Shown(v, ex), NEW m \in Visible[Content(v)[i]][Inner(v, ex, i)]
      PROVE  Lifted(v, i, m) \in Visible[v][ex]
    <2>1. m \in Nodes[Content(v)[i]] /\ ~Excluded(m, Inner(v, ex, i))
        BY <1>2
    <2>2. Lifted(v, i, m) \in Nodes[v]
        BY <1>4, <2>1, NodesParts
    <2>3. ~Excluded(Lifted(v, i, m), ex)
        BY <1>3, <1>4, <2>1
    <2> QED
        BY <1>1, <2>2, <2>3
<1>7. RootNode(v) \in Visible[v][ex]
    BY <1>1, NodesParts, RootVisible
<1> QED
    BY <1>5, <1>6, <1>7

LEMMA VisibleType ==
    ASSUME NEW v \in Values, NEW ex \in Excludes, NEW n \in Visible[v][ex]
    PROVE  IsNode(n)
BY NodeType DEF Visible

-----------------------------------------------------------------------------
(* The theorem.                                                            *)

LEMMA RootTellsType ==
    ASSUME NEW v \in Values
    PROVE  Root(v)[1] = TypeOf(v)
BY ValuesAssumption DEF Root, TypeOf

LEMMA StrippedTellsType ==
    ASSUME NEW v \in Values, NEW ex \in Excludes
    PROVE  Stripped[v][ex][1] = TypeOf(v)
<1>1. CASE TypeOf(v) = "leaf"
    BY <1>1, StrippedLeaf DEF TypeOf
<1>2. CASE TypeOf(v) # "leaf"
    <2> DEFINE f == [i \in Shown(v, ex) |-> Stripped[Content(v)[i]][Inner(v, ex, i)]]
    <2>1. Stripped[v][ex] = <<TypeOf(v), f>>
        BY <1>2, StrippedParts
    <2> HIDE DEF f
    <2> QED
        BY <2>1
<1> QED
    BY <1>1, <1>2

LEMMA SameVisibleRoot ==
    ASSUME NEW v \in Values, NEW w \in Values, NEW ex \in Excludes,
           Visible[v][ex] = Visible[w][ex]
    PROVE  Root(v) = Root(w)
<1>1. RootNode(v) \in Visible[w][ex]
    BY VisibleParts
<1>2. ASSUME NEW i \in Shown(w, ex),
             NEW m \in Visible[Content(w)[i]][Inner(w, ex, i)]
      PROVE  RootNode(v) # Lifted(w, i, m)
    <2>1. i \in Positions(w) /\ Content(w)[i] \in Values /\ Inner(w, ex, i) \in Excludes
        BY ValuesAssumption, InnerIsExclude DEF Shown
    <2>2. IsNode(m)
        BY <2>1, VisibleType
    <2> QED
        BY <2>1, <2>2, RootNotLifted
<1>3. RootNode(v) = RootNode(w)
    BY <1>1, <1>2, VisibleParts
<1> QED
    BY <1>3 DEF RootNode

\* Of two values of one type with the same visible nodes, a part that is
\* shown of one is shown of the other, and no more is visible of it there.
LEMMA VisiblePartWithin ==
    ASSUME NEW v \in Values, NEW w \in Values, NEW ex \in Excludes,
           TypeOf(v) = TypeOf(w), Visible[v][ex] \subseteq Visible[w][ex],
           NEW i \in Shown(v, ex)
    PROVE  /\ i \in Shown(w, ex)
           /\ Visible[Content(v)[i]][Inner(v, ex, i)]
                \subseteq Visible[Content(w)[i]][Inner(w, ex, i)]
<1> DEFINE c == Content(v)[i]
           below == Inner(v, ex, i)
<1>1. i \in Positions(v) /\ c \in Values /\ below \in Excludes
    BY ValuesAssumption, InnerIsExclude DEF Shown
<1>2. ASSUME NEW n \in Visible[c][below]
      PROVE  i \in Shown(w, ex) /\ n \in Visible[Content(w)[i]][Inner(w, ex, i)]
    <2>1. IsNode(n)
        BY <1>1, VisibleType
    <2>2. Lifted(v, i, n) \in Visible[w][ex]
        BY VisibleParts
    <2>3. Lifted(v, i, n) # RootNode(w)
        BY <1>1, <2>1, RootNotLifted
    <2>0. PICK j \in Shown(w, ex) :
            \E m \in Visible[Content(w)[j]][Inner(w, ex, j)] :
               Lifted(v, i, n) = Lifted(w, j, m)
        BY <2>2, <2>3, VisibleParts
    <2>4. PICK m \in Visible[Content(w)[j]][Inner(w, ex, j)] :
            Lifted(v, i, n) = Lifted(w, j, m)
        BY <2>0
    <2>5. j \in Positions(w) /\ Content(w)[j] \in Values /\ Inner(w, ex, j) \in Excludes
        BY ValuesAssumption, InnerIsExclude DEF Shown
    <2>6. IsNode(m)
        BY <2>5, VisibleType
    <2>7. i = j /\ n = m
        BY <1>1, <2>1, <2>4, <2>5, <2>6, LiftedOnce
    <2> QED
        BY <2>4, <2>7
<1>3. RootNode(c) \in Visible[c][below]
    BY <1>1, VisibleParts
<1> QED
    BY <1>2, <1>3

LEMMA VisibleByParts ==
    ASSUME NEW v \in Values, NEW w \in Values, NEW ex \in Excludes, TypeOf(v) = TypeOf(w)
    PROVE  Visible[v][ex] = Visible[w][ex] <=>
             /\ Root(v) = Root(w) /\ Shown(v, ex) = Shown(w, ex)
             /\ \A i \in Shown(v, ex) :
                  Visible[Content(v)[i]][Inner(v, ex, i)]
                    = Visible[Content(w)[i]][Inner(w, ex, i)]
<1>1. ASSUME Visible[v][ex] = Visible[w][ex]
      PROVE  /\ Root(v) = Root(w) /\ Shown(v, ex) = Shown(w, ex)
             /\ \A i \in Shown(v, ex) :
                  Visible[Content(v)[i]][Inner(v, ex, i)]
                    = Visible[Content(w)[i]][Inner(w, ex, i)]
    <2>1. Root(v) = Root(w)
        BY <1>1, SameVisibleRoot
    <2>2. \A i \in Shown(v, ex) :
            /\ i \in Shown(w, ex)
            /\ Visible[Content(v)[i]][Inner(v, ex, i)]
                 \subseteq Visible[Content(w)[i]][Inner(w, ex, i)]
        BY <1>1, VisiblePartWithin
    <2>3. \A i \in Shown(w, ex) :
            /\ i \in Shown(v, ex)
            /\ Visible[Content(w)[i]][Inner(w, ex, i)]
                 \subseteq Visible[Content(v)[i]][Inner(v, ex, i)]
        BY <1>1, VisiblePartWithin
    <2> QED
        BY <2>1, <2>2, <2>3
<1>2. ASSUME Root(v) = Root(w), Shown(v, ex) = Shown(w, ex),
             \A i \in Shown(v, ex) :
                Visible[Content(v)[i]][Inner(v, ex, i)]
                  = Visible[Content(w)[i]][Inner(w, ex, i)]
      PROVE  Visible[v][ex] = Visible[w][ex]
    <2>1. RootNode(v) = RootNode(w)
        BY <1>2 DEF RootNode
    <2>2. \A i, m : Lifted(v, i, m) = Lifted(w, i, m)
        BY DEF Lifted
    <2>3. \A n : n \in Visible[v][ex] <=> n \in Visible[w][ex]
        BY <1>2, <2>1, <2>2, VisibleParts
    <2> QED
        BY <2>3
<1> QED
    BY <1>1, <1>2

LEMMA StrippedByParts ==
    ASSUME NEW v \in Values, NEW w \in Values, NEW ex \in Excludes,
           TypeOf(v) = TypeOf(w), TypeOf(v) # "leaf"
    PROVE  Stripped[v][ex] = Stripped[w][ex] <=>
             /\ Shown(v, ex) = Shown(w, ex)
             /\ \A i \in Shown(v, ex) :
                  Stripped[Content(v)[i]][Inner(v, ex, i)]
                    = Stripped[Content(w)[i]][Inner(w, ex, i)]
<1> DEFINE f == [i \in Shown(v, ex) |-> Stripped[Content(v)[i]][Inner(v, ex, i)]]
           g == [i \in Shown(w, ex) |-> Stripped[Content(w)[i]][Inner(w, ex, i)]]
<1>1. Stripped[v][ex] = <<TypeOf(v), f>> /\ Stripped[w][ex] = <<TypeOf(v), g>>
    BY StrippedParts
<1>2. f = g <=> /\ Shown(v, ex) = Shown(w, ex)
                /\ \A i \in Shown(v, ex) : f[i] = g[i]
    <2>1. DOMAIN f = Shown(v, ex) /\ DOMAIN g = Shown(w, ex)
        OBVIOUS
    <2> QED
        BY <2>1
<1> HIDE DEF f, g
<1>3. Stripped[v][ex] = Stripped[w][ex] <=> f = g
    BY <1>1
<1> QED
    BY <1>2, <1>3 DEF f, g

\* A root says how many parts a list has; those of a dict are told by the
\* nodes below it.
LEMMA RootsAgree ==
    ASSUME NEW v \in Values, NEW w \in Values, NEW ex \in Excludes,
           TypeOf(v) = TypeOf(w), TypeOf(v) # "leaf", Shown(v, ex) = Shown(w, ex)
    PROVE  Root(v) = Root(w)
<1>1. CASE TypeOf(v) = "dict"
    BY <1>1 DEF Root
<1>2. CASE TypeOf(v) = "list"
    <2>1. Content(v) \in Seq(Values) /\ Content(w) \in Seq(Values)
        BY <1>2, ValuesAssumption
    <2>2. DOMAIN Content(v) = DOMAIN Content(w)
        BY <1>2 DEF Shown, Positions
    <2>3. Len(Content(v)) = Len(Content(w))
        BY <2>1, <2>2
    <2> QED
        BY <1>2, <2>3 DEF Root
<1> QED
    BY <1>1, <1>2, ValuesAssumption

\* Whatever is excluded, _strip_keys makes the same of two JSON values, so
\* that their hashes are equal, exactly if they differ nowhere but at nodes
\* that an excluded path leads to.
THEOREM StrippedIffVisible ==
    \A v \in Values, w \in Values, ex \in Excludes :
        Stripped[v][ex] = Stripped[w][ex] <=> Visible[v][ex] = Visible[w][ex]
<1> DEFINE Same(v, w, ex) ==
             Stripped[v][ex] = Stripped[w][ex] <=> Visible[v][ex] = Visible[w][ex]
           B == {v \in Values : \E w \in Values, ex \in Excludes : ~Same(v, w, ex)}
<1> SUFFICES ASSUME B # {} PROVE FALSE
    OBVIOUS
<1>1. PICK v \in B : \A i \in Positions(v) : Content(v)[i] \notin B
    BY Shallowest
<1>2. PICK w \in Values, ex \in Excludes : ~Same(v, w, ex)
    BY <1>1
<1>3. v \in Values
    OBVIOUS
<1>4. TypeOf(v) = TypeOf(w)
    <2>1. Stripped[v][ex] = Stripped[w][ex] => TypeOf(v) = TypeOf(w)
        BY <1>3, StrippedTellsType
    <2>2. Visible[v][ex] = Visible[w][ex] => TypeOf(v) = TypeOf(w)
        BY <1>3, SameVisibleRoot, RootTellsType
    <2> QED
        BY <1>2, <2>1, <2>2
<1>5. CASE TypeOf(v) = "leaf"
    <2>1. Stripped[v][ex] = v /\ Stripped[w][ex] = w
        BY <1>3, <1>4, <1>5, StrippedLeaf
    <2>2. Root(v) = v /\ Root(w) = w
        BY <1>4, <1>5 DEF Root
    <2>3. Visible[v][ex] = Visible[w][ex] => v = w
        BY <1>3, <2>2, SameVisibleRoot
    <2> QED
        BY <1>2, <2>1, <2>3
<1>6. CASE TypeOf(v) # "leaf"
    <2>1. ASSUME NEW i \in Shown(v, ex), Shown(v, ex) = Shown(w, ex)
          PROVE  Same(Content(v)[i], Content(w)[i], Inner(v, ex, i))
        <3>1. /\ i \in Positions(v) /\ i \in Positions(w)
              /\ Content(v)[i] \in Values /\ Content(w)[i] \in Values
              /\ Inner(v, ex, i) \in Excludes
            BY <1>3, <2>1, ValuesAssumption, InnerIsExclude DEF Shown
        <3> QED
            BY <1>1, <3>1
    <2>2. \A i : Inner(v, ex, i) = Inner(w, ex, i)
        BY <1>4 DEF Inner
    <2>3. Stripped[v][ex] = Stripped[w][ex] <=>
             /\ Shown(v, ex) = Shown(w, ex)
             /\ \A i \in Shown(v, ex) :
                  Stripped[Content(v)[i]][Inner(v, ex, i)]
                    = Stripped[Content(w)[i]][Inner(w, ex, i)]
        BY <1>3, <1>4, <1>6, StrippedByParts
    <2>4. Visible[v][ex] = Visible[w][ex] <=>
             /\ Root(v) = Root(w) /\ Shown(v, ex) = Shown(w, ex)
             /\ \A i \in Shown(v, ex) :
                  Visible[Content(v)[i]][Inner(v, ex, i)]
                    = Visible[Content(w)[i]][Inner(w, ex, i)]
        BY <1>3, <1>4, VisibleByParts
    <2>5. Shown(v, ex) = Shown(w, ex) => Root(v) = Root(w)
        BY <1>3, <1>4, <1>6, RootsAgree
    <2> QED
        BY <1>2, <2>1, <2>2, <2>3, <2>4, <2>5
<1> QED
    BY <1>5, <1>6

\* Without exclusions a value is hashed as it is: _strip_keys may return early
\* when its list is empty, at the top and below each key.
THEOREM NothingExcluded == \A v \in Values : Stripped[v][{}] = v
<1> DEFINE B == {v \in Values : Stripped[v][{}] # v}
<1> SUFFICES ASSUME B # {} PROVE FALSE
    OBVIOUS
<1>1. PICK v \in B : \A i \in Positions(v) : Content(v)[i] \notin B
    BY Shallowest
<1>2. v \in Values /\ {} \in Excludes
    BY ExcludesAssumption
<1>3. CASE TypeOf(v) = "leaf"
    BY <1>2, <1>3, StrippedLeaf
<1>4. CASE TypeOf(v) # "leaf"
    <2> DEFINE f == [i \in Shown(v, {}) |-> Stripped[Content(v)[i]][Inner(v, {}, i)]]
    <2>1. Shown(v, {}) = Positions(v)
        BY DEF Shown
    <2>2. \A i : Inner(v, {}, i) = {}
        BY DEF Inner, Below
    <2>3. \A i \in Positions(v) : Stripped[Content(v)[i]][{}] = Content(v)[i]
        BY <1>1, <1>2, ValuesAssumption
    <2>4. f = Content(v)
        BY <1>2, <1>4, <2>1, <2>2, <2>3, ValuesAssumption
    <2>5. Stripped[v][{}] = <<TypeOf(v), f>>
        BY <1>2, <1>4, StrippedParts
    <2> HIDE DEF f
    <2>6. v = <<TypeOf(v), Content(v)>>
        BY <1>2, ValuesAssumption
    <2>7. Stripped[v][{}] = v
        BY ONLY <2>4, <2>5, <2>6
    <2> QED
        BY <2>7
<1> QED
    BY <1>3, <1>4

\* To exclude more never makes a mismatch where there was none.
THEOREM ExcludingMoreHidesMore ==
    \A v \in Values, w \in Values, ex \in Excludes, more \in Excludes :
        ex \subseteq more /\ Stripped[v][ex] = Stripped[w][ex]
            => Stripped[v][more] = Stripped[w][more]
<1> SUFFICES ASSUME NEW v \in Values, NEW w \in Values,
                    NEW ex \in Excludes, NEW more \in Excludes,
                    ex \subseteq more, Visible[v][ex] = Visible[w][ex]
             PROVE  Visible[v][more] = Visible[w][more]
    BY StrippedIffVisible
<1>1. \A u \in Values : Visible[u][more] = {n \in Visible[u][ex] : ~Excluded(n, more)}
    BY DEF Visible, Excluded
<1> QED
    BY <1>1
=============================================================================
