----------------------------- MODULE ResultHash -----------------------------
(***************************************************************************)
(* What a committed tool result is compared by: _strip_keys takes excluded *)
(* keys out of a JSON value, the rest is hashed; diff_tool_results strips  *)
(* what the host brings at a resume by the keys committed with the result. *)
(*                                                                         *)
(* A value is <<"leaf", x>>, <<"dict", f>> with f a function on keys, or   *)
(* <<"list", s>>.  A dotted key "a.b" in hash_exclude is the path <<a, b>>.*)
(* Hashes are taken to be equal when what is hashed is.  A result hashed   *)
(* by a canonicalizer of the caller's is not modelled.                     *)
(***************************************************************************)
EXTENDS Naturals, Sequences, SequencesExt

CONSTANTS
    Keys,     \* keys of JSON objects
    Values,   \* JSON values, with their parts
    Excludes  \* sets of paths, with the sets their tails make

TypeOf(v) == v[1]
Content(v) == v[2]

\* Where a value has parts.
Positions(v) == IF TypeOf(v) = "leaf" THEN {} ELSE DOMAIN Content(v)

\* How deep a value is nested.
Depth[v \in Values] == Max({0} \cup {Depth[Content(v)[i]] + 1 : i \in Positions(v)})

\* What is left of the paths below a key.
Below(ex, key) == {Tail(e) : e \in {p \in ex : Len(p) > 1 /\ p[1] = key}}

\* JSON values are finite trees, and "".split(".") is not empty.
ASSUME ValuesAssumption ==
    \A v \in Values :
        /\ v = <<TypeOf(v), Content(v)>> /\ TypeOf(v) \in {"leaf", "dict", "list"}
        /\ TypeOf(v) # "leaf" => Content(v) = [i \in Positions(v) |-> Content(v)[i]]
        /\ TypeOf(v) = "dict" => DOMAIN Content(v) \subseteq Keys
        /\ TypeOf(v) = "list" => Content(v) \in Seq(Values)
        /\ \A i \in Positions(v) : Content(v)[i] \in Values
        /\ Depth[v] \in Nat
        /\ \A i \in Positions(v) : Depth[Content(v)[i]] < Depth[v]
ASSUME ExcludesAssumption ==
    /\ {} \in Excludes
    /\ \A ex \in Excludes :
        /\ ex \subseteq Seq(Keys) \ {<<>>}
        /\ \A p \in ex : Below(ex, p[1]) \in Excludes

\* _strip_keys, with the list of excluded paths as its second argument.
Stripped[v \in Values] ==
    [ex \in Excludes |->
        CASE TypeOf(v) = "dict" ->
               <<"dict", [k \in {l \in DOMAIN Content(v) : <<l>> \notin ex} |->
                            Stripped[Content(v)[k]][Below(ex, k)]]>>
          [] TypeOf(v) = "list" ->
               <<"list", [i \in DOMAIN Content(v) |-> Stripped[Content(v)[i]][ex]]>>
          [] OTHER -> v]

\* Mutation: lists are not looked through.
StrippedOfDicts[v \in Values] ==
    [ex \in Excludes |->
        CASE TypeOf(v) = "dict" ->
               <<"dict", [k \in {l \in DOMAIN Content(v) : <<l>> \notin ex} |->
                            StrippedOfDicts[Content(v)[k]][Below(ex, k)]]>>
          [] OTHER -> v]
StrippedNotInLists == [v \in Values |-> StrippedOfDicts[v]]

StrippedBy == [v \in Values |-> Stripped[v]]

\* diff_tool_results for one tool whose result the host brings.
Mismatch(committed, exclude, current) ==
    StrippedBy[current][exclude] # StrippedBy[committed][exclude]

-----------------------------------------------------------------------------
(* Reference.                                                              *)

\* What a value is without its parts.
Root(v) ==
    CASE TypeOf(v) = "leaf" -> v
      [] TypeOf(v) = "dict" -> <<"dict", 0>>
      [] TypeOf(v) = "list" -> <<"list", Len(Content(v))>>

\* Part n of the part of v at position i, seen from v: positions in lists are
\* on the way to it, but only keys can be named by a path.
Lifted(v, i, n) ==
    [way  |-> <<<<TypeOf(v), i>>>> \o n.way,
     keys |-> IF TypeOf(v) = "dict" THEN <<i>> \o n.keys ELSE n.keys,
     is   |-> n.is]

\* The nodes of a value: the way to each, the keys on it, and what is there.
Nodes[v \in Values] ==
    {[way |-> <<>>, keys |-> <<>>, is |-> Root(v)]}
    \cup UNION {{Lifted(v, i, n) : n \in Nodes[Content(v)[i]]} : i \in Positions(v)}

\* A node is excluded when the keys on the way to it begin with a path of ex.
Excluded(n, ex) == \E e \in ex : IsPrefix(e, n.keys)

Visible ==
    [v \in Values |-> [ex \in Excludes |-> {n \in Nodes[v] : ~Excluded(n, ex)}]]
=============================================================================
