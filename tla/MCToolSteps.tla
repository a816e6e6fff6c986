---------------------------- MODULE MCToolSteps ----------------------------
(* For TLC: a read-only tool, git, a tool with effects and a declared      *)
(* effect; results with a time stamp at the top, below a key and in a list.*)
EXTENDS ToolSteps

Leaf(x) == <<"leaf", x>>
Dict(f) == <<"dict", f>>
List(s) == <<"list", s>>

\* {"id": .., "at": ..}, with "at" there or not.
Records == {Dict([id |-> Leaf(i), at |-> Leaf(j)]) : i, j \in 1..2}
           \cup {Dict([id |-> Leaf(i)]) : i \in 1..2}
Nested == {Dict([data |-> r]) : r \in Records}
          \cup {Dict([data |-> List(<<r>>)]) : r \in Records}
          \cup {List(<<r>>) : r \in Records} \cup {List(<<>>), Dict(<<>>)}
Results == {Leaf(1), Leaf(2)} \cup Records \cup Nested

At == {<<"at">>}
DataAt == {<<"data", "at">>}
ExcludeLists == {{}, At, DataAt, At \cup DataAt}

Call(name, words, declared, result, exclude) ==
    [name |-> name, words |-> words, declared |-> declared,
     result |-> result, exclude |-> exclude]

Rec == Dict([id |-> Leaf(1), at |-> Leaf(1)])
HostCalls ==
    {Call(<<"fs", "cat">>, {}, "none", Rec, At),
     Call(<<"git">>, {"log"}, "none", List(<<Rec>>), At),
     Call(<<"git">>, {"force"}, "none", Leaf(1), {}),
     Call(<<"send">>, {}, "none", Dict([data |-> List(<<Rec>>)]), DataAt),
     Call(<<"fs", "cat">>, {}, "filesystem", Dict([data |-> Rec]), At \cup DataAt)}

GitWords == [git |-> {"diff", "status", "log", "show"}]
=============================================================================
