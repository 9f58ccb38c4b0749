------------------------------ MODULE MCScript ------------------------------
(* Instances of Script for TLC: the trees of expressions, and arrays.      *)
EXTENDS Script

SampleTime == [type |-> "real", constraints |->
                 <<[check |-> "less", arg |-> 0, negative |-> TRUE],
                   [check |-> "size", arg |-> 1, negative |-> FALSE]>>]
Outputs == [type |-> "int32", constraints |->
              <<[check |-> "greater", arg |-> 0, negative |-> FALSE],
                [check |-> "less", arg |-> 3, negative |-> FALSE],
                [check |-> "size", arg |-> 1, negative |-> FALSE]>>]
Symbols == [type |-> "int32", constraints |->
              <<[check |-> "modulo", arg |-> 2, negative |-> FALSE],
                [check |-> "greater", arg |-> 0, negative |-> FALSE]>>]
FileName == [type |-> "string", constraints |-> <<[check |-> "size", arg |-> 1, negative |-> FALSE]>>]
Profile == [type |-> "real", constraints |-> <<[check |-> "greater", arg |-> 0, negative |-> FALSE]>>]
\* No block of the library has one.
Gain == [type |-> "complex", constraints |-> <<>>]

BlockParameters == {<<>>, <<FileName>>, <<SampleTime, Outputs, Symbols>>, <<Profile>>, <<Gain>>}

\* Trees
I(n) == [id |-> "integer", value |-> n]
R(n) == [id |-> "real", value |-> n]
Im == [id |-> "complex", value |-> 1]
V(name) == [id |-> "identifier", name |-> name]
Node(id, children) == [id |-> id, children |-> children]
Op(id, op, children) == [id |-> id, operator |-> op, children |-> children]
Times2(a, b) == Op("scalarterm", "*", <<a, b>>)
Over(a, b) == Op("scalarterm", "/", <<a, b>>)
Sum2(a, b) == Op("scalarexpression", "+", <<a, b>>)
Minus(a, b) == Op("scalarexpression", "-", <<a, b>>)
Negated(a) == Op("scalarfactor", "-", <<a>>)

Means(tree, type, elements) ==
    [tree |-> tree, type |-> type, elements |-> elements, supported |-> TRUE]
Senseless(tree) == [tree |-> tree, type |-> "empty", elements |-> <<>>, supported |-> FALSE]

\* The elements of a range, by what they are.
RangeOf(start, inc, end) ==
    IF inc > 0 THEN SetToSortSeq({n \in start..end : (n - start) % inc = 0}, <)
    ELSE SetToSortSeq({n \in end..start : (start - n) % (-inc) = 0}, >)

Scalars1 == {
    Means(I(0), "int32", <<0>>), Means(I(2), "int32", <<2>>), Means(I(-1), "int32", <<-1>>),
    Means(R(1), "real", <<1>>),
    Means(Over(I(7), I(2)), "int32", <<3>>),                        \* 7 / 2
    Means(Times2(Over(I(1), I(2)), R(2)), "real", <<1>>),           \* 1 / 2 * 2.0
    Means(Negated(Minus(I(1), Sum2(I(2), I(3)))), "int32", <<4>>),  \* -(1 - (2 + 3))
    Means(Times2(I(2), Im), "complex", <<2>>),                      \* 2 * i
    Means([id |-> "string", value |-> 5], "string", <<5>>)}

Vectors == {
    Means(Node("rowvec", <<I(1), I(2)>>), "int32", <<1, 2>>),
    Means(Node("rowvec", <<I(3), R(1), I(2)>>), "real", <<3, 1, 2>>),
    Means(Node("rowvec", <<Im, Times2(I(2), Im)>>), "complex", <<1, 2>>),
    Means(Node("range", <<I(0), I(2), I(5)>>), "int32", RangeOf(0, 2, 5)),
    Means(Node("range", <<I(1), R(1), I(3)>>), "real", RangeOf(1, 1, 3)),
    Means(Node("range", <<I(5), I(-2), I(0)>>), "int32", RangeOf(5, -2, 0))}

\* What the grammar has and the actions do not know, or not in this place.
Oddities == {
    Senseless(Node("array", <<Node("rowvec", <<I(1), I(2)>>), Node("rowvec", <<I(3), I(4)>>)>>)),
    Senseless(Node("range", <<I(3), I(1), I(3)>>)),
    Senseless(Node("range", <<I(1), I(-1), I(5)>>)),
    Senseless(Op("scalarpot", "^", <<I(2), I(2)>>)),
    Senseless(Sum2(V(1), I(1))),
    Senseless(Over(I(1), I(0)))}

Variables1 == {Means(V(name), "empty", <<>>) : name \in Names}

Expressions1 == Scalars1 \cup Vectors \cup Oddities \cup Variables1

\* The trees of a script and their subtrees, which are at most three levels below.
Below(trees) == trees \cup UNION {Children(i) : i \in trees}
Trees1 == Below(Below(Below({x.tree : x \in Expressions1})))

Array(type, dimensions, elements) ==
    [type |-> type, dimensions |-> dimensions, elements |-> elements]

Arrays1 == {
    Array("int32", <<1>>, <<2>>), Array("real", <<1>>, <<0>>), Array("real", <<2>>, <<1, 2>>),
    Array("int32", <<2, 2>>, <<1, 2, 3, 4>>), Array("real", <<1, 1>>, <<1>>),
    Array("int64", <<1>>, <<2>>), Array("logical", <<2>>, <<1, 0>>),
    Array("complex", <<1>>, <<3>>), Array("string", <<1>>, <<5>>), Array("real", <<0>>, <<>>)}
=============================================================================
