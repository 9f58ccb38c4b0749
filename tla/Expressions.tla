---------------------------- MODULE Expressions -----------------------------
(***************************************************************************)
(* Expressions of the scripting language: the type of a tree of the parser *)
(* and its value (grammar/command/actions.cpp).  Variables are looked up   *)
(* in the symbol table (symtab.cpp).                                       *)
(*                                                                         *)
(* A leaf has an id and a value, a name if it is an identifier.  Other     *)
(* nodes have children, and an operator if there are several of their id.  *)
(* What is said of trees is a function of them, by recursion over children.*)
(* Numbers are fractions while they are reckoned with, and whole in the    *)
(* end; a complex number is a multiple of i.                               *)
(***************************************************************************)
EXTENDS Variables

CONSTANT Trees    \* bound: the trees of expressions, with all their subtrees

VARIABLES
    debug,     \* whether the program was built with its assertions
    symtab     \* from names to variables: ht_ of the only Symtab, which has no parent

Leaves == {"integer", "real", "complex", "string"}
Arithmetic == {"integer", "real", "complex", "scalarexpression", "scalarterm", "scalarfactor"}

Children(i) ==
    IF i.id \in Leaves \cup {"identifier"} THEN {} ELSE ToSet(i.children)

\* The grammar makes nothing else.
ASSUME TreesAssumption == \A i \in Trees :
    /\ i.id \in Leaves => i.value \in Int
    /\ i.id \notin Leaves \cup {"identifier"} => i.children \in Seq(Trees)
    /\ i.id = "range" => Len(i.children) = 3

-----------------------------------------------------------------------------
(* Types *)

LeafType == [integer |-> "int32", real |-> "real", complex |-> "complex", string |-> "string"]

Widest(types) ==
    IF "string" \in types THEN "string"
    ELSE IF "complex" \in types THEN "complex"
    ELSE IF "real" \in types THEN "real"
    ELSE IF "int32" \in types THEN "int32"
    ELSE "empty"

\* Where the recursion ends.
Terminals[i \in Trees] ==
    IF i.id \in Leaves \cup {"identifier"} THEN {i} ELSE UNION {Terminals[c] : c \in Children(i)}

\* get_var throws UndefinedVariableException.
Defined(i) == \A n \in Terminals[i] : n.id = "identifier" => n.name \in DOMAIN symtab

\* The type at a leaf: a variable of a script is of one that Widest knows.
TerminalType(n) == IF n.id = "identifier" THEN symtab[n.name].type ELSE LeafType[n.id]

\* subtree_type: the widest of the widest below a node is the widest at the leaves.
SubtreeType(i) == Widest({TerminalType(n) : n \in Terminals[i]})

-----------------------------------------------------------------------------
(* Scalars: evaluate_scalar_arithmetic *)

Fraction(n, d) == IF d > 0 THEN <<n, d>> ELSE <<-n, -d>>
Truncated(q) == IF q[1] >= 0 THEN q[1] \div q[2] ELSE -((-q[1]) \div q[2])
Floor(q) == q[1] \div q[2]

\* Division of integers truncates.
Quotient(type, a, b) ==
    LET q == Fraction(a[1] * b[2], a[2] * b[1])
    IN IF type = "int32" THEN <<Truncated(q), 1>> ELSE q

\* A node it does not know fails an assertion, and is 0 where there are none.
Evaluate[type \in Type, i \in Trees] ==
    LET left == Evaluate[type, i.children[1]]
        right == Evaluate[type, i.children[2]]
    IN
    CASE i.id \in {"integer", "real", "complex"} -> <<i.value, 1>>
      [] i.id = "scalarexpression" /\ i.operator = "+" ->
             Fraction(left[1] * right[2] + right[1] * left[2], left[2] * right[2])
      [] i.id = "scalarexpression" /\ i.operator = "-" ->
             Fraction(left[1] * right[2] - right[1] * left[2], left[2] * right[2])
      [] i.id = "scalarterm" /\ i.operator = "*" ->
             Fraction(left[1] * right[1], left[2] * right[2])
      [] i.id = "scalarterm" /\ i.operator = "/" -> Quotient(type, left, right)
      [] i.id = "scalarfactor" -> <<-left[1], left[2]>>
      [] OTHER -> <<0, 1>>

\* The nodes it comes by.
Visited[i \in Trees] ==
    {i} \cup (IF i.id \in Arithmetic THEN UNION {Visited[c] : c \in Children(i)} ELSE {})

AssertsIn(i) == debug /\ \E n \in Visited[i] : n.id \notin Arithmetic

\* An integer division by zero is a signal.
DividesByZero(type, i) ==
    type = "int32" /\ \E n \in Visited[i] :
        n.id = "scalarterm" /\ n.operator = "/" /\ Evaluate[type, n.children[2]][1] = 0

\* How an expression ends, and the variable that comes of it.
Result(v) == [end |-> "value", variable |-> v]
Stopped(how) == [end |-> how, variable |-> NewVariable]

\* assert(0), after which there is no value yet
Refused == IF debug THEN Stopped("aborted") ELSE Result(NewVariable)

\* The scalars at the nodes, one after the other, if v comes of them.
Scalars(type, nodes, v) ==
    IF \E i \in nodes : AssertsIn(i) THEN Stopped("aborted")
    ELSE IF \E i \in nodes : DividesByZero(type, i) THEN Stopped("crashed")
    ELSE Result(v)

Number(type, i) == Truncated(Evaluate[type, i])

\* Bound: no real number is divided by zero, as fractions have no infinity.
ASSUME NumbersAssumption == \A i \in Trees, type \in {"int32", "real", "complex"} :
    (\E n \in Terminals[i] : n.id = "identifier" \/ LeafType[n.id] = type) =>
        \A n \in {i} \cup Children(i) : DividesByZero(type, n) \/ Number(type, n) \in Int

-----------------------------------------------------------------------------
(* Ranges and rows *)

\* How many elements make_range makes.
Elements(type, start, end, inc) ==
    IF type = "int32" THEN Truncated(Fraction(end - start, inc)) + 1
    ELSE Floor(Fraction(end - start, inc)) + 1

\* MUTANT of RangeAsserts: the sum instead of the product.
RangeAssertsSum(start, end, inc) == debug /\ start + inc >= end

RangeAsserts(start, end, inc) == debug /\ start * inc >= end

\* make_range.  A negative number of elements becomes a huge one, which realloc cannot
\* give, and an increment of 0 is a signal.
MakeRange(type, start, end, inc) ==
    IF RangeAsserts(start, end, inc) THEN Stopped("aborted")
    ELSE IF inc = 0 \/ Elements(type, start, end, inc) < 0 THEN Stopped("crashed")
    ELSE LET n == Elements(type, start, end, inc)
         IN Result(PushAll(Prealloc(NewVariable, SizeOf[type] * n), type,
                           [k \in 1..n |-> start + (k - 1) * inc]))

EvalRange(i) ==
    LET type == SubtreeType(i)
        N(k) == Number(type, i.children[k])
    IN IF type \notin {"int32", "real"} THEN Result(NewVariable)
       ELSE LET scalars == Scalars(type, Children(i), NewVariable)
            IN IF scalars.end = "value" THEN MakeRange(type, N(1), N(3), N(2)) ELSE scalars

\* make_array
EvalRow(i) ==
    LET type == SubtreeType(i)
        n == Len(i.children)
    IN IF type \notin {"int32", "real", "complex"} THEN Refused
       ELSE Scalars(type, Children(i),
                    PushAll(Prealloc(NewVariable, SizeOf[type] * n), type,
                            [k \in 1..n |-> Number(type, i.children[k])]))

EvalScalar(i) ==
    LET type == SubtreeType(i)
    IN IF type \notin {"int32", "real", "complex"} THEN Refused
       ELSE Scalars(type, {i}, PushBack(NewVariable, type, Number(type, i)))

\* eval_expression.  Of an array of several rows nothing is kept.
EvalExpression(i) ==
    IF i.id = "array" THEN Result(NewVariable)
    ELSE IF i.id \notin Arithmetic \cup {"identifier", "rowvec", "string", "range"} THEN Refused
    ELSE IF ~Defined(i) THEN Stopped("undefined")
    ELSE CASE i.id = "identifier" -> Result(Copy(symtab[i.name]))
           [] i.id \in Arithmetic -> EvalScalar(i)
           [] i.id = "rowvec" -> EvalRow(i)
           [] i.id = "string" -> Result(PushBack(NewVariable, "string", i.value))
           [] i.id = "range" -> EvalRange(i)

-----------------------------------------------------------------------------
(* What expressions stand for, whatever buffers they go through: numbers of *)
(* the widest type among those of their leaves, and strings.                *)

\* A number, of operators that are known, and no integer is divided by zero.
Calculable(type, i) == (\A n \in Visited[i] : n.id \in Arithmetic) /\ ~DividesByZero(type, i)

\* From the first number to the last that is not beyond the end.
Ranges(start, inc, end, elements) ==
    LET n == Len(elements)
        next == start + n * inc
    IN  /\ elements = [k \in 1..n |-> start + (k - 1) * inc]
        /\ \/ inc > 0 /\ next - inc <= end /\ next > end
           \/ inc < 0 /\ next - inc >= end /\ next < end

\* Of ranges there are those that make_range asserts.
StandsFor(i, type, elements) ==
    /\ \A n \in Terminals[i] : n.id \in Leaves
    /\ type = Widest({LeafType[n.id] : n \in Terminals[i]})
    /\ elements # <<>>
    /\ \/ i.id = "string" /\ type = "string" /\ elements = <<i.value>>
       \/ /\ i.id \in Arithmetic /\ type \in {"int32", "real", "complex"}
          /\ Calculable(type, i) /\ elements = <<Number(type, i)>>
       \/ /\ i.id = "rowvec" /\ type \in {"int32", "real", "complex"}
          /\ \A c \in Children(i) : Calculable(type, c)
          /\ elements = [k \in DOMAIN i.children |-> Number(type, i.children[k])]
       \/ /\ i.id = "range" /\ type \in {"int32", "real"}
          /\ \A c \in Children(i) : Calculable(type, c)
          /\ LET N(k) == Number(type, i.children[k])
             IN  N(1) * N(2) < N(3) /\ Ranges(N(1), N(2), N(3), elements)
=============================================================================
