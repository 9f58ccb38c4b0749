------------------------------- MODULE Script -------------------------------
(***************************************************************************)
(* A program that uses PlugBoard: a script, whose statements are evaluated *)
(* one after the other (actions.cpp, input/file.cpp), or a Python program, *)
(* whose arrays become variables (plugboard.i).  It assigns variables,     *)
(* configures and adds one block (Parameters), and runs the system.        *)
(*                                                                         *)
(* The program is a debug build, which aborts where an assertion fails, or *)
(* one without assertions, which goes on.                                  *)
(***************************************************************************)
EXTENDS Parameters, Expressions

CONSTANTS
    Names,             \* bound: the variables of a script, numbered
    Expressed,         \* bound: its expressions, and what their author means by them
    Arrays,            \* bound: the arrays of Python programs
    MaxAssignments,    \* bound
    Word               \* bound: 2^32, the values of a uint32_t

\* An expression: its tree, the type and the elements it stands for, and whether it is
\* one of those the language has.  What a variable stands for is found out later.
ASSUME ScriptAssumption ==
    /\ \A x \in Expressed :
          /\ x.tree \in Trees /\ x.type \in Type /\ x.elements \in Seq(Int)
          /\ x.supported \in BOOLEAN
          /\ x.supported /\ x.tree.id # "identifier" => StandsFor(x.tree, x.type, x.elements)
          /\ x.type = "int32" => \A k \in DOMAIN x.elements : x.elements[k] < Word
    /\ \A a \in Arrays : /\ a.type \in Type \ {"empty"}
                         /\ a.dimensions \in Seq(Nat) /\ a.elements \in Seq(Int)
                         /\ Len(a.dimensions) = 1 => Len(a.elements) = a.dimensions[1]
    /\ Names \subseteq Nat
    /\ MaxAssignments \in Nat
    /\ Word \in Nat \ {0, 1}

VARIABLES
    front,          \* "script" or "python"
    assignments,    \* how many there have been
    meant,          \* what the author of the script means by its variables,
    written,        \* and by the arguments of the block
    last,           \* the expression evaluated or array passed last
    runs            \* the run of the system, if there has been one

scriptVars == <<front, debug, symtab, assignments, meant, written, last, runs>>
allVars == <<vars, scriptVars>>

\* No expression: run without a number.
Unwritten == [tree |-> [id |-> "none"], type |-> "empty", elements |-> <<>>, supported |-> TRUE]

\* What there is to say of an expression if the program ends with it.
Evaluated(x, taken) == [id |-> x.tree.id, supported |-> x.supported, taken |-> taken]

\* What an expression stands for.
Meaning(x) ==
    IF x.tree.id = "identifier" /\ x.tree.name \in DOMAIN meant THEN meant[x.tree.name]
    ELSE [type |-> x.type, elements |-> x.elements, supported |-> x.supported]

ScriptInit ==
    /\ Init
    /\ front \in {"script", "python"}
    /\ debug \in BOOLEAN
    /\ symtab = <<>> /\ meant = <<>>
    /\ assignments = 0
    /\ written = <<>>
    /\ last = Evaluated(Unwritten, FALSE)
    /\ runs = <<>>

\* The program ends at an exception and where it aborts or crashes.
Ends(how) ==
    /\ status' = how
    /\ UNCHANGED <<params, num_args, args, data, param_curr, configured>>

-----------------------------------------------------------------------------
(* Scripts *)

\* A table in which the name stands for this value.
With(table, name, value) ==
    [n \in DOMAIN table \cup {name} |-> IF n = name THEN value ELSE table[n]]

\* MUTANT of Added: a name that is taken gets the new value.
AddedAgain(table, name, var) == With(table, name, Copy(var))

\* Symtab::add_var: a name that is taken keeps its value.
Added(table, name, var) ==
    IF name \in DOMAIN table THEN table ELSE With(table, name, Copy(var))

\* What may be an argument of a block or of run.
Scalar(x) == x.tree.id \notin {"array", "rowvec", "range"}

\* Bound: names are used in order, and all but the first for copies of variables.
InTurn(name, x) ==
    \A earlier \in Names : earlier < name => earlier \in DOMAIN symtab /\ x.tree.id = "identifier"

\* eval_assignment.  That the value is none and that the name is taken are assertions.
Assign(name, x) ==
    /\ front = "script" /\ status = "new" /\ runs = <<>>
    /\ assignments < MaxAssignments
    /\ InTurn(name, x)
    /\ assignments' = assignments + 1
    /\ last' = Evaluated(x, name \in DOMAIN symtab)
    /\ LET result == EvalExpression(x.tree) IN
       IF result.end # "value"
       THEN Ends(result.end) /\ UNCHANGED <<symtab, meant>>
       ELSE IF debug /\ (result.variable.type = "empty" \/ name \in DOMAIN symtab)
       THEN Ends("aborted") /\ UNCHANGED <<symtab, meant>>
       ELSE /\ symtab' = Added(symtab, name, result.variable)
            /\ meant' = IF name \in DOMAIN meant THEN meant ELSE With(meant, name, Meaning(x))
            /\ UNCHANGED vars
    /\ UNCHANGED <<front, debug, written, runs>>

\* eval_add_block begins.
BeginAdd ==
    /\ CheckCount
    /\ UNCHANGED scriptVars

\* An argument of eval_add_block.
Argument(x) ==
    /\ front = "script" /\ status = "configuring" /\ Len(args) < num_args
    /\ Scalar(x)
    /\ last' = Evaluated(x, FALSE)
    /\ LET result == EvalExpression(x.tree) IN
       IF result.end # "value"
       THEN Ends(result.end) /\ UNCHANGED written
       ELSE IF debug /\ result.variable.type = "empty"
       THEN Ends("aborted") /\ UNCHANGED written
       ELSE SetParameter(result.variable) /\ written' = Append(written, Meaning(x))
    /\ UNCHANGED <<front, debug, symtab, assignments, meant, runs>>

EndAdd ==
    /\ AddBlock
    /\ UNCHANGED scriptVars

\* MUTANT of Times: the last element.
TimesLast(var) == IF var.type = "int32" THEN Last(var.elements) % Word ELSE 1

\* An int32_t passed as uint32_t.  What is no int32_t counts for nothing.
Times(var) == IF var.type = "int32" THEN Head(var.elements) % Word ELSE 1

\* eval_run, with a number or without.
Run(x) ==
    /\ front = "script" /\ status \in {"new", "added"} /\ runs = <<>>
    /\ Scalar(x)
    /\ last' = Evaluated(x, FALSE)
    /\ LET result == IF x = Unwritten THEN Result(NewVariable) ELSE EvalExpression(x.tree) IN
       IF result.end # "value"
       THEN Ends(result.end) /\ UNCHANGED runs
       ELSE /\ runs' = <<[times |-> Times(result.variable), asked |-> Meaning(x)]>>
            /\ UNCHANGED vars
    /\ UNCHANGED <<front, debug, symtab, assignments, meant, written>>

-----------------------------------------------------------------------------
(* Python *)

\* fill_variable_from_array: how many elements of an array are taken, in the order they
\* lie in memory.  Of strings it is the first.
Taken(a) == IF a.type = "string" THEN 1 ELSE FoldLeft(+, 0, a.dimensions)

\* The variables that may come of it: beyond the array there may be anything.
FromArray(a) ==
    {PushAll(NewVariable, a.type, elements) :
        elements \in {e \in [1..Taken(a) -> ToSet(a.elements) \cup Garbage] :
                         \A k \in 1..Taken(a) : k <= Len(a.elements) => e[k] = a.elements[k]}}

\* Arrays of one dimension, and single strings, are what the front end is made for.
ArrayMeaning(a) ==
    [type |-> a.type, elements |-> a.elements,
     supported |-> /\ a.elements # <<>> /\ Len(a.dimensions) = 1
                   /\ a.type = "string" => Len(a.elements) = 1]

\* An argument of __add_block.
PassArray(a) ==
    /\ front = "python" /\ status = "configuring" /\ Len(args) < num_args
    /\ last' = Evaluated([tree |-> [id |-> "array"], supported |-> ArrayMeaning(a).supported], FALSE)
    /\ \E var \in FromArray(a) :
          IF debug /\ var.type = "empty"
          THEN Ends("aborted") /\ UNCHANGED written
          ELSE SetParameter(var) /\ written' = Append(written, ArrayMeaning(a))
    /\ UNCHANGED <<front, debug, symtab, assignments, meant, runs>>

-----------------------------------------------------------------------------
Finished ==
    /\ Done
    /\ UNCHANGED scriptVars

ScriptNext ==
    \/ \E name \in Names, x \in Expressed : Assign(name, x)
    \/ BeginAdd
    \/ \E x \in Expressed : Argument(x)
    \/ \E a \in Arrays : PassArray(a)
    \/ EndAdd
    \/ \E x \in Expressed \cup {Unwritten} : Run(x)
    \/ Finished

ScriptSpec == ScriptInit /\ [][ScriptNext]_allVars

-----------------------------------------------------------------------------
(* What makes it correct *)

ScriptTypeOK ==
    /\ params \in Declarations
    /\ num_args \in 0..MaxArgs
    /\ args \in Seq(Variable)
    /\ data \in [DOMAIN params -> Seq(Type \X Int)]
    /\ param_curr \in 1..(Len(params) + 1)
    /\ configured = (param_curr > Len(params))
    /\ status \in {"new", "configuring", "rejected", "added", "unconfigured",
                   "undefined", "aborted", "crashed"}
    /\ DOMAIN symtab \subseteq Names /\ DOMAIN meant = DOMAIN symtab
    /\ \A name \in DOMAIN symtab : symtab[name] \in Variable
    /\ Len(written) = Len(args)
    /\ assignments \in 0..MaxAssignments
    /\ last.supported \in BOOLEAN
    /\ \A i \in DOMAIN runs : runs[i].times \in 0..(Word - 1)

\* Variables of a script and arguments of a block are what was written: numbers of the
\* widest type among those of an expression, ranges with all elements up to their end,
\* copies of variables as they were first assigned, arrays of one dimension; whatever
\* buffers they went through.
AsWritten ==
    /\ \A name \in DOMAIN symtab :
          meant[name].supported =>
              Plain(symtab[name]) = [type |-> meant[name].type, elements |-> meant[name].elements]
    /\ \A i \in DOMAIN args :
          written[i].supported =>
              Plain(args[i]) = [type |-> written[i].type, elements |-> written[i].elements]

\* No variable was written or read outside of its buffer, though allocated counts
\* elements at times and bytes at others, and none as pointers that has none; except those
\* of bits, which Python programs can make and whose buffers are too small for pointers.
MemoryIntact ==
    /\ \A name \in DOMAIN symtab : symtab[name].intact /\ Destroyed(symtab[name]).intact
    /\ \A i \in DOMAIN args : args[i].type # "logical" => args[i].intact /\ Destroyed(args[i]).intact

\* A program stops before its end only for a name that is unknown or, with assertions, is
\* taken, for an expression the language does not have, an empty array, or for a number
\* given for a complex parameter: cast stores elements as no one reads them.
StopsForAReason ==
    /\ status = "undefined" => last.id = "identifier" \/ ~last.supported
    /\ status = "aborted" =>
          debug /\ (~last.supported \/ last.taken)
    /\ status = "crashed" =>
          \/ ~last.supported
          \/ /\ args # <<>>
             /\ params[Len(args)].type = "complex"
             /\ Last(args).type \in {"int32", "real"}

\* A system is run as often as an integer says that is not negative, and once if what
\* was written is no integer.
RunsAsWritten ==
    \A i \in DOMAIN runs :
        runs[i].asked.supported =>
            IF runs[i].asked.type # "int32" THEN runs[i].times = 1
            ELSE Head(runs[i].asked.elements) >= 0 => runs[i].times = Head(runs[i].asked.elements)
=============================================================================
