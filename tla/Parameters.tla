----------------------------- MODULE Parameters -----------------------------
(***************************************************************************)
(* Configuring a block: a front end makes a block, passes it one argument  *)
(* after the other, and adds it to the system (plugboard.cpp, actions.cpp).*)
(* set_parameter decides whether the argument may be converted to the type *)
(* of the parameter, converts it, checks the constraints of the parameter  *)
(* and stores the elements (block.cpp, parameter.cpp, variable.cpp,        *)
(* constraint.hpp).                                                        *)
(***************************************************************************)
EXTENDS Variables

CONSTANTS
    Declarations,   \* bound: the lists of parameters blocks declare
    Arguments,      \* bound: the variables users pass
    MaxArgs         \* bound: how many of them

Constraint == [check : {"size", "less", "greater", "modulo"}, arg : Int, negative : BOOLEAN]
Parameter == [type : Type, constraints : Seq(Constraint)]

ASSUME ParametersAssumption ==
    /\ Declarations \subseteq Seq(Parameter)
    /\ Arguments \subseteq Variable
    /\ MaxArgs \in Nat

VARIABLES
    params,      \* the parameters the block declares
    num_args,    \* the number of arguments the user gives
    args,        \* those passed to the block so far
    data,        \* the vectors the block has given add_parameter
    param_curr,
    configured,
    status       \* "new", "configuring", "rejected" by an exception, "added"; or ended as
                 \* "unconfigured", "undefined" (an exception), "aborted", "crashed"

vars == <<params, num_args, args, data, param_curr, configured, status>>

-----------------------------------------------------------------------------
(* Types *)

\* Parameter::is_convertible_to
IsConvertibleTo(given, target) == given = target \/ given \notin {"complex", "string"}

-----------------------------------------------------------------------------
(* Constraints *)

\* do_check
Passes(c, size, e) ==
    \/ c.check = "size" /\ size = c.arg
    \/ c.check = "less" /\ e < c.arg
    \/ c.check = "greater" /\ e > c.arg
    \/ c.check = "modulo" /\ e % c.arg = 0

\* MUTANT of Satisfied: constraints are never reversed.
SatisfiedUnreversed(c, size, e) == Passes(c, size, e)

Satisfied(c, size, e) == Passes(c, size, e) <=> ~c.negative

\* CheckVariableConstraintAction
SizeFits(param, var) ==
    \A i \in DOMAIN param.constraints :
        param.constraints[i].check = "size" => Satisfied(param.constraints[i], Len(var.elements), 0)

\* CheckValueConstraintAction: a constraint on values is one for the type of the
\* parameter, and is passed over when the elements are of another type.
ValueFits(param, type, e) ==
    type = param.type =>
        \A i \in DOMAIN param.constraints :
            param.constraints[i].check # "size" => Satisfied(param.constraints[i], 0, e)

\* copy_parameter: how many elements are copied before a constraint fails.
Copied(param, var) ==
    IF SizeFits(param, var)
    THEN Cardinality({k \in DOMAIN var.elements :
                         \A j \in 1..k : ValueFits(param, var.type, var.elements[j])})
    ELSE 0

Typed(var) == [k \in DOMAIN var.elements |-> <<var.type, var.elements[k]>>]

-----------------------------------------------------------------------------
Init ==
    /\ params \in Declarations
    /\ num_args \in 0..MaxArgs
    /\ args = <<>>
    /\ data = [i \in DOMAIN params |-> <<>>]
    /\ param_curr = 1
    /\ configured = (params = <<>>)
    /\ status = "new"

\* ParameterCountMismatchException
CheckCount ==
    /\ status = "new"
    /\ status' = IF num_args # Len(params) THEN "rejected" ELSE "configuring"
    /\ UNCHANGED <<params, num_args, args, data, param_curr, configured>>

\* MUTANT of IsLast: the parameters are counted from zero.
IsLastFromZero(curr) == curr + 1 = Len(params)

\* The last parameter completes the configuration.
IsLast(curr) == curr = Len(params)

\* Elements reach the block, one after the other, as the iterator finds them.
Fill(param, found) ==
    LET copied == Copied(param, found) IN
    /\ data' = [data EXCEPT ![param_curr] = @ \o SubSeq(Typed(found), 1, copied)]
    /\ IF SizeFits(param, found) /\ copied = Numel(found)
       THEN /\ param_curr' = param_curr + 1
            /\ configured' = IsLast(param_curr)
            /\ UNCHANGED status
       ELSE \* ConstraintTestException
            /\ status' = "rejected"
            /\ UNCHANGED <<param_curr, configured>>

\* set_parameter, for the next argument.  A configured block only says so and
\* returns false, which nobody looks at.
SetParameter(var) ==
    /\ status = "configuring"
    /\ Len(args) < num_args
    /\ args' = Append(args, var)
    /\ IF configured
       THEN UNCHANGED <<data, param_curr, configured, status>>
       ELSE LET param == params[param_curr]
                var_tmp == IF var.type = param.type THEN Copy(var)
                           ELSE SaveTypeChange(Copy(var), param.type)
            IN
            IF ~IsConvertibleTo(var.type, param.type)
            THEN \* IncompatibleTypesException
                 /\ status' = "rejected"
                 /\ UNCHANGED <<data, param_curr, configured>>
            ELSE IF ~Usable(var_tmp)
            THEN \* numbers taken for pointers
                 /\ status' = "crashed"
                 /\ UNCHANGED <<data, param_curr, configured>>
            ELSE \E elements \in Readings(var_tmp) :
                     Fill(param, [var_tmp EXCEPT !.elements = elements])
    /\ UNCHANGED <<params, num_args>>

\* assert(b->is_configured()), and System::add_block
AddBlock ==
    /\ status = "configuring"
    /\ Len(args) = num_args
    /\ status' = IF configured THEN "added" ELSE "unconfigured"
    /\ UNCHANGED <<params, num_args, args, data, param_curr, configured>>

Done ==
    /\ status \notin {"new", "configuring"}
    /\ UNCHANGED vars

Next == CheckCount \/ (\E var \in Arguments : SetParameter(var)) \/ AddBlock \/ Done

Spec == Init /\ [][Next]_vars /\ WF_vars(Next)

-----------------------------------------------------------------------------
(* What makes it correct *)

TypeOK ==
    /\ params \in Declarations
    /\ num_args \in 0..MaxArgs
    /\ args \in Seq(Arguments)
    /\ data \in [DOMAIN params -> Seq(Type \X Int)]
    /\ param_curr \in 1..(Len(params) + 1)
    /\ configured = (param_curr > Len(params))
    /\ status \in {"new", "configuring", "rejected", "added", "unconfigured",
                   "undefined", "aborted", "crashed"}

\* The elements of a vector are of the parameter's type and obey its constraints.
Honours(param, vector) ==
    /\ \A k \in DOMAIN vector : vector[k][1] = param.type
    /\ \A i \in DOMAIN param.constraints :
          LET c == param.constraints[i] IN
          /\ c.check = "size" => (Len(vector) = c.arg <=> ~c.negative)
          /\ c.check # "size" => \A k \in DOMAIN vector :
                LET e == vector[k][2]
                    size == IF e < 0 THEN -e ELSE e
                IN  /\ c.check = "less" => (e < c.arg <=> ~c.negative)
                    /\ c.check = "greater" => (e > c.arg <=> ~c.negative)
                    /\ c.check = "modulo" => ((\E n \in -size..size : e = n * c.arg) <=> ~c.negative)

\* A parameter that save_type_change can convert the argument to.
Supported(given, target) == given = target \/ (given = "int32" /\ target = "real")

\* Whether set_parameter is expected to take an argument.
Acceptable(param, var) ==
    /\ Supported(var.type, param.type)
    /\ Honours(param, Typed([var EXCEPT !.type = param.type]))

\* The arguments so far are ones whose fate is settled by their types: supported,
\* or of a type that is never converted.
Settled ==
    \A i \in DOMAIN args :
        Supported(args[i].type, params[i].type) \/ args[i].type \in {"complex", "string"}

\* A block is added with exactly the values the user gave if each is of the type of
\* its parameter, or an integer for a real one, and obeys its constraints, reversed
\* ones included, and they are as many as the parameters; otherwise the first that
\* does not is rejected.  The assertion in add_block never fails.
AddedIfAcceptable ==
    Settled =>
        /\ status = "rejected" =>
              num_args # Len(params) \/ ~Acceptable(params[Len(args)], Last(args))
        /\ status # "unconfigured"
        /\ status = "added" => num_args = Len(params) /\ \A i \in DOMAIN params :
              /\ Acceptable(params[i], args[i])
              /\ data[i] = Typed([args[i] EXCEPT !.type = params[i].type])

\* A block is only added to the system with parameters of the declared type that
\* obey the declared constraints.
ParametersHonoured ==
    status = "added" => \A i \in DOMAIN params : Honours(params[i], data[i])
=============================================================================
