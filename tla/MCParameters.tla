---------------------------- MODULE MCParameters ----------------------------
(* Instances of Parameters for TLC: parameters as blocks declare them.     *)
EXTENDS Parameters

Size(n) == [check |-> "size", arg |-> n, negative |-> FALSE]
NotLess(n) == [check |-> "less", arg |-> n, negative |-> TRUE]
Greater(n) == [check |-> "greater", arg |-> n, negative |-> FALSE]
Less(n) == [check |-> "less", arg |-> n, negative |-> FALSE]
Multiple(n) == [check |-> "modulo", arg |-> n, negative |-> FALSE]
Declared(type, constraints) == [type |-> type, constraints |-> constraints]

SampleTime == Declared("real", <<NotLess(0), Size(1)>>)
FrameSize == Declared("int32", <<NotLess(0), Size(1)>>)
Outputs == Declared("int32", <<Greater(0), Less(3), Size(1)>>)
Symbols == Declared("int32", <<Multiple(2), Greater(0), Size(1)>>)
Operation == Declared("string", <<Size(1)>>)
Profile == Declared("real", <<Greater(0)>>)

BlockParameters ==
    {<<>>, <<Outputs>>, <<Outputs, Operation>>, <<SampleTime, FrameSize, Symbols>>, <<Profile>>}

\* What numpy arrays of one dimension can hold.
NumpyArguments ==
    {PushAll(NewVariable, t, e) : t \in {"uint8", "int32", "int64", "real"},
                                  e \in {<<x>> : x \in -1..3} \cup {<<1, 0>>, <<2, 1>>}}
=============================================================================
