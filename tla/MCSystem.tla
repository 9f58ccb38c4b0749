------------------------------ MODULE MCSystem ------------------------------
(* Instances of System for TLC. *)
EXTENDS System

Attributes(type, size) == [a \in Aspect |-> IF a = "type" THEN type ELSE size]
BlockKind(ins, outs, in, out) == [ins |-> ins, outs |-> outs, in |-> in, out |-> out]

Open == Attributes(Unset, Unset)

Generator == BlockKind(0, 1, Open, Attributes(1, 1))
Fork == BlockKind(1, 2, Open, Open)
Modulator == BlockKind(1, 1, Attributes(1, Unset), Attributes(2, Unset))
Arithmetic == BlockKind(2, 1, Open, Open)
StdoutSink == BlockKind(1, 0, Open, Open)
BitErrorCount == BlockKind(2, 0, Attributes(1, Unset), Open)

AllKinds == {Generator, Fork, Modulator, Arithmetic, StdoutSink, BitErrorCount}
ChainKinds == {Generator, Modulator, StdoutSink}

\* One user tries every kind of block, and leaves ports open; one extends chains between
\* three runs; one connects ports that are connected.
Tinkerer == [blocks |-> 1..3, kinds |-> AllKinds, calls |-> 3, runs |-> 2, open |-> 1]
Extender == [blocks |-> 1..4, kinds |-> ChainKinds, calls |-> 3, runs |-> 3, open |-> 1]
Sharer == [blocks |-> 1..3, kinds |-> ChainKinds, calls |-> 3, runs |-> 1, open |-> 2]

OrdinaryUsers == {Tinkerer, Extender}
SharingUsers == {Sharer}
=============================================================================
