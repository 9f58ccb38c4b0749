------------------------------ MODULE Dynamic -------------------------------
(***************************************************************************)
(* The life of the blocks that work on signals of several types: Dynamic   *)
(* (dynamic.hpp) picks their process and destroy functions when a run      *)
(* initializes them, and their class decides what memory they reserve, and *)
(* give back, at which point of that life (block_Fork.cpp and so on).      *)
(* What System, the matrix and the commands ask of a block is in Plugins.  *)
(***************************************************************************)
EXTENDS Integers, FiniteSets

CONSTANTS
    Block,       \* the blocks a program can make
    Counts,      \* bound: the numbers of inputs of an Arithmetic, of outputs of a Fork
    Garbage      \* the value of a member nothing has been assigned to

Classes == {"Fork", "Arithmetic", "BlockInterleaver", "ComposeComplex", "StdoutSink"}
SignalTypes == {"int32", "real", "complex"}

\* The types initialize is given, or its default.
Allowed(class) == IF class = "ComposeComplex" THEN {"int32", "real"} ELSE SignalTypes

\* A piece of memory: what for, reserved in which run, and for which type of signal, if
\* that makes a difference to delete.
Memory == Block \X {"ports", "object"} \X Nat \X (SignalTypes \cup {"any"})

ASSUME DynamicAssumption ==
    /\ Counts \subseteq 1..999
    /\ Garbage \notin Memory
    /\ Garbage \notin SignalTypes

\* size: the number of outputs of a Fork or inputs of an Arithmetic; numPorts: how many
\* are there; type: that of the first input port; open: whether there is an output, or
\* another input, without a buffer among those whose buffers initialize fetches before it
\* looks at the type, and among those it fetches after; proc: what proc and destroy have
\* been set to, which happens to both at once; ports: sig_out_ or sig_in_; object: v_out_,
\* v_in_ or interleaver_.
BlockState ==
    [class : STRING, size : Nat, configured : BOOLEAN, initialized : BOOLEAN, numPorts : Nat,
     type : SignalTypes \cup {"empty"}, open : SUBSET {"before", "after"},
     proc : SignalTypes \cup {Garbage},
     ports : Memory \cup {Garbage}, object : Memory \cup {Garbage}]

\* A port has no buffer before a run has come to its connection.
Unconnected(class) ==
    CASE class = "StdoutSink" -> {}
      [] class = "ComposeComplex" -> {"before", "after"}
      [] OTHER -> {"after"}

NewBlock(class, size, configured) ==
    [class |-> class, size |-> size, configured |-> configured, initialized |-> FALSE,
     numPorts |-> 0, type |-> "empty", open |-> Unconnected(class), proc |-> Garbage,
     ports |-> Garbage, object |-> Garbage]

HasPortArray(b) == b.class \in {"Fork", "Arithmetic"}

\* MUTANT of SetUp: reserves the array each time.
SetUpAnew(b, x, run) ==
    IF HasPortArray(b)
    THEN [b EXCEPT !.ports = <<x, "ports", run, "any">>, !.numPorts = b.size]
    ELSE b

\* setup_input_ports of an Arithmetic, setup_output_ports of a Fork: "only reserve that
\* memory once".
SetUp(b, x, run) ==
    IF HasPortArray(b) /\ b.numPorts # b.size
    THEN [b EXCEPT !.ports = <<x, "ports", run, "any">>, !.numPorts = b.size]
    ELSE b

\* "out100" and "in100" are longer than portname: the stack behind it is overwritten.
NamesOverrun(b) == HasPortArray(b) /\ b.size > 99

\* What initialize reserves: Arithmetic does so before it looks at the type.
MakesObject(b) ==
    \/ b.class = "Arithmetic"
    \/ b.class \in {"Fork", "BlockInterleaver"} /\ b.type \in Allowed(b.class)

Object(b, x, run) ==
    <<x, "object", run, IF b.class = "BlockInterleaver" THEN b.type ELSE "any">>

\* get_signal throws bad_function_call for a port without a buffer.  Before it
\* looks at the type, only ComposeComplex fetches one, of its output.
Throws(b) ==
    \/ "before" \in b.open
    \/ "after" \in b.open /\ b.type \in Allowed(b.class)

\* MUTANT of Abandoned: set_initialized comes before call_initialize.
AbandonedInitialized(b, x, run) ==
    [b EXCEPT !.initialized = TRUE,
              !.object = IF HasPortArray(b) THEN Object(b, x, run) ELSE @]

\* What is left of a block whose initialize throws: Fork and Arithmetic have reserved their
\* object, BlockInterleaver has not; set_initialized is not reached.
Abandoned(b, x, run) ==
    [b EXCEPT !.object = IF HasPortArray(b) THEN Object(b, x, run) ELSE @]

\* MUTANT of Initialize: keeps the functions it once has set.
InitializeOnce(b, x, run) ==
    [b EXCEPT !.initialized = TRUE,
              !.proc = IF b.type \in Allowed(b.class) /\ ~b.initialized THEN b.type ELSE @,
              !.object = IF MakesObject(b) THEN Object(b, x, run) ELSE @]

\* call_initialize and set_initialized, where the first does not throw.
Initialize(b, x, run) ==
    [b EXCEPT !.initialized = TRUE,
              !.proc = IF b.type \in Allowed(b.class) THEN b.type ELSE @,
              !.object = IF MakesObject(b) THEN Object(b, x, run) ELSE @]

Owned(b) == {b.ports, b.object} \ {Garbage}

-----------------------------------------------------------------------------
(* Deleting a block: its destructor, then that of Dynamic *)

\* ~PlugBoardBlock.
DestructorFrees(b) == IF b.class = "Arithmetic" /\ b.configured THEN {b.ports} ELSE {}

\* ~Dynamic, which calls destroy and by that dynamic_delete.
DestroyFrees(b) ==
    CASE ~b.initialized -> {}
      [] b.initialized /\ b.class = "Fork" -> {b.object, b.ports}
      [] b.initialized /\ b.class \in {"Arithmetic", "BlockInterleaver"} -> {b.object}
      [] OTHER -> {}

Freed(b) == DestructorFrees(b) \cup DestroyFrees(b)

\* What ends a program for sure: a call of destroy, which has not been set, memory that is
\* freed twice, or an interleaver deleted as one of another type.
Misfreed(b) ==
    \/ b.initialized /\ b.proc = Garbage
    \/ DestructorFrees(b) \cap DestroyFrees(b) # {}
    \/ /\ b.initialized /\ b.class = "BlockInterleaver"
       /\ b.object # Garbage /\ b.object[4] # b.proc
=============================================================================
