------------------------------- MODULE Ports --------------------------------
(***************************************************************************)
(* The ports of the blocks, and propagate_signal_attributes: stage by      *)
(* stage the output ports of a block are set up from its input ports, and  *)
(* every connection it was asked to make hands the attributes of the       *)
(* output port on to the input port and joins both with a new signal       *)
(* buffer (block.cpp, port_traits.hpp, port_out.cpp, system.cpp).          *)
(*                                                                         *)
(* A port has attributes: the type of its signal, its sample time, its     *)
(* frame size.  A block's kind stands for its parameters: how many ports   *)
(* it has, the attributes its input ports require, and those its output    *)
(* ports get, where Unset means "that of the first input port".            *)
(***************************************************************************)
EXTENDS Linearization

CONSTANTS
    Aspect,      \* what attributes there are
    Value,       \* the values an attribute may have
    Kinds        \* bound: the kinds of blocks there are

Unset == 0

Attr == [Aspect -> Value \cup {Unset}]
Port == Block \X Nat
Kind == [ins : Nat, outs : Nat, in : Attr, out : Attr]

ASSUME PortsAssumption ==
    /\ Value \subseteq Nat \ {0}
    /\ Kinds \subseteq Kind
    /\ \A k \in Kinds : k.ins + k.outs > 0
    /\ \E n \in UNION {{k.ins, k.outs} : k \in Kinds} :   \* some kind has the most ports
          \A k \in Kinds : k.ins <= n /\ k.outs <= n

\* A block that has not been added.
None == [ins |-> 0, outs |-> 0, in |-> [a \in Aspect |-> Unset], out |-> [a \in Aspect |-> Unset]]

MaxPorts == CHOOSE n \in UNION {{k.ins, k.outs} : k \in Kinds} :
                \A k \in Kinds : k.ins <= n /\ k.outs <= n

VARIABLES
    kind,            \* of each block
    calls,           \* connect_calls of each Source: output port, block, input port
    inAttr, outAttr, \* attributes of the ports
    inBuf, outBuf,   \* number of the buffer of each port, 0 if it has none
    sent,            \* output ports whose send has been set
    buffers          \* signal_buffer_count

portVars == <<kind, calls, inAttr, outAttr, inBuf, outBuf, sent, buffers>>

Ports == Block \X (1..MaxPorts)

IsSet(attr) == \A a \in Aspect : attr[a] # Unset

\* setup_output_ports of a block: the attributes of its output ports, given
\* those of its first input port.
OutputAttr(k, in) ==
    [a \in Aspect |-> IF k.out[a] = Unset /\ k.ins > 0 THEN in[a] ELSE k.out[a]]

\* The attributes of all output ports after setup_output_ports of b.
SetupOutputPorts(b) ==
    [x \in Ports |-> IF x[1] = b /\ x[2] <= numOut[b]
                     THEN OutputAttr(kind[b], inAttr[<<b, 1>>]) ELSE outAttr[x]]

-----------------------------------------------------------------------------
(* Building the system *)

\* System::add_block, with a block that has been configured.
AddBlockOfKind(b, k) ==
    /\ pc = "idle"
    /\ kind[b] = None
    /\ kind' = [kind EXCEPT ![b] = k]
    /\ numIn' = [numIn EXCEPT ![b] = k.ins]
    /\ numOut' = [numOut EXCEPT ![b] = k.outs]
    /\ inAttr' = [x \in Ports |-> IF x[1] = b /\ x[2] <= k.ins THEN k.in ELSE inAttr[x]]
    /\ outAttr' = [x \in Ports |->
                     IF x[1] = b /\ x[2] <= k.outs THEN OutputAttr(k, k.in) ELSE outAttr[x]]
    /\ UNCHANGED <<connections, stages, pc, curr, next, starts, frames>>
    /\ UNCHANGED <<calls, inBuf, outBuf, sent, buffers>>

\* System::connect_ports.  An output port that has been connected by an
\* initialize is left alone; one that will be is not noticed.
ConnectPorts(b, p, c, q) ==
    /\ pc = "idle"
    /\ p \in 1..numOut[b]
    /\ q \in 1..numIn[c]
    /\ <<b, p>> \notin sent
    /\ calls' = [calls EXCEPT ![b] = Append(@, <<p, c, q>>)]
    /\ connections' = connections \cup {<<b, c>>}
    /\ UNCHANGED <<numIn, numOut, stages, pc, curr, next, starts, frames>>
    /\ UNCHANGED <<kind, inAttr, outAttr, inBuf, outBuf, sent, buffers>>

-----------------------------------------------------------------------------
(* propagate_signal_attributes: curr is the stage, next the connect call, 0 *)
(* while the output ports of the stage's block have to be set up            *)

\* The block SignalAttributePropagation looks at.
BlockOf(stg) == Head(Head(stg))

ToNextBlock == curr' = curr + 1 /\ next' = 0

PropagateSetup ==
    /\ pc = "propagate"
    /\ curr <= Len(stages)
    /\ next = 0
    /\ LET b == BlockOf(stages[curr]) IN
       IF ~IsSource(b)
       THEN ToNextBlock /\ UNCHANGED <<pc, outAttr>>
       ELSE IF IsSet(OutputAttr(kind[b], inAttr[<<b, 1>>]))
       THEN /\ outAttr' = SetupOutputPorts(b)
            /\ next' = 1
            /\ UNCHANGED <<pc, curr>>
       ELSE \* "propagating a default value is certainly an error"
            pc' = "aborted" /\ UNCHANGED <<curr, next, outAttr>>
    /\ UNCHANGED <<matrixVars, starts, frames, kind, calls, inAttr, inBuf, outBuf, sent, buffers>>

\* MUTANT of Mismatch: an attribute the input port leaves open counts, too.
MismatchStrict(out, in) == in # out

\* OutPort::connect throws one of three exceptions.
Mismatch(out, in) == \E a \in Aspect : in[a] # Unset /\ in[a] # out[a]

\* The attributes of the input port after OutPort::connect.
Received(out, in) == IF Mismatch(out, in) THEN in ELSE out

\* MUTANT of NewBuffer: the first buffer instead of the last.
FirstBuffer == 1

\* The buffer set_buffer_ptrs hands to both ports: the one just created.
NewBuffer == buffers + 1

\* MakeConnection.  An exception leaves the run, and what it did so far stays.
MakeConnection ==
    /\ pc = "propagate"
    /\ curr <= Len(stages)
    /\ LET b == BlockOf(stages[curr]) IN
       /\ next \in DOMAIN calls[b]
       /\ LET call == calls[b][next]
              out == <<b, call[1]>>
              in == <<call[2], call[3]>>
          IN
             /\ inAttr' = [inAttr EXCEPT ![in] = Received(outAttr[out], @)]
             /\ IF Mismatch(outAttr[out], inAttr[in])
                THEN pc' = "idle" /\ UNCHANGED <<next, sent, buffers, inBuf, outBuf>>
                ELSE /\ sent' = sent \cup {out}
                     /\ buffers' = buffers + 1
                     /\ outBuf' = [outBuf EXCEPT ![out] = NewBuffer]
                     /\ inBuf' = [inBuf EXCEPT ![in] = NewBuffer]
                     /\ next' = next + 1
                     /\ UNCHANGED pc
    /\ UNCHANGED <<matrixVars, curr, starts, frames, kind, calls, outAttr>>

PropagateNext ==
    /\ pc = "propagate"
    /\ curr <= Len(stages)
    /\ next > Len(calls[BlockOf(stages[curr])])
    /\ next > 0
    /\ ToNextBlock
    /\ UNCHANGED <<matrixVars, pc, starts, frames, portVars>>

Propagated ==
    /\ pc = "propagate"
    /\ curr > Len(stages)
    /\ pc' = "combine"
    /\ curr' = 1
    /\ next' = 1
    /\ UNCHANGED <<matrixVars, starts, frames, portVars>>
=============================================================================
