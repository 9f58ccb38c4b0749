---------------------------- MODULE BlockLibrary ----------------------------
(***************************************************************************)
(* The blocks PlugBoard comes with (blocks/*.cpp): how the attributes of   *)
(* their output ports follow from those of their input ports and from      *)
(* their parameters, and how many samples they then read and write.        *)
(*                                                                         *)
(* Each block is an operator of its parameters p, of the signals "in"      *)
(* connected to its input ports, of the numbers n of samples that are in   *)
(* their buffers, and, if it is a scrambler, of the start of its next      *)
(* frame in its sequence.  What is in the buffers is left out, and so are  *)
(* what a block computes and the parameters that have no influence on      *)
(* sizes.                                                                  *)
(*   accepts  its input ports may be connected to these signals            *)
(*   sound    setup_output_ports comes to an end                           *)
(*   gives    the signal of its output ports                               *)
(*   starts   initialize comes to an end                                   *)
(*   works    process comes to an end, however often it is called          *)
(*   writes   the samples process leaves in the buffers of its outputs     *)
(* Buffers are IT++ vectors, which some blocks resize and others fill.     *)
(***************************************************************************)
EXTENDS Integers, Sequences, FiniteSets

CONSTANTS
    Word,         \* a frame size is computed modulo Word: 2^32 in the code
    KnownCodes,   \* external: <<inverse rate, constraint length>> IT++ has polynomials for
    TurboFrames,  \* external: lengths IT++ has a turbo interleaver for
    SequenceLength   \* elements of a scrambling sequence: 38400 in the code

ASSUME LibraryAssumption ==
    /\ Word \in Nat \ {0}
    /\ KnownCodes \subseteq (Nat \ {0}) \X Nat
    /\ TurboFrames \subseteq Nat
    /\ SequenceLength \in Nat \ {0}

Types == {"int32", "real", "complex"}

\* What an output port says of its signal; the frame size is an unsigned number.
Signal(type, Ts, size) == [type |-> type, Ts |-> Ts, size |-> size % Word]
NoSignal == [type |-> "empty", Ts |-> 0, size |-> 0]

\* InPort(name, type, Ts, framesize), where 0 leaves Ts and framesize open.
InPort(type, p, sig) ==
    /\ sig.type = type
    /\ p.Ts \in {0, sig.Ts}
    /\ p.framesize \in {0, sig.size}

\* The signal a block hands on as it is.
Same(sig) == Signal(sig.type, sig.Ts, sig.size)

-----------------------------------------------------------------------------
(* Sources *)

RandomUniformBitGenerator(p, in, n) ==
    [accepts |-> TRUE,
     sound |-> TRUE,
     gives |-> Signal("int32", p.Ts, p.framesize),
     starts |-> p.lo <= p.hi,
     works |-> TRUE,
     writes |-> p.framesize]

Scramblers == {"UMTSDownlinkScrambler", "UMTSShortUplinkScrambler", "UMTSLongUplinkScrambler"}

\* Each time the sequence ends within the frame, get_scrambling_sequence gives a sample
\* less than it was asked for, and if that leaves none to ask for, the whole sequence in
\* addition: FrameLength of ScramblerWindow, where its calls are modelled one by one.
ScramblingSource(p, start) ==
    LET end == start + p.framesize
    IN  [accepts |-> TRUE,
         sound |-> TRUE,
         gives |-> Signal("complex", p.Ts, p.framesize),
         starts |-> TRUE,
         works |-> TRUE,
         writes |-> p.framesize - end \div (SequenceLength + 1)
                        + IF end % (SequenceLength + 1) = 0 THEN SequenceLength ELSE 0]

\* start_output_ after a frame.
NextStart(p, start) == (start + p.framesize) % (SequenceLength + 1)

\* From its very end no range of the sequence can be cut: IT++ returns nothing, or, in
\* a build that keeps its assertions, ends the program.
AtEnd(start) == start = SequenceLength

UMTSDownlinkScrambler(p, start) == ScramblingSource(p, start)
UMTSShortUplinkScrambler(p, start) == ScramblingSource(p, start)
UMTSLongUplinkScrambler(p, start) == ScramblingSource(p, start)

-----------------------------------------------------------------------------
(* Codes.  A rate is given in percent: 1/rate is cut off to an integer. *)

InverseRate(p) == 100 \div p.code_rate

ConvolutionalEncoder(p, in, n) ==
    LET inv == InverseRate(p)
        Coded(bits) == inv * (bits + p.constraint_length - 1)
    IN  [accepts |-> InPort("int32", p, in[1]),
         sound |-> TRUE,
         gives |-> Signal("int32", in[1].Ts, Coded(in[1].size)),
         starts |-> <<inv, p.constraint_length>> \in KnownCodes,
         works |-> TRUE,
         writes |-> Coded(n[1])]

ConvolutionalDecoder(p, in, n) ==
    LET inv == InverseRate(p)
        Decoded(bits) == IF inv = 0 THEN 0 ELSE bits \div inv - p.constraint_length + 1
    IN  [accepts |-> InPort("real", p, in[1]),
         sound |-> inv # 0,
         gives |-> Signal("int32", in[1].Ts, Decoded(in[1].size)),
         starts |-> <<inv, p.constraint_length>> \in KnownCodes,
         works |-> Decoded(n[1]) > 0,
         writes |-> Decoded(n[1])]

\* gen1 and gen2 are how many polynomials there are.
TurboInverseRate(p) == p.gen1 + p.gen2 - 1
TurboTail(p) == (p.constraint_length - 1) * (TurboInverseRate(p) + 1)
TurboCoded(p, bits) == bits * TurboInverseRate(p) + TurboTail(p)

\* MUTANT of TurboEncoder: declares frames without a tail.
TurboEncoderNoTail(p, in, n) ==
    [accepts |-> InPort("int32", p, in[1]),
     sound |-> TRUE,
     gives |-> Signal("int32", in[1].Ts, in[1].size * TurboInverseRate(p)),
     starts |-> in[1].size \in TurboFrames,
     works |-> TRUE,
     writes |-> (n[1] \div in[1].size) * TurboCoded(p, in[1].size)]

\* The codec is made for frames of one length, and codes as many as there are.
TurboEncoder(p, in, n) ==
    [accepts |-> InPort("int32", p, in[1]),
     sound |-> TRUE,
     gives |-> Signal("int32", in[1].Ts, TurboCoded(p, in[1].size)),
     starts |-> in[1].size \in TurboFrames,
     works |-> TRUE,
     writes |-> (n[1] \div in[1].size) * TurboCoded(p, in[1].size)]

TurboDecoder(p, in, n) ==
    LET bits == ((in[1].size - TurboTail(p)) % Word) \div TurboInverseRate(p)
    IN  [accepts |-> InPort("real", p, in[1]),
         sound |-> TRUE,
         gives |-> Signal("int32", in[1].Ts, bits),
         starts |-> bits \in TurboFrames,
         works |-> TRUE,
         writes |-> (n[1] \div TurboCoded(p, bits)) * bits]

-----------------------------------------------------------------------------
(* Modulation *)

\* static_cast<unsigned int>(log2(M)): so many powers of two from 2 on are not above M.
BitsPerSymbol(M) == Cardinality({k \in 1..M : 2^k <= M})

MPSKModulator(p, in, n) ==
    LET bits == BitsPerSymbol(p.M)
        pad == IF bits = 0 THEN 0 ELSE (bits - (in[1].size % bits)) % bits
        symbols == IF bits = 0 THEN 0 ELSE (in[1].size + pad) \div bits
    IN  [accepts |-> InPort("int32", p, in[1]),
         sound |-> bits # 0,
         gives |-> Signal("complex", in[1].Ts, symbols),
         starts |-> p.M = 2^bits,
         works |-> n[1] <= in[1].size + pad,
         writes |-> symbols]

MPSKDemodulator(p, in, n) ==
    LET bits == BitsPerSymbol(p.M)
    IN  [accepts |-> InPort("complex", p, in[1]),
         sound |-> TRUE,
         gives |-> Signal(IF p.soft = 1 THEN "real" ELSE "int32", in[1].Ts, bits * in[1].size),
         starts |-> p.M = 2^bits,
         works |-> TRUE,
         writes |-> bits * n[1]]

-----------------------------------------------------------------------------
(* Filters and channels.  The receive filter and the fading channel write   *)
(* as many samples as there are in the buffer already.                      *)

RaisedCosineTransmit(p, in, n) ==
    [accepts |-> InPort("complex", p, in[1]),
     sound |-> TRUE,
     gives |-> Signal("complex", in[1].Ts \div p.upsampling, in[1].size * p.upsampling),
     starts |-> TRUE,
     works |-> TRUE,
     writes |-> n[1] * p.upsampling]

\* MUTANT of RaisedCosineReceive: the sample time of the input.
RaisedCosineReceiveSameTs(p, in, n) ==
    LET samples == in[1].size \div p.downsampling
    IN  [accepts |-> InPort("complex", p, in[1]),
         sound |-> TRUE,
         gives |-> Signal("complex", in[1].Ts, samples),
         starts |-> TRUE,
         works |-> n[1] \div p.downsampling <= samples,
         writes |-> samples]

RaisedCosineReceive(p, in, n) ==
    LET samples == in[1].size \div p.downsampling
    IN  [accepts |-> InPort("complex", p, in[1]),
         sound |-> TRUE,
         gives |-> Signal("complex", in[1].Ts * p.downsampling, samples),
         starts |-> TRUE,
         works |-> n[1] \div p.downsampling <= samples,
         writes |-> samples]

AWGNChannel(p, in, n) ==
    [accepts |-> InPort("complex", p, in[1]),
     sound |-> TRUE,
     gives |-> Same(in[1]),
     starts |-> TRUE,
     works |-> TRUE,
     writes |-> n[1]]

\* Of the 21 profiles those after the 13th are not found: the constructor takes
\* the number of signal types for the number of profiles.  process adds what was left of
\* the last frame, p.tail samples, to the beginning of this one: there must be some, and no
\* more than the frame has, and after a frame of another length they are of another number.
FadingChannel(p, in, n) ==
    [accepts |-> InPort("complex", p, in[1]),
     sound |-> TRUE,
     gives |-> Same(in[1]),
     starts |-> p.profile <= 13,
     works |-> n[1] = in[1].size /\ p.tail \in 1..in[1].size,
     writes |-> in[1].size]

ConjugateComplex(p, in, n) ==
    [accepts |-> in[1].type = "complex",
     sound |-> TRUE,
     gives |-> Same(in[1]),
     starts |-> TRUE,
     works |-> TRUE,
     writes |-> n[1]]

-----------------------------------------------------------------------------
(* Blocks for signals of any type *)

\* What IT++ makes of n samples: full matrices.
Padded(p, n) == LET matrix == p.rows * p.cols IN ((n + matrix - 1) \div matrix) * matrix

BlockInterleaver(p, in, n) ==
    [accepts |-> InPort(in[1].type, p, in[1]),
     sound |-> TRUE,
     gives |-> Same(in[1]),
     starts |-> TRUE,
     works |-> TRUE,
     writes |-> Padded(p, n[1])]

\* initialize interleaves a frame of zeros: from then on deinterleave cuts what it
\* returns to the length of that.
BlockDeinterleaver(p, in, n) ==
    [accepts |-> InPort(in[1].type, p, in[1]),
     sound |-> TRUE,
     gives |-> Same(in[1]),
     starts |-> TRUE,
     works |-> TRUE,
     writes |-> in[1].size]

Fork(p, in, n) ==
    [accepts |-> TRUE,
     sound |-> TRUE,
     gives |-> Same(in[1]),
     starts |-> TRUE,
     works |-> TRUE,
     writes |-> n[1]]

\* Only the first input is asked for its type: the buffers of all are read as if
\* they had it, and as many samples as the first has.
SameSamples(in, n) == \A k \in DOMAIN in : in[k].type = in[1].type /\ n[k] = n[1]

Arithmetic(p, in, n) ==
    [accepts |-> TRUE,
     sound |-> TRUE,
     gives |-> Same(in[1]),
     starts |-> TRUE,
     works |-> SameSamples(in, n),
     writes |-> n[1]]

\* MUTANT of ComposeComplex: only real inputs are dispatched.
ComposeComplexReal(p, in, n) ==
    [accepts |-> TRUE,
     sound |-> TRUE,
     gives |-> Signal("complex", in[1].Ts, in[1].size),
     starts |-> TRUE,
     works |-> in[1].type = "real" /\ SameSamples(in, n),
     writes |-> n[1]]

\* Of a complex input initialize makes nothing, and process calls what it was to set.
ComposeComplex(p, in, n) ==
    [accepts |-> TRUE,
     sound |-> TRUE,
     gives |-> Signal("complex", in[1].Ts, in[1].size),
     starts |-> TRUE,
     works |-> in[1].type # "complex" /\ SameSamples(in, n),
     writes |-> n[1]]

-----------------------------------------------------------------------------
(* Sinks *)

Sink(accepts) ==
    [accepts |-> accepts,
     sound |-> TRUE,
     gives |-> NoSignal,
     starts |-> TRUE,
     works |-> TRUE,
     writes |-> 0]

\* Frames of different lengths are compared as far as the shorter goes.
BitErrorCount(p, in, n) == Sink(in[1].type = "int32" /\ in[2].type = "int32")
ITWrite(p, in, n) == Sink(TRUE)
StdoutSink(p, in, n) == Sink(TRUE)

-----------------------------------------------------------------------------
Sources == Scramblers \cup {"RandomUniformBitGenerator"}
Sinks == {"BitErrorCount", "ITWrite", "StdoutSink"}

\* How many ports a block has.
Inputs(p) == CASE p.block \in Sources -> 0
               [] p.block \in {"ComposeComplex", "BitErrorCount"} -> 2
               [] p.block = "Arithmetic" -> p.num_inputs
               [] OTHER -> 1

Outputs(p) == CASE p.block \in Sinks -> 0
                [] p.block = "Fork" -> p.num_outputs
                [] OTHER -> 1

Block(p, in, n, start) ==
    CASE p.block = "RandomUniformBitGenerator" -> RandomUniformBitGenerator(p, in, n)
      [] p.block = "UMTSDownlinkScrambler" -> UMTSDownlinkScrambler(p, start)
      [] p.block = "UMTSShortUplinkScrambler" -> UMTSShortUplinkScrambler(p, start)
      [] p.block = "UMTSLongUplinkScrambler" -> UMTSLongUplinkScrambler(p, start)
      [] p.block = "ConvolutionalEncoder" -> ConvolutionalEncoder(p, in, n)
      [] p.block = "ConvolutionalDecoder" -> ConvolutionalDecoder(p, in, n)
      [] p.block = "TurboEncoder" -> TurboEncoder(p, in, n)
      [] p.block = "TurboDecoder" -> TurboDecoder(p, in, n)
      [] p.block = "MPSKModulator" -> MPSKModulator(p, in, n)
      [] p.block = "MPSKDemodulator" -> MPSKDemodulator(p, in, n)
      [] p.block = "RaisedCosineTransmit" -> RaisedCosineTransmit(p, in, n)
      [] p.block = "RaisedCosineReceive" -> RaisedCosineReceive(p, in, n)
      [] p.block = "AWGNChannel" -> AWGNChannel(p, in, n)
      [] p.block = "FadingChannel" -> FadingChannel(p, in, n)
      [] p.block = "ConjugateComplex" -> ConjugateComplex(p, in, n)
      [] p.block = "BlockInterleaver" -> BlockInterleaver(p, in, n)
      [] p.block = "BlockDeinterleaver" -> BlockDeinterleaver(p, in, n)
      [] p.block = "Fork" -> Fork(p, in, n)
      [] p.block = "Arithmetic" -> Arithmetic(p, in, n)
      [] p.block = "ComposeComplex" -> ComposeComplex(p, in, n)
      [] p.block = "BitErrorCount" -> BitErrorCount(p, in, n)
      [] p.block = "ITWrite" -> ITWrite(p, in, n)
      [] p.block = "StdoutSink" -> StdoutSink(p, in, n)
=============================================================================
