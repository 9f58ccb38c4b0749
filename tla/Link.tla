-------------------------------- MODULE Link --------------------------------
(***************************************************************************)
(* Links: systems made of the blocks of the library.  The user adds one    *)
(* block after the other, each connected to the free output ports of       *)
(* earlier ones, and runs the link.  A run hands the attributes of the     *)
(* signals on, initializes all blocks, and processes each after those that *)
(* feed it (how it comes to that is modelled by System), in one step after *)
(* the other.                                                              *)
(***************************************************************************)
EXTENDS BlockLibrary, SequencesExt

CONSTANTS
    Library,     \* bound: the configured blocks a link is made of, each used once at most
    MaxBlocks,   \* bound: blocks of a link
    MaxSteps     \* bound: steps of a run

\* The blocks of a transmitter, and those of a receiver.
Transmitters == {"ConvolutionalEncoder", "TurboEncoder", "MPSKModulator", "RaisedCosineTransmit",
                 "BlockInterleaver"}
Receivers == {"ConvolutionalDecoder", "TurboDecoder", "MPSKDemodulator", "RaisedCosineReceive",
              "BlockDeinterleaver"}

ASSUME LinkAssumption == MaxBlocks \in Nat /\ MaxSteps \in Nat

\* The constraints of the parameters; and codes are made of polynomials, not so many that
\* the frames of a turbo code would not fit in a word.
ASSUME ConfiguredAssumption == \A p \in Library :
    /\ p.block \in Sources \cup Sinks \cup Transmitters \cup Receivers
                  \cup {"AWGNChannel", "FadingChannel", "ConjugateComplex",
                        "Fork", "Arithmetic", "ComposeComplex"}
    /\ p.block \in Sources => p.Ts \in Nat \ {0} /\ p.framesize \in 1..(Word - 1)
    /\ p.block \in {"ConvolutionalEncoder", "ConvolutionalDecoder"} =>
          p.code_rate \in Nat \ {0} /\ p.constraint_length \in Nat \ {0}
    /\ p.block \in {"TurboEncoder", "TurboDecoder"} =>
          /\ p.gen1 \in Nat \ {0} /\ p.gen2 \in Nat \ {0} /\ p.constraint_length \in Nat \ {0, 1}
          /\ \A bits \in TurboFrames : TurboCoded(p, bits) + TurboInverseRate(p) <= Word
    /\ p.block \in {"MPSKModulator", "MPSKDemodulator"} => p.M \in Nat \ {0}
    /\ p.block = "RaisedCosineTransmit" => p.upsampling \in Nat \ {0, 1}
    /\ p.block = "FadingChannel" => p.tail \in Nat
    /\ p.block = "RaisedCosineReceive" => p.downsampling \in Nat \ {0, 1}
    /\ p.block \in {"BlockInterleaver", "BlockDeinterleaver"} =>
          p.rows \in Nat \ {0} /\ p.cols \in Nat \ {0}
    /\ p.block = "Fork" => p.num_outputs \in 1..999
    /\ p.block = "Arithmetic" => p.num_inputs \in 1..999

VARIABLES
    blocks,      \* the blocks, in the order they are added
    feeds,       \* feeds[i][k]: the block connected to the k-th input port of block i
    free,        \* how many output ports of each block are not connected yet
    declared,    \* the signal of each block's output ports
    step,        \* steps of the run before the current one
    start,       \* where in its sequence the next frame of a scrambler starts
    samples,     \* samples in the output buffers of the blocks processed in this step
    phase

vars == <<blocks, feeds, free, declared, step, start, samples, phase>>

TypeOK ==
    /\ blocks \in Seq(Library)
    /\ feeds \in [DOMAIN blocks -> Seq(DOMAIN blocks)]
    /\ free \in [DOMAIN blocks -> Nat]
    /\ declared \in [DOMAIN blocks -> [type : Types \cup {"empty"}, Ts : Nat, size : 0..(Word - 1)]]
    /\ step \in Nat
    /\ start \in [DOMAIN blocks -> 0..SequenceLength]
    /\ samples \in Seq(Nat)
    /\ Len(samples) <= Len(blocks)
    /\ phase \in {"built", "running", "aborted", "failed", "crashed"}

Init ==
    /\ blocks = <<>>
    /\ feeds = <<>>
    /\ free = <<>>
    /\ declared = <<>>
    /\ step = 0
    /\ start = <<>>
    /\ samples = <<>>
    /\ phase = "built"

-----------------------------------------------------------------------------
Signals(from) == [k \in DOMAIN from |-> declared[from[k]]]
Sizes(in) == [k \in DOMAIN in |-> in[k].size]

\* Output ports can have this signal: propagating it, and making a vector of that
\* length, asserts it.
Possible(sig) == sig.type # "empty" /\ sig.Ts > 0 /\ sig.size > 0 /\ sig.size < Word \div 2

\* Bounds: the sources come first, two at most, and the second only beside the bit
\* generator; the first input port of any other block is connected to the last block
\* that has a free output port; and enough blocks are left for a sink on each.
InOrder(p, from) ==
    /\ IF from = <<>>
       THEN feeds = <<>> \/ (feeds = <<<<>>>> /\ blocks[1].block = "RandomUniformBitGenerator")
       ELSE \A i \in (from[1] + 1)..Len(blocks) : free[i] = 0
    /\ Cardinality(UNION {{i} \X (1..free[i]) : i \in DOMAIN free}) - Inputs(p) + Outputs(p)
          < MaxBlocks - Len(blocks)

Taken(from, i) == Cardinality({k \in DOMAIN from : from[k] = i})

Add(p, from) ==
    /\ phase = "built"
    /\ InOrder(p, from)
    /\ \A i \in DOMAIN blocks : blocks[i] # p
    /\ \A i \in DOMAIN blocks : Taken(from, i) <= free[i]
    /\ free' = Append([i \in DOMAIN free |-> free[i] - Taken(from, i)], Outputs(p))
    /\ LET in == Signals(from)
           b == Block(p, in, Sizes(in), 0)
       IN /\ b.accepts
          /\ blocks' = Append(blocks, p)
          /\ feeds' = Append(feeds, from)
          /\ declared' = Append(declared, b.gives)
          /\ start' = Append(start, 0)
          /\ phase' = IF b.sound /\ (Outputs(p) > 0 => Possible(b.gives))
                      THEN "built" ELSE "aborted"
    /\ UNCHANGED <<step, samples>>

Behaviour(i, n) == Block(blocks[i], Signals(feeds[i]), n, start[i])

\* All output ports are connected, and all blocks are initialized.
Start ==
    /\ phase = "built"
    /\ blocks # <<>>
    /\ \A i \in DOMAIN blocks : free[i] = 0
    /\ phase' = IF \A i \in DOMAIN blocks : Behaviour(i, Sizes(Signals(feeds[i]))).starts
                THEN "running" ELSE "failed"
    /\ UNCHANGED <<blocks, feeds, free, declared, step, start, samples>>

\* The next block is processed.
Process ==
    /\ phase = "running"
    /\ Len(samples) < Len(blocks)
    /\ LET i == Len(samples) + 1
           b == Behaviour(i, [k \in DOMAIN feeds[i] |-> samples[feeds[i][k]]])
       IN \/ /\ b.works
             /\ samples' = Append(samples, b.writes)
             /\ UNCHANGED phase
          \/ /\ ~b.works \/ (blocks[i].block \in Scramblers /\ AtEnd(start[i]))
             /\ phase' = "crashed"
             /\ UNCHANGED samples
    /\ UNCHANGED <<blocks, feeds, free, declared, step, start>>

\* All blocks have been processed: the next step begins.
NextStep ==
    /\ phase = "running"
    /\ Len(samples) = Len(blocks)
    /\ step < MaxSteps - 1
    /\ step' = step + 1
    /\ start' = [i \in DOMAIN blocks |->
                    IF blocks[i].block \in Scramblers THEN NextStart(blocks[i], start[i]) ELSE 0]
    /\ samples' = <<>>
    /\ UNCHANGED <<blocks, feeds, free, declared, phase>>

Next ==
    \/ \E p \in Library : \E from \in [1..Inputs(p) -> DOMAIN blocks] : Add(p, from)
    \/ Start
    \/ Process
    \/ NextStep

Spec == Init /\ [][Next]_vars
-----------------------------------------------------------------------------
(* What makes it correct *)

\* A block of the transmitter, and the one of the receiver that undoes it.
Undoes(q, p) ==
    \/ /\ p.block = "ConvolutionalEncoder" /\ q.block = "ConvolutionalDecoder"
       /\ InverseRate(p) = InverseRate(q) /\ p.constraint_length = q.constraint_length
    \/ /\ p.block = "TurboEncoder" /\ q.block = "TurboDecoder"
       /\ p.gen1 = q.gen1 /\ p.gen2 = q.gen2 /\ p.constraint_length = q.constraint_length
    \/ /\ p.block = "MPSKModulator" /\ q.block = "MPSKDemodulator"
       /\ p.M = q.M
    \/ /\ p.block = "RaisedCosineTransmit" /\ q.block = "RaisedCosineReceive"
       /\ p.upsampling = q.downsampling
    \/ /\ p.block = "BlockInterleaver" /\ q.block = "BlockDeinterleaver"
       /\ p.rows = q.rows /\ p.cols = q.cols

\* The transmitter blocks that have not been undone on the way, along first inputs,
\* to the output of block i.
Open[i \in DOMAIN blocks] ==
    LET p == blocks[i]
        before == IF feeds[i] = <<>> THEN <<>> ELSE Open[feeds[i][1]]
        last == Len(before)
    IN  IF p.block \in Transmitters THEN Append(before, i)
        ELSE IF p.block \notin Receivers THEN before
        ELSE IF last > 0 /\ Undoes(p, blocks[before[last]]) THEN SubSeq(before, 1, last - 1)
        ELSE <<>>

\* The transmitter block that receiver block j undoes, 0 if there is none.
Undone(j) ==
    LET before == Open[feeds[j][1]]
        last == Len(before)
    IN  IF last > 0 /\ Undoes(blocks[j], blocks[before[last]]) THEN before[last] ELSE 0

Input(i) == declared[feeds[i][1]]

\* Modulators get whole symbols.
WholeSymbols == \A i \in DOMAIN blocks :
    blocks[i].block = "MPSKModulator" =>
        blocks[i].M > 1 /\ Input(i).size % BitsPerSymbol(blocks[i].M) = 0

\* Interleavers get full matrices.
FullMatrices == \A i \in DOMAIN blocks :
    blocks[i].block = "BlockInterleaver" => Input(i).size % (blocks[i].rows * blocks[i].cols) = 0

\* No block writes frames of more samples than a vector can have.
Fits == \A i \in DOMAIN blocks : Behaviour(i, Sizes(Signals(feeds[i]))).writes < Word \div 2

\* Sample times, reals in the code, are whole numbers of a unit that is short enough.
WholeTimes == \A i \in DOMAIN blocks :
    blocks[i].block = "RaisedCosineTransmit" => Input(i).Ts % blocks[i].upsampling = 0

\* The scrambling sequences last for this step.
SequencesLast == \A i \in DOMAIN blocks :
    blocks[i].block \in Scramblers => start[i] + blocks[i].framesize <= SequenceLength

\* What the transmitter does to a frame the receiver undoes, whatever comes between:
\* the sample time is the same again, no sample of the frame is lost, and none is
\* gained unless the modulator has padded it.
Restored ==
    phase = "built" => \A j \in DOMAIN blocks :
        blocks[j].block \in Receivers /\ Undone(j) # 0 =>
            LET sent == Input(Undone(j))
                received == declared[j]
            IN  /\ received.Ts = sent.Ts
                /\ received.size >= sent.size
                /\ WholeSymbols => received.size = sent.size

\* In every step every block writes as many samples as it has declared, and so many as the
\* blocks it feeds expect, unless an interleaver has filled up its last matrix or, in this
\* step, the sequence of a scrambler has ended: a frame that was short is followed by whole
\* ones again.
WrittenAsDeclared ==
    \/ \A i \in DOMAIN samples : samples[i] = declared[i].size
    \/ ~FullMatrices
    \/ ~SequencesLast

\* Block i is used as it is meant to be.
Sensible(i) ==
    LET p == blocks[i]
    IN  /\ p.block \in Receivers => Undone(i) # 0
        /\ p.block = "RandomUniformBitGenerator" => p.lo <= p.hi
        /\ p.block = "ConvolutionalEncoder" =>
              <<InverseRate(p), p.constraint_length>> \in KnownCodes
        /\ p.block = "TurboEncoder" => Input(i).size \in TurboFrames
        /\ p.block = "MPSKModulator" => p.M \in {2, 4, 8, 16}
        /\ p.block = "FadingChannel" => p.profile <= 13 /\ p.tail \in 1..Input(i).size
        /\ p.block \in {"Arithmetic", "ComposeComplex"} =>
              \A k \in DOMAIN feeds[i] : /\ declared[feeds[i][k]].type = Input(i).type
                                         /\ declared[feeds[i][k]].size = Input(i).size
        /\ p.block = "ComposeComplex" => Input(i).type # "complex"

\* A link of blocks used as they are meant to be, without filled-up frames, is built,
\* initialized and processed, in every step the scrambling sequences last for.
SensibleLinksRun ==
    phase \in {"aborted", "failed", "crashed"} =>
        ~(WholeSymbols /\ FullMatrices /\ SequencesLast /\ \A i \in DOMAIN blocks : Sensible(i))
=============================================================================
