----------------------------- MODULE LinkProofs -----------------------------
(***************************************************************************)
(* Proofs about links, and about what the receiver makes of the frames of  *)
(* the transmitter: for all blocks of the library, all parameters and      *)
(* frame sizes, and links of any length.                                   *)
(***************************************************************************)
EXTENDS Link, FiniteSetTheorems, TLAPS

-----------------------------------------------------------------------------
(* Numbers and sequences *)

\* Division by a positive number cuts off what is less than it.
LEMMA Quotient ==
    ASSUME NEW a \in Int, NEW b \in Nat \ {0}, NEW q \in Int, NEW r \in 0..(b - 1), a = b * q + r
    PROVE  a \div b = q
  BY SMTT(30)

\* A number less than the divisor is its own remainder.
LEMMA Remainder == ASSUME NEW a \in Nat, NEW b \in Nat \ {0}, a < b PROVE a % b = a
  BY SMTT(30)

\* Products of natural numbers are natural numbers.
LEMMA Product == ASSUME NEW a \in Nat, NEW b \in Nat PROVE a * b \in Nat
  BY SMTT(30)

\* What the division of two integers leaves is less than the divisor.
LEMMA Division ==
    ASSUME NEW a \in Nat, NEW b \in Nat \ {0}
    PROVE  /\ a \div b \in Nat /\ a % b \in 0..(b - 1) /\ a = b * (a \div b) + (a % b)
           /\ a \div b <= a
  <1>1. a \div b \in Nat /\ a % b \in 0..(b - 1) /\ a = b * (a \div b) + (a % b)
    <2>1. a \div b \in Nat
      BY SMTT(30)
    <2>2. a % b \in 0..(b - 1)
      BY SMTT(30)
    <2>3. a = b * (a \div b) + (a % b)
      BY SMTT(30)
    <2> QED BY <2>1, <2>2, <2>3
  <1> DEFINE q == a \div b
             r == a % b
  <1> HIDE DEF q, r
  <1>2. q <= b * q
    BY <1>1, SMTT(30) DEF q
  <1>3. q <= a
    <2>1. q \in Nat /\ r \in Nat /\ b * q \in Nat /\ a = b * q + r
      BY <1>1, Product DEF q, r
    <2> QED BY <1>2, <2>1
  <1> QED BY <1>1, <1>3 DEF q

\* Products of positive numbers are positive.
LEMMA PositiveProduct == ASSUME NEW a \in Nat \ {0}, NEW b \in Nat \ {0} PROVE a * b \in Nat \ {0}
  BY SMTT(30)

\* A product does not become less when a factor becomes greater.
LEMMA Monotone ==
    ASSUME NEW b \in Nat, NEW x \in Nat, NEW y \in Nat, x <= y PROVE b * x <= b * y
  BY SMTT(30)

\* Of a number of at least q times b, b is contained q times or more.
LEMMA AtLeast ==
    ASSUME NEW a \in Nat, NEW b \in Nat \ {0}, NEW q \in Nat, a >= b * q
    PROVE  a \div b >= q
  <1> DEFINE k == a \div b
             r == a % b
  <1>1. k \in Nat /\ r \in 0..(b - 1) /\ a = b * k + r
    BY Division
  <1> HIDE DEF k, r
  <1>2. SUFFICES ASSUME k + 1 <= q PROVE FALSE
    BY <1>1 DEF k
  <1>3. b * (k + 1) <= b * q
    BY <1>1, <1>2, SMTT(30)
  <1>4. b * (k + 1) = b * k + b
    BY <1>1, SMTT(30)
  <1>5. b * k \in Nat /\ b * q \in Nat
    BY <1>1, Product
  <1> QED BY <1>1, <1>3, <1>4, <1>5

\* A negative frame size that is not below -w becomes a large one (unsigned numbers).
LEMMA WrapsAround ==
    ASSUME NEW w \in Nat \ {0}, NEW x \in Int, x < 0, x + w >= 0
    PROVE  x % w = x + w
  <1> DEFINE q == x \div w
             r == x % w
  <1>1. q \in Int /\ r \in 0..(w - 1) /\ x = w * q + r
    BY SMTT(30)
  <1> HIDE DEF q, r
  <1>2. q >= 0 => w * q >= 0
    BY <1>1, SMTT(30)
  <1>3. q <= -2 => w * q <= w * (-2)
    BY <1>1, SMTT(30)
  <1>4. q = -1
    <2>1. w * q \in Int
      BY <1>1
    <2> QED BY <1>1, <1>2, <1>3, <2>1
  <1> QED BY <1>1, <1>4 DEF r

\* What the modulator pads a frame with makes it one of whole symbols.
LEMMA Padding ==
    ASSUME NEW size \in Nat, NEW bits \in Nat \ {0}, NEW pad,
           pad = (bits - (size % bits)) % bits
    PROVE  pad \in 0..(bits - 1) /\ bits * ((size + pad) \div bits) = size + pad
  <1> DEFINE k == size \div bits
             r == size % bits
  <1>1. k \in Nat /\ r \in 0..(bits - 1) /\ size = bits * k + r
    BY SMTT(30)
  <1>2. CASE r = 0
    <2>1. pad = 0
      <3>1. pad = bits % bits
        BY <1>2
      <3> QED BY <3>1, SMTT(30)
    <2>2. (size + pad) \div bits = k
      <3> HIDE DEF k, r
      <3>1. size + pad = bits * k + 0 /\ size + pad \in Int /\ 0 \in 0..(bits - 1)
        BY <1>1, <1>2, <2>1
      <3> QED BY ONLY <1>1, <3>1, bits \in Nat \ {0}, Quotient
    <2> HIDE DEF k, r
    <2> QED BY <1>1, <1>2, <2>1, <2>2
  <1>3. CASE r # 0
    <2> HIDE DEF k, r
    <2>1. pad = bits - r
      <3>1. bits - r \in Nat /\ bits - r < bits
        BY <1>1, <1>3
      <3>2. pad = (bits - r) % bits
        BY DEF r
      <3> QED BY <3>1, <3>2, Remainder
    <2>2. size + pad = bits * (k + 1)
      BY <1>1, <2>1, SMTT(30)
    <2>3. (size + pad) \div bits = k + 1
      <3>1. size + pad = bits * (k + 1) + 0 /\ size + pad \in Int /\ 0 \in 0..(bits - 1)
        BY <1>1, <2>1, <2>2
      <3> QED BY ONLY <1>1, <3>1, bits \in Nat \ {0}, Quotient
    <2> QED BY <1>1, <1>3, <2>1, <2>2, <2>3
  <1> QED BY <1>2, <1>3

\* Every set of natural numbers that is not empty has a least element.
LEMMA LeastElement ==
    ASSUME NEW T \in SUBSET Nat, T # {}
    PROVE  \E x \in T : \A y \in T : x <= y
  <1> DEFINE UpTo(n) == 1..n
             U == {UpTo(n) : n \in T}
             R == StrictSubsetOrdering(Nat)
             F == FiniteSubsetsOf(Nat)
  <1>1. IsWellFoundedOn(R, F)
    BY FS_StrictSubsetOrderingWellFounded
  <1>2. U \subseteq F
    BY FS_Interval DEF FiniteSubsetsOf
  <1>3. U # {}
    OBVIOUS
  <1>4. \E a \in U : \A b \in U : <<b, a>> \notin R
    <2> HIDE DEF U, R, F
    <2> QED BY <1>1, <1>2, <1>3, WFMin
  <1>5. PICK x \in T : \A y \in T : <<UpTo(y), UpTo(x)>> \notin R
    BY <1>4
  <1>6. \A y \in T : y < x => <<UpTo(y), UpTo(x)>> \in R
    <2> SUFFICES ASSUME NEW y \in T, y < x PROVE <<UpTo(y), UpTo(x)>> \in R
      OBVIOUS
    <2>1. UpTo(y) \subseteq UpTo(x) /\ x \in UpTo(x) /\ x \notin UpTo(y)
      OBVIOUS
    <2>2. UpTo(y) \in SUBSET Nat /\ UpTo(x) \in SUBSET Nat
      OBVIOUS
    <2> QED BY <2>1, <2>2 DEF StrictSubsetOrdering
  <1>7. \A y \in T : ~(y < x)
    BY <1>5, <1>6
  <1> HIDE DEF R, U, F, UpTo
  <1> QED BY <1>7

\* Induction, with a set for the predicate.
LEMMA InductionOnSet ==
    ASSUME NEW S \in SUBSET Nat, 0 \in S, \A n \in S : n + 1 \in S
    PROVE  S = Nat
  <1> SUFFICES ASSUME Nat \ S # {} PROVE FALSE
    OBVIOUS
  <1>1. PICK x \in Nat \ S : \A y \in Nat \ S : x <= y
    BY LeastElement
  <1>2. x - 1 \in Nat /\ x - 1 \notin Nat \ S
    BY <1>1
  <1> QED BY <1>1, <1>2

\* What appending an element does to a sequence.
LEMMA AppendIs ==
    ASSUME NEW S, NEW s \in Seq(S), NEW e \in S
    PROVE  /\ Append(s, e) \in Seq(S) /\ Len(Append(s, e)) = Len(s) + 1 /\ Len(s) \in Nat
           /\ DOMAIN Append(s, e) = 1..(Len(s) + 1)
           /\ \A i \in 1..Len(s) : Append(s, e)[i] = s[i]
           /\ Append(s, e)[Len(s) + 1] = e
  OBVIOUS

\* Removing the last element undoes appending it.
LEMMA LastIsRemoved ==
    ASSUME NEW S, NEW s \in Seq(S), NEW e \in S
    PROVE  /\ SubSeq(Append(s, e), 1, Len(Append(s, e)) - 1) = s
           /\ Len(Append(s, e)) > 0
           /\ Append(s, e)[Len(Append(s, e))] = e
  <1>1. Len(s) \in Nat /\ Len(Append(s, e)) = Len(s) + 1
    OBVIOUS
  <1>2. SubSeq(Append(s, e), 1, Len(s)) = s
    OBVIOUS
  <1> QED BY <1>1, <1>2

\* A sequence of elements of S is one of elements of a larger set.
LEMMA SeqOfMore ==
    ASSUME NEW S, NEW T, S \subseteq T, NEW s \in Seq(S)
    PROVE  s \in Seq(T)
  OBVIOUS

\* Half a word is a number of samples.
LEMMA HalfAWord == Word \div 2 \in Nat /\ Word \div 2 <= Word
  BY LibraryAssumption, SMTT(30)

-----------------------------------------------------------------------------
(* What the blocks are given *)

\* A frame size that fits in a word is declared as it is (BasePort, constructor).
LEMMA SizeOfSignal ==
    ASSUME NEW type, NEW Ts, NEW size \in Nat, size < Word
    PROVE  Signal(type, Ts, size).size = size
  BY LibraryAssumption, Remainder DEF Signal

\* What a port is told of type and sample time it declares, with a size in a word.
LEMMA SignalIs ==
    ASSUME NEW type, NEW Ts, NEW size
    PROVE  Signal(type, Ts, size).type = type /\ Signal(type, Ts, size).Ts = Ts
           /\ (size \in Int => Signal(type, Ts, size).size \in 0..(Word - 1))
  <1>1. size \in Int => size % Word \in 0..(Word - 1)
    BY LibraryAssumption, SMTT(30)
  <1> QED BY <1>1 DEF Signal

\* The inverse of a code rate is a natural number, zero for rates above 1.
LEMMA InverseIsNat ==
    ASSUME NEW p, p.code_rate \in Nat \ {0} PROVE InverseRate(p) \in Nat
  BY SMTT(30) DEF InverseRate

\* The bits per symbol are a natural number.
LEMMA BitsAreNat ==
    ASSUME NEW M \in Nat
    PROVE  BitsPerSymbol(M) \in Nat
  <1> DEFINE s == {k \in 1..M : 2^k <= M}
  <1>1. IsFiniteSet(1..M)
    BY FS_Interval
  <1>2. IsFiniteSet(s)
    BY <1>1, FS_Subset
  <1> QED BY <1>2, FS_CardinalityType DEF BitsPerSymbol

\* A signal an output port can have (BaseOutPort, the assertions of propagate).
Proper(sig) == Possible(sig) /\ sig.type \in Types /\ sig.size \in Nat /\ sig.Ts \in Nat

\* What a block is given: parameters within their constraints, and proper signals on all
\* of its input ports.
Given(p, in) ==
    /\ p \in Library
    /\ in = [k \in 1..Inputs(p) |-> in[k]]
    /\ \A k \in 1..Inputs(p) : Proper(in[k])

\* Sources have no input port and sinks no output port, all others have both (the
\* configure_input_ports and setup_output_ports of the blocks).
LEMMA InputsAre ==
    ASSUME NEW p \in Library
    PROVE  /\ p.block \in Sources => Inputs(p) = 0 /\ Outputs(p) = 1
           /\ p.block \notin Sources => Inputs(p) \in Nat /\ Inputs(p) > 0
           /\ p.block \in Sinks => Outputs(p) = 0
           /\ p.block \notin Sinks => Outputs(p) \in Nat /\ Outputs(p) > 0
           /\ Inputs(p) \in Nat /\ Outputs(p) \in Nat
  <1>1. CASE p.block \in Sources
    <2>1. Inputs(p) = 0
      BY <1>1 DEF Inputs, Sources, Scramblers
    <2>2. Outputs(p) = 1
      BY <1>1 DEF Outputs, Sources, Scramblers, Sinks
    <2> QED BY <1>1, <2>1, <2>2 DEF Sources, Scramblers, Sinks
  <1>2. CASE p.block \notin Sources
    <2>1. Inputs(p) \in Nat /\ Inputs(p) > 0
      <3>1. CASE p.block \in {"ComposeComplex", "BitErrorCount"}
        BY <1>2, <3>1 DEF Inputs, Sources, Scramblers
      <3>2. CASE p.block = "Arithmetic"
        <4>1. Inputs(p) = p.num_inputs
          BY <3>2 DEF Inputs, Sources, Scramblers
        <4> QED BY <3>2, <4>1, ConfiguredAssumption
      <3>3. CASE p.block \notin {"ComposeComplex", "BitErrorCount", "Arithmetic"}
        BY <1>2, <3>3 DEF Inputs
      <3> QED BY <3>1, <3>2, <3>3
    <2>2. CASE p.block \in Sinks
      <3>1. Outputs(p) = 0
        BY <2>2 DEF Outputs, Sinks
      <3> QED BY <1>2, <2>1, <2>2, <3>1
    <2>3. CASE p.block = "Fork"
      <3>1. Outputs(p) = p.num_outputs /\ p.block \notin Sinks
        BY <2>3 DEF Outputs, Sinks
      <3>2. p.num_outputs \in 1..999
        BY <2>3, ConfiguredAssumption
      <3> QED BY <1>2, <2>1, <3>1, <3>2
    <2>4. CASE p.block \notin Sinks \cup {"Fork"}
      <3>1. Outputs(p) = 1
        BY <2>4 DEF Outputs
      <3> QED BY <1>2, <2>1, <2>4, <3>1
    <2> QED BY <2>2, <2>3, <2>4
  <1> QED BY <1>1, <1>2

\* Any block but a source has a first input port, with a frame of some samples.
LEMMA FirstInput ==
    ASSUME NEW p, NEW in, Given(p, in), p.block \notin Sources
    PROVE  /\ Proper(in[1]) /\ in[1].size \in Nat \ {0} /\ in[1].size < Word
           /\ Sizes(in)[1] = in[1].size
  <1>1. 1 \in 1..Inputs(p)
    BY InputsAre DEF Given
  <1>2. Word \div 2 <= Word
    BY LibraryAssumption
  <1>3. in[1].size > 0 /\ in[1].size < Word \div 2 /\ in[1].size \in Nat
    BY <1>1 DEF Given, Proper, Possible
  <1>4. Word \div 2 \in Int
    BY LibraryAssumption
  <1> QED BY <1>1, <1>2, <1>3, <1>4, LibraryAssumption DEF Given, Sizes

\* A proper signal has a frame of some samples, and a sample time.
LEMMA FrameIs ==
    ASSUME NEW in, Proper(in[1])
    PROVE  in[1].size \in Nat \ {0} /\ in[1].size < Word \div 2 /\ in[1].size < Word
           /\ in[1].Ts \in Nat \ {0}
  BY HalfAWord, LibraryAssumption DEF Proper, Possible

-----------------------------------------------------------------------------
(* Sources, sinks, and blocks that hand signals on *)

\* b is what block p does, wherever the next frame starts in its sequence.
Does(b, p, in, n) == \E s : b = Block(p, in, n, s)

\* The three scramblers are alike.
LEMMA ScramblerIs ==
    ASSUME NEW p, p.block \in Scramblers, NEW in, NEW n, NEW s
    PROVE  Block(p, in, n, s) = ScramblingSource(p, s)
  <1>1. CASE p.block = "UMTSDownlinkScrambler"
    BY <1>1 DEF Block, UMTSDownlinkScrambler
  <1>2. CASE p.block = "UMTSShortUplinkScrambler"
    BY <1>2 DEF Block, UMTSShortUplinkScrambler
  <1>3. CASE p.block = "UMTSLongUplinkScrambler"
    BY <1>3 DEF Block, UMTSLongUplinkScrambler
  <1> QED BY <1>1, <1>2, <1>3 DEF Scramblers

\* What a source does: it declares frames of the size it is configured for, and only bounds
\* in the wrong order keep the bit generator from starting.
LEMMA SourceIs ==
    ASSUME NEW p \in Library, p.block \in Sources, NEW in, NEW n,
           NEW b, Does(b, p, in, n)
    PROVE  /\ b.accepts /\ b.sound /\ b.works
           /\ b.gives.type \in Types /\ b.gives.Ts = p.Ts /\ b.gives.Ts \in Nat \ {0}
           /\ b.gives.size = p.framesize
           /\ p.block = "RandomUniformBitGenerator" => b.writes = p.framesize
           /\ p.framesize \in 1..(Word - 1)
           /\ p.block = "RandomUniformBitGenerator" => b.starts = (p.lo <= p.hi)
           /\ p.block # "RandomUniformBitGenerator" => b.starts
  <1>1. p.Ts \in Nat \ {0} /\ p.framesize \in 1..(Word - 1)
    BY ConfiguredAssumption
  <1>2. Signal("int32", p.Ts, p.framesize).size = p.framesize
    BY <1>1, SizeOfSignal, LibraryAssumption
  <1>3. Signal("complex", p.Ts, p.framesize).size = p.framesize
    BY <1>1, SizeOfSignal, LibraryAssumption
  <1>4. CASE p.block = "RandomUniformBitGenerator"
    <2>1. b = RandomUniformBitGenerator(p, in, n)
      BY <1>4 DEF Does, Block
    <2>2. /\ b.accepts /\ b.sound /\ b.works
          /\ b.gives = Signal("int32", p.Ts, p.framesize) /\ b.writes = p.framesize
      BY <2>1 DEF RandomUniformBitGenerator
    <2>4. b.starts = (p.lo <= p.hi)
      BY <2>1 DEF RandomUniformBitGenerator
    <2>3. b.gives.type = "int32" /\ b.gives.Ts = p.Ts
      BY <2>2 DEF Signal
    <2> QED BY <1>1, <1>2, <1>4, <2>2, <2>3, <2>4 DEF Types
  <1>5. CASE p.block # "RandomUniformBitGenerator"
    <2>1. PICK s : b = ScramblingSource(p, s)
      <3>1. PICK s : b = Block(p, in, n, s)
        BY DEF Does
      <3> QED BY <1>5, <3>1, ScramblerIs DEF Sources, Scramblers
    <2>2. /\ b.accepts /\ b.sound /\ b.works /\ b.starts
          /\ b.gives = Signal("complex", p.Ts, p.framesize)
      BY <2>1 DEF ScramblingSource
    <2>3. b.gives.type = "complex" /\ b.gives.Ts = p.Ts
      BY <2>2 DEF Signal
    <2> QED BY <1>1, <1>3, <1>5, <2>2, <2>3 DEF Types
  <1> QED BY <1>4, <1>5

\* How many samples a scrambler writes: as many as it declares if the sequence lasts for them.
LEMMA ScramblerWrites ==
    ASSUME NEW p \in Library, p.block \in Scramblers, NEW in, NEW n, NEW s \in 0..SequenceLength,
           NEW b, b = Block(p, in, n, s)
    PROVE  /\ b.writes \in Nat
           /\ s + p.framesize <= SequenceLength => b.writes = p.framesize
  <1> DEFINE end == s + p.framesize
             whole == SequenceLength + 1
             ends == end \div whole
             rest == end % whole
  <1>1. p.framesize \in Nat \ {0} /\ SequenceLength \in Nat \ {0}
    <2>1. p.framesize \in 1..(Word - 1)
      BY ConfiguredAssumption DEF Sources, Scramblers
    <2> QED BY <2>1, LibraryAssumption
  <1>2. b.writes = p.framesize - ends + IF rest = 0 THEN SequenceLength ELSE 0
    BY ScramblerIs DEF ScramblingSource
  <1>3. whole \in Nat \ {0} /\ end \in Nat
    BY <1>1
  <1>4. ends \in Nat /\ rest \in 0..(whole - 1) /\ end = whole * ends + rest
    <2> HIDE DEF whole, end
    <2> QED BY <1>3, Division
  <1>5. ends <= p.framesize
    <2>1. CASE ends = 0
      BY <1>1, <2>1
    <2>2. CASE ends # 0
      <3>1. end = SequenceLength * ends + ends + rest
        <4> HIDE DEF ends, rest, end
        <4> QED BY <1>1, <1>4, SMTT(30)
      <3>2. SequenceLength * ends >= SequenceLength
        <4> HIDE DEF ends
        <4> QED BY <1>1, <1>4, <2>2, SMTT(30)
      <3>3. SequenceLength * ends \in Nat
        <4> HIDE DEF ends
        <4> QED BY <1>1, <1>4, SMTT(30)
      <3> DEFINE product == SequenceLength * ends
      <3> HIDE DEF ends, rest, product
      <3>4. s + p.framesize = product + ends + rest /\ product >= SequenceLength
            /\ product \in Nat /\ s <= SequenceLength /\ s \in Nat /\ rest \in Nat
        BY <1>1, <1>4, <3>1, <3>2, <3>3 DEF product
      <3> QED BY <1>1, <1>4, <3>4
    <2> QED BY <2>1, <2>2
  <1>6. b.writes \in Nat
    <2> HIDE DEF ends, rest
    <2> QED BY <1>1, <1>2, <1>4, <1>5
  <1>7. ASSUME end <= SequenceLength PROVE b.writes = p.framesize
    <2>1. end = whole * 0 + end /\ end \in 0..(whole - 1)
      BY <1>1, <1>3, <1>7
    <2>2. ends = 0
      <3> HIDE DEF whole, end
      <3> QED BY <1>3, <2>1, Quotient
    <2>3. rest = end /\ end # 0
      <3>1. end # 0
        BY <1>1
      <3> HIDE DEF ends, rest, end
      <3> QED BY <1>1, <1>3, <1>4, <2>2, <3>1
    <2> HIDE DEF ends, rest
    <2> QED BY <1>1, <1>2, <2>2, <2>3
  <1> QED BY <1>6, <1>7

\* Only what a scrambler writes depends on where its sequence has come to.
LEMMA SameAnywhere ==
    ASSUME NEW p \in Library, NEW in, NEW n, NEW s, NEW t
    PROVE  /\ p.block \notin Scramblers => Block(p, in, n, s) = Block(p, in, n, t)
           /\ Block(p, in, n, s).works <=> Block(p, in, n, t).works
           /\ Block(p, in, n, s).starts <=> Block(p, in, n, t).starts
  <1>1. CASE p.block \in Scramblers
    <2>1. Does(Block(p, in, n, s), p, in, n) /\ Does(Block(p, in, n, t), p, in, n)
      BY DEF Does
    <2>2. p.block \in Sources /\ p.block # "RandomUniformBitGenerator"
      BY <1>1 DEF Sources, Scramblers
    <2> QED BY <1>1, <2>1, <2>2, SourceIs
  <1>2. CASE p.block \notin Scramblers
    <2>1. Block(p, in, n, s) = Block(p, in, n, t)
      BY <1>2, ConfiguredAssumption
         DEF Block, Scramblers, Sources, Sinks, Transmitters, Receivers
    <2> QED BY <1>2, <2>1
  <1> QED BY <1>1, <1>2

\* What a sink does: it has nothing to declare or to write.
LEMMA SinkIs ==
    ASSUME NEW p, p.block \in Sinks, NEW in, NEW n, NEW b, Does(b, p, in, n)
    PROVE  /\ b.sound /\ b.works /\ b.starts
           /\ b.gives = NoSignal /\ b.writes = 0
  <1>1. \E accepts : b = Sink(accepts)
    <2>1. CASE p.block = "BitErrorCount"
      <3>1. b = BitErrorCount(p, in, n)
        BY <2>1 DEF Does, Block
      <3> QED BY <3>1 DEF BitErrorCount
    <2>2. CASE p.block = "ITWrite"
      <3>1. b = ITWrite(p, in, n)
        BY <2>2 DEF Does, Block
      <3> QED BY <3>1 DEF ITWrite
    <2>3. CASE p.block = "StdoutSink"
      <3>1. b = StdoutSink(p, in, n)
        BY <2>3 DEF Does, Block
      <3> QED BY <3>1 DEF StdoutSink
    <2> QED BY <2>1, <2>2, <2>3 DEF Sinks
  <1> QED BY <1>1 DEF Sink

\* Blocks that hand on the sample time and the frame size of their first input.
Straight == {"AWGNChannel", "FadingChannel", "ConjugateComplex", "Fork", "Arithmetic",
             "ComposeComplex", "BlockInterleaver", "BlockDeinterleaver"}

\* A signal that is handed on stays what it is.
LEMMA SameIs ==
    ASSUME NEW in, Proper(in[1])
    PROVE  /\ Same(in[1]).type \in Types /\ Same(in[1]).type = in[1].type
           /\ Same(in[1]).Ts = in[1].Ts /\ Same(in[1]).size = in[1].size
  <1>1. in[1].size < Word
    BY HalfAWord, LibraryAssumption DEF Proper, Possible
  <1>2. Same(in[1]).size = in[1].size
    BY <1>1, SizeOfSignal DEF Same, Proper
  <1> QED BY <1>2 DEF Same, Signal, Proper

\* What those blocks do (channels, interleavers, forks, arithmetic).
StraightDoes(b, p, in, n) ==
    /\ b.sound
    /\ b.gives.type \in Types
    /\ p.block # "ComposeComplex" => b.gives.type = in[1].type
    /\ b.gives.Ts = in[1].Ts
    /\ b.gives.size = in[1].size
    /\ p.block # "FadingChannel" => b.starts
    /\ p.block = "FadingChannel" => (b.starts = (p.profile <= 13))
    /\ p.block \in {"AWGNChannel", "ConjugateComplex", "Fork", "BlockInterleaver",
                    "BlockDeinterleaver"} => b.works
    /\ p.block = "FadingChannel" =>
          (b.works = (n[1] = in[1].size /\ p.tail \in 1..in[1].size))
    /\ p.block = "Arithmetic" => (b.works = SameSamples(in, n))
    /\ p.block = "ComposeComplex" =>
          (b.works = (in[1].type # "complex" /\ SameSamples(in, n)))
    /\ p.block = "BlockInterleaver" => b.writes = Padded(p, n[1])
    /\ p.block \in {"FadingChannel", "BlockDeinterleaver"} => b.writes = in[1].size
    /\ p.block \notin {"FadingChannel", "BlockDeinterleaver", "BlockInterleaver"} =>
          b.writes = n[1]

LEMMA StraightIs ==
    ASSUME NEW p, p.block \in Straight, NEW in, NEW n, Proper(in[1]),
           NEW b, Does(b, p, in, n)
    PROVE  StraightDoes(b, p, in, n)
  <1>1. CASE p.block = "AWGNChannel"
    <2>1. b = AWGNChannel(p, in, n)
      BY <1>1 DEF Does, Block
    <2>2. /\ b.sound /\ b.gives = Same(in[1]) /\ b.starts /\ b.works /\ b.writes = n[1]
      BY <2>1 DEF AWGNChannel
    <2> QED BY <1>1, <2>2, SameIs DEF StraightDoes
  <1>2. CASE p.block = "FadingChannel"
    <2>1. b = FadingChannel(p, in, n)
      BY <1>2 DEF Does, Block
    <2>2. /\ b.sound /\ b.gives = Same(in[1]) /\ b.writes = in[1].size
      BY <2>1 DEF FadingChannel
    <2>3. /\ b.starts = (p.profile <= 13)
          /\ b.works = (n[1] = in[1].size /\ p.tail \in 1..in[1].size)
      BY <2>1 DEF FadingChannel
    <2> QED BY <1>2, <2>2, <2>3, SameIs DEF StraightDoes
  <1>3. CASE p.block = "ConjugateComplex"
    <2>1. b = ConjugateComplex(p, in, n)
      BY <1>3 DEF Does, Block
    <2>2. /\ b.sound /\ b.gives = Same(in[1]) /\ b.starts /\ b.works /\ b.writes = n[1]
      BY <2>1 DEF ConjugateComplex
    <2> QED BY <1>3, <2>2, SameIs DEF StraightDoes
  <1>4. CASE p.block = "Fork"
    <2>1. b = Fork(p, in, n)
      BY <1>4 DEF Does, Block
    <2>2. /\ b.sound /\ b.gives = Same(in[1]) /\ b.starts /\ b.works /\ b.writes = n[1]
      BY <2>1 DEF Fork
    <2> QED BY <1>4, <2>2, SameIs DEF StraightDoes
  <1>5. CASE p.block = "Arithmetic"
    <2>1. b = Arithmetic(p, in, n)
      BY <1>5 DEF Does, Block
    <2>2. /\ b.sound /\ b.gives = Same(in[1]) /\ b.starts /\ b.writes = n[1]
      BY <2>1 DEF Arithmetic
    <2>3. b.works = SameSamples(in, n)
      BY <2>1 DEF Arithmetic
    <2> QED BY <1>5, <2>2, <2>3, SameIs DEF StraightDoes
  <1>6. CASE p.block = "ComposeComplex"
    <2>1. b = ComposeComplex(p, in, n)
      BY <1>6 DEF Does, Block
    <2>2. /\ b.sound /\ b.gives = Signal("complex", in[1].Ts, in[1].size)
          /\ b.starts /\ b.writes = n[1]
      BY <2>1 DEF ComposeComplex
    <2>6. b.works = (in[1].type # "complex" /\ SameSamples(in, n))
      BY <2>1 DEF ComposeComplex
    <2>3. in[1].size < Word
      BY HalfAWord, LibraryAssumption DEF Proper, Possible
    <2>4. b.gives.size = in[1].size
      BY <2>2, <2>3, SizeOfSignal DEF Proper
    <2>5. b.gives.type \in Types /\ b.gives.Ts = in[1].Ts
      BY <2>2 DEF Signal, Types
    <2> QED BY <1>6, <2>2, <2>4, <2>5, <2>6 DEF StraightDoes
  <1>7. CASE p.block = "BlockInterleaver"
    <2>1. b = BlockInterleaver(p, in, n)
      BY <1>7 DEF Does, Block
    <2>2. /\ b.sound /\ b.gives = Same(in[1]) /\ b.starts /\ b.works /\ b.writes = Padded(p, n[1])
      BY <2>1 DEF BlockInterleaver
    <2> QED BY <1>7, <2>2, SameIs DEF StraightDoes
  <1>8. CASE p.block = "BlockDeinterleaver"
    <2>1. b = BlockDeinterleaver(p, in, n)
      BY <1>8 DEF Does, Block
    <2>2. /\ b.sound /\ b.gives = Same(in[1]) /\ b.starts /\ b.works /\ b.writes = in[1].size
      BY <2>1 DEF BlockDeinterleaver
    <2> QED BY <1>8, <2>2, SameIs DEF StraightDoes
  <1> QED BY <1>1, <1>2, <1>3, <1>4, <1>5, <1>6, <1>7, <1>8 DEF Straight

-----------------------------------------------------------------------------
(* Codes *)

\* The size of a coded frame: a tail is added and each bit becomes several.
Coded(p, bits) == InverseRate(p) * (bits + p.constraint_length - 1)

\* What a convolutional encoder does.
ConvolutionalEncoderDoes(b, p, in, n) ==
    /\ b.sound /\ b.works
    /\ b.starts = (<<InverseRate(p), p.constraint_length>> \in KnownCodes)
    /\ b.gives.type = "int32" /\ b.gives.Ts = in[1].Ts /\ b.gives.size \in 0..(Word - 1)
    /\ b.writes = Coded(p, n[1])
    /\ n[1] \in Nat => b.writes \in Nat
    /\ n[1] = in[1].size /\ b.writes < Word => b.gives.size = b.writes

LEMMA ConvolutionalEncoderIs ==
    ASSUME NEW p \in Library, p.block = "ConvolutionalEncoder",
           NEW in, NEW n, Proper(in[1]), NEW b, Does(b, p, in, n)
    PROVE  ConvolutionalEncoderDoes(b, p, in, n)
  <1> DEFINE inv == InverseRate(p)
  <1>1. b = ConvolutionalEncoder(p, in, n)
    BY DEF Does, Block
  <1>2. inv \in Nat /\ p.constraint_length \in Nat \ {0}
    BY ConfiguredAssumption, InverseIsNat
  <1>3. ASSUME NEW k \in Nat PROVE Coded(p, k) \in Nat
    <2>1. k + p.constraint_length - 1 \in Nat
      BY <1>2
    <2> HIDE DEF inv
    <2> QED BY <1>2, <2>1, Product DEF Coded, inv
  <1>4. Coded(p, in[1].size) \in Nat
    BY <1>3, FrameIs
  <1>5. /\ b.sound /\ b.works
        /\ b.starts = (<<inv, p.constraint_length>> \in KnownCodes)
        /\ b.gives = Signal("int32", in[1].Ts, Coded(p, in[1].size))
        /\ b.writes = Coded(p, n[1])
    BY <1>1 DEF ConvolutionalEncoder, Coded
  <1>6. b.gives.type = "int32" /\ b.gives.Ts = in[1].Ts /\ b.gives.size \in 0..(Word - 1)
    <2> QED BY <1>4, <1>5, SignalIs
  <1>7. n[1] \in Nat => b.writes \in Nat
    BY <1>3, <1>5
  <1>8. n[1] = in[1].size /\ b.writes < Word => b.gives.size = b.writes
    <2> QED BY <1>4, <1>5, SizeOfSignal
  <1> QED BY <1>5, <1>6, <1>7, <1>8 DEF ConvolutionalEncoderDoes

\* The size of the frame a convolutional decoder makes of one of n samples.
Decoded(p, bits) ==
    IF InverseRate(p) = 0 THEN 0 ELSE bits \div InverseRate(p) - p.constraint_length + 1

\* What a convolutional decoder does.
ConvolutionalDecoderDoes(b, p, in, n) ==
    /\ b.sound = (InverseRate(p) # 0)
    /\ b.starts = (<<InverseRate(p), p.constraint_length>> \in KnownCodes)
    /\ b.works => Decoded(p, n[1]) > 0
    /\ Decoded(p, n[1]) > 0 => b.works
    /\ b.gives.type = "int32" /\ b.gives.Ts = in[1].Ts /\ b.gives.size \in 0..(Word - 1)
    /\ b.writes = Decoded(p, n[1])
    /\ n[1] \in Nat => b.writes \in Int
    /\ n[1] = in[1].size /\ b.writes >= 0 => b.gives.size = b.writes

LEMMA ConvolutionalDecoderIs ==
    ASSUME NEW p \in Library, p.block = "ConvolutionalDecoder",
           NEW in, NEW n, Proper(in[1]), NEW b, Does(b, p, in, n)
    PROVE  ConvolutionalDecoderDoes(b, p, in, n)
  <1>1. b = ConvolutionalDecoder(p, in, n)
    BY DEF Does, Block
  <1>2. InverseRate(p) \in Nat /\ p.constraint_length \in Nat \ {0}
    BY ConfiguredAssumption, InverseIsNat
  <1>3. ASSUME NEW k \in Nat PROVE Decoded(p, k) \in Int /\ Decoded(p, k) <= k
    <2>1. CASE InverseRate(p) = 0
      BY <2>1 DEF Decoded
    <2>2. CASE InverseRate(p) # 0
      <3>1. k \div InverseRate(p) \in Nat /\ k \div InverseRate(p) <= k
        BY <1>2, <2>2, SMTT(30)
      <3> QED BY <1>2, <2>2, <3>1 DEF Decoded
    <2> QED BY <2>1, <2>2
  <1>4. Decoded(p, in[1].size) \in Int /\ Decoded(p, in[1].size) < Word
    BY <1>3, FrameIs, LibraryAssumption
  <1>5. /\ b.sound = (InverseRate(p) # 0)
        /\ b.starts = (<<InverseRate(p), p.constraint_length>> \in KnownCodes)
        /\ b.gives = Signal("int32", in[1].Ts, Decoded(p, in[1].size))
        /\ b.works = (Decoded(p, n[1]) > 0)
        /\ b.writes = Decoded(p, n[1])
    BY <1>1 DEF ConvolutionalDecoder, Decoded
  <1>9. (b.works => Decoded(p, n[1]) > 0) /\ (Decoded(p, n[1]) > 0 => b.works)
    BY <1>5
  <1>6. b.gives.type = "int32" /\ b.gives.Ts = in[1].Ts /\ b.gives.size \in 0..(Word - 1)
    BY <1>4, <1>5, SignalIs
  <1>7. n[1] \in Nat => b.writes \in Int
    BY <1>3, <1>5
  <1>8. n[1] = in[1].size /\ b.writes >= 0 => b.gives.size = b.writes
    BY <1>4, <1>5, SizeOfSignal
  <1> QED BY <1>5, <1>6, <1>7, <1>8, <1>9 DEF ConvolutionalDecoderDoes

\* Rate and tail of a turbo code are positive, and its frames fit in a word.
LEMMA TurboNumbers ==
    ASSUME NEW p \in Library, p.block \in {"TurboEncoder", "TurboDecoder"}
    PROVE  /\ TurboInverseRate(p) \in Nat \ {0} /\ TurboTail(p) \in Nat \ {0}
           /\ \A bits \in Nat : /\ bits * TurboInverseRate(p) \in Nat
                                /\ TurboCoded(p, bits) = bits * TurboInverseRate(p) + TurboTail(p)
                                /\ TurboCoded(p, bits) \in Nat \ {0}
           /\ \A bits \in TurboFrames : TurboCoded(p, bits) + TurboInverseRate(p) <= Word
  <1>1. /\ p.gen1 \in Nat \ {0} /\ p.gen2 \in Nat \ {0} /\ p.constraint_length \in Nat \ {0, 1}
        /\ \A bits \in TurboFrames : TurboCoded(p, bits) + TurboInverseRate(p) <= Word
    BY ConfiguredAssumption
  <1>2. TurboInverseRate(p) \in Nat \ {0}
    BY <1>1 DEF TurboInverseRate
  <1>3. TurboTail(p) \in Nat \ {0}
    <2>1. \A a \in Nat \ {0}, c \in Nat \ {0} : a * c \in Nat \ {0}
      BY SMTT(30)
    <2>2. p.constraint_length - 1 \in Nat \ {0} /\ TurboInverseRate(p) + 1 \in Nat \ {0}
      BY <1>1, <1>2
    <2> QED BY <2>1, <2>2 DEF TurboTail
  <1>4. ASSUME NEW bits \in Nat
        PROVE  /\ bits * TurboInverseRate(p) \in Nat
               /\ TurboCoded(p, bits) = bits * TurboInverseRate(p) + TurboTail(p)
               /\ TurboCoded(p, bits) \in Nat \ {0}
    <2>1. bits * TurboInverseRate(p) \in Nat
      BY <1>2, Product
    <2> QED BY <1>3, <2>1 DEF TurboCoded
  <1> QED BY <1>1, <1>2, <1>3, <1>4

\* What a turbo encoder does.
TurboEncoderDoes(b, p, in, n) ==
    /\ b.sound /\ b.works
    /\ b.starts = (in[1].size \in TurboFrames)
    /\ b.gives.type = "int32" /\ b.gives.Ts = in[1].Ts /\ b.gives.size \in 0..(Word - 1)
    /\ n[1] \in Nat => b.writes \in Nat
    /\ n[1] = in[1].size => b.writes = TurboCoded(p, in[1].size)
    /\ n[1] = in[1].size /\ b.writes < Word => b.gives.size = b.writes

LEMMA TurboEncoderIs ==
    ASSUME NEW p \in Library, p.block = "TurboEncoder",
           NEW in, NEW n, Proper(in[1]), NEW b, Does(b, p, in, n)
    PROVE  TurboEncoderDoes(b, p, in, n)
  <1> DEFINE size == in[1].size
             coded == TurboCoded(p, in[1].size)
  <1>1. b = TurboEncoder(p, in, n)
    BY DEF Does, Block
  <1>2. size \in Nat \ {0} /\ coded \in Nat
    BY FrameIs, TurboNumbers
  <1>3. /\ b.sound /\ b.works
        /\ b.starts = (in[1].size \in TurboFrames)
        /\ b.gives = Signal("int32", in[1].Ts, coded)
        /\ b.writes = (n[1] \div size) * coded
    BY <1>1 DEF TurboEncoder
  <1> HIDE DEF coded
  <1>4. b.gives.type = "int32" /\ b.gives.Ts = in[1].Ts /\ b.gives.size \in 0..(Word - 1)
    BY <1>2, <1>3, SignalIs
  <1>5. n[1] \in Nat => b.writes \in Nat
    <2>1. ASSUME n[1] \in Nat PROVE n[1] \div size \in Nat
      BY <1>2, <2>1, SMTT(30)
    <2> QED BY <1>2, <1>3, <2>1, Product
  <1>6. n[1] = in[1].size => b.writes = coded
    <2> SUFFICES ASSUME n[1] = in[1].size PROVE b.writes = coded
      OBVIOUS
    <2>1. n[1] = size * 1 + 0 /\ n[1] \in Int /\ 0 \in 0..(size - 1)
      BY <1>2
    <2>2. n[1] \div size = 1
      BY <1>2, <2>1, Quotient
    <2> QED BY <1>2, <1>3, <2>2
  <1>7. n[1] = in[1].size /\ b.writes < Word => b.gives.size = b.writes
    BY <1>2, <1>3, <1>6, SizeOfSignal
  <1> QED BY <1>3, <1>4, <1>5, <1>6, <1>7 DEF coded, TurboEncoderDoes

\* The size of the frame a turbo decoder makes of one of n samples.
TurboDecoded(p, size) == ((size - TurboTail(p)) % Word) \div TurboInverseRate(p)

\* What a turbo decoder does: a frame with less than a tail becomes a huge one, for which
\* there is no interleaver.
TurboDecoderDoes(b, p, in, n) ==
    /\ b.sound /\ b.works
    /\ b.starts = (TurboDecoded(p, in[1].size) \in TurboFrames)
    /\ b.gives.type = "int32" /\ b.gives.Ts = in[1].Ts /\ b.gives.size \in 0..(Word - 1)
    /\ b.gives.size = TurboDecoded(p, in[1].size)
    /\ n[1] \in Nat => b.writes \in Nat
    /\ n[1] = in[1].size /\ b.starts => b.writes = TurboDecoded(p, in[1].size)

LEMMA TurboDecoderIs ==
    ASSUME NEW p \in Library, p.block = "TurboDecoder",
           NEW in, NEW n, Proper(in[1]), NEW b, Does(b, p, in, n)
    PROVE  TurboDecoderDoes(b, p, in, n)
  <1> DEFINE inv == TurboInverseRate(p)
             tail == TurboTail(p)
             size == in[1].size
             a == (size - tail) % Word
             bits == TurboDecoded(p, in[1].size)
  <1>1. b = TurboDecoder(p, in, n)
    BY DEF Does, Block
  <1>2. inv \in Nat \ {0} /\ tail \in Nat \ {0} /\ size \in Nat \ {0} /\ size < Word
    BY FrameIs, TurboNumbers
  <1>3. a \in 0..(Word - 1)
    <2> HIDE DEF tail, size
    <2> QED BY <1>2, LibraryAssumption, SMTT(30)
  <1>4. bits \in Nat /\ bits <= a /\ a = inv * bits + (a % inv) /\ a % inv \in 0..(inv - 1)
    <2>1. bits = a \div inv
      BY DEF TurboDecoded
    <2> HIDE DEF a, inv, bits
    <2>2. a \in Nat /\ inv \in Nat \ {0}
      BY <1>2, <1>3, LibraryAssumption
    <2>3. /\ a \div inv \in Nat /\ a % inv \in 0..(inv - 1)
          /\ a = inv * (a \div inv) + (a % inv) /\ a \div inv <= a
      BY ONLY <2>2, Division
    <2> QED BY ONLY <2>1, <2>3
  <1>5. /\ b.sound /\ b.works
        /\ b.starts = (bits \in TurboFrames)
        /\ b.gives = Signal("int32", in[1].Ts, bits)
        /\ b.writes = (n[1] \div TurboCoded(p, bits)) * bits
    BY <1>1 DEF TurboDecoder, TurboDecoded
  <1> HIDE DEF bits, a
  <1>6. b.gives.size = bits
    BY <1>3, <1>4, <1>5, SizeOfSignal, LibraryAssumption
  <1>7. b.gives.type = "int32" /\ b.gives.Ts = in[1].Ts /\ b.gives.size \in 0..(Word - 1)
    BY <1>4, <1>5, SignalIs
  <1>8. TurboCoded(p, bits) \in Nat \ {0} /\ TurboCoded(p, bits) = bits * inv + tail
    BY <1>4, TurboNumbers
  <1>9. n[1] \in Nat => b.writes \in Nat
    <2>1. ASSUME n[1] \in Nat PROVE n[1] \div TurboCoded(p, bits) \in Nat
      BY <1>8, <2>1, Division
    <2> QED BY <1>4, <1>5, <2>1, Product
  <1>10. n[1] = size /\ b.starts => b.writes = bits
    <2> SUFFICES ASSUME n[1] = size, b.starts PROVE b.writes = bits
      OBVIOUS
    <2>1. bits \in TurboFrames /\ TurboCoded(p, bits) + inv <= Word
      BY <1>5, TurboNumbers
    <2>2. bits * inv = inv * bits /\ bits * inv \in Nat
      BY <1>2, <1>4, SMTT(30)
    <2>3. size - tail >= 0
      <3> SUFFICES ASSUME size - tail < 0 PROVE FALSE
        BY <1>2
      <3>1. CASE size - tail + Word >= 0
        <4>1. a = size - tail + Word
          <5> HIDE DEF size, tail
          <5>1. size - tail \in Int
            BY <1>2
          <5> QED BY <5>1, <3>1, WrapsAround, LibraryAssumption DEF a
        <4> HIDE DEF size, tail, inv
        <4> QED BY <4>1, <1>2, <1>4, <1>8, <2>1, <2>2, LibraryAssumption
      <3>2. CASE size - tail + Word < 0
        <4> HIDE DEF size, tail, inv
        <4> QED BY <3>2, <1>2, <1>4, <1>8, <2>1, <2>2, LibraryAssumption
      <3> HIDE DEF size, tail
      <3> QED BY <1>2, <3>1, <3>2, LibraryAssumption
    <2>4. a = size - tail
      <3> HIDE DEF size, tail
      <3>1. size - tail \in Nat /\ size - tail < Word
        BY <1>2, <2>3, LibraryAssumption
      <3> QED BY <3>1, Remainder, LibraryAssumption DEF a
    <2>5. CASE bits = 0
      <3>1. TurboCoded(p, bits) \in Nat \ {0} /\ size \div TurboCoded(p, bits) \in Nat
        BY <1>2, <1>8, Division
      <3> QED BY <1>5, <2>5, <3>1
    <2>6. CASE bits # 0
      <3> DEFINE coded == TurboCoded(p, bits)
                 r == size - coded
                 rest == a % inv
      <3>1. coded \in Nat \ {0} /\ coded = bits * inv + tail
        BY <1>8
      <3>2. inv <= bits * inv
        <4> HIDE DEF inv
        <4> QED BY <1>2, <1>4, <2>6, SMTT(30)
      <3>3. r \in 0..(coded - 1) /\ size = coded * 1 + r /\ size \in Int
        <4>1. rest \in 0..(inv - 1) /\ size - tail = inv * bits + rest
          <5> HIDE DEF inv, tail, size
          <5> QED BY <1>4, <2>4
        <4> HIDE DEF inv, tail, size, coded, rest, r
        <4>2. r = rest
          BY <4>1, <1>2, <1>4, <2>2, <3>1 DEF r
        <4>3. rest < coded
          BY <4>1, <1>2, <2>2, <3>1, <3>2
        <4>4. size = coded + rest
          BY <4>2, <1>2, <3>1 DEF r
        <4> QED BY <4>1, <4>2, <4>3, <4>4, <1>2, <3>1
      <3>4. size \div coded = 1
        <4> HIDE DEF coded, r
        <4> QED BY <3>1, <3>3, Quotient
      <3>5. b.writes = 1 * bits
        BY <1>5, <3>4
      <3> QED BY <3>5, <1>4
    <2> QED BY <2>5, <2>6
  <1> QED BY <1>5, <1>6, <1>7, <1>9, <1>10 DEF bits, TurboDecoderDoes

-----------------------------------------------------------------------------
(* Modulation, filters and interleavers *)

\* How many zeros the modulator pads a frame with.
Pad(p, size) ==
    LET bits == BitsPerSymbol(p.M) IN IF bits = 0 THEN 0 ELSE (bits - (size % bits)) % bits

\* How many symbols it makes of a frame.
Symbols(p, size) ==
    LET bits == BitsPerSymbol(p.M) IN IF bits = 0 THEN 0 ELSE (size + Pad(p, size)) \div bits

\* The symbols carry the frame and the padding, which whole symbols do not need.
LEMMA SymbolsAre ==
    ASSUME NEW p \in Library, p.block = "MPSKModulator", NEW size \in Nat
    PROVE  /\ BitsPerSymbol(p.M) \in Nat /\ Pad(p, size) \in Nat /\ Symbols(p, size) \in Nat
           /\ BitsPerSymbol(p.M) # 0 =>
                /\ BitsPerSymbol(p.M) * Symbols(p, size) = size + Pad(p, size)
                /\ size % BitsPerSymbol(p.M) = 0 => Pad(p, size) = 0
                /\ size > 0 => Symbols(p, size) > 0
  <1> DEFINE bits == BitsPerSymbol(p.M)
             pad == Pad(p, size)
             symbols == Symbols(p, size)
  <1>1. bits \in Nat
    BY ConfiguredAssumption, BitsAreNat
  <1>2. CASE bits = 0
    BY <1>1, <1>2 DEF Pad, Symbols
  <1>3. CASE bits # 0
    <2>1. pad = (bits - (size % bits)) % bits
      BY <1>3 DEF Pad
    <2>2. symbols = (size + pad) \div bits
      BY <1>3 DEF Symbols
    <2> HIDE DEF bits, pad, symbols
    <2>3. pad \in 0..(bits - 1) /\ bits * ((size + pad) \div bits) = size + pad
      BY <1>1, <1>3, <2>1, Padding
    <2>4. symbols \in Nat
      BY <1>1, <1>3, <2>2, <2>3, Division
    <2>5. size % bits = 0 => pad = 0
      <3>1. \A r : r = 0 => bits - r = bits
        BY <1>1
      <3>2. bits % bits = 0
        BY <1>1, <1>3, SMTT(30)
      <3> QED BY <2>1, <3>1, <3>2, Zenon
    <2>6. size > 0 => symbols > 0
      <3>1. bits * 0 = 0
        BY <1>1
      <3> QED BY <1>1, <2>2, <2>3, <2>4, <3>1
    <2> QED BY <1>1, <2>2, <2>3, <2>4, <2>5, <2>6 DEF bits, pad, symbols
  <1> QED BY <1>2, <1>3

\* What a modulator does.
MPSKModulatorDoes(b, p, in, n) ==
    /\ b.sound = (BitsPerSymbol(p.M) # 0)
    /\ b.starts = (p.M = 2^BitsPerSymbol(p.M))
    /\ b.works = (n[1] <= in[1].size + Pad(p, in[1].size))
    /\ b.gives.type = "complex" /\ b.gives.Ts = in[1].Ts /\ b.gives.size \in 0..(Word - 1)
    /\ b.writes = Symbols(p, in[1].size) /\ b.writes \in Nat
    /\ b.writes < Word => b.gives.size = b.writes

LEMMA MPSKModulatorIs ==
    ASSUME NEW p \in Library, p.block = "MPSKModulator",
           NEW in, NEW n, Proper(in[1]), NEW b, Does(b, p, in, n)
    PROVE  MPSKModulatorDoes(b, p, in, n)
  <1> DEFINE bits == BitsPerSymbol(p.M)
             symbols == Symbols(p, in[1].size)
  <1>1. b = MPSKModulator(p, in, n)
    BY DEF Does, Block
  <1>2. bits \in Nat /\ symbols \in Nat
    BY FrameIs, SymbolsAre
  <1>3. /\ b.sound = (bits # 0)
        /\ b.starts = (p.M = 2^bits)
        /\ b.works = (n[1] <= in[1].size + Pad(p, in[1].size))
        /\ b.gives = Signal("complex", in[1].Ts, symbols)
        /\ b.writes = symbols
    BY <1>1 DEF MPSKModulator, Pad, Symbols
  <1> HIDE DEF symbols
  <1> QED BY <1>2, <1>3, SignalIs, SizeOfSignal DEF symbols, MPSKModulatorDoes

\* What a demodulator does.
MPSKDemodulatorDoes(b, p, in, n) ==
    /\ b.sound /\ b.works
    /\ b.starts = (p.M = 2^BitsPerSymbol(p.M))
    /\ b.gives.type \in Types /\ b.gives.Ts = in[1].Ts /\ b.gives.size \in 0..(Word - 1)
    /\ b.writes = BitsPerSymbol(p.M) * n[1]
    /\ n[1] \in Nat => b.writes \in Nat
    /\ n[1] = in[1].size /\ b.writes < Word => b.gives.size = b.writes

LEMMA MPSKDemodulatorIs ==
    ASSUME NEW p \in Library, p.block = "MPSKDemodulator",
           NEW in, NEW n, Proper(in[1]), NEW b, Does(b, p, in, n)
    PROVE  MPSKDemodulatorDoes(b, p, in, n)
  <1> DEFINE bits == BitsPerSymbol(p.M)
             size == bits * in[1].size
             type == IF p.soft = 1 THEN "real" ELSE "int32"
  <1>1. b = MPSKDemodulator(p, in, n)
    BY DEF Does, Block
  <1>2. bits \in Nat
    BY ConfiguredAssumption, BitsAreNat
  <1>3. \A k \in Nat : bits * k \in Nat
    <2> HIDE DEF bits
    <2> QED BY <1>2, Product
  <1>4. /\ b.sound /\ b.works
        /\ b.starts = (p.M = 2^bits)
        /\ b.gives = Signal(type, in[1].Ts, size)
        /\ b.writes = bits * n[1]
    BY <1>1 DEF MPSKDemodulator
  <1>5. type \in Types
    BY DEF Types
  <1>6. size \in Nat
    BY <1>3, FrameIs
  <1>7. n[1] = in[1].size => b.writes = size
    BY <1>4
  <1>8. n[1] \in Nat => b.writes \in Nat
    BY <1>3, <1>4
  <1> HIDE DEF size, type
  <1> QED BY <1>4, <1>5, <1>6, <1>7, <1>8, SignalIs, SizeOfSignal DEF MPSKDemodulatorDoes

\* What a transmit filter does.
RaisedCosineTransmitDoes(b, p, in, n) ==
    /\ p.upsampling \in Nat \ {0}
    /\ b.sound /\ b.works /\ b.starts
    /\ b.gives.type = "complex" /\ b.gives.Ts = in[1].Ts \div p.upsampling
    /\ b.gives.Ts \in Nat /\ b.gives.size \in 0..(Word - 1)
    /\ b.writes = n[1] * p.upsampling
    /\ n[1] \in Nat => b.writes \in Nat
    /\ n[1] = in[1].size /\ b.writes < Word => b.gives.size = b.writes

LEMMA RaisedCosineTransmitIs ==
    ASSUME NEW p \in Library, p.block = "RaisedCosineTransmit",
           NEW in, NEW n, Proper(in[1]), NEW b, Does(b, p, in, n)
    PROVE  RaisedCosineTransmitDoes(b, p, in, n)
  <1> DEFINE size == in[1].size * p.upsampling
             Ts == in[1].Ts \div p.upsampling
  <1>1. b = RaisedCosineTransmit(p, in, n)
    BY DEF Does, Block
  <1>2. p.upsampling \in Nat \ {0}
    BY ConfiguredAssumption
  <1>3. size \in Nat /\ Ts \in Nat
    BY <1>2, FrameIs, Product, Division
  <1>4. /\ b.sound /\ b.works /\ b.starts
        /\ b.gives = Signal("complex", Ts, size)
        /\ b.writes = n[1] * p.upsampling
    BY <1>1 DEF RaisedCosineTransmit
  <1>5. n[1] = in[1].size => b.writes = size
    BY <1>4
  <1>6. n[1] \in Nat => b.writes \in Nat
    BY <1>2, <1>4, Product
  <1>7. b.gives.Ts = Ts
    <2> HIDE DEF size, Ts
    <2> QED BY <1>4, SignalIs
  <1>8. b.gives.type = "complex" /\ b.gives.size \in 0..(Word - 1)
        /\ (n[1] = in[1].size /\ b.writes < Word => b.gives.size = b.writes)
    <2> HIDE DEF size, Ts
    <2> QED BY <1>3, <1>4, <1>5, SignalIs, SizeOfSignal
  <1> QED BY <1>2, <1>3, <1>4, <1>6, <1>7, <1>8 DEF RaisedCosineTransmitDoes

\* What a receive filter does.
RaisedCosineReceiveDoes(b, p, in, n) ==
    /\ p.downsampling \in Nat \ {0}
    /\ b.sound /\ b.starts
    /\ b.works = (n[1] \div p.downsampling <= in[1].size \div p.downsampling)
    /\ b.gives.type = "complex" /\ b.gives.Ts = in[1].Ts * p.downsampling
    /\ b.gives.Ts \in Nat /\ b.gives.size \in 0..(Word - 1)
    /\ b.writes = in[1].size \div p.downsampling /\ b.writes \in Nat
    /\ b.gives.size = b.writes

LEMMA RaisedCosineReceiveIs ==
    ASSUME NEW p \in Library, p.block = "RaisedCosineReceive",
           NEW in, NEW n, Proper(in[1]), NEW b, Does(b, p, in, n)
    PROVE  RaisedCosineReceiveDoes(b, p, in, n)
  <1> DEFINE size == in[1].size \div p.downsampling
             Ts == in[1].Ts * p.downsampling
  <1>1. b = RaisedCosineReceive(p, in, n)
    BY DEF Does, Block
  <1>2. p.downsampling \in Nat \ {0}
    BY ConfiguredAssumption
  <1>3. Ts \in Nat /\ size \in Nat /\ size <= in[1].size
    BY <1>2, FrameIs, Product, Division
  <1>4. /\ b.sound /\ b.starts
        /\ b.works = (n[1] \div p.downsampling <= size)
        /\ b.gives = Signal("complex", Ts, size)
        /\ b.writes = size
    BY <1>1 DEF RaisedCosineReceive
  <1>5. size < Word
    BY <1>3, FrameIs, LibraryAssumption
  <1>6. b.gives.Ts = Ts
    <2> HIDE DEF size, Ts
    <2> QED BY <1>4, SignalIs
  <1>7. b.gives.type = "complex" /\ b.gives.size \in 0..(Word - 1) /\ b.gives.size = b.writes
    <2> HIDE DEF size, Ts
    <2> QED BY <1>3, <1>4, <1>5, SignalIs, SizeOfSignal
  <1> QED BY <1>2, <1>3, <1>4, <1>6, <1>7 DEF RaisedCosineReceiveDoes

\* Full matrices stay as they are.
LEMMA PaddedIs ==
    ASSUME NEW p \in Library, p.block = "BlockInterleaver", NEW size \in Nat
    PROVE  /\ Padded(p, size) \in Nat
           /\ size % (p.rows * p.cols) = 0 => Padded(p, size) = size
  <1> DEFINE m == p.rows * p.cols
             k == (size + m - 1) \div m
  <1>1. m \in Nat \ {0}
    <2>1. p.rows \in Nat \ {0} /\ p.cols \in Nat \ {0}
      BY ConfiguredAssumption
    <2> QED BY <2>1, SMTT(30)
  <1>2. k \in Nat /\ Padded(p, size) = k * m
    <2>1. size + m - 1 \in Nat
      BY <1>1
    <2>2. Padded(p, size) = k * m
      BY DEF Padded
    <2> HIDE DEF m
    <2> QED BY <1>1, <2>1, <2>2, Division
  <1>3. k * m \in Nat
    <2> HIDE DEF k, m
    <2> QED BY <1>1, <1>2, Product
  <1>4. ASSUME size % m = 0 PROVE k * m = size
    <2> DEFINE q == size \div m
    <2>1. q \in Nat /\ size = m * q + (size % m)
      <3> HIDE DEF m
      <3> QED BY <1>1, Division
    <2> HIDE DEF m, q
    <2>2. size = m * q /\ m * q = q * m
      BY <1>1, <1>4, <2>1, SMTT(30)
    <2>3. size + m - 1 = m * q + (m - 1) /\ size + m - 1 \in Int /\ m - 1 \in 0..(m - 1)
      BY <1>1, <2>1, <2>2
    <2>4. k = q
      BY <1>1, <2>1, <2>3, Quotient
    <2> QED BY <2>2, <2>4
  <1> QED BY <1>2, <1>3, <1>4

-----------------------------------------------------------------------------
(* All blocks *)

\* A block that is neither a source nor a sink is one of these.
LEMMA Kinds ==
    ASSUME NEW p \in Library, p.block \notin Sources, p.block \notin Sinks
    PROVE  \/ p.block \in Straight
           \/ p.block = "ConvolutionalEncoder" \/ p.block = "ConvolutionalDecoder"
           \/ p.block = "TurboEncoder" \/ p.block = "TurboDecoder"
           \/ p.block = "MPSKModulator" \/ p.block = "MPSKDemodulator"
           \/ p.block = "RaisedCosineTransmit" \/ p.block = "RaisedCosineReceive"
  BY ConfiguredAssumption DEF Straight, Transmitters, Receivers

\* A block with output ports that is given proper signals declares a signal of some type,
\* of a frame size in a word (all setup_output_ports).
LEMMA GivesIs ==
    ASSUME NEW p, NEW in, Given(p, in), p.block \notin Sinks, NEW n,
           NEW b, Does(b, p, in, n)
    PROVE  b.gives.type \in Types /\ b.gives.Ts \in Nat /\ b.gives.size \in 0..(Word - 1)
  <1>1. p \in Library
    BY DEF Given
  <1>2. CASE p.block \in Sources
    BY <1>1, <1>2, SourceIs, LibraryAssumption
  <1>3. CASE p.block \notin Sources
    <2>1. Proper(in[1]) /\ in[1].Ts \in Nat
      BY <1>3, FirstInput DEF Proper
    <2>2. "int32" \in Types /\ "complex" \in Types
      BY DEF Types
    <2>3. CASE p.block \in Straight
      <3>1. b.gives.type \in Types /\ b.gives.Ts = in[1].Ts /\ b.gives.size = in[1].size
        <4>1. StraightDoes(b, p, in, n)
          BY <2>1, <2>3, StraightIs
        <4> QED BY <2>1, <2>3, <4>1 DEF StraightDoes
      <3>2. in[1].size \in Nat /\ in[1].size < Word
        BY <2>1, FrameIs
      <3> QED BY <2>1, <3>1, <3>2, LibraryAssumption
    <2>4. CASE p.block = "ConvolutionalEncoder"
      <3>1. ConvolutionalEncoderDoes(b, p, in, n)
        BY <1>1, <2>1, <2>2, <2>4, ConvolutionalEncoderIs
      <3> QED BY <1>1, <2>1, <2>2, <2>4, <3>1 DEF ConvolutionalEncoderDoes
    <2>5. CASE p.block = "ConvolutionalDecoder"
      <3>1. ConvolutionalDecoderDoes(b, p, in, n)
        BY <1>1, <2>1, <2>2, <2>5, ConvolutionalDecoderIs
      <3> QED BY <1>1, <2>1, <2>2, <2>5, <3>1 DEF ConvolutionalDecoderDoes
    <2>6. CASE p.block = "TurboEncoder"
      <3>1. TurboEncoderDoes(b, p, in, n)
        BY <1>1, <2>1, <2>2, <2>6, TurboEncoderIs
      <3> QED BY <1>1, <2>1, <2>2, <2>6, <3>1 DEF TurboEncoderDoes
    <2>7. CASE p.block = "TurboDecoder"
      <3>1. TurboDecoderDoes(b, p, in, n)
        BY <1>1, <2>1, <2>2, <2>7, TurboDecoderIs
      <3> QED BY <1>1, <2>1, <2>2, <2>7, <3>1 DEF TurboDecoderDoes
    <2>8. CASE p.block = "MPSKModulator"
      <3>1. MPSKModulatorDoes(b, p, in, n)
        BY <1>1, <2>1, <2>2, <2>8, MPSKModulatorIs
      <3> QED BY <1>1, <2>1, <2>2, <2>8, <3>1 DEF MPSKModulatorDoes
    <2>9. CASE p.block = "MPSKDemodulator"
      <3>1. MPSKDemodulatorDoes(b, p, in, n)
        BY <1>1, <2>1, <2>9, MPSKDemodulatorIs
      <3> QED BY <1>1, <2>1, <2>9, <3>1 DEF MPSKDemodulatorDoes
    <2>10. CASE p.block = "RaisedCosineTransmit"
      <3>1. RaisedCosineTransmitDoes(b, p, in, n)
        BY <1>1, <2>1, <2>2, <2>10, RaisedCosineTransmitIs
      <3> QED BY <1>1, <2>1, <2>2, <2>10, <3>1 DEF RaisedCosineTransmitDoes
    <2>11. CASE p.block = "RaisedCosineReceive"
      <3>1. RaisedCosineReceiveDoes(b, p, in, n)
        BY <1>1, <2>1, <2>2, <2>11, RaisedCosineReceiveIs
      <3> QED BY <1>1, <2>1, <2>2, <2>11, <3>1 DEF RaisedCosineReceiveDoes
    <2> QED BY <1>1, <1>3, <2>3, <2>4, <2>5, <2>6, <2>7, <2>8, <2>9, <2>10, <2>11, Kinds
  <1> QED BY <1>2, <1>3

\* What it declares comes from the constructor of its output port.
LEMMA GivesSignal ==
    ASSUME NEW p \in Library, p.block \notin Sinks, NEW in, NEW n,
           NEW b, Does(b, p, in, n)
    PROVE  \E type, Ts, size : b.gives = Signal(type, Ts, size)
  <1>1. CASE p.block \in Sources
    <2>1. CASE p.block = "RandomUniformBitGenerator"
      <3>1. b = RandomUniformBitGenerator(p, in, n)
        BY <2>1 DEF Does, Block
      <3> QED BY <3>1 DEF RandomUniformBitGenerator
    <2>2. CASE p.block # "RandomUniformBitGenerator"
      <3>1. PICK s : b = ScramblingSource(p, s)
        <4>1. PICK s : b = Block(p, in, n, s)
          BY DEF Does
        <4> QED BY <1>1, <2>2, <4>1, ScramblerIs DEF Sources, Scramblers
      <3> QED BY <3>1 DEF ScramblingSource
    <2> QED BY <2>1, <2>2
  <1>2. CASE p.block = "AWGNChannel"
    <2>1. b = AWGNChannel(p, in, n)
      BY <1>2 DEF Does, Block
    <2> QED BY <2>1 DEF AWGNChannel, Same
  <1>3. CASE p.block = "FadingChannel"
    <2>1. b = FadingChannel(p, in, n)
      BY <1>3 DEF Does, Block
    <2> QED BY <2>1 DEF FadingChannel, Same
  <1>4. CASE p.block = "ConjugateComplex"
    <2>1. b = ConjugateComplex(p, in, n)
      BY <1>4 DEF Does, Block
    <2> QED BY <2>1 DEF ConjugateComplex, Same
  <1>5. CASE p.block = "Fork"
    <2>1. b = Fork(p, in, n)
      BY <1>5 DEF Does, Block
    <2> QED BY <2>1 DEF Fork, Same
  <1>6. CASE p.block = "Arithmetic"
    <2>1. b = Arithmetic(p, in, n)
      BY <1>6 DEF Does, Block
    <2> QED BY <2>1 DEF Arithmetic, Same
  <1>7. CASE p.block = "BlockInterleaver"
    <2>1. b = BlockInterleaver(p, in, n)
      BY <1>7 DEF Does, Block
    <2> QED BY <2>1 DEF BlockInterleaver, Same
  <1>8. CASE p.block = "BlockDeinterleaver"
    <2>1. b = BlockDeinterleaver(p, in, n)
      BY <1>8 DEF Does, Block
    <2> QED BY <2>1 DEF BlockDeinterleaver, Same
  <1>9. CASE p.block = "ComposeComplex"
    <2>1. b = ComposeComplex(p, in, n)
      BY <1>9 DEF Does, Block
    <2> QED BY <2>1 DEF ComposeComplex
  <1>10. CASE p.block = "ConvolutionalEncoder"
    <2>1. b = ConvolutionalEncoder(p, in, n)
      BY <1>10 DEF Does, Block
    <2> QED BY <2>1 DEF ConvolutionalEncoder
  <1>11. CASE p.block = "ConvolutionalDecoder"
    <2>1. b = ConvolutionalDecoder(p, in, n)
      BY <1>11 DEF Does, Block
    <2> QED BY <2>1 DEF ConvolutionalDecoder
  <1>12. CASE p.block = "TurboEncoder"
    <2>1. b = TurboEncoder(p, in, n)
      BY <1>12 DEF Does, Block
    <2> QED BY <2>1 DEF TurboEncoder
  <1>13. CASE p.block = "TurboDecoder"
    <2>1. b = TurboDecoder(p, in, n)
      BY <1>13 DEF Does, Block
    <2> QED BY <2>1 DEF TurboDecoder
  <1>14. CASE p.block = "MPSKModulator"
    <2>1. b = MPSKModulator(p, in, n)
      BY <1>14 DEF Does, Block
    <2> QED BY <2>1 DEF MPSKModulator
  <1>15. CASE p.block = "MPSKDemodulator"
    <2>1. b = MPSKDemodulator(p, in, n)
      BY <1>15 DEF Does, Block
    <2> QED BY <2>1 DEF MPSKDemodulator
  <1>16. CASE p.block = "RaisedCosineTransmit"
    <2>1. b = RaisedCosineTransmit(p, in, n)
      BY <1>16 DEF Does, Block
    <2> QED BY <2>1 DEF RaisedCosineTransmit
  <1>17. CASE p.block = "RaisedCosineReceive"
    <2>1. b = RaisedCosineReceive(p, in, n)
      BY <1>17 DEF Does, Block
    <2> QED BY <2>1 DEF RaisedCosineReceive
  <1> QED BY <1>1, <1>2, <1>3, <1>4, <1>5, <1>6, <1>7, <1>8, <1>9, <1>10, <1>11, <1>12, <1>13,
             <1>14, <1>15, <1>16, <1>17, Kinds DEF Straight

\* A block that works writes a number of samples that is not negative (all process).
LEMMA WritesIs ==
    ASSUME NEW p, NEW in, Given(p, in), NEW n, \A k \in 1..Inputs(p) : n[k] \in Nat,
           NEW s \in 0..SequenceLength, NEW b, b = Block(p, in, n, s), b.works
    PROVE  b.writes \in Nat
  <1>0. Does(b, p, in, n)
    BY DEF Does
  <1>1. p \in Library
    BY DEF Given
  <1>2. CASE p.block \in Sources
    <2>1. CASE p.block \in Scramblers
      BY <1>1, <2>1, ScramblerWrites
    <2>2. CASE p.block \notin Scramblers
      <3>1. p.block = "RandomUniformBitGenerator"
        BY <1>2, <2>2 DEF Sources, Scramblers
      <3> QED BY <1>0, <1>1, <1>2, <3>1, SourceIs, LibraryAssumption
    <2> QED BY <2>1, <2>2
  <1>3. CASE p.block \in Sinks
    BY <1>0, <1>3, SinkIs
  <1>4. CASE p.block \notin Sources /\ p.block \notin Sinks
    <2>1. Proper(in[1])
      BY <1>4, FirstInput
    <2>2. n[1] \in Nat
      <3>1. 1 \in 1..Inputs(p)
        BY <1>1, <1>4, InputsAre
      <3> QED BY <3>1
    <2>3. CASE p.block \in Straight
      <3>1. CASE p.block = "BlockInterleaver"
        <4>1. b.writes = Padded(p, n[1])
          <5>1. StraightDoes(b, p, in, n)
            BY <1>0, <2>1, <2>3, <3>1, StraightIs
          <5> QED BY <1>0, <2>1, <2>3, <3>1, <5>1 DEF StraightDoes
        <4> QED BY <1>1, <2>2, <3>1, <4>1, PaddedIs
      <3>2. CASE p.block # "BlockInterleaver"
        <4>1. StraightDoes(b, p, in, n)
          BY <1>0, <2>1, <2>2, <2>3, <3>2, StraightIs
        <4> QED BY <1>0, <2>1, <2>2, <2>3, <3>2, FrameIs, <4>1 DEF StraightDoes
      <3> QED BY <3>1, <3>2
    <2>4. CASE p.block = "ConvolutionalEncoder"
      <3>1. ConvolutionalEncoderDoes(b, p, in, n)
        BY <1>0, <1>1, <2>1, <2>2, <2>4, ConvolutionalEncoderIs
      <3> QED BY <1>0, <1>1, <2>1, <2>2, <2>4, <3>1 DEF ConvolutionalEncoderDoes
    <2>5. CASE p.block = "ConvolutionalDecoder"
      <3>1. /\ b.works => Decoded(p, n[1]) > 0
            /\ b.writes = Decoded(p, n[1]) /\ b.writes \in Int
        <4>1. ConvolutionalDecoderDoes(b, p, in, n)
          BY <1>0, <1>1, <2>1, <2>2, <2>5, ConvolutionalDecoderIs
        <4> QED BY <1>0, <1>1, <2>1, <2>2, <2>5, <4>1 DEF ConvolutionalDecoderDoes
      <3> QED BY <3>1
    <2>6. CASE p.block = "TurboEncoder"
      <3>1. TurboEncoderDoes(b, p, in, n)
        BY <1>0, <1>1, <2>1, <2>2, <2>6, TurboEncoderIs
      <3> QED BY <1>0, <1>1, <2>1, <2>2, <2>6, <3>1 DEF TurboEncoderDoes
    <2>7. CASE p.block = "TurboDecoder"
      <3>1. TurboDecoderDoes(b, p, in, n)
        BY <1>0, <1>1, <2>1, <2>2, <2>7, TurboDecoderIs
      <3> QED BY <1>0, <1>1, <2>1, <2>2, <2>7, <3>1 DEF TurboDecoderDoes
    <2>8. CASE p.block = "MPSKModulator"
      <3>1. MPSKModulatorDoes(b, p, in, n)
        BY <1>0, <1>1, <2>1, <2>2, <2>8, MPSKModulatorIs
      <3> QED BY <1>0, <1>1, <2>1, <2>2, <2>8, <3>1 DEF MPSKModulatorDoes
    <2>9. CASE p.block = "MPSKDemodulator"
      <3>1. n[1] \in Nat => b.writes \in Nat
        <4>1. MPSKDemodulatorDoes(b, p, in, n)
          BY <1>0, <1>1, <2>1, <2>9, MPSKDemodulatorIs
        <4> QED BY <1>0, <1>1, <2>1, <2>9, FrameIs, <4>1 DEF MPSKDemodulatorDoes
      <3> QED BY <2>2, <3>1
    <2>10. CASE p.block = "RaisedCosineTransmit"
      <3>1. RaisedCosineTransmitDoes(b, p, in, n)
        BY <1>0, <1>1, <2>1, <2>2, <2>10, RaisedCosineTransmitIs
      <3> QED BY <1>0, <1>1, <2>1, <2>2, <2>10, <3>1 DEF RaisedCosineTransmitDoes
    <2>11. CASE p.block = "RaisedCosineReceive"
      <3>1. RaisedCosineReceiveDoes(b, p, in, n)
        BY <1>0, <1>1, <2>1, <2>2, <2>11, RaisedCosineReceiveIs
      <3> QED BY <1>0, <1>1, <2>1, <2>2, <2>11, <3>1 DEF RaisedCosineReceiveDoes
    <2> QED BY <1>1, <1>4, <2>3, <2>4, <2>5, <2>6, <2>7, <2>8, <2>9, <2>10, <2>11, Kinds
  <1> QED BY <1>2, <1>3, <1>4

\* The interleaver is given full matrices.
FullMatrix(p, in) == p.block = "BlockInterleaver" => in[1].size % (p.rows * p.cols) = 0

\* The sequence of the scrambler lasts for this frame.
Lasts(p, s) == p.block \in Scramblers => s + p.framesize <= SequenceLength

\* A block that is initialized and given frames of the declared sizes writes frames of the
\* size it has declared, if these fit in vectors (setup_output_ports and process of all blocks).
LEMMA WritesDeclared ==
    ASSUME NEW p, NEW in, Given(p, in), FullMatrix(p, in),
           NEW n, \A k \in 1..Inputs(p) : n[k] = in[k].size,
           NEW s \in 0..SequenceLength, Lasts(p, s),
           NEW b, b = Block(p, in, n, s), b.works, b.starts, b.writes < Word \div 2
    PROVE  b.writes = b.gives.size
  <1>0. Does(b, p, in, n)
    BY DEF Does
  <1>1. p \in Library
    BY DEF Given
  <1>2. CASE p.block \in Sources
    <2>1. b.gives.size = p.framesize
      BY <1>0, <1>1, <1>2, SourceIs
    <2>2. CASE p.block \in Scramblers
      BY <1>1, <2>1, <2>2, ScramblerWrites DEF Lasts
    <2>3. CASE p.block \notin Scramblers
      <3>1. p.block = "RandomUniformBitGenerator"
        BY <1>2, <2>3 DEF Sources, Scramblers
      <3> QED BY <1>0, <1>1, <1>2, <2>1, <3>1, SourceIs
    <2> QED BY <2>2, <2>3
  <1>3. CASE p.block \in Sinks
    BY <1>0, <1>3, SinkIs DEF NoSignal
  <1>4. CASE p.block \notin Sources /\ p.block \notin Sinks
    <2>1. Proper(in[1]) /\ n[1] = in[1].size /\ n[1] \in Nat
      <3>1. 1 \in 1..Inputs(p)
        BY <1>1, <1>4, InputsAre
      <3> QED BY <1>4, <3>1, FirstInput
    <2>2. b.writes \in Nat
      <3>1. \A k \in 1..Inputs(p) : n[k] \in Nat
        BY DEF Given, Proper
      <3> QED BY <3>1, WritesIs
    <2>3. b.writes < Word
      BY <2>2, HalfAWord, LibraryAssumption
    <2>4. CASE p.block \in Straight
      <3>1. CASE p.block = "BlockInterleaver"
        <4>1. b.writes = Padded(p, n[1]) /\ b.gives.size = in[1].size
          <5>1. StraightDoes(b, p, in, n)
            BY <1>0, <2>1, <2>4, <3>1, StraightIs
          <5> QED BY <1>0, <2>1, <2>4, <3>1, <5>1 DEF StraightDoes
        <4> QED BY <1>1, <2>1, <3>1, <4>1, PaddedIs DEF FullMatrix
      <3>2. CASE p.block # "BlockInterleaver"
        <4>1. StraightDoes(b, p, in, n)
          BY <1>0, <2>1, <2>4, <3>2, StraightIs
        <4> QED BY <1>0, <2>1, <2>4, <3>2, <4>1 DEF StraightDoes
      <3> QED BY <3>1, <3>2
    <2>5. CASE p.block = "ConvolutionalEncoder"
      <3>1. n[1] = in[1].size /\ b.writes < Word => b.gives.size = b.writes
        <4>1. ConvolutionalEncoderDoes(b, p, in, n)
          BY ONLY <1>0, <1>1, <2>1, <2>5, ConvolutionalEncoderIs
        <4> QED BY ONLY <1>0, <1>1, <2>1, <2>5, <4>1 DEF ConvolutionalEncoderDoes
      <3> QED BY <2>1, <2>3, <3>1
    <2>6. CASE p.block = "ConvolutionalDecoder"
      <3>1. n[1] = in[1].size /\ b.writes >= 0 => b.gives.size = b.writes
        <4>1. ConvolutionalDecoderDoes(b, p, in, n)
          BY ONLY <1>0, <1>1, <2>1, <2>6, ConvolutionalDecoderIs
        <4> QED BY ONLY <1>0, <1>1, <2>1, <2>6, <4>1 DEF ConvolutionalDecoderDoes
      <3> QED BY <2>1, <2>2, <3>1
    <2>7. CASE p.block = "TurboEncoder"
      <3>1. TurboEncoderDoes(b, p, in, n)
        BY <1>0, <1>1, <2>1, <2>3, <2>7, TurboEncoderIs
      <3> QED BY <1>0, <1>1, <2>1, <2>3, <2>7, <3>1 DEF TurboEncoderDoes
    <2>8. CASE p.block = "TurboDecoder"
      <3>1. /\ n[1] = in[1].size /\ b.starts => b.writes = TurboDecoded(p, in[1].size)
            /\ b.gives.size = TurboDecoded(p, in[1].size)
        <4>1. TurboDecoderDoes(b, p, in, n)
          BY ONLY <1>0, <1>1, <2>1, <2>8, TurboDecoderIs
        <4> QED BY ONLY <1>0, <1>1, <2>1, <2>8, <4>1 DEF TurboDecoderDoes
      <3> QED BY <2>1, <3>1
    <2>9. CASE p.block = "MPSKModulator"
      <3>1. MPSKModulatorDoes(b, p, in, n)
        BY <1>0, <1>1, <2>1, <2>3, <2>9, MPSKModulatorIs
      <3> QED BY <1>0, <1>1, <2>1, <2>3, <2>9, <3>1 DEF MPSKModulatorDoes
    <2>10. CASE p.block = "MPSKDemodulator"
      <3>1. n[1] = in[1].size /\ b.writes < Word => b.gives.size = b.writes
        <4>1. MPSKDemodulatorDoes(b, p, in, n)
          BY <1>0, <1>1, <2>1, <2>10, MPSKDemodulatorIs
        <4> QED BY <1>0, <1>1, <2>1, <2>10, <4>1 DEF MPSKDemodulatorDoes
      <3> QED BY <2>1, <2>3, <3>1
    <2>11. CASE p.block = "RaisedCosineTransmit"
      <3>1. n[1] = in[1].size /\ b.writes < Word => b.gives.size = b.writes
        <4>1. RaisedCosineTransmitDoes(b, p, in, n)
          BY <1>0, <1>1, <2>1, <2>11, RaisedCosineTransmitIs
        <4> QED BY <1>0, <1>1, <2>1, <2>11, <4>1 DEF RaisedCosineTransmitDoes
      <3> QED BY <2>1, <2>3, <3>1
    <2>12. CASE p.block = "RaisedCosineReceive"
      <3>1. RaisedCosineReceiveDoes(b, p, in, n)
        BY <1>0, <1>1, <2>1, <2>12, RaisedCosineReceiveIs
      <3> QED BY <1>0, <1>1, <2>1, <2>12, <3>1 DEF RaisedCosineReceiveDoes
    <2> QED BY <1>1, <1>4, <2>4, <2>5, <2>6, <2>7, <2>8, <2>9, <2>10, <2>11, <2>12, Kinds
  <1> QED BY <1>2, <1>3, <1>4

-----------------------------------------------------------------------------
(* Pairs of blocks, also with something in between that makes frames longer *)

\* A code rate up to 1 has an inverse (ConvolutionalEncoder, setup_output_ports).
LEMMA InverseRateIsNat ==
    ASSUME NEW p, p.code_rate \in 1..100 PROVE InverseRate(p) \in Nat \ {0}
  BY SMTT(30) DEF InverseRate

\* A convolutional decoder delivers frames as long as those its encoder was given,
\* also when what is in between has made the coded frames longer, by less than a
\* bit's worth (ConvolutionalEncoder and ConvolutionalDecoder, setup_output_ports).
THEOREM ConvolutionalFrames ==
    ASSUME NEW p, NEW q, NEW sent, NEW received, NEW n, NEW m,
           p.code_rate \in 1..100, q.code_rate \in 1..100,
           InverseRate(q) = InverseRate(p),
           p.constraint_length \in Nat \ {0},
           q.constraint_length = p.constraint_length,
           sent.size \in Nat, sent.size < Word,
           InverseRate(p) * (sent.size + p.constraint_length - 1) < Word,
           NEW longer \in 0..(InverseRate(p) - 1),
           received.size = ConvolutionalEncoder(p, <<sent>>, n).gives.size + longer
    PROVE  ConvolutionalDecoder(q, <<received>>, m).gives.size = sent.size
  <1> DEFINE inv == InverseRate(p)
             bits == sent.size + p.constraint_length - 1
  <1>1. inv \in Nat \ {0} /\ bits \in Nat
    BY InverseRateIsNat
  <1>2. inv * bits \in Nat
    <2> HIDE DEF inv, bits
    <2> QED BY <1>1, SMT
  <1>3. received.size = inv * bits + longer
    <2>1. ConvolutionalEncoder(p, <<sent>>, n).gives = Signal("int32", sent.Ts, inv * bits)
      BY DEF ConvolutionalEncoder
    <2>2. Signal("int32", sent.Ts, inv * bits).size = inv * bits
      BY <1>2, SizeOfSignal
    <2> QED BY <2>1, <2>2
  <1>4. received.size \div inv = bits
    <2>1. received.size \in Int
      BY <1>1, <1>2, <1>3
    <2> HIDE DEF inv, bits
    <2>2. longer \in 0..(inv - 1)
      BY DEF inv
    <2>3. \A a \in Int : a = inv * bits + longer => a \div inv = bits
      <3> SUFFICES ASSUME NEW a \in Int, a = inv * bits + longer PROVE a \div inv = bits
        OBVIOUS
      <3>1. bits \in Int /\ inv \in Nat \ {0}
        BY <1>1
      <3> QED BY ONLY <2>2, <3>1, a \in Int, a = inv * bits + longer, Quotient
    <2> QED BY <1>3, <2>1, <2>3
  <1>5. received.size \div inv - q.constraint_length + 1 = sent.size
    BY <1>1, <1>4
  <1>6. ConvolutionalDecoder(q, <<received>>, m).gives
          = Signal("int32", received.Ts, received.size \div inv - q.constraint_length + 1)
    <2>1. InverseRate(q) = inv /\ InverseRate(q) # 0
      BY <1>1
    <2>2. ConvolutionalDecoder(q, <<received>>, m).gives
            = Signal("int32", received.Ts,
                     IF InverseRate(q) = 0 THEN 0
                     ELSE received.size \div InverseRate(q) - q.constraint_length + 1)
      BY DEF ConvolutionalDecoder
    <2> HIDE DEF inv
    <2> QED BY <2>1, <2>2
  <1> QED BY <1>5, <1>6, SizeOfSignal

\* A demodulator delivers all bits of the frame its modulator was given, and less than
\* one symbol more (MPSKModulator and MPSKDemodulator, setup_output_ports).
THEOREM PSKFrames ==
    ASSUME NEW p, NEW q, NEW sent, NEW received, NEW n, NEW m,
           q.M = p.M, BitsPerSymbol(p.M) \in Nat \ {0},
           sent.size \in Nat, sent.size + BitsPerSymbol(p.M) <= Word,
           received.size = MPSKModulator(p, <<sent>>, n).gives.size
    PROVE  \E pad \in 0..(BitsPerSymbol(p.M) - 1) :
               MPSKDemodulator(q, <<received>>, m).gives.size = sent.size + pad
  <1> DEFINE bits == BitsPerSymbol(p.M)
             pad == (bits - (sent.size % bits)) % bits
             symbols == (sent.size + pad) \div bits
  <1>1. pad \in 0..(bits - 1) /\ bits * symbols = sent.size + pad
    <2> HIDE DEF bits
    <2> QED BY Padding DEF bits
  <1>2. symbols \in Nat /\ symbols < Word
    <2> HIDE DEF bits, pad
    <2>1. bits \in Nat \ {0} /\ pad \in Nat /\ sent.size + pad < Word
      BY <1>1, LibraryAssumption DEF bits
    <2>2. symbols \in Nat /\ symbols <= sent.size + pad
      BY <2>1, SMTT(30)
    <2> QED BY <2>1, <2>2, LibraryAssumption
  <1>3. received.size = symbols
    <2>1. MPSKModulator(p, <<sent>>, n).gives = Signal("complex", sent.Ts, symbols)
      BY DEF MPSKModulator
    <2> HIDE DEF symbols
    <2> QED BY <1>2, <2>1, SizeOfSignal
  <1>4. MPSKDemodulator(q, <<received>>, m).gives
          = Signal(IF q.soft = 1 THEN "real" ELSE "int32", received.Ts, bits * received.size)
    BY DEF MPSKDemodulator
  <1>5. sent.size + pad \in Nat /\ sent.size + pad < Word
    BY <1>1, LibraryAssumption
  <1>6. MPSKDemodulator(q, <<received>>, m).gives.size = sent.size + pad
    <2> HIDE DEF symbols, pad, bits
    <2> QED BY <1>1, <1>3, <1>4, <1>5, SizeOfSignal
  <1> QED BY <1>1, <1>6

\* A turbo decoder delivers frames as long as those its encoder was given, also when the
\* coded frames have become longer by less than a bit's worth, and the tail is never taken
\* from less than it (TurboEncoder and TurboDecoder, setup_output_ports).
THEOREM TurboFramesRestored ==
    ASSUME NEW p, NEW q, NEW sent, NEW received, NEW n, NEW m,
           p.gen1 \in Nat \ {0}, p.gen2 \in Nat \ {0}, p.constraint_length \in Nat \ {0},
           q.gen1 = p.gen1, q.gen2 = p.gen2, q.constraint_length = p.constraint_length,
           sent.size \in Nat, sent.size < Word,
           NEW longer \in 0..(TurboInverseRate(p) - 1),
           TurboCoded(p, sent.size) + longer < Word,
           received.size = TurboEncoder(p, <<sent>>, n).gives.size + longer
    PROVE  TurboDecoder(q, <<received>>, m).gives.size = sent.size
  <1> DEFINE inv == TurboInverseRate(p)
             tail == TurboTail(p)
  <1>1. inv \in Nat \ {0}
    BY DEF TurboInverseRate
  <1>2. tail \in Nat
    <2>1. p.constraint_length - 1 \in Nat /\ inv + 1 \in Nat
      BY <1>1
    <2> HIDE DEF inv
    <2>2. (p.constraint_length - 1) * (inv + 1) \in Nat
      BY <2>1, SMT
    <2> QED BY <2>2 DEF TurboTail, inv
  <1>3. sent.size * inv \in Nat
    <2> HIDE DEF inv
    <2> QED BY <1>1, SMT
  <1>4. TurboCoded(p, sent.size) = sent.size * inv + tail
    BY DEF TurboCoded
  <1>5. sent.size * inv + tail \in Nat /\ sent.size * inv + tail < Word
    <2> HIDE DEF inv, tail
    <2>1. longer \in Nat
      BY <1>1 DEF inv
    <2> QED BY <1>2, <1>3, <1>4, <2>1, LibraryAssumption
  <1>6. received.size = sent.size * inv + tail + longer
    <2>1. TurboEncoder(p, <<sent>>, n).gives = Signal("int32", sent.Ts, sent.size * inv + tail)
      BY <1>4 DEF TurboEncoder
    <2>2. Signal("int32", sent.Ts, sent.size * inv + tail).size = sent.size * inv + tail
      BY <1>5, SizeOfSignal
    <2> QED BY <2>1, <2>2
  <1>7. ((received.size - tail) % Word) \div inv = sent.size
    <2>1. longer \in 0..(inv - 1)
      OBVIOUS
    <2> HIDE DEF inv, tail
    <2>2. received.size - tail = sent.size * inv + longer
      BY <1>1, <1>2, <1>3, <1>6, <2>1
    <2>3. received.size - tail \in Nat /\ received.size - tail < Word
      BY <1>1, <1>2, <1>3, <1>4, <1>6, <2>1, <2>2, LibraryAssumption
    <2>4. (received.size - tail) % Word = received.size - tail
      BY <2>3, Remainder, LibraryAssumption
    <2>5. received.size - tail = inv * sent.size + longer
      BY <1>1, <2>1, <2>2, SMT
    <2>6. (received.size - tail) \div inv = sent.size
      <3> DEFINE d == received.size - tail
      <3>1. d \in Int /\ d = inv * sent.size + longer
        BY <2>3, <2>5
      <3>2. inv \in Nat \ {0} /\ longer \in 0..(inv - 1) /\ sent.size \in Int
        BY <1>1, <2>1
      <3> HIDE DEF d
      <3> QED BY ONLY <3>1, <3>2, Quotient DEF d
    <2> QED BY <2>4, <2>6
  <1>8. TurboDecoder(q, <<received>>, m).gives
          = Signal("int32", received.Ts, ((received.size - tail) % Word) \div inv)
    BY DEF TurboDecoder, TurboTail, TurboInverseRate
  <1> QED BY <1>7, <1>8, SizeOfSignal

-----------------------------------------------------------------------------
(* The invariant of links *)

\* Where every sequence begins.
Beginning == 0

\* What block i does with frames of the sizes declared by those that feed it, in the first step.
At(i) == Block(blocks[i], Signals(feeds[i]), Sizes(Signals(feeds[i])), Beginning)

\* Adding block i did not abort the program: its ports are set up, with a proper signal.
Passed(i) == At(i).sound /\ (blocks[i].block \notin Sinks => Possible(declared[i]))

\* Signals a block may have declared, also one that aborts the program.
AnySignal == [type : Types \cup {"empty"}, Ts : Nat, size : 0..(Word - 1)]

\* Every block is fed by earlier ones that are no sinks, on all of its input ports; the
\* entries of blocks, feeds, free and declared belong together.
LinkShape ==
    /\ blocks \in Seq(Library)
    /\ feeds \in Seq(Seq(Nat)) /\ Len(feeds) = Len(blocks)
    /\ free \in Seq(Nat) /\ Len(free) = Len(blocks)
    /\ declared \in Seq(AnySignal)
    /\ Len(declared) = Len(blocks)
    /\ \A i \in DOMAIN blocks :
          /\ feeds[i] \in [1..Inputs(blocks[i]) -> 1..(i - 1)]
          /\ \A k \in 1..Inputs(blocks[i]) : blocks[feeds[i][k]].block \notin Sinks
          /\ free[i] > 0 => blocks[i].block \notin Sinks

\* What the phase says of the blocks: only the last block can have aborted the program, all
\* blocks have started in a link that runs, and one has not in a link that has failed.
PhaseInv ==
    /\ phase \in {"built", "running", "aborted", "failed", "crashed"}
    /\ \A i \in DOMAIN blocks : i < Len(blocks) \/ phase # "aborted" => Passed(i)
    /\ phase = "aborted" => blocks # <<>>
    /\ \A i \in DOMAIN blocks : i = Len(blocks) /\ phase = "aborted" => ~Passed(i)
    /\ phase \in {"running", "crashed"} => \A i \in DOMAIN blocks : At(i).starts
    /\ phase = "failed" => \E i \in DOMAIN blocks : ~At(i).starts

\* What every block has declared is what it makes of the declarations it is fed with.
DeclaredInv == \A i \in DOMAIN blocks : declared[i] = At(i).gives /\ At(i).accepts

\* How many samples block i finds in the buffers of its inputs.
Found(i) == [k \in DOMAIN feeds[i] |-> samples[feeds[i][k]]]

\* Where in a sequence a frame can start.
Places == 0..SequenceLength

\* Every block has come to some place in its sequence.
StepsInv ==
    /\ step \in Nat
    /\ start \in Seq(Places) /\ Len(start) = Len(blocks)

\* The next frame of scrambler i starts at the very end of its sequence.
Ended(i) == blocks[i].block \in Scramblers /\ AtEnd(start[i])

\* In every step samples are written block by block, as declared, and the link crashes at the
\* first block that cannot work with what it finds, or with what is left of its sequence.
SamplesInv ==
    /\ samples \in Seq(Nat) /\ Len(samples) <= Len(blocks)
    /\ phase \notin {"running", "crashed"} => samples = <<>>
    /\ Fits /\ FullMatrices /\ SequencesLast =>
          \A i \in DOMAIN samples : samples[i] = declared[i].size
    /\ phase = "crashed" => Len(samples) < Len(blocks)
    /\ \A i \in DOMAIN blocks :
          i = Len(samples) + 1 /\ phase = "crashed" => ~Behaviour(i, Found(i)).works \/ Ended(i)

\* The inductive invariant of Link.
LinkInv == LinkShape /\ PhaseInv /\ DeclaredInv /\ StepsInv /\ SamplesInv

\* All sequences have an entry for each block.
LEMMA Domains ==
    ASSUME LinkShape
    PROVE  /\ Len(blocks) \in Nat /\ DOMAIN blocks = 1..Len(blocks)
           /\ DOMAIN feeds = 1..Len(blocks) /\ DOMAIN free = 1..Len(blocks)
           /\ DOMAIN declared = 1..Len(blocks)
  BY DEF LinkShape

\* What a block has declared that did not abort the program is a proper signal.
LEMMA EarlierProper ==
    ASSUME LinkShape, PhaseInv, NEW i \in DOMAIN blocks, blocks[i].block \notin Sinks,
           i < Len(blocks) \/ phase # "aborted", DeclaredInv
    PROVE  Proper(declared[i])
  <1>1. Possible(declared[i])
    BY DEF PhaseInv, Passed
  <1>2. declared[i] \in AnySignal
    <2>1. i \in DOMAIN declared
      BY Domains
    <2>2. declared \in Seq(AnySignal)
      BY DEF LinkShape
    <2> QED BY <2>1, <2>2
  <1>3. declared[i].size \in Nat
    BY <1>2, LibraryAssumption DEF AnySignal
  <1> QED BY <1>1, <1>2, <1>3 DEF Proper, Possible, AnySignal

\* A block is fed by earlier blocks, with proper signals.
LEMMA FedProperly ==
    ASSUME LinkShape, PhaseInv, DeclaredInv, NEW i \in DOMAIN blocks
    PROVE  /\ Given(blocks[i], Signals(feeds[i]))
           /\ DOMAIN feeds[i] = 1..Inputs(blocks[i])
           /\ \A k \in 1..Inputs(blocks[i]) :
                 /\ feeds[i][k] \in 1..(i - 1) /\ feeds[i][k] \in DOMAIN blocks
                 /\ Signals(feeds[i])[k] = declared[feeds[i][k]]
                 /\ Proper(declared[feeds[i][k]])
  <1> DEFINE p == blocks[i]
             from == feeds[i]
             in == Signals(from)
  <1>1. p \in Library /\ from \in [1..Inputs(p) -> 1..(i - 1)]
        /\ i \in 1..Len(blocks) /\ Len(blocks) \in Nat
    BY Domains DEF LinkShape
  <1>2. DOMAIN from = 1..Inputs(p)
    BY <1>1
  <1>3. in = [k \in 1..Inputs(p) |-> declared[from[k]]]
    BY <1>2 DEF Signals
  <1>4. ASSUME NEW k \in 1..Inputs(p)
        PROVE  /\ from[k] \in 1..(i - 1) /\ from[k] \in DOMAIN blocks
               /\ in[k] = declared[from[k]]
               /\ Proper(declared[from[k]])
    <2>1. from[k] \in 1..(i - 1)
      BY <1>1
    <2>2. from[k] \in DOMAIN blocks /\ from[k] < Len(blocks)
      <3>1. \A j \in 1..(i - 1) : j \in 1..Len(blocks) /\ j < Len(blocks)
        BY <1>1
      <3> QED BY <2>1, <3>1, Domains
    <2>3. blocks[from[k]].block \notin Sinks
      BY DEF LinkShape
    <2>4. Proper(declared[from[k]])
      BY <2>2, <2>3, EarlierProper
    <2> QED BY <1>3, <2>1, <2>2, <2>4
  <1> HIDE DEF p, from, in
  <1>5. Given(p, in)
    <2>1. in = [k \in 1..Inputs(p) |-> in[k]]
      BY <1>3
    <2> QED BY <1>1, <1>4, <2>1 DEF Given
  <1> QED BY <1>2, <1>4, <1>5 DEF p, from, in

\* Where block i is in its sequence.
LEMMA StartIs ==
    ASSUME LinkShape, StepsInv, NEW i \in DOMAIN blocks
    PROVE  start[i] \in Places
  <1>1. i \in DOMAIN start
    BY Domains DEF StepsInv
  <1> QED BY <1>1 DEF StepsInv

\* If no frames are too long for a vector, those of the first step are not, unless a
\* sequence has been at its end since.
LEMMA FitsAt ==
    ASSUME LinkShape, StepsInv, Fits, NEW i \in DOMAIN blocks,
           blocks[i].block \notin Scramblers \/ SequencesLast
    PROVE  At(i).writes < Word \div 2
  <1> DEFINE p == blocks[i]
             in == Signals(feeds[i])
             b == Behaviour(i, Sizes(in))
  <1>1. /\ b = Block(p, in, Sizes(in), start[i]) /\ At(i) = Block(p, in, Sizes(in), Beginning)
        /\ b.writes < Word \div 2 /\ p \in Library
    BY DEF At, Behaviour, Fits, LinkShape
  <1> HIDE DEF b, in
  <1>2. CASE p.block \notin Scramblers
    <2>1. b = At(i)
      BY <1>1, <1>2, SameAnywhere
    <2> QED BY <1>1, <2>1
  <1>3. CASE p.block \in Scramblers
    <2>1. start[i] \in Places /\ start[i] + p.framesize <= SequenceLength
      BY <1>3, StartIs DEF SequencesLast
    <2>2. p.framesize \in 1..(Word - 1)
      BY <1>1, <1>3, ConfiguredAssumption DEF Sources, Scramblers
    <2>3. b.writes = p.framesize
      BY <1>1, <1>3, <2>1, ScramblerWrites DEF Places
    <2>4. Beginning \in Places /\ Beginning + p.framesize <= SequenceLength
      BY <2>1, <2>2, LibraryAssumption DEF Places, Beginning
    <2>5. At(i).writes = p.framesize
      BY <1>1, <1>3, <2>4, ScramblerWrites DEF Places
    <2> QED BY <1>1, <2>3, <2>5
  <1> QED BY <1>2, <1>3

-----------------------------------------------------------------------------
(* The steps keep it *)

\* Whatever signals a block is given, it declares one of AnySignal.
LEMMA GivesAny ==
    ASSUME NEW p, NEW in, Given(p, in), NEW n, NEW b, Does(b, p, in, n)
    PROVE  b.gives \in AnySignal
  <1>1. CASE p.block \in Sinks
    BY <1>1, SinkIs, LibraryAssumption DEF NoSignal, AnySignal
  <1>2. CASE p.block \notin Sinks
    <2>1. PICK type, Ts, size : b.gives = Signal(type, Ts, size)
      <3>1. p \in Library
        BY DEF Given
      <3> QED BY <1>2, <3>1, GivesSignal
    <2>2. b.gives.type \in Types /\ b.gives.Ts \in Nat /\ b.gives.size \in 0..(Word - 1)
      BY <1>2, GivesIs
    <2> QED BY <2>1, <2>2 DEF Signal, AnySignal
  <1> QED BY <1>1, <1>2

\* It holds before the first block is added.
LEMMA LinkBegins == Init => LinkInv
  <1> SUFFICES ASSUME Init PROVE LinkInv
    OBVIOUS
  <1>1. blocks = <<>> /\ feeds = <<>> /\ free = <<>> /\ declared = <<>>
        /\ step = 0 /\ start = <<>> /\ samples = <<>> /\ phase = "built"
    BY DEF Init
  <1>2. LinkShape
    BY <1>1 DEF LinkShape
  <1>3. PhaseInv /\ DeclaredInv
    BY <1>1 DEF PhaseInv, DeclaredInv
  <1>4. StepsInv
    BY <1>1 DEF StepsInv
  <1>5. SamplesInv
    BY <1>1 DEF SamplesInv
  <1> QED BY <1>2, <1>3, <1>4, <1>5 DEF LinkInv

\* A connection takes at least one of the output ports it is made to.
LEMMA TakenIs ==
    ASSUME NEW from, NEW m \in Nat, DOMAIN from = 1..m, NEW i
    PROVE  /\ Taken(from, i) \in Nat
           /\ \A k \in 1..m : from[k] = i => Taken(from, i) > 0
  <1> DEFINE s == {k \in DOMAIN from : from[k] = i}
  <1>1. IsFiniteSet(s)
    <2>1. IsFiniteSet(1..m)
      BY FS_Interval
    <2> QED BY <2>1, FS_Subset
  <1>2. Cardinality(s) \in Nat
    BY <1>1, FS_CardinalityType
  <1>3. ASSUME NEW k \in 1..m, from[k] = i PROVE Cardinality(s) > 0
    <2>1. s # {}
      BY <1>3
    <2>2. Cardinality(s) # 0
      BY <1>1, <2>1, FS_EmptySet
    <2> QED BY <1>2, <2>2
  <1> QED BY <1>2, <1>3 DEF Taken

\* What adding a block leaves behind (System::add_block and connect_ports).
LEMMA AddEffect ==
    ASSUME LinkInv, NEW p \in Library, NEW from \in [1..Inputs(p) -> DOMAIN blocks], Add(p, from)
    PROVE  LET n == Len(blocks)
               b == Block(p, Signals(from), Sizes(Signals(from)), Beginning)
           IN  /\ n \in Nat
               /\ Given(p, Signals(from))
               /\ \A k \in 1..Inputs(p) : from[k] \in 1..n /\ blocks[from[k]].block \notin Sinks
               /\ b.accepts
               /\ blocks' \in Seq(Library) /\ Len(blocks') = n + 1
               /\ blocks'[n + 1] = p /\ \A i \in 1..n : blocks'[i] = blocks[i]
               /\ feeds' \in Seq(Seq(Nat)) /\ Len(feeds') = n + 1
               /\ feeds'[n + 1] = from /\ \A i \in 1..n : feeds'[i] = feeds[i]
               /\ declared' \in Seq(AnySignal) /\ Len(declared') = n + 1
               /\ declared'[n + 1] = b.gives /\ \A i \in 1..n : declared'[i] = declared[i]
               /\ free' \in Seq(Nat) /\ Len(free') = n + 1
               /\ free'[n + 1] = Outputs(p) /\ \A i \in 1..n : free'[i] <= free[i]
               /\ start' \in Seq(Places) /\ Len(start') = n + 1
               /\ phase = "built" /\ step' = step /\ samples' = samples
               /\ phase' = IF b.sound /\ (Outputs(p) > 0 => Possible(b.gives))
                           THEN "built" ELSE "aborted"
  <1> DEFINE n == Len(blocks)
             in == Signals(from)
             b == Block(p, in, Sizes(in), Beginning)
             kept == [i \in DOMAIN free |-> free[i] - Taken(from, i)]
  <1>1. /\ n \in Nat /\ DOMAIN blocks = 1..n /\ DOMAIN free = 1..n /\ DOMAIN declared = 1..n
        /\ DOMAIN feeds = 1..n
    BY Domains DEF LinkInv
  <1>2. /\ phase = "built" /\ step' = step /\ samples' = samples
        /\ \A i \in DOMAIN blocks : Taken(from, i) <= free[i]
        /\ free' = Append(kept, Outputs(p))
        /\ b.accepts
        /\ blocks' = Append(blocks, p)
        /\ feeds' = Append(feeds, from)
        /\ declared' = Append(declared, b.gives)
        /\ start' = Append(start, 0)
        /\ phase' = IF b.sound /\ (Outputs(p) > 0 => Possible(b.gives))
                    THEN "built" ELSE "aborted"
    BY DEF Add, Beginning
  <1>3. Inputs(p) \in Nat /\ Outputs(p) \in Nat
    BY InputsAre
  <1>4. from \in Seq(Nat)
    <2>1. from \in [1..Inputs(p) -> Nat]
      BY <1>1
    <2> QED BY <1>3, <2>1
  <1>5. kept \in Seq(Nat) /\ Len(kept) = n /\ \A i \in 1..n : kept[i] <= free[i]
    <2>1. ASSUME NEW i \in 1..n
          PROVE  free[i] - Taken(from, i) \in Nat /\ free[i] - Taken(from, i) <= free[i]
      <3>1. free[i] \in Nat
        BY <1>1 DEF LinkInv, LinkShape
      <3>2. Taken(from, i) \in Nat
        BY <1>3, TakenIs
      <3>3. Taken(from, i) <= free[i]
        BY <1>1, <1>2
      <3> QED BY <3>1, <3>2, <3>3
    <2>2. kept \in [1..n -> Nat]
      BY <1>1, <2>1
    <2> QED BY <1>1, <2>1, <2>2
  <1>6. ASSUME NEW k \in 1..Inputs(p)
        PROVE  from[k] \in 1..n /\ blocks[from[k]].block \notin Sinks
    <2>1. from[k] \in 1..n
      BY <1>1
    <2>2. Taken(from, from[k]) > 0 /\ Taken(from, from[k]) \in Nat
      BY <1>3, TakenIs
    <2>3. free[from[k]] \in Nat /\ free[from[k]] > 0
      <3>1. free \in Seq(Nat) /\ from[k] \in DOMAIN free
        BY <1>1, <2>1 DEF LinkInv, LinkShape
      <3>2. free[from[k]] \in Nat
        BY <3>1
      <3>3. Taken(from, from[k]) <= free[from[k]]
        BY <1>1, <1>2, <2>1
      <3> QED BY <2>2, <3>2, <3>3
    <2> QED BY <1>1, <2>1, <2>3 DEF LinkInv, LinkShape
  <1>7. Given(p, in)
    <2>1. in = [k \in 1..Inputs(p) |-> declared[from[k]]]
      BY DEF Signals
    <2>2. ASSUME NEW k \in 1..Inputs(p) PROVE Proper(in[k])
      <3>1. Proper(declared[from[k]])
        BY <1>1, <1>2, <1>6, EarlierProper DEF LinkInv
      <3> QED BY <2>1, <3>1
    <2> HIDE DEF in
    <2>3. in = [k \in 1..Inputs(p) |-> in[k]]
      BY <2>1
    <2> QED BY <2>2, <2>3 DEF Given
  <1> HIDE DEF in
  <1>8. b.gives \in AnySignal
    <2>1. Does(b, p, in, Sizes(in))
      BY DEF Does
    <2> HIDE DEF b
    <2> QED BY <1>7, <2>1, GivesAny
  <1> HIDE DEF b, kept
  <1>9. blocks \in Seq(Library) /\ feeds \in Seq(Seq(Nat)) /\ Len(feeds) = n
        /\ declared \in Seq(AnySignal) /\ Len(declared) = n
        /\ start \in Seq(Places) /\ Len(start) = n
    BY DEF LinkInv, LinkShape, StepsInv
  <1>10. blocks' \in Seq(Library) /\ Len(blocks') = n + 1
         /\ blocks'[n + 1] = p /\ \A i \in 1..n : blocks'[i] = blocks[i]
    BY <1>2, <1>9, AppendIs
  <1>11. feeds' \in Seq(Seq(Nat)) /\ Len(feeds') = n + 1
         /\ feeds'[n + 1] = from /\ \A i \in 1..n : feeds'[i] = feeds[i]
    BY <1>2, <1>4, <1>9, AppendIs
  <1>12. declared' \in Seq(AnySignal) /\ Len(declared') = n + 1
         /\ declared'[n + 1] = b.gives /\ \A i \in 1..n : declared'[i] = declared[i]
    BY <1>2, <1>8, <1>9, AppendIs
  <1>13. free' \in Seq(Nat) /\ Len(free') = n + 1
         /\ free'[n + 1] = Outputs(p) /\ \A i \in 1..n : free'[i] <= free[i]
    <2>1. free' \in Seq(Nat) /\ Len(free') = n + 1
          /\ free'[n + 1] = Outputs(p) /\ \A i \in 1..n : free'[i] = kept[i]
      BY <1>2, <1>3, <1>5, AppendIs
    <2> QED BY <1>5, <2>1
  <1>14. start' \in Seq(Places) /\ Len(start') = n + 1
    <2>1. 0 \in Places
      BY LibraryAssumption DEF Places
    <2> QED BY <1>2, <1>9, <2>1, AppendIs
  <1> HIDE DEF n
  <1> QED BY <1>1, <1>2, <1>6, <1>7, <1>10, <1>11, <1>12, <1>13, <1>14 DEF b, in, n

\* Adding a block leaves alone what the earlier ones do.
LEMMA StaysFed ==
    ASSUME LinkInv, NEW p \in Library, NEW from \in [1..Inputs(p) -> DOMAIN blocks], Add(p, from),
           NEW m, m = Len(blocks) + 1
    PROVE  /\ \A i \in 1..Len(blocks) :
                 /\ Signals(feeds[i])' = Signals(feeds[i])
                 /\ At(i)' = At(i) /\ (Passed(i)' <=> Passed(i))
           /\ At(m)' = Block(p, Signals(from), Sizes(Signals(from)), Beginning)
  <1> DEFINE n == Len(blocks)
  <1>1. /\ n \in Nat
        /\ blocks'[m] = p /\ \A i \in 1..n : blocks'[i] = blocks[i]
        /\ feeds'[m] = from /\ \A i \in 1..n : feeds'[i] = feeds[i]
        /\ \A i \in 1..n : declared'[i] = declared[i]
        /\ \A k \in 1..Inputs(p) : from[k] \in 1..n
    BY AddEffect
  <1>2. ASSUME NEW i \in 1..n
        PROVE  /\ Signals(feeds[i])' = Signals(feeds[i])
               /\ At(i)' = At(i) /\ (Passed(i)' <=> Passed(i))
    <2>1. DOMAIN feeds[i] = 1..Inputs(blocks[i])
          /\ \A k \in 1..Inputs(blocks[i]) : feeds[i][k] \in 1..(i - 1)
      <3>1. i \in DOMAIN blocks
        BY Domains DEF LinkInv
      <3>2. feeds[i] \in [1..Inputs(blocks[i]) -> 1..(i - 1)]
        BY <3>1 DEF LinkInv, LinkShape
      <3> QED BY <3>2
    <2>2. \A k \in DOMAIN feeds[i] : declared'[feeds[i][k]] = declared[feeds[i][k]]
      <3> SUFFICES ASSUME NEW k \in DOMAIN feeds[i]
                   PROVE  declared'[feeds[i][k]] = declared[feeds[i][k]]
        OBVIOUS
      <3>1. feeds[i][k] \in 1..(i - 1)
        BY <2>1
      <3>2. feeds[i][k] \in 1..n
        BY <1>1, <3>1
      <3> QED BY <1>1, <3>2
    <2>3. Signals(feeds[i])' = [k \in DOMAIN feeds[i] |-> declared'[feeds[i][k]]]
      BY <1>1 DEF Signals
    <2>4. Signals(feeds[i])' = Signals(feeds[i])
      BY <2>2, <2>3 DEF Signals
    <2>5. At(i)' = At(i)
      <3>1. blocks'[i] = blocks[i]
        BY <1>1
      <3> QED BY <2>4, <3>1 DEF At
    <2>6. blocks'[i] = blocks[i] /\ declared'[i] = declared[i]
      BY <1>1
    <2>7. Passed(i)' <=> Passed(i)
      BY <2>5, <2>6 DEF Passed
    <2> QED BY <2>4, <2>5, <2>7
  <1>3. At(m)' = Block(p, Signals(from), Sizes(Signals(from)), Beginning)
    <2>1. \A k \in DOMAIN from : declared'[from[k]] = declared[from[k]]
      BY <1>1
    <2>2. [k \in DOMAIN from |-> declared'[from[k]]] = Signals(from)
      BY <2>1 DEF Signals
    <2>3. Signals(feeds[m])' = Signals(from)
      <3>1. feeds'[m] = from
        BY <1>1
      <3>2. Signals(feeds[m])' = [k \in DOMAIN from |-> declared'[from[k]]]
        BY <3>1 DEF Signals
      <3> QED BY <2>2, <3>2
    <2>4. blocks'[m] = p
      BY <1>1
    <2> HIDE DEF n
    <2> QED BY <2>3, <2>4 DEF At
  <1> QED BY <1>2, <1>3

\* Adding a block keeps the invariant.
LEMMA AddKeeps ==
    ASSUME LinkInv, NEW p \in Library, NEW from \in [1..Inputs(p) -> DOMAIN blocks], Add(p, from)
    PROVE  LinkInv'
  <1> DEFINE n == Len(blocks)
  <1> PICK m : m = n + 1
    OBVIOUS
  <1> PICK b : b = Block(p, Signals(from), Sizes(Signals(from)), Beginning)
    OBVIOUS
  <1>1. /\ n \in Nat
        /\ Given(p, Signals(from))
        /\ \A k \in 1..Inputs(p) : from[k] \in 1..n /\ blocks[from[k]].block \notin Sinks
        /\ b.accepts
        /\ blocks' \in Seq(Library) /\ Len(blocks') = m
        /\ blocks'[m] = p /\ \A i \in 1..n : blocks'[i] = blocks[i]
        /\ feeds' \in Seq(Seq(Nat)) /\ Len(feeds') = m
        /\ feeds'[m] = from /\ \A i \in 1..n : feeds'[i] = feeds[i]
        /\ declared' \in Seq(AnySignal) /\ Len(declared') = m
        /\ declared'[m] = b.gives /\ \A i \in 1..n : declared'[i] = declared[i]
        /\ free' \in Seq(Nat) /\ Len(free') = m
        /\ free'[m] = Outputs(p) /\ \A i \in 1..n : free'[i] <= free[i]
        /\ start' \in Seq(Places) /\ Len(start') = m
        /\ phase = "built" /\ step' = step /\ samples' = samples
        /\ phase' = IF b.sound /\ (Outputs(p) > 0 => Possible(b.gives))
                    THEN "built" ELSE "aborted"
    BY AddEffect
  <1>2. /\ \A i \in 1..n : At(i)' = At(i) /\ (Passed(i)' <=> Passed(i))
        /\ At(m)' = b
    BY StaysFed
  <1>3. DOMAIN blocks = 1..n /\ DOMAIN blocks' = 1..m /\ 1..m = 1..n \cup {m} /\ m \notin 1..n
        /\ DOMAIN free = 1..n /\ DOMAIN declared = 1..n
    <2>1. DOMAIN blocks = 1..n /\ DOMAIN free = 1..n /\ DOMAIN declared = 1..n
      BY Domains DEF LinkInv
    <2>2. DOMAIN blocks' = 1..m
      BY <1>1
    <2> QED BY <1>1, <2>1, <2>2
  <1>4. (Outputs(p) > 0) <=> (p.block \notin Sinks)
    BY InputsAre
  <1> HIDE DEF n
  <1>5. LinkShape'
    <2>1. ASSUME NEW i \in 1..n
          PROVE  /\ feeds'[i] \in [1..Inputs(blocks'[i]) -> 1..(i - 1)]
                 /\ \A k \in 1..Inputs(blocks'[i]) : blocks'[feeds'[i][k]].block \notin Sinks
                 /\ free'[i] > 0 => blocks'[i].block \notin Sinks
      <3>1. /\ feeds[i] \in [1..Inputs(blocks[i]) -> 1..(i - 1)]
            /\ \A k \in 1..Inputs(blocks[i]) : blocks[feeds[i][k]].block \notin Sinks
            /\ free[i] > 0 => blocks[i].block \notin Sinks
        BY <1>3 DEF LinkInv, LinkShape
      <3>2. \A k \in 1..Inputs(blocks[i]) : feeds[i][k] \in 1..n
        <4> SUFFICES ASSUME NEW k \in 1..Inputs(blocks[i]) PROVE feeds[i][k] \in 1..n
          OBVIOUS
        <4>1. feeds[i][k] \in 1..(i - 1)
          <5>1. feeds[i] \in [1..Inputs(blocks[i]) -> 1..(i - 1)]
            BY ONLY <3>1
          <5> QED BY ONLY <5>1, k \in 1..Inputs(blocks[i])
        <4>2. i \in Int /\ n \in Int /\ i - 1 <= n
          BY <1>1
        <4> QED BY ONLY <4>1, <4>2
      <3>3. free[i] \in Nat /\ free'[i] \in Nat /\ free'[i] <= free[i]
        <4>1. free[i] \in Nat
          <5>1. free \in Seq(Nat) /\ i \in DOMAIN free
            BY <1>3 DEF LinkInv, LinkShape
          <5> QED BY <5>1
        <4>2. i \in DOMAIN free'
          BY <1>1, <1>3
        <4>3. free'[i] \in Nat
          BY <1>1, <4>2
        <4> QED BY <1>1, <4>1, <4>3
      <3>4. feeds'[i] = feeds[i] /\ blocks'[i] = blocks[i]
            /\ \A j \in 1..n : blocks'[j] = blocks[j]
        BY <1>1
      <3>5. \A k \in 1..Inputs(blocks[i]) : blocks'[feeds[i][k]] = blocks[feeds[i][k]]
        BY <3>2, <3>4
      <3>6. free'[i] > 0 => free[i] > 0
        BY <3>3
      <3> QED BY <3>1, <3>4, <3>5, <3>6
    <2>2. /\ feeds'[m] \in [1..Inputs(blocks'[m]) -> 1..(m - 1)]
          /\ \A k \in 1..Inputs(blocks'[m]) : blocks'[feeds'[m][k]].block \notin Sinks
          /\ free'[m] > 0 => blocks'[m].block \notin Sinks
      <3>1. m - 1 = n
        BY <1>1
      <3>2. from \in [1..Inputs(p) -> 1..n]
        BY <1>3
      <3>3. feeds'[m] \in [1..Inputs(blocks'[m]) -> 1..(m - 1)]
        BY ONLY <1>1, <3>1, <3>2
      <3>4. \A k \in 1..Inputs(blocks'[m]) : blocks'[feeds'[m][k]].block \notin Sinks
        BY ONLY <1>1
      <3>5. free'[m] > 0 => blocks'[m].block \notin Sinks
        BY <1>1, <1>4
      <3> QED BY ONLY <3>3, <3>4, <3>5
    <2>3. \A i \in DOMAIN blocks' :
              /\ feeds'[i] \in [1..Inputs(blocks'[i]) -> 1..(i - 1)]
              /\ \A k \in 1..Inputs(blocks'[i]) : blocks'[feeds'[i][k]].block \notin Sinks
              /\ free'[i] > 0 => blocks'[i].block \notin Sinks
      BY ONLY <1>3, <2>1, <2>2
    <2>4. /\ blocks' \in Seq(Library)
          /\ feeds' \in Seq(Seq(Nat)) /\ Len(feeds') = Len(blocks')
          /\ free' \in Seq(Nat) /\ Len(free') = Len(blocks')
          /\ declared' \in Seq(AnySignal) /\ Len(declared') = Len(blocks')
      BY ONLY <1>1
    <2> QED BY ONLY <2>3, <2>4 DEF LinkShape
  <1>6. PhaseInv'
    <2>1. \A i \in 1..n : Passed(i)
      BY <1>1, <1>3 DEF LinkInv, PhaseInv
    <2>2. Passed(m)' <=> b.sound /\ (p.block \notin Sinks => Possible(b.gives))
      BY <1>1, <1>2 DEF Passed
    <2>3. phase' \in {"built", "aborted"} /\ (phase' = "aborted" <=> ~Passed(m)')
      BY <1>1, <1>4, <2>2
    <2>4. \A i \in 1..n : Passed(i)'
      BY <1>2, <2>1
    <2>5. \A i \in DOMAIN blocks' : i < Len(blocks') \/ phase' # "aborted" => Passed(i)'
      BY <1>1, <1>3, <2>3, <2>4
    <2>6. \A i \in DOMAIN blocks' : i = Len(blocks') /\ phase' = "aborted" => ~Passed(i)'
      BY <1>1, <1>3, <2>3
    <2>7. blocks' # <<>>
      BY <1>1
    <2> QED BY <2>3, <2>5, <2>6, <2>7 DEF PhaseInv
  <1>7. DeclaredInv'
    <2>1. \A i \in 1..n : declared'[i] = At(i)'.gives /\ At(i)'.accepts
      <3> SUFFICES ASSUME NEW i \in 1..n
                   PROVE  declared'[i] = At(i)'.gives /\ At(i)'.accepts
        OBVIOUS
      <3>1. declared'[i] = declared[i] /\ At(i)' = At(i)
        BY <1>1, <1>2
      <3>2. declared[i] = At(i).gives /\ At(i).accepts
        BY <1>3 DEF LinkInv, DeclaredInv
      <3> QED BY <3>1, <3>2
    <2>2. declared'[m] = At(m)'.gives /\ At(m)'.accepts
      BY <1>1, <1>2
    <2> QED BY <1>3, <2>1, <2>2 DEF DeclaredInv
  <1>8. SamplesInv'
    <2>1. samples = <<>>
      BY <1>1 DEF LinkInv, SamplesInv
    <2>2. samples' = <<>> /\ phase' \notin {"running", "crashed"}
      BY <1>1, <2>1
    <2> QED BY <1>1, <2>2 DEF SamplesInv
  <1>9. StepsInv'
    BY <1>1 DEF LinkInv, StepsInv
  <1> QED BY <1>5, <1>6, <1>7, <1>8, <1>9 DEF LinkInv

\* While no block is added, what the blocks do stays the same.
LEMMA BuiltStays ==
    ASSUME UNCHANGED <<blocks, feeds, free, declared>>
    PROVE  /\ (LinkShape' <=> LinkShape)
           /\ \A i : At(i)' = At(i) /\ (Passed(i)' <=> Passed(i))
           /\ (DeclaredInv' <=> DeclaredInv)
           /\ (FullMatrices' <=> FullMatrices)
           /\ start' = start =>
                 /\ (StepsInv' <=> step' \in Nat /\ start \in Seq(Places)
                                                /\ Len(start) = Len(blocks))
                 /\ (Fits' <=> Fits) /\ (SequencesLast' <=> SequencesLast)
                 /\ \A i : Ended(i)' <=> Ended(i)
  <1>1. LinkShape' <=> LinkShape
    BY DEF LinkShape
  <1>2. ASSUME NEW i PROVE At(i)' = At(i) /\ (Passed(i)' <=> Passed(i))
    <2>1. At(i)' = At(i)
      BY DEF At, Signals
    <2> QED BY <2>1 DEF Passed
  <1>3. DeclaredInv' <=> DeclaredInv
    BY <1>2 DEF DeclaredInv
  <1>4. ASSUME start' = start
        PROVE  /\ (StepsInv' <=> step' \in Nat /\ start \in Seq(Places)
                                              /\ Len(start) = Len(blocks))
               /\ (Fits' <=> Fits) /\ (SequencesLast' <=> SequencesLast)
               /\ \A i : Ended(i)' <=> Ended(i)
    <2>1. Fits' <=> Fits
      BY <1>4 DEF Fits, Behaviour, Signals
    <2>2. SequencesLast' <=> SequencesLast
      BY <1>4 DEF SequencesLast
    <2>3. \A i : Ended(i)' <=> Ended(i)
      BY <1>4 DEF Ended, AtEnd
    <2>4. StepsInv' <=> step' \in Nat /\ start \in Seq(Places)
                                       /\ Len(start) = Len(blocks)
      BY <1>4 DEF StepsInv
    <2> QED BY <2>1, <2>2, <2>3, <2>4
  <1>5. FullMatrices' <=> FullMatrices
    BY DEF FullMatrices, Input
  <1> QED BY <1>1, <1>2, <1>3, <1>4, <1>5

\* Initializing all blocks keeps the invariant.
LEMMA StartKeeps ==
    ASSUME LinkInv, Start
    PROVE  LinkInv'
  <1>1. /\ phase = "built" /\ blocks # <<>>
        /\ phase' = IF \A i \in DOMAIN blocks : At(i).starts THEN "running" ELSE "failed"
        /\ UNCHANGED <<blocks, feeds, free, declared, step, start, samples>>
    <2>1. \A i \in DOMAIN blocks : Behaviour(i, Sizes(Signals(feeds[i]))).starts <=> At(i).starts
      <3> SUFFICES ASSUME NEW i \in DOMAIN blocks
                   PROVE  Behaviour(i, Sizes(Signals(feeds[i]))).starts <=> At(i).starts
        OBVIOUS
      <3>1. blocks[i] \in Library
        BY DEF LinkInv, LinkShape
      <3> QED BY <3>1, SameAnywhere DEF At, Behaviour
    <2> QED BY <2>1 DEF Start
  <1>2. LinkShape' /\ DeclaredInv' /\ StepsInv'
    BY <1>1, BuiltStays DEF LinkInv, StepsInv
  <1>3. PhaseInv'
    <2>1. \A i \in DOMAIN blocks : Passed(i)
      BY <1>1 DEF LinkInv, PhaseInv
    <2>2. \A i : At(i)' = At(i) /\ (Passed(i)' <=> Passed(i))
      BY <1>1, BuiltStays
    <2> QED BY <1>1, <2>1, <2>2 DEF PhaseInv
  <1>4. SamplesInv'
    <2>1. samples = <<>> /\ samples' = <<>>
      BY <1>1 DEF LinkInv, SamplesInv
    <2>2. Len(blocks') \in Nat /\ phase' # "crashed"
      BY <1>1, Domains DEF LinkInv
    <2> QED BY <2>1, <2>2 DEF SamplesInv
  <1> QED BY <1>2, <1>3, <1>4 DEF LinkInv

\* The next block finds samples in all its inputs, and as many as declared if nothing has
\* been filled up.
LEMMA FoundIs ==
    ASSUME LinkInv, NEW i, i = Len(samples) + 1, i \in DOMAIN blocks
    PROVE  /\ \A k \in 1..Inputs(blocks[i]) : Found(i)[k] \in Nat
           /\ Fits /\ FullMatrices /\ SequencesLast => Found(i) = Sizes(Signals(feeds[i]))
  <1> DEFINE p == blocks[i]
             in == Signals(feeds[i])
  <1>1. /\ Given(p, in) /\ DOMAIN feeds[i] = 1..Inputs(p)
        /\ \A k \in 1..Inputs(p) : /\ feeds[i][k] \in 1..(i - 1)
                                   /\ in[k] = declared[feeds[i][k]]
    BY FedProperly DEF LinkInv
  <1>2. samples \in Seq(Nat) /\ Len(samples) \in Nat /\ i - 1 = Len(samples)
    BY DEF LinkInv, SamplesInv
  <1>3. Found(i) = [k \in 1..Inputs(p) |-> samples[feeds[i][k]]]
    BY <1>1 DEF Found
  <1>4. \A k \in 1..Inputs(p) : samples[feeds[i][k]] \in Nat
    BY <1>1, <1>2
  <1>5. ASSUME Fits, FullMatrices, SequencesLast PROVE Found(i) = Sizes(in)
    <2>1. \A j \in 1..Len(samples) : samples[j] = declared[j].size
      BY <1>2, <1>5 DEF LinkInv, SamplesInv
    <2>2. \A k \in 1..Inputs(p) : samples[feeds[i][k]] = in[k].size
      BY <1>1, <1>2, <2>1
    <2>3. DOMAIN in = 1..Inputs(p)
      BY <1>1 DEF Given
    <2> HIDE DEF p, in
    <2> QED BY <1>3, <2>2, <2>3 DEF Sizes
  <1> QED BY <1>3, <1>4, <1>5

\* Processing the next block keeps the invariant.
LEMMA ProcessKeeps ==
    ASSUME LinkInv, Process
    PROVE  LinkInv'
  <1> PICK i : i = Len(samples) + 1
    OBVIOUS
  <1> DEFINE b == Behaviour(i, Found(i))
  <1>1. /\ phase = "running" /\ Len(samples) < Len(blocks)
        /\ UNCHANGED <<blocks, feeds, free, declared, step, start>>
    BY DEF Process
  <1>2. \/ b.works /\ samples' = Append(samples, b.writes) /\ phase' = phase
        \/ (~b.works \/ Ended(i)) /\ phase' = "crashed" /\ samples' = samples
    BY DEF Process, Found, Ended
  <1>3. /\ Len(samples) \in Nat /\ samples \in Seq(Nat) /\ Len(blocks) \in Nat
        /\ DOMAIN blocks = 1..Len(blocks) /\ i \in 1..Len(blocks)
    <2>1. samples \in Seq(Nat) /\ Len(blocks) \in Nat /\ DOMAIN blocks = 1..Len(blocks)
      BY Domains DEF LinkInv, SamplesInv
    <2> QED BY <1>1, <2>1
  <1>4. LinkShape' /\ DeclaredInv' /\ StepsInv'
    BY <1>1, BuiltStays DEF LinkInv, StepsInv
  <1>5. PhaseInv'
    <2>1. (\A j \in DOMAIN blocks : Passed(j) /\ At(j).starts) /\ phase' \in {"running", "crashed"}
      BY <1>1, <1>2 DEF LinkInv, PhaseInv
    <2>2. \A j : At(j)' = At(j) /\ (Passed(j)' <=> Passed(j))
      BY <1>1, BuiltStays
    <2> QED BY <1>1, <2>1, <2>2 DEF PhaseInv
  <1>6. SamplesInv'
    <2>1. CASE b.works /\ samples' = Append(samples, b.writes) /\ phase' = phase
      <3>1. b = Block(blocks[i], Signals(feeds[i]), Found(i), start[i])
            /\ start[i] \in Places
        BY <1>3, StartIs DEF Behaviour, LinkInv
      <3>2. Given(blocks[i], Signals(feeds[i]))
            /\ \A k \in 1..Inputs(blocks[i]) : Found(i)[k] \in Nat
        BY <1>3, FedProperly, FoundIs DEF LinkInv
      <3> HIDE DEF b
      <3>3. b.writes \in Nat
        BY <2>1, <3>1, <3>2, WritesIs DEF Places
      <3>4. /\ samples' \in Seq(Nat) /\ Len(samples') = i /\ DOMAIN samples' = 1..i
            /\ samples'[i] = b.writes /\ \A j \in 1..(i - 1) : samples'[j] = samples[j]
        <4>1. Len(samples) = i - 1
          BY <1>3
        <4> QED BY <1>3, <2>1, <3>3, <4>1, AppendIs
      <3>5. ASSUME Fits, FullMatrices, SequencesLast
            PROVE  \A j \in 1..i : samples'[j] = declared[j].size
        <4>1. \A j \in 1..(i - 1) : samples[j] = declared[j].size
          BY <1>3, <3>5 DEF LinkInv, SamplesInv
        <4>2. Found(i) = Sizes(Signals(feeds[i]))
          BY <1>3, <3>5, FoundIs
        <4>3. b = Behaviour(i, Sizes(Signals(feeds[i])))
          BY <4>2 DEF b
        <4>4. b.starts /\ b.writes < Word \div 2 /\ declared[i].size = b.gives.size
          <5>1. At(i).starts /\ declared[i] = At(i).gives /\ blocks[i] \in Library
            <6>1. At(i).starts
              BY <1>1, <1>3 DEF LinkInv, PhaseInv
            <6>2. declared[i] = At(i).gives
              BY <1>3 DEF LinkInv, DeclaredInv
            <6>3. blocks[i] \in Library
              BY <1>3 DEF LinkInv, LinkShape
            <6> QED BY <6>1, <6>2, <6>3
          <5>2. b.writes < Word \div 2
            BY <1>3, <3>5, <4>3 DEF Fits
          <5>3. b = Block(blocks[i], Signals(feeds[i]), Sizes(Signals(feeds[i])), start[i])
                /\ At(i) = Block(blocks[i], Signals(feeds[i]), Sizes(Signals(feeds[i])), Beginning)
            BY <4>3 DEF At, Behaviour
          <5>4. b.starts
            BY <5>1, <5>3, SameAnywhere
          <5>5. declared[i].size = b.gives.size
            <6>1. CASE blocks[i].block \in Scramblers
              <7>1. /\ Does(b, blocks[i], Signals(feeds[i]), Sizes(Signals(feeds[i])))
                    /\ Does(At(i), blocks[i], Signals(feeds[i]), Sizes(Signals(feeds[i])))
                BY <5>3 DEF Does
              <7>2. blocks[i].block \in Sources
                BY <6>1 DEF Sources
              <7> QED BY <5>1, <7>1, <7>2, SourceIs
            <6>2. CASE blocks[i].block \notin Scramblers
              BY <5>1, <5>3, <6>2, SameAnywhere
            <6> QED BY <6>1, <6>2
          <5> QED BY <5>2, <5>4, <5>5
        <4>5. FullMatrix(blocks[i], Signals(feeds[i]))
          <5>1. 1 \in 1..Inputs(blocks[i]) => Signals(feeds[i])[1] = Input(i)
            BY <1>3, FedProperly DEF LinkInv, Input
          <5>2. blocks[i].block = "BlockInterleaver" => 1 \in 1..Inputs(blocks[i])
            BY DEF Inputs, Sources, Scramblers
          <5> QED BY <1>3, <3>5, <5>1, <5>2 DEF FullMatrix, FullMatrices
        <4>6. \A k \in 1..Inputs(blocks[i]) : Found(i)[k] = Signals(feeds[i])[k].size
          BY <3>2, <4>2 DEF Given, Sizes
        <4>7. b.writes = b.gives.size
          <5>1. Lasts(blocks[i], start[i])
            BY <1>3, <3>5 DEF Lasts, SequencesLast
          <5>2. start[i] \in 0..SequenceLength
            BY <3>1 DEF Places
          <5> DEFINE p == blocks[i]
                     in == Signals(feeds[i])
                     n == Found(i)
                     s == start[i]
          <5>3. /\ Given(p, in) /\ FullMatrix(p, in) /\ Lasts(p, s) /\ s \in 0..SequenceLength
                /\ \A k \in 1..Inputs(p) : n[k] = in[k].size
                /\ b = Block(p, in, n, s)
            BY <3>1, <3>2, <4>5, <4>6, <5>1, <5>2
          <5> HIDE DEF p, in, n, s
          <5> QED BY <2>1, <4>4, <5>3, WritesDeclared
        <4>8. samples'[i] = declared[i].size
          BY <3>4, <4>4, <4>7
        <4> QED BY <1>3, <3>4, <4>1, <4>8
      <3>6. phase' = "running" /\ i <= Len(blocks')
        BY <1>1, <1>3, <2>1
      <3>7. Fits' /\ FullMatrices' /\ SequencesLast' =>
                \A j \in DOMAIN samples' : samples'[j] = declared'[j].size
        BY <1>1, <3>4, <3>5, BuiltStays
      <3> QED BY <3>4, <3>6, <3>7 DEF SamplesInv
    <2>2. CASE (~b.works \/ Ended(i)) /\ phase' = "crashed" /\ samples' = samples
      <3>1. \A j \in DOMAIN blocks' :
                j = Len(samples') + 1 => ~Behaviour(j, Found(j))'.works \/ Ended(j)'
        <4>1. Behaviour(i, Found(i))' = b
          BY <1>1, <2>2 DEF Behaviour, Found, Signals
        <4>2. Ended(i)' <=> Ended(i)
          BY <1>1, BuiltStays
        <4> QED BY <2>2, <4>1, <4>2
      <3>2. Fits' /\ FullMatrices' /\ SequencesLast' =>
                \A j \in DOMAIN samples' : samples'[j] = declared'[j].size
        BY <1>1, <2>2, BuiltStays DEF LinkInv, SamplesInv
      <3> QED BY <1>1, <1>3, <2>2, <3>1, <3>2 DEF SamplesInv
    <2> QED BY <1>2, <2>1, <2>2
  <1> QED BY <1>4, <1>5, <1>6 DEF LinkInv

\* The next frame starts within the sequence again.
LEMMA NextStartIs ==
    ASSUME NEW p \in Library, p.block \in Scramblers, NEW s \in Places
    PROVE  NextStart(p, s) \in Places
  <1>1. p.framesize \in Nat /\ SequenceLength \in Nat /\ s \in Nat
    BY ConfiguredAssumption, LibraryAssumption DEF Sources, Scramblers, Places
  <1> DEFINE a == s + p.framesize
             m == SequenceLength + 1
  <1>2. a \in Nat /\ m \in Nat \ {0}
    BY <1>1
  <1>3. a % m \in 0..(m - 1)
    <2> HIDE DEF a, m
    <2> QED BY <1>2, Division
  <1> QED BY <1>1, <1>3 DEF NextStart, Places

\* Beginning the next step keeps the invariant.
LEMMA NextStepKeeps ==
    ASSUME LinkInv, NextStep
    PROVE  LinkInv'
  <1>1. /\ phase = "running" /\ phase' = phase /\ step' = step + 1 /\ samples' = <<>>
        /\ start' = [i \in DOMAIN blocks |->
                        IF blocks[i].block \in Scramblers THEN NextStart(blocks[i], start[i])
                        ELSE 0]
        /\ UNCHANGED <<blocks, feeds, free, declared>>
    BY DEF NextStep
  <1>2. LinkShape' /\ DeclaredInv'
    BY <1>1, BuiltStays DEF LinkInv
  <1>3. PhaseInv'
    BY <1>1, BuiltStays DEF LinkInv, PhaseInv
  <1>4. StepsInv'
    <2>1. ASSUME NEW i \in DOMAIN blocks PROVE start'[i] \in Places
      <3>1. start[i] \in Places /\ blocks[i] \in Library /\ 0 \in Places
        <4>1. start[i] \in Places
          BY StartIs DEF LinkInv
        <4>2. 0 \in Places
          BY LibraryAssumption DEF Places
        <4> QED BY <4>1, <4>2 DEF LinkInv, LinkShape
      <3> QED BY <1>1, <3>1, NextStartIs
    <2>2. Len(blocks) \in Nat /\ DOMAIN blocks = 1..Len(blocks)
      BY Domains DEF LinkInv
    <2>3. start' \in [1..Len(blocks) -> Places]
      BY <1>1, <2>1, <2>2
    <2>4. start' \in Seq(Places) /\ Len(start') = Len(blocks)
      BY <2>2, <2>3
    <2>5. step' \in Nat
      BY <1>1 DEF LinkInv, StepsInv
    <2> QED BY <1>1, <2>4, <2>5 DEF StepsInv
  <1>5. SamplesInv'
    BY <1>1, Domains DEF LinkInv, SamplesInv
  <1> QED BY <1>2, <1>3, <1>4, <1>5 DEF LinkInv

\* The invariant holds in every state.
LEMMA LinkInvAlways == Spec => []LinkInv
  <1>1. Init => LinkInv
    BY LinkBegins
  <1>2. LinkInv /\ [Next]_vars => LinkInv'
    <2> SUFFICES ASSUME LinkInv, [Next]_vars PROVE LinkInv'
      OBVIOUS
    <2>1. CASE Next
      <3>1. CASE \E p \in Library : \E from \in [1..Inputs(p) -> DOMAIN blocks] : Add(p, from)
        BY <3>1, AddKeeps
      <3>2. CASE Start
        BY <3>2, StartKeeps
      <3>3. CASE Process
        BY <3>3, ProcessKeeps
      <3>4. CASE NextStep
        BY <3>4, NextStepKeeps
      <3> QED BY <2>1, <3>1, <3>2, <3>3, <3>4 DEF Next
    <2>2. CASE UNCHANGED vars
      <3>1. UNCHANGED <<blocks, feeds, free, declared, step, start, samples, phase>>
        BY <2>2 DEF vars
      <3>2. LinkShape' /\ DeclaredInv' /\ StepsInv'
        BY <3>1, BuiltStays DEF LinkInv, StepsInv
      <3>3. PhaseInv'
        BY <3>1, BuiltStays DEF LinkInv, PhaseInv
      <3>4. SamplesInv'
        <4>1. \A i : Behaviour(i, Found(i))' = Behaviour(i, Found(i))
          BY <3>1 DEF Behaviour, Found, Signals
        <4> QED BY <3>1, <4>1, BuiltStays DEF LinkInv, SamplesInv
      <3> QED BY <3>2, <3>3, <3>4 DEF LinkInv
    <2> QED BY <2>1, <2>2
  <1> QED BY <1>1, <1>2, PTL DEF Spec

\* Blocks, connections and declared signals of a link are well formed in every state: a
\* block is only connected to others of the link, and its sizes are those of a word.
THEOREM LinkTypeCorrect == Spec => []TypeOK
  <1>1. LinkInv => TypeOK
    <2> SUFFICES ASSUME LinkInv PROVE TypeOK
      OBVIOUS
    <2>1. /\ Len(blocks) \in Nat /\ DOMAIN blocks = 1..Len(blocks)
          /\ DOMAIN feeds = 1..Len(blocks) /\ DOMAIN free = 1..Len(blocks)
          /\ DOMAIN declared = 1..Len(blocks)
      BY Domains DEF LinkInv
    <2>2. blocks \in Seq(Library) /\ free \in [DOMAIN blocks -> Nat]
          /\ declared \in [DOMAIN blocks -> AnySignal]
      BY <2>1 DEF LinkInv, LinkShape
    <2>3. feeds \in [DOMAIN blocks -> Seq(DOMAIN blocks)]
      <3>1. ASSUME NEW i \in DOMAIN blocks PROVE feeds[i] \in Seq(DOMAIN blocks)
        <4>1. blocks[i] \in Library
          BY <2>2
        <4>2. Inputs(blocks[i]) \in Nat
          BY <4>1, InputsAre
        <4>3. feeds[i] \in [1..Inputs(blocks[i]) -> 1..(i - 1)]
          BY DEF LinkInv, LinkShape
        <4>4. 1..(i - 1) \subseteq DOMAIN blocks
          BY <2>1
        <4> QED BY <4>2, <4>3, <4>4
      <3>2. feeds = [i \in DOMAIN blocks |-> feeds[i]]
        BY <2>1 DEF LinkInv, LinkShape
      <3> QED BY <3>1, <3>2
    <2>4. samples \in Seq(Nat) /\ Len(samples) <= Len(blocks)
          /\ phase \in {"built", "running", "aborted", "failed", "crashed"}
      BY DEF LinkInv, SamplesInv, PhaseInv
    <2>5. step \in Nat /\ start \in [DOMAIN blocks -> Places]
      BY <2>1 DEF LinkInv, StepsInv
    <2> QED BY <2>2, <2>3, <2>4, <2>5 DEF TypeOK, AnySignal, Places
  <1> QED BY <1>1, LinkInvAlways, PTL

\* In a link of any blocks, however connected, that writes no frames too long for a vector,
\* every block writes in every step as many samples as it has declared to those it feeds,
\* unless an interleaver fills up its last matrix or, in that step, the sequence of a
\* scrambler ends (setup_output_ports and process of all blocks, for any number of steps).
THEOREM FramesAreWritten == Spec => [](Fits => WrittenAsDeclared)
  <1>1. LinkInv => (Fits => WrittenAsDeclared)
    BY DEF LinkInv, SamplesInv, WrittenAsDeclared
  <1> QED BY <1>1, LinkInvAlways, PTL

-----------------------------------------------------------------------------
(* What is open along a link *)

\* What is open at the output of block i, if that is open before it.
OpenAfter(i, before) ==
    IF blocks[i].block \in Transmitters THEN Append(before, i)
    ELSE IF blocks[i].block \notin Receivers THEN before
    ELSE IF Len(before) > 0 /\ Undoes(blocks[i], blocks[before[Len(before)]])
         THEN SubSeq(before, 1, Len(before) - 1)
         ELSE <<>>

\* What is open before block i, if f tells it of earlier blocks.
OpenBefore(f, i) == IF feeds[i] = <<>> THEN <<>> ELSE f[feeds[i][1]]

\* f tells what is open at the outputs of the first n blocks.
OpenUpTo(f, n) == f = [i \in 1..n |-> OpenAfter(i, OpenBefore(f, i))]

\* The first input of a block is fed by an earlier one.
LEMMA FedBefore ==
    ASSUME LinkShape, NEW i \in DOMAIN blocks, feeds[i] # <<>>
    PROVE  feeds[i][1] \in 1..(i - 1) /\ blocks[i].block \notin Sources
           /\ blocks[feeds[i][1]].block \notin Sinks
  <1>1. feeds[i] \in [1..Inputs(blocks[i]) -> 1..(i - 1)] /\ blocks[i] \in Library
    BY Domains DEF LinkShape
  <1>2. Inputs(blocks[i]) \in Nat
    BY <1>1, InputsAre
  <1>3. Inputs(blocks[i]) # 0
    <2> SUFFICES ASSUME Inputs(blocks[i]) = 0 PROVE feeds[i] = <<>>
      OBVIOUS
    <2> QED BY <1>1
  <1>4. 1 \in 1..Inputs(blocks[i])
    BY <1>2, <1>3
  <1>5. blocks[feeds[i][1]].block \notin Sinks
    BY <1>4 DEF LinkShape
  <1> QED BY <1>1, <1>3, <1>4, <1>5, InputsAre

\* There is such an f for any number of blocks.
LEMMA OpenExists ==
    ASSUME LinkShape, NEW n \in Nat, n <= Len(blocks)
    PROVE  \E f : OpenUpTo(f, n)
  <1> DEFINE S == {m \in Nat : m <= Len(blocks) => \E f : OpenUpTo(f, m)}
  <1>1. 0 \in S
    <2>1. OpenUpTo([i \in 1..0 |-> <<>>], 0)
      BY DEF OpenUpTo
    <2> QED BY <2>1
  <1>2. ASSUME NEW m \in S PROVE m + 1 \in S
    <2> SUFFICES ASSUME m + 1 <= Len(blocks) PROVE \E f : OpenUpTo(f, m + 1)
      OBVIOUS
    <2>1. PICK f : OpenUpTo(f, m)
      BY Domains
    <2> DEFINE g == [i \in 1..(m + 1) |-> IF i <= m THEN f[i] ELSE OpenAfter(i, OpenBefore(f, i))]
    <2>2. ASSUME NEW i \in 1..(m + 1) PROVE OpenBefore(g, i) = OpenBefore(f, i)
      <3>1. CASE feeds[i] = <<>>
        BY <3>1 DEF OpenBefore
      <3>2. CASE feeds[i] # <<>>
        <4>1. feeds[i][1] \in 1..(i - 1)
          BY <3>2, FedBefore, Domains
        <4>2. feeds[i][1] \in 1..(m + 1) /\ feeds[i][1] <= m
          BY <4>1
        <4>3. g[feeds[i][1]] = f[feeds[i][1]]
          BY <4>2
        <4> QED BY <4>3 DEF OpenBefore
      <3> QED BY <3>1, <3>2
    <2>3. \A i \in 1..m : f[i] = OpenAfter(i, OpenBefore(f, i))
      BY <2>1 DEF OpenUpTo
    <2>4. g = [i \in 1..(m + 1) |-> OpenAfter(i, OpenBefore(f, i))]
      BY <2>3
    <2> HIDE DEF g
    <2>5. g = [i \in 1..(m + 1) |-> OpenAfter(i, OpenBefore(g, i))]
      BY <2>2, <2>4
    <2> QED BY <2>5 DEF OpenUpTo
  <1>3. S \in SUBSET Nat
    OBVIOUS
  <1>4. S = Nat
    <2> HIDE DEF S
    <2> QED BY <1>1, <1>2, <1>3, InductionOnSet
  <1> QED BY <1>4

\* So Open is what it is defined to be.
LEMMA OpenIs ==
    ASSUME LinkShape
    PROVE  \A i \in DOMAIN blocks : Open[i] = OpenAfter(i, OpenBefore(Open, i))
  <1> DEFINE F(f) == [i \in DOMAIN blocks |-> OpenAfter(i, OpenBefore(f, i))]
  <1>1. Open = CHOOSE f : f = F(f)
    BY DEF Open, OpenAfter, OpenBefore
  <1>2. \E f : f = F(f)
    <2>1. PICK f : OpenUpTo(f, Len(blocks))
      BY OpenExists, Domains
    <2> QED BY <2>1, Domains DEF OpenUpTo
  <1> HIDE DEF F
  <1>3. Open = F(Open)
    BY <1>1, <1>2
  <1> QED BY <1>3 DEF F

-----------------------------------------------------------------------------
(* The receiver undoes what the transmitter does *)

\* What is known of a block that has input ports.
LEMMA FedBlock ==
    ASSUME LinkInv, NEW i \in DOMAIN blocks, blocks[i].block \notin Sources
    PROVE  LET in == Signals(feeds[i])
           IN  /\ blocks[i] \in Library
               /\ Does(At(i), blocks[i], in, Sizes(in))
               /\ Given(blocks[i], in)
               /\ Proper(in[1]) /\ in[1] = Input(i) /\ Sizes(in)[1] = in[1].size
               /\ declared[i] = At(i).gives
               /\ feeds[i] # <<>> /\ feeds[i][1] \in 1..(i - 1)
               /\ feeds[i][1] \in DOMAIN blocks /\ blocks[feeds[i][1]].block \notin Sinks
  <1> DEFINE in == Signals(feeds[i])
  <1>1. /\ Given(blocks[i], in) /\ DOMAIN feeds[i] = 1..Inputs(blocks[i])
        /\ \A k \in 1..Inputs(blocks[i]) :
              feeds[i][k] \in 1..(i - 1) /\ feeds[i][k] \in DOMAIN blocks
              /\ in[k] = declared[feeds[i][k]]
    BY FedProperly DEF LinkInv
  <1>2. blocks[i] \in Library /\ declared[i] = At(i).gives
        /\ \A k \in 1..Inputs(blocks[i]) : blocks[feeds[i][k]].block \notin Sinks
    BY DEF LinkInv, LinkShape, DeclaredInv
  <1>3. 1 \in 1..Inputs(blocks[i])
    BY <1>2, InputsAre
  <1>4. Does(At(i), blocks[i], in, Sizes(in))
    BY DEF At, Does
  <1>5. feeds[i] # <<>>
    <2> SUFFICES ASSUME feeds[i] = <<>> PROVE FALSE
      OBVIOUS
    <2>1. \A k \in DOMAIN <<>> : FALSE
      OBVIOUS
    <2> QED BY <1>1, <1>3, <2>1
  <1> HIDE DEF in
  <1>6. Proper(in[1]) /\ Sizes(in)[1] = in[1].size
    BY <1>1, <1>2, FirstInput
  <1>7. in[1] = Input(i)
    BY <1>1, <1>3 DEF Input
  <1> QED BY <1>1, <1>2, <1>3, <1>4, <1>5, <1>6, <1>7 DEF in

\* A signal that was a is b now: no sample has been lost, and only the padding of a
\* modulator is gained.
Keeps(a, b) == b.Ts = a.Ts /\ b.size >= a.size /\ (WholeSymbols => b.size = a.size)

\* And so on.
LEMMA KeepsOnward ==
    ASSUME NEW a, NEW b, NEW c, a.size \in Nat, b.size \in Nat, c.size \in Nat,
           Keeps(a, b), Keeps(b, c)
    PROVE  Keeps(a, c)
  BY DEF Keeps

\* A convolutional decoder finds all bits in a frame that is not shorter than the coded one.
LEMMA CodeRestored ==
    ASSUME NEW p \in Library, NEW q \in Library, p.block = "ConvolutionalEncoder",
           q.block = "ConvolutionalDecoder",
           InverseRate(p) = InverseRate(q), p.constraint_length = q.constraint_length,
           InverseRate(p) # 0, NEW size \in Nat, NEW d \in Nat, d >= Coded(p, size)
    PROVE  /\ Decoded(q, d) \in Nat /\ Decoded(q, d) >= size /\ Decoded(q, d) <= d
           /\ d = Coded(p, size) => Decoded(q, d) = size
  <1> DEFINE inv == InverseRate(p)
             cl == p.constraint_length
             m == size + cl - 1
  <1>1. inv \in Nat \ {0} /\ cl \in Nat \ {0}
    BY ConfiguredAssumption, InverseIsNat
  <1>2. m \in Nat /\ m >= size
    BY <1>1
  <1>3. Coded(p, size) = inv * m /\ Decoded(q, d) = (d \div inv) - cl + 1
    BY <1>1 DEF Coded, Decoded
  <1> HIDE DEF inv
  <1>4. d \div inv \in Nat /\ d \div inv <= d
    BY <1>1, Division
  <1> HIDE DEF m
  <1>5. d \div inv >= m
    BY <1>1, <1>2, <1>3, AtLeast
  <1>6. d = inv * m => d \div inv = m
    <2> SUFFICES ASSUME d = inv * m PROVE d \div inv = m
      OBVIOUS
    <2>1. d = inv * m + 0
      OBVIOUS
    <2>2. 0 \in 0..(inv - 1)
      BY <1>1
    <2> QED BY <1>1, <1>2, <2>1, <2>2, Quotient
  <1> USE DEF m
  <1> HIDE DEF cl
  <1> QED BY <1>1, <1>2, <1>3, <1>4, <1>5, <1>6

\* So does a turbo decoder.
LEMMA TurboRestored ==
    ASSUME NEW p \in Library, NEW q \in Library, p.block = "TurboEncoder", q.block = "TurboDecoder",
           p.gen1 = q.gen1, p.gen2 = q.gen2, p.constraint_length = q.constraint_length,
           NEW size \in Nat, NEW d \in Nat, d >= TurboCoded(p, size), d < Word
    PROVE  /\ TurboDecoded(q, d) \in Nat /\ TurboDecoded(q, d) >= size
           /\ d = TurboCoded(p, size) => TurboDecoded(q, d) = size
  <1> DEFINE rate == TurboInverseRate(p)
             tail == TurboTail(p)
  <1>1. rate = TurboInverseRate(q) /\ tail = TurboTail(q)
    BY DEF TurboInverseRate, TurboTail
  <1>2. /\ rate \in Nat \ {0} /\ tail \in Nat \ {0} /\ size * rate \in Nat
        /\ TurboCoded(p, size) = size * rate + tail
    BY TurboNumbers
  <1> HIDE DEF rate, tail
  <1>3. d - tail \in Nat /\ d - tail < Word /\ d - tail >= size * rate
    BY <1>2, LibraryAssumption
  <1>4. (d - tail) % Word = d - tail
    BY <1>3, LibraryAssumption, Remainder
  <1>5. TurboDecoded(q, d) = (d - tail) \div rate
    BY <1>1, <1>4 DEF TurboDecoded
  <1>6. size * rate = rate * size
    BY <1>2, SMTT(30)
  <1>7. (d - tail) \div rate \in Nat
    BY <1>2, <1>3, Division
  <1>8. (d - tail) \div rate >= size
    BY <1>2, <1>3, <1>6, AtLeast
  <1>9. ASSUME d = TurboCoded(p, size) PROVE (d - tail) \div rate = size
    <2>1. d - tail = rate * size + 0
      BY <1>2, <1>6, <1>9
    <2>2. 0 \in 0..(rate - 1)
      BY <1>2
    <2> QED BY <1>2, <1>3, <2>1, <2>2, Quotient
  <1> QED BY <1>5, <1>7, <1>8, <1>9

\* A receive filter leaves all samples of a frame that is not shorter than the one
\* transmitted.
LEMMA FilterRestored ==
    ASSUME NEW u \in Nat \ {0}, NEW size \in Nat, NEW d \in Nat, d >= size * u
    PROVE  /\ d \div u \in Nat /\ d \div u >= size
           /\ d = size * u => d \div u = size
  <1>1. size * u = u * size
    BY SMTT(30)
  <1>2. d \div u \in Nat
    BY Division
  <1>3. d \div u >= size
    BY <1>1, AtLeast
  <1>4. ASSUME d = size * u PROVE d \div u = size
    <2>1. d = u * size + 0
      BY <1>1, <1>4
    <2> QED BY <2>1, Quotient
  <1> QED BY <1>2, <1>3, <1>4

\* If the output of block t is kept up to the input of block j, which undoes t, then the
\* input of t is kept up to the output of j: case by case for the five pairs of blocks.
LEMMA UndoneIs ==
    ASSUME LinkInv, Fits, WholeTimes, NEW t \in DOMAIN blocks, NEW j \in DOMAIN blocks,
           Undoes(blocks[j], blocks[t]), Passed(t), Keeps(declared[t], Input(j))
    PROVE  /\ Keeps(Input(t), declared[j])
           /\ At(j).sound /\ declared[j].type \in Types
           /\ blocks[t].block \in Transmitters
           /\ blocks[j].block = "ConvolutionalDecoder" =>
                 Decoded(blocks[j], Input(j).size) = declared[j].size
  <1> DEFINE p == blocks[t]
             q == blocks[j]
             a == Input(t)
             d == Input(j)
             in == Signals(feeds[t])
             jn == Signals(feeds[j])
             n == Sizes(in)
             jm == Sizes(jn)
             b == At(t)
             c == At(j)
  <1>1. /\ p.block \in Transmitters /\ q.block \in Receivers
        /\ p.block \notin Sources /\ q.block \notin Sources
        /\ p.block \notin Sinks /\ q.block \notin Sinks
    BY DEF Undoes, Transmitters, Receivers, Sources, Scramblers, Sinks
  <1>2. /\ p \in Library /\ Does(b, p, in, n) /\ Proper(in[1]) /\ in[1] = a /\ n[1] = in[1].size
        /\ declared[t] = b.gives
    BY <1>1, FedBlock
  <1>3. /\ q \in Library /\ Does(c, q, jn, jm) /\ Proper(jn[1]) /\ jn[1] = d /\ jm[1] = jn[1].size
        /\ declared[j] = c.gives /\ Given(q, jn)
    BY <1>1, FedBlock
  <1>4. /\ b.writes < Word \div 2 /\ c.writes < Word \div 2
        /\ Word \div 2 \in Nat /\ Word \div 2 <= Word
        /\ Word \in Nat \ {0}
    <2>1. p.block \notin Scramblers /\ q.block \notin Scramblers
      BY <1>1 DEF Sources, Scramblers
    <2>2. b.writes < Word \div 2 /\ c.writes < Word \div 2
      BY <2>1, FitsAt DEF LinkInv
    <2> QED BY <2>2, HalfAWord, LibraryAssumption
  <1>5. b.gives.size > 0 /\ b.gives.Ts > 0
    BY <1>1, <1>2 DEF Passed, Possible
  <1>6. d.Ts = b.gives.Ts /\ d.size >= b.gives.size /\ (WholeSymbols => d.size = b.gives.size)
    BY <1>2 DEF Keeps
  <1>7. p.block = "RaisedCosineTransmit" => a.Ts % p.upsampling = 0
    BY DEF WholeTimes
  <1>8. WholeSymbols /\ p.block = "MPSKModulator" => a.size % BitsPerSymbol(p.M) = 0
    BY DEF WholeSymbols
  <1>9. p.block = "ConvolutionalEncoder" \/ p.block = "TurboEncoder" \/ p.block = "MPSKModulator"
        \/ p.block = "RaisedCosineTransmit" \/ p.block = "BlockInterleaver"
    BY <1>1 DEF Transmitters
  <1>10. /\ a.size \in Nat \ {0} /\ a.size < Word /\ a.Ts \in Nat \ {0}
         /\ d.size \in Nat \ {0} /\ d.size < Word /\ d.Ts \in Nat \ {0}
    BY <1>2, <1>3, FrameIs
  <1>11. Undoes(q, p)
    OBVIOUS
  <1>12. c.gives.type \in Types
    BY <1>1, <1>3, GivesIs
  <1> HIDE DEF p, q, a, d, in, jn, n, jm, b, c
  <1>13. CASE p.block = "ConvolutionalEncoder"
    <2>1. q.block = "ConvolutionalDecoder" /\ InverseRate(p) = InverseRate(q)
          /\ p.constraint_length = q.constraint_length
      BY <1>11, <1>13 DEF Undoes
    <2>2. b.gives.Ts = a.Ts /\ b.gives.size = Coded(p, a.size)
      <3>0. ConvolutionalEncoderDoes(b, p, in, n)
        BY <1>2, <1>13, ConvolutionalEncoderIs
      <3>1. b.writes = Coded(p, n[1]) /\ b.gives.Ts = in[1].Ts
        BY <3>0 DEF ConvolutionalEncoderDoes
      <3>2. n[1] \in Nat => b.writes \in Nat
        BY <3>0 DEF ConvolutionalEncoderDoes
      <3>3. n[1] = in[1].size /\ b.writes < Word => b.gives.size = b.writes
        BY <3>0 DEF ConvolutionalEncoderDoes
      <3> QED BY <1>2, <1>4, <1>10, <3>1, <3>2, <3>3
    <2>3. InverseRate(p) # 0
      <3> SUFFICES ASSUME InverseRate(p) = 0 PROVE FALSE
        OBVIOUS
      <3>1. p.constraint_length \in Nat
        BY <1>2, <1>13, ConfiguredAssumption
      <3>2. Coded(p, a.size) = 0 * (a.size + p.constraint_length - 1)
        BY DEF Coded
      <3>3. Coded(p, a.size) = 0
        <4>1. a.size + p.constraint_length - 1 \in Int
          BY <1>10, <3>1
        <4>2. \A x \in Int : 0 * x = 0
          OBVIOUS
        <4> QED BY ONLY <3>2, <4>1, <4>2
      <3> QED BY <1>5, <2>2, <3>3
    <2>0. ConvolutionalDecoderDoes(c, q, jn, jm)
      BY ONLY <1>3, <2>1, ConvolutionalDecoderIs
    <2>4. c.sound = (InverseRate(q) # 0) /\ c.gives.Ts = jn[1].Ts /\ c.writes = Decoded(q, jm[1])
      <3>1. c.sound = (InverseRate(q) # 0)
        BY <2>0 DEF ConvolutionalDecoderDoes
      <3>2. c.gives.Ts = jn[1].Ts
        BY <2>0 DEF ConvolutionalDecoderDoes
      <3>3. c.writes = Decoded(q, jm[1])
        BY <2>0 DEF ConvolutionalDecoderDoes
      <3> QED BY ONLY <3>1, <3>2, <3>3
    <2>5. jm[1] = jn[1].size /\ c.writes >= 0 => c.gives.size = c.writes
      BY <2>0 DEF ConvolutionalDecoderDoes
    <2>6. d.size >= Coded(p, a.size)
      BY <1>6, <2>2
    <2>7. /\ Decoded(q, d.size) \in Nat /\ Decoded(q, d.size) >= a.size
          /\ d.size = Coded(p, a.size) => Decoded(q, d.size) = a.size
      BY <1>2, <1>3, <1>10, <1>13, <2>1, <2>3, <2>6, CodeRestored
    <2>8. c.gives.size = Decoded(q, d.size)
      BY <1>3, <2>4, <2>5, <2>7
    <2> QED BY <1>1, <1>3, <1>6, <1>12, <2>1, <2>2, <2>3, <2>4, <2>7, <2>8 DEF Keeps, p, q, a, c, d
  <1>14. CASE p.block = "TurboEncoder"
    <2>1. q.block = "TurboDecoder" /\ p.gen1 = q.gen1 /\ p.gen2 = q.gen2
          /\ p.constraint_length = q.constraint_length
      BY <1>11, <1>14 DEF Undoes
    <2>2. b.gives.Ts = a.Ts /\ b.gives.size = TurboCoded(p, a.size)
      <3>0. TurboEncoderDoes(b, p, in, n)
        BY <1>2, <1>14, TurboEncoderIs
      <3>1. b.gives.Ts = in[1].Ts
        BY <3>0 DEF TurboEncoderDoes
      <3>2. n[1] = in[1].size => b.writes = TurboCoded(p, in[1].size)
        BY <3>0 DEF TurboEncoderDoes
      <3>3. n[1] = in[1].size /\ b.writes < Word => b.gives.size = b.writes
        BY <3>0 DEF TurboEncoderDoes
      <3>4. TurboCoded(p, a.size) \in Nat
        BY <1>2, <1>10, <1>14, TurboNumbers
      <3> QED BY <1>2, <1>4, <3>1, <3>2, <3>3, <3>4
    <2>3. c.sound /\ c.gives.Ts = jn[1].Ts /\ c.gives.size = TurboDecoded(q, jn[1].size)
      <3>1. TurboDecoderDoes(c, q, jn, jm)
        BY <1>3, <2>1, TurboDecoderIs
      <3> QED BY <1>3, <2>1, <3>1 DEF TurboDecoderDoes
    <2>4. d.size >= TurboCoded(p, a.size)
      BY <1>6, <2>2
    <2>5. /\ TurboDecoded(q, d.size) \in Nat /\ TurboDecoded(q, d.size) >= a.size
          /\ d.size = TurboCoded(p, a.size) => TurboDecoded(q, d.size) = a.size
      BY <1>2, <1>3, <1>10, <1>14, <2>1, <2>4, TurboRestored
    <2> QED BY <1>1, <1>3, <1>6, <1>12, <2>1, <2>2, <2>3, <2>5
          DEF Keeps, p, q, a, c
  <1>15. CASE p.block = "MPSKModulator"
    <2> DEFINE bits == BitsPerSymbol(p.M)
               pad == Pad(p, a.size)
               symbols == Symbols(p, a.size)
    <2>1. q.block = "MPSKDemodulator" /\ p.M = q.M
      BY <1>11, <1>15 DEF Undoes
    <2>2. /\ bits \in Nat /\ pad \in Nat /\ symbols \in Nat
          /\ bits # 0 => /\ bits * symbols = a.size + pad
                         /\ a.size % bits = 0 => pad = 0
      BY <1>2, <1>10, <1>15, SymbolsAre
    <2>3. b.gives.Ts = a.Ts /\ b.sound = (bits # 0) /\ b.gives.size = symbols
      <3>0. MPSKModulatorDoes(b, p, in, n)
        BY <1>2, <1>15, MPSKModulatorIs
      <3>1. b.gives.Ts = in[1].Ts /\ b.sound = (bits # 0) /\ b.writes = Symbols(p, in[1].size)
        BY <3>0 DEF MPSKModulatorDoes
      <3>2. b.writes < Word => b.gives.size = b.writes
        BY <3>0 DEF MPSKModulatorDoes
      <3> QED BY <1>2, <1>4, <2>2, <3>1, <3>2
    <2>4. bits # 0
      BY <2>3 DEF Passed, b
    <2>5. c.sound /\ c.gives.Ts = jn[1].Ts /\ c.writes = BitsPerSymbol(q.M) * jm[1]
          /\ (jm[1] = jn[1].size /\ c.writes < Word => c.gives.size = c.writes)
      <3>1. MPSKDemodulatorDoes(c, q, jn, jm)
        BY <1>3, <2>1, MPSKDemodulatorIs
      <3> QED BY <1>3, <2>1, <3>1 DEF MPSKDemodulatorDoes
    <2> HIDE DEF bits, pad, symbols
    <2>6. bits * d.size \in Nat
      BY <1>10, <2>2, Product
    <2>7. c.gives.size = bits * d.size
      <3>1. c.writes = bits * d.size
        BY <1>3, <2>1, <2>5 DEF bits
      <3> QED BY <1>3, <1>4, <2>5, <2>6, <3>1
    <2>8. bits * symbols <= bits * d.size
      BY <1>6, <1>10, <2>2, <2>3, Monotone
    <2>9. c.gives.size >= a.size
      BY <1>10, <2>2, <2>4, <2>6, <2>7, <2>8
    <2>10. WholeSymbols => c.gives.size = a.size
      <3> SUFFICES ASSUME WholeSymbols PROVE c.gives.size = a.size
        OBVIOUS
      <3>1. pad = 0
        BY <1>8, <1>15, <2>2, <2>4 DEF bits
      <3>2. d.size = symbols
        BY <1>6, <2>3
      <3> QED BY <1>10, <2>2, <2>4, <2>7, <3>1, <3>2
    <2> QED BY <1>1, <1>3, <1>6, <1>12, <2>1, <2>3, <2>5, <2>9, <2>10
          DEF Keeps, p, q, a, c
  <1>16. CASE p.block = "RaisedCosineTransmit"
    <2> DEFINE u == p.upsampling
    <2>1. q.block = "RaisedCosineReceive" /\ q.downsampling = u
      BY <1>11, <1>16 DEF Undoes
    <2>2. /\ u \in Nat \ {0} /\ b.gives.Ts = in[1].Ts \div u /\ b.writes = n[1] * u
          /\ (n[1] \in Nat => b.writes \in Nat)
          /\ (n[1] = in[1].size /\ b.writes < Word => b.gives.size = b.writes)
      <3>1. RaisedCosineTransmitDoes(b, p, in, n)
        BY <1>2, <1>16, RaisedCosineTransmitIs
      <3> QED BY <1>2, <1>16, <3>1 DEF RaisedCosineTransmitDoes
    <2>3. b.gives.size = a.size * u /\ b.gives.Ts = a.Ts \div u
      BY <1>2, <1>4, <1>10, <2>2
    <2>4. /\ c.sound /\ c.gives.Ts = jn[1].Ts * u
          /\ c.writes = jn[1].size \div u /\ c.gives.size = c.writes
      <3>1. RaisedCosineReceiveDoes(c, q, jn, jm)
        BY <1>3, <2>1, RaisedCosineReceiveIs
      <3> QED BY <1>3, <2>1, <3>1 DEF RaisedCosineReceiveDoes
    <2> HIDE DEF u
    <2>5. c.gives.Ts = a.Ts
      <3>1. a.Ts % u = 0
        BY <1>7, <1>16 DEF u
      <3>2. a.Ts = u * (a.Ts \div u) + (a.Ts % u) /\ a.Ts \div u \in Nat
        BY <1>10, <2>2, Division
      <3>3. (a.Ts \div u) * u = u * (a.Ts \div u)
        BY <2>2, <3>2, SMTT(30)
      <3>4. u * (a.Ts \div u) \in Nat
        BY <2>2, <3>2, Product
      <3> QED BY <1>3, <1>6, <1>10, <2>3, <2>4, <3>1, <3>2, <3>3, <3>4
    <2>6. d.size >= a.size * u
      BY <1>6, <2>3
    <2>7. /\ d.size \div u \in Nat /\ d.size \div u >= a.size
          /\ d.size = a.size * u => d.size \div u = a.size
      BY <1>10, <2>2, <2>6, FilterRestored
    <2>8. c.gives.size = d.size \div u
      BY <1>3, <2>4
    <2> QED BY <1>1, <1>3, <1>6, <1>12, <2>1, <2>3, <2>4, <2>5, <2>7, <2>8
          DEF Keeps, p, q, a, c
  <1>17. CASE p.block = "BlockInterleaver"
    <2>1. q.block = "BlockDeinterleaver"
      BY <1>11, <1>17 DEF Undoes
    <2>2. b.gives.Ts = in[1].Ts /\ b.gives.size = in[1].size
      <3>1. StraightDoes(b, p, in, n)
        BY <1>2, <1>17, StraightIs DEF Straight
      <3> QED BY <1>2, <1>17, <3>1 DEF StraightDoes
    <2>3. c.sound /\ c.gives.Ts = jn[1].Ts /\ c.gives.size = jn[1].size
      <3>1. StraightDoes(c, q, jn, jm)
        BY <1>3, <2>1, StraightIs DEF Straight
      <3> QED BY <1>3, <2>1, <3>1 DEF StraightDoes
    <2> QED BY <1>1, <1>2, <1>3, <1>6, <1>12, <2>1, <2>2, <2>3 DEF Keeps, p, q, a, c
  <1> QED BY <1>9, <1>13, <1>14, <1>15, <1>16, <1>17

\* The block opened last on the way to the output of block i, if there is one, has its
\* output kept up to there, and what was open before it is open below it.
OpenInv(i) ==
    /\ Open[i] \in Seq(1..i)
    /\ Len(Open[i]) > 0 =>
          \E t \in 1..i : /\ blocks[t].block \in Transmitters
                          /\ Open[feeds[t][1]] \in Seq(1..t)
                          /\ Open[i] = Append(Open[feeds[t][1]], t)
                          /\ Keeps(declared[t], declared[i])

\* Blocks that others can be connected to: those that have set up output ports.
Connectable(i) ==
    i \in DOMAIN blocks /\ blocks[i].block \notin Sinks /\ (i < Len(blocks) \/ phase # "aborted")

\* A block is fed by a connectable one.
LEMMA EarlierConnectable ==
    ASSUME LinkInv, NEW i \in DOMAIN blocks, blocks[i].block \notin Sources
    PROVE  /\ Connectable(feeds[i][1]) /\ feeds[i][1] \in 1..(i - 1) /\ i \in Nat
           /\ feeds[i][1] \in Nat /\ feeds[i][1] < i
  <1>1. feeds[i][1] \in 1..(i - 1) /\ feeds[i][1] \in DOMAIN blocks
        /\ blocks[feeds[i][1]].block \notin Sinks
    BY FedBlock
  <1>2. i \in 1..Len(blocks) /\ Len(blocks) \in Nat
    BY Domains DEF LinkInv
  <1> QED BY <1>1, <1>2 DEF Connectable

\* A connectable block has declared a proper signal.
LEMMA ConnectableIsProper ==
    ASSUME LinkInv, NEW i, Connectable(i)
    PROVE  Proper(declared[i]) /\ Passed(i) /\ declared[i].Ts \in Nat /\ declared[i].size \in Nat
  <1>1. Proper(declared[i])
    BY EarlierProper DEF LinkInv, Connectable
  <1>2. Passed(i)
    BY DEF LinkInv, PhaseInv, Connectable
  <1> QED BY <1>1, <1>2 DEF Proper

\* What a receiver undoes is the input of the block opened last before it.
LEMMA UndoneKeeps ==
    ASSUME LinkInv, Fits, WholeTimes, NEW j \in DOMAIN blocks, blocks[j].block \in Receivers,
           OpenInv(feeds[j][1]), NEW t, t = Open[feeds[j][1]][Len(Open[feeds[j][1]])],
           Len(Open[feeds[j][1]]) > 0, Undoes(blocks[j], blocks[t])
    PROVE  /\ t \in DOMAIN blocks /\ t <= feeds[j][1] /\ t \in Nat
           /\ blocks[t].block \in Transmitters /\ blocks[t].block \notin Sources
           /\ Open[feeds[j][1]] = Append(Open[feeds[t][1]], t)
           /\ Open[feeds[t][1]] \in Seq(1..t)
           /\ Keeps(Input(t), declared[j])
           /\ At(j).sound /\ declared[j].type \in Types
           /\ Connectable(t)
           /\ Keeps(declared[t], Input(j))
           /\ blocks[j].block = "ConvolutionalDecoder" =>
                 Decoded(blocks[j], Input(j).size) = declared[j].size
  <1> DEFINE f == feeds[j][1]
  <1>1. blocks[j].block \notin Sources
    BY DEF Receivers, Sources, Scramblers
  <1>2. Connectable(f) /\ f \in 1..(j - 1) /\ j \in Nat /\ f < j /\ f \in Nat
    BY <1>1, EarlierConnectable
  <1>3. PICK u \in 1..f : /\ blocks[u].block \in Transmitters
                          /\ Open[feeds[u][1]] \in Seq(1..u)
                          /\ Open[f] = Append(Open[feeds[u][1]], u)
                          /\ Keeps(declared[u], declared[f])
    BY DEF OpenInv
  <1>4. u \in DOMAIN blocks /\ u < Len(blocks)
    <2>1. DOMAIN blocks = 1..Len(blocks) /\ Len(blocks) \in Nat
      BY Domains DEF LinkInv
    <2> QED BY <1>2, <2>1
  <1>5. Open[f] \in Seq(1..f)
    BY DEF OpenInv
  <1>6. u = t
    <2> DEFINE s == Open[f]
               r == Open[feeds[u][1]]
    <2>1. s = Append(r, u) /\ t = s[Len(s)] /\ r \in Seq(1..u) /\ u \in 1..u
      BY <1>2, <1>3
    <2> HIDE DEF s, r
    <2>2. Append(r, u)[Len(Append(r, u))] = u
      BY <2>1, LastIsRemoved
    <2> QED BY <2>1, <2>2
  <1>7. /\ t \in DOMAIN blocks /\ t <= f /\ t \in Nat /\ t < Len(blocks)
        /\ blocks[t].block \in Transmitters /\ Open[f] = Append(Open[feeds[t][1]], t)
        /\ Open[feeds[t][1]] \in Seq(1..t)
        /\ Keeps(declared[t], Input(j))
    <2>1. t \in DOMAIN blocks /\ t <= f /\ t \in Nat /\ t < Len(blocks)
      BY <1>2, <1>4, <1>6
    <2>2. /\ blocks[t].block \in Transmitters /\ Open[f] = Append(Open[feeds[t][1]], t)
          /\ Open[feeds[t][1]] \in Seq(1..t)
      BY <1>3, <1>6
    <2>3. Keeps(declared[t], Input(j))
      BY <1>3, <1>6, Zenon DEF Input
    <2> QED BY <2>1, <2>2, <2>3
  <1>8. blocks[t].block \notin Sources /\ blocks[t].block \notin Sinks
    BY <1>7 DEF Transmitters, Sources, Scramblers, Sinks
  <1>9. Connectable(t)
    BY <1>7, <1>8 DEF Connectable
  <1>10. Passed(t)
    BY <1>9, ConnectableIsProper
  <1>11. /\ Keeps(Input(t), declared[j]) /\ At(j).sound /\ declared[j].type \in Types
         /\ blocks[j].block = "ConvolutionalDecoder" =>
               Decoded(blocks[j], Input(j).size) = declared[j].size
    BY <1>7, <1>10, UndoneIs
  <1> QED BY <1>7, <1>8, <1>9, <1>11

\* OpenInv holds of a block if it holds of all earlier ones: a source opens nothing, a
\* block of the transmitter opens itself, one of the receiver closes what it undoes or
\* forgets all, and the others hand on.
LEMMA OpenStep ==
    ASSUME LinkInv, Fits, WholeTimes, NEW i, Connectable(i),
           \A k : Connectable(k) /\ k < i => OpenInv(k)
    PROVE  OpenInv(i)
  <1> DEFINE p == blocks[i]
             f == feeds[i][1]
             before == OpenBefore(Open, i)
  <1>1. /\ i \in DOMAIN blocks /\ p \in Library /\ p.block \notin Sinks /\ i \in Nat /\ i \in 1..i
    <2>1. i \in 1..Len(blocks) /\ Len(blocks) \in Nat
      BY Domains DEF LinkInv, Connectable
    <2> QED BY <2>1 DEF Connectable, LinkInv, LinkShape
  <1>2. Open[i] = OpenAfter(i, before)
    BY <1>1, OpenIs DEF LinkInv
  <1>3. CASE p.block \in Sources
    <2>1. feeds[i] = <<>>
      BY <1>1, <1>3, FedBefore DEF LinkInv
    <2>2. before = <<>>
      BY <2>1 DEF OpenBefore
    <2>3. p.block \notin Transmitters /\ p.block \notin Receivers
      BY <1>3 DEF Sources, Scramblers, Transmitters, Receivers
    <2>4. Open[i] = <<>>
      BY <1>2, <2>2, <2>3 DEF OpenAfter
    <2> QED BY <2>4 DEF OpenInv
  <1>4. CASE p.block \notin Sources
    <2>1. /\ Connectable(f) /\ f \in 1..(i - 1) /\ f < i /\ f \in Nat /\ feeds[i] # <<>>
      BY <1>1, <1>4, EarlierConnectable, FedBlock
    <2>2. OpenInv(f)
      BY <2>1
    <2>3. before = Open[f] /\ before \in Seq(1..f) /\ before \in Seq(1..i)
      <3>1. before = Open[f] /\ before \in Seq(1..f)
        BY <2>1, <2>2 DEF OpenInv, OpenBefore
      <3>2. 1..f \subseteq 1..i
        BY <1>1, <2>1
      <3> QED BY <3>1, <3>2, SeqOfMore
    <2>4. declared[i].size \in Nat /\ declared[f].size \in Nat
      BY <2>1, ConnectableIsProper
    <2>5. CASE p.block \in Transmitters
      <3>1. Open[i] = Append(Open[feeds[i][1]], i)
        BY <1>2, <2>3, <2>5 DEF OpenAfter
      <3>2. Open[i] \in Seq(1..i)
        BY <1>1, <2>3, <3>1
      <3>3. Keeps(declared[i], declared[i])
        BY <2>4 DEF Keeps
      <3> HIDE DEF before
      <3> QED BY <1>1, <2>3, <2>5, <3>1, <3>2, <3>3 DEF OpenInv, f
    <2>6. CASE p.block \notin Transmitters /\ p.block \notin Receivers
      <3>1. Open[i] = Open[f]
        BY <1>2, <2>3, <2>6 DEF OpenAfter
      <3>2. p.block \in Straight
        BY <1>1, <1>4, <2>6, Kinds DEF Straight, Transmitters, Receivers
      <3>3. Keeps(declared[f], declared[i])
        <4> DEFINE in == Signals(feeds[i])
                   n == Sizes(in)
                   b == At(i)
        <4>1. Does(b, p, in, n) /\ Proper(in[1]) /\ in[1] = declared[f] /\ declared[i] = b.gives
          BY <1>1, <1>4, FedBlock DEF Input
        <4> HIDE DEF in, n, b
        <4>2. b.gives.Ts = in[1].Ts /\ b.gives.size = in[1].size
          <5>1. StraightDoes(b, p, in, n)
            BY <3>2, <4>1, StraightIs
          <5> QED BY <3>2, <4>1, <5>1 DEF StraightDoes
        <4> QED BY <2>4, <4>1, <4>2 DEF Keeps
      <3>4. ASSUME Len(Open[i]) > 0
            PROVE  \E t \in 1..i : /\ blocks[t].block \in Transmitters
                                   /\ Open[feeds[t][1]] \in Seq(1..t)
                                   /\ Open[i] = Append(Open[feeds[t][1]], t)
                                   /\ Keeps(declared[t], declared[i])
        <4>1. PICK t \in 1..f : /\ blocks[t].block \in Transmitters
                                /\ Open[feeds[t][1]] \in Seq(1..t)
                                /\ Open[f] = Append(Open[feeds[t][1]], t)
                                /\ Keeps(declared[t], declared[f])
          BY <2>2, <3>1, <3>4 DEF OpenInv
        <4>2. t \in 1..i /\ t <= f /\ t \in Nat
          BY <1>1, <2>1
        <4>3. Connectable(t)
          <5>1. DOMAIN blocks = 1..Len(blocks) /\ Len(blocks) \in Nat
            BY Domains DEF LinkInv
          <5>2. t \in DOMAIN blocks /\ t < Len(blocks)
            BY <1>1, <2>1, <4>2, <5>1
          <5>3. blocks[t].block \notin Sinks
            BY <4>1 DEF Transmitters, Sinks
          <5> QED BY <5>2, <5>3 DEF Connectable
        <4>4. declared[t].size \in Nat
          BY <4>3, ConnectableIsProper
        <4>5. Keeps(declared[t], declared[i])
          BY <2>4, <3>3, <4>1, <4>4, KeepsOnward
        <4> QED BY <3>1, <4>1, <4>2, <4>5
      <3>5. Open[i] \in Seq(1..i)
        BY <2>3, <3>1
      <3> QED BY <3>4, <3>5 DEF OpenInv
    <2>7. CASE p.block \in Receivers
      <3> DEFINE t == before[Len(before)]
      <3>1. p.block \notin Transmitters
        BY <2>7 DEF Transmitters, Receivers
      <3>2. CASE Len(before) > 0 /\ Undoes(p, blocks[t])
        <4>1. Open[i] = SubSeq(before, 1, Len(before) - 1)
          BY <1>2, <2>7, <3>1, <3>2 DEF OpenAfter
        <4>2. /\ t \in DOMAIN blocks /\ t <= f /\ t \in Nat
              /\ blocks[t].block \notin Sources
              /\ Open[f] = Append(Open[feeds[t][1]], t)
              /\ Open[feeds[t][1]] \in Seq(1..t)
              /\ Keeps(Input(t), declared[i])
          <5>1. t = Open[f][Len(Open[f])] /\ Len(Open[f]) > 0
            BY <2>3, <3>2
          <5> HIDE DEF t, f
          <5>2. Undoes(blocks[i], blocks[t])
            BY <3>2
          <5>3. p.block \in Receivers /\ i \in DOMAIN blocks /\ OpenInv(feeds[i][1])
            BY <1>1, <2>2, <2>7 DEF f
          <5> QED BY <5>1, <5>2, <5>3, UndoneKeeps DEF f
        <4> DEFINE e == feeds[t][1]
        <4> HIDE DEF t, before, f
        <4>3. Connectable(e) /\ e \in 1..(t - 1) /\ e < t /\ e \in Nat
          BY <4>2, EarlierConnectable
        <4>4. OpenInv(e)
          BY <1>1, <2>1, <4>2, <4>3
        <4>5. Open[i] = Open[e]
          <5>1. t \in 1..t
            BY <4>2, <4>3
          <5> HIDE DEF e
          <5>2. SubSeq(Append(Open[e], t), 1, Len(Append(Open[e], t)) - 1) = Open[e]
            BY <4>2, <5>1, LastIsRemoved DEF e
          <5> QED BY <2>3, <4>1, <4>2, <5>2 DEF e
        <4>6. Keeps(declared[e], declared[i])
          BY <4>2 DEF Input
        <4>7. declared[e].size \in Nat /\ e < i
          BY <1>1, <2>1, <4>2, <4>3, ConnectableIsProper
        <4> HIDE DEF e
        <4>8. Open[i] \in Seq(1..i)
          <5>1. 1..e \subseteq 1..i
            BY <1>1, <4>3, <4>7
          <5>2. Open[e] \in Seq(1..e)
            BY <4>4 DEF OpenInv
          <5> QED BY <4>5, <5>1, <5>2, SeqOfMore
        <4>9. ASSUME Len(Open[i]) > 0
              PROVE  \E u \in 1..i : /\ blocks[u].block \in Transmitters
                                     /\ Open[feeds[u][1]] \in Seq(1..u)
                                     /\ Open[i] = Append(Open[feeds[u][1]], u)
                                     /\ Keeps(declared[u], declared[i])
          <5>1. PICK u \in 1..e : /\ blocks[u].block \in Transmitters
                                  /\ Open[feeds[u][1]] \in Seq(1..u)
                                  /\ Open[e] = Append(Open[feeds[u][1]], u)
                                  /\ Keeps(declared[u], declared[e])
            BY <4>4, <4>5, <4>9 DEF OpenInv
          <5>2. u \in 1..i /\ u <= e /\ u \in Nat
            BY <1>1, <4>3, <4>7
          <5>3. Connectable(u)
            <6>1. DOMAIN blocks = 1..Len(blocks) /\ Len(blocks) \in Nat
              BY Domains DEF LinkInv
            <6>2. u \in DOMAIN blocks /\ u < Len(blocks)
              BY <1>1, <4>3, <4>7, <5>2, <6>1
            <6>3. blocks[u].block \notin Sinks
              BY <5>1 DEF Transmitters, Sinks
            <6> QED BY <6>2, <6>3 DEF Connectable
          <5>4. declared[u].size \in Nat
            BY <5>3, ConnectableIsProper
          <5>5. Keeps(declared[u], declared[i])
            BY <2>4, <4>6, <4>7, <5>1, <5>4, KeepsOnward
          <5> QED BY <4>5, <5>1, <5>2, <5>5
        <4> QED BY <4>8, <4>9 DEF OpenInv
      <3>3. CASE ~(Len(before) > 0 /\ Undoes(p, blocks[t]))
        <4>1. Open[i] = <<>>
          BY <1>2, <2>7, <3>1, <3>3 DEF OpenAfter
        <4> QED BY <4>1 DEF OpenInv
      <3> QED BY <3>2, <3>3
    <2> QED BY <2>5, <2>6, <2>7
  <1> QED BY <1>3, <1>4

\* So it holds of all connectable blocks.
LEMMA OpenAlways ==
    ASSUME LinkInv, Fits, WholeTimes
    PROVE  \A i : Connectable(i) => OpenInv(i)
  <1> DEFINE S == {n \in Nat : \A i : Connectable(i) /\ i <= n => OpenInv(i)}
  <1>1. \A i : Connectable(i) => i \in Nat /\ i > 0
    <2>1. DOMAIN blocks = 1..Len(blocks) /\ Len(blocks) \in Nat
      BY Domains DEF LinkInv
    <2> QED BY <2>1 DEF Connectable
  <1>2. 0 \in S
    BY <1>1
  <1>3. ASSUME NEW n \in S PROVE n + 1 \in S
    <2> SUFFICES ASSUME NEW i, Connectable(i), i <= n + 1 PROVE OpenInv(i)
      OBVIOUS
    <2>1. ASSUME NEW k, Connectable(k), k < i PROVE OpenInv(k)
      <3>1. k <= n
        BY <1>1, <2>1
      <3> QED BY <2>1, <3>1
    <2> QED BY <2>1, OpenStep
  <1>4. S \in SUBSET Nat
    OBVIOUS
  <1>5. S = Nat
    <2> HIDE DEF S
    <2> QED BY <1>2, <1>3, <1>4, InductionOnSet
  <1> QED BY <1>1, <1>5

\* What is known of a receiver block that undoes one of the transmitter.
LEMMA UndoneBlock ==
    ASSUME LinkInv, Fits, WholeTimes, NEW j \in DOMAIN blocks, blocks[j].block \in Receivers,
           Undone(j) # 0
    PROVE  /\ Undone(j) \in DOMAIN blocks
           /\ Undoes(blocks[j], blocks[Undone(j)])
           /\ blocks[Undone(j)].block \in Transmitters
           /\ Connectable(Undone(j))
           /\ Keeps(declared[Undone(j)], Input(j))
           /\ Keeps(Input(Undone(j)), declared[j])
           /\ At(j).sound /\ declared[j].type \in Types
           /\ blocks[j].block = "ConvolutionalDecoder" =>
                 Decoded(blocks[j], Input(j).size) = declared[j].size
  <1> DEFINE f == feeds[j][1]
             t == Open[f][Len(Open[f])]
  <1>1. Len(Open[f]) > 0 /\ Undoes(blocks[j], blocks[t]) /\ Undone(j) = t
    BY DEF Undone
  <1>2. OpenInv(f)
    <2>1. blocks[j].block \notin Sources
      BY DEF Receivers, Sources, Scramblers
    <2> QED BY <2>1, EarlierConnectable, OpenAlways
  <1> HIDE DEF t
  <1>3. /\ t \in DOMAIN blocks /\ blocks[t].block \in Transmitters
        /\ Keeps(Input(t), declared[j])
        /\ At(j).sound /\ declared[j].type \in Types
        /\ Connectable(t)
        /\ Keeps(declared[t], Input(j))
        /\ blocks[j].block = "ConvolutionalDecoder" =>
              Decoded(blocks[j], Input(j).size) = declared[j].size
    BY <1>1, <1>2, UndoneKeeps DEF t
  <1> QED BY <1>1, <1>3

\* In a link of any blocks, nested and branched in any way, that writes no frames too long
\* for a vector: what a block of the transmitter does to a frame, the block of the receiver
\* that undoes it does undo.  The sample time is the same again, no sample is lost, and none
\* is gained unless the modulator has padded the frame (setup_output_ports of these blocks).
THEOREM ReceiversRestore == Spec => [](Fits /\ WholeTimes => Restored)
  <1>1. LinkInv => (Fits /\ WholeTimes => Restored)
    <2> SUFFICES ASSUME LinkInv, Fits, WholeTimes, NEW j \in DOMAIN blocks,
                        blocks[j].block \in Receivers, Undone(j) # 0
                 PROVE  Keeps(Input(Undone(j)), declared[j])
      BY DEF Restored, Keeps
    <2> QED BY UndoneBlock
  <1> QED BY <1>1, LinkInvAlways, PTL

-----------------------------------------------------------------------------
(* Links used as they are meant to be run *)

\* The first four powers of two, among the first sixteen.
LEMMA PowersOfTwo ==
    ASSUME NEW k \in 1..16
    PROVE  \A j \in 1..4 : 2^k <= 2^j <=> k <= j
  <1> DEFINE P(i) == 2^i
  <1>1. P(1) = 2 /\ P(2) = 4 /\ P(3) = 8 /\ P(4) = 16
    OBVIOUS
  <1>2. P(5) = 32 /\ P(6) = 64 /\ P(7) = 128 /\ P(8) = 256
        /\ P(9) = 512 /\ P(10) = 1024 /\ P(11) = 2048 /\ P(12) = 4096
    OBVIOUS
  <1>3. P(13) = 8192 /\ P(14) = 16384 /\ P(15) = 32768 /\ P(16) = 65536
    OBVIOUS
  <1>4. k = 1 \/ k = 2 \/ k = 3 \/ k = 4 \/ k = 5 \/ k = 6 \/ k = 7 \/ k = 8 \/ k = 9 \/ k = 10
        \/ k = 11 \/ k = 12 \/ k = 13 \/ k = 14 \/ k = 15 \/ k = 16
    OBVIOUS
  <1> HIDE DEF P
  <1>5. ASSUME k <= 4 PROVE \A j \in 1..4 : P(k) <= P(j) <=> k <= j
    <2>1. k = 1 \/ k = 2 \/ k = 3 \/ k = 4
      BY <1>5
    <2>2. \A j \in 1..4 : j = 1 \/ j = 2 \/ j = 3 \/ j = 4
      OBVIOUS
    <2>3. \A j \in 1..4 : P(k) <= P(j) <=> k <= j
      BY <1>1, <2>1, <2>2
    <2> QED BY <2>3
  <1>6. ASSUME k > 4 PROVE \A j \in 1..4 : P(k) <= P(j) <=> k <= j
    <2>1. P(k) > 16
      BY <1>2, <1>3, <1>4, <1>6
    <2>2. \A j \in 1..4 : j = 1 \/ j = 2 \/ j = 3 \/ j = 4
      OBVIOUS
    <2>3. \A j \in 1..4 : P(j) \in Int /\ P(j) <= 16
      BY <1>1, <2>2
    <2>4. P(k) \in Int
      BY <1>2, <1>3, <1>4, <1>6
    <2>5. \A j \in 1..4 : ~(P(k) <= P(j)) /\ ~(k <= j)
      BY <1>6, <2>1, <2>3, <2>4
    <2>6. \A j \in 1..4 : P(k) <= P(j) <=> k <= j
      BY <2>5
    <2> QED BY <2>6
  <1>7. \A j \in 1..4 : P(k) <= P(j) <=> k <= j
    BY <1>5, <1>6
  <1> QED BY <1>7 DEF P

\* M-PSK with 2, 4, 8 or 16 points has 1, 2, 3 or 4 bits per symbol (MPSKModulator,
\* setup_output_ports).
LEMMA BitsOfTheKnown ==
    ASSUME NEW M \in {2, 4, 8, 16}
    PROVE  BitsPerSymbol(M) \in 1..4 /\ M = 2^BitsPerSymbol(M)
  <1>1. PICK j \in 1..4 : M = 2^j /\ j <= M
    <2>1. 2 = 2^1 /\ 4 = 2^2 /\ 8 = 2^3 /\ 16 = 2^4
      OBVIOUS
    <2> QED BY <2>1
  <1> DEFINE s == {k \in 1..M : 2^k <= M}
  <1>2. ASSUME NEW k \in 1..M PROVE 2^k <= M <=> k <= j
    <2>1. k \in 1..16
      OBVIOUS
    <2> QED BY <1>1, <2>1, PowersOfTwo
  <1>3. s = 1..j
    <2>1. s = {k \in 1..M : k <= j}
      BY <1>2
    <2>2. {k \in 1..M : k <= j} = 1..j
      BY <1>1
    <2> HIDE DEF s
    <2> QED BY <2>1, <2>2
  <1>4. Cardinality(s) = j
    <2> HIDE DEF s
    <2>1. Cardinality(1..j) = j
      <3>1. Cardinality(1..j) = IF 1 > j THEN 0 ELSE j - 1 + 1
        BY FS_Interval
      <3> QED BY <3>1
    <2> QED BY <1>3, <2>1
  <1> QED BY <1>1, <1>4 DEF BitsPerSymbol

\* All blocks of the link are used as they are meant to be, without filled-up frames, in a
\* step the scrambling sequences last for.
AsMeant == WholeSymbols /\ FullMatrices /\ SequencesLast /\ \A i \in DOMAIN blocks : Sensible(i)

\* Block i can be added and initialized, and processes frames of the declared sizes.
Runs(i) == Passed(i) /\ At(i).starts /\ At(i).works

\* When a signal is possible.
LEMMA PossibleIs ==
    ASSUME NEW sig, sig.type \in Types, sig.Ts > 0, sig.size > 0, sig.size < Word \div 2
    PROVE  Possible(sig)
  BY DEF Possible, Types

\* Sources and sinks run.
LEMMA EndsRun ==
    ASSUME LinkInv, Fits, WholeTimes, AsMeant, NEW i \in DOMAIN blocks,
           blocks[i].block \in Sources \cup Sinks
    PROVE  Runs(i)
  <1> DEFINE p == blocks[i]
             in == Signals(feeds[i])
             n == Sizes(in)
             b == At(i)
  <1>1. /\ b = Block(p, in, n, Beginning) /\ declared[i] = b.gives /\ b.writes < Word \div 2
        /\ p \in Library /\ Does(b, p, in, n)
    BY FitsAt DEF At, AsMeant, LinkInv, DeclaredInv, LinkShape, Does
  <1>2. p.block = "RandomUniformBitGenerator" => p.lo <= p.hi
    BY DEF AsMeant, Sensible
  <1> HIDE DEF in, n, b
  <1>3. CASE p.block \in Sources
    <2>1. /\ b.sound /\ b.works
          /\ b.gives.type \in Types /\ b.gives.Ts \in Nat \ {0}
          /\ b.gives.size = p.framesize
          /\ p.framesize \in 1..(Word - 1)
          /\ p.block = "RandomUniformBitGenerator" => b.writes = p.framesize
          /\ p.block = "RandomUniformBitGenerator" => b.starts = (p.lo <= p.hi)
          /\ p.block # "RandomUniformBitGenerator" => b.starts
      BY <1>1, <1>3, SourceIs
    <2>5. b.writes = p.framesize
      <3>1. CASE p.block \in Scramblers
        <4>1. start[i] + p.framesize <= SequenceLength /\ start[i] \in Places
          BY <3>1, StartIs DEF AsMeant, SequencesLast, LinkInv
        <4>2. Beginning \in Places /\ Beginning + p.framesize <= SequenceLength
          BY <2>1, <4>1, LibraryAssumption DEF Places, Beginning
        <4> QED BY <1>1, <3>1, <4>2, ScramblerWrites DEF Places
      <3>2. CASE p.block \notin Scramblers
        BY <1>3, <2>1, <3>2 DEF Sources, Scramblers
      <3> QED BY <3>1, <3>2
    <2>2. b.gives.Ts > 0 /\ b.gives.size > 0 /\ b.gives.size < Word \div 2
      BY <1>1, <2>1, <2>5
    <2>3. Possible(declared[i])
      BY <1>1, <2>1, <2>2, PossibleIs
    <2>4. b.starts
      BY <1>2, <2>1
    <2> QED BY <2>1, <2>3, <2>4 DEF Runs, Passed, b
  <1>4. CASE p.block \in Sinks
    <2>1. b.sound /\ b.works /\ b.starts
      BY <1>1, <1>4, SinkIs
    <2> QED BY <1>4, <2>1 DEF Runs, Passed, b
  <1> QED BY <1>3, <1>4

\* Blocks that hand signals on run.
LEMMA StraightRun ==
    ASSUME LinkInv, Fits, WholeTimes, AsMeant, NEW i \in DOMAIN blocks,
           blocks[i].block \in Straight
    PROVE  Runs(i)
  <1> DEFINE p == blocks[i]
             in == Signals(feeds[i])
             n == Sizes(in)
             b == At(i)
  <1>1. p.block \notin Sources
    BY DEF Straight, Sources, Scramblers
  <1>2. /\ Does(b, p, in, n) /\ declared[i] = b.gives /\ p \in Library
        /\ Proper(in[1]) /\ in[1] = Input(i) /\ n[1] = in[1].size
    BY <1>1, FedBlock
  <1>3. Sensible(i)
    BY DEF AsMeant
  <1>4. /\ p.block = "FadingChannel" => p.profile <= 13 /\ p.tail \in 1..in[1].size
        /\ p.block \in {"Arithmetic", "ComposeComplex"} => SameSamples(in, n)
        /\ p.block = "ComposeComplex" => in[1].type # "complex"
    <2>1. p.block = "FadingChannel" => p.profile <= 13 /\ p.tail \in 1..in[1].size
      BY <1>2, <1>3 DEF Sensible
    <2>2. p.block = "ComposeComplex" => in[1].type # "complex"
      BY <1>2, <1>3 DEF Sensible
    <2>3. ASSUME p.block \in {"Arithmetic", "ComposeComplex"} PROVE SameSamples(in, n)
      <3>1. \A k \in DOMAIN feeds[i] : /\ declared[feeds[i][k]].type = Input(i).type
                                       /\ declared[feeds[i][k]].size = Input(i).size
        BY <1>3, <2>3 DEF Sensible
      <3>2. DOMAIN in = DOMAIN feeds[i] /\ \A k \in DOMAIN in : in[k] = declared[feeds[i][k]]
        BY DEF Signals
      <3>3. \A k \in DOMAIN in : n[k] = in[k].size
        BY DEF Sizes
      <3>4. \A k \in DOMAIN in : in[k].type = in[1].type /\ n[k] = n[1]
        <4> HIDE DEF in, n
        <4> QED BY <1>2, <3>1, <3>2, <3>3
      <3> HIDE DEF in, n
      <3> QED BY <3>4 DEF SameSamples
    <2> QED BY <2>1, <2>2, <2>3
  <1> HIDE DEF in, n, b
  <1>0. StraightDoes(b, p, in, n)
    BY <1>2, StraightIs
  <1>5. /\ b.sound /\ b.gives.type \in Types /\ b.gives.Ts = in[1].Ts /\ b.gives.size = in[1].size
    BY <1>0 DEF StraightDoes
  <1>6. b.starts
    <2>1. /\ p.block # "FadingChannel" => b.starts
          /\ p.block = "FadingChannel" => (b.starts = (p.profile <= 13))
      BY <1>0 DEF StraightDoes
    <2> QED BY <1>4, <2>1
  <1>7. b.works
    <2>1. p.block \in {"AWGNChannel", "ConjugateComplex", "Fork", "BlockInterleaver",
                       "BlockDeinterleaver"} => b.works
      BY <1>0 DEF StraightDoes
    <2>2. p.block = "FadingChannel" => (b.works = (n[1] = in[1].size /\ p.tail \in 1..in[1].size))
      BY <1>0 DEF StraightDoes
    <2>3. p.block = "Arithmetic" => (b.works = SameSamples(in, n))
      BY <1>0 DEF StraightDoes
    <2>4. p.block = "ComposeComplex" =>
              (b.works = (in[1].type # "complex" /\ SameSamples(in, n)))
      BY <1>0 DEF StraightDoes
    <2> QED BY <1>2, <1>4, <2>1, <2>2, <2>3, <2>4 DEF Straight
  <1>8. Possible(declared[i])
    <2>1. in[1].Ts > 0 /\ in[1].size > 0 /\ in[1].size < Word \div 2
      BY <1>2 DEF Proper, Possible
    <2> QED BY <1>2, <1>5, <2>1, PossibleIs
  <1> QED BY <1>5, <1>6, <1>7, <1>8 DEF Runs, Passed, b

\* The blocks of a transmitter run.
LEMMA TransmittersRun ==
    ASSUME LinkInv, Fits, WholeTimes, AsMeant, NEW i \in DOMAIN blocks,
           blocks[i].block \in Transmitters
    PROVE  Runs(i)
  <1> DEFINE p == blocks[i]
             in == Signals(feeds[i])
             n == Sizes(in)
             b == At(i)
             size == in[1].size
  <1>1. p.block \notin Sources /\ p.block \notin Sinks
    BY DEF Transmitters, Sources, Scramblers, Sinks
  <1>2. /\ Does(b, p, in, n) /\ declared[i] = b.gives /\ p \in Library /\ Given(p, in)
        /\ Proper(in[1]) /\ in[1] = Input(i) /\ n[1] = in[1].size
    BY <1>1, FedBlock
  <1>3. b.writes < Word \div 2 /\ Word \div 2 \in Nat /\ Word \div 2 <= Word /\ Word \in Nat
    <2>1. b.writes < Word \div 2
      BY <1>1, FitsAt DEF Sources, Scramblers, LinkInv
    <2> QED BY <2>1, HalfAWord, LibraryAssumption
  <1>4. /\ p.block = "ConvolutionalEncoder" =>
              <<InverseRate(p), p.constraint_length>> \in KnownCodes
        /\ p.block = "TurboEncoder" => size \in TurboFrames
        /\ p.block = "MPSKModulator" => p.M \in {2, 4, 8, 16}
    BY <1>2 DEF AsMeant, Sensible
  <1>5. p.block = "RaisedCosineTransmit" => in[1].Ts % p.upsampling = 0
    BY <1>2 DEF WholeTimes
  <1>6. size \in Nat \ {0} /\ in[1].Ts \in Nat \ {0} /\ size < Word
    BY <1>2, FrameIs
  <1> HIDE DEF in, n, b, size
  <1>7. b.gives.type \in Types
    BY <1>1, <1>2, GivesIs
  <1>8. ASSUME b.sound, b.starts, b.works, b.gives.Ts > 0, b.gives.size > 0,
               b.gives.size < Word \div 2
        PROVE  Runs(i)
    <2>1. Possible(declared[i])
      BY <1>2, <1>7, <1>8, PossibleIs
    <2> QED BY <1>8, <2>1 DEF Runs, Passed, b
  <1>9. CASE p.block = "ConvolutionalEncoder"
    <2>1. InverseRate(p) \in Nat \ {0} /\ p.constraint_length \in Nat \ {0}
      <3>1. InverseRate(p) \in Nat \ {0}
        BY <1>4, <1>9, LibraryAssumption
      <3> QED BY <1>2, <1>9, <3>1, ConfiguredAssumption
    <2>2. Coded(p, size) \in Nat \ {0}
      <3>1. size + p.constraint_length - 1 \in Nat \ {0}
        BY <1>6, <2>1
      <3> QED BY <2>1, <3>1, PositiveProduct DEF Coded
    <2>3. /\ b.sound /\ b.works
          /\ b.starts = (<<InverseRate(p), p.constraint_length>> \in KnownCodes)
          /\ b.gives.Ts = in[1].Ts
          /\ b.writes = Coded(p, n[1])
          /\ n[1] = in[1].size /\ b.writes < Word => b.gives.size = b.writes
      <3>1. ConvolutionalEncoderDoes(b, p, in, n)
        BY <1>2, <1>9, ConvolutionalEncoderIs
      <3> QED BY <1>2, <1>9, <3>1 DEF ConvolutionalEncoderDoes
    <2>4. b.writes = Coded(p, size)
      BY <1>2, <2>3 DEF size
    <2>5. b.gives.size = b.writes
      BY <1>2, <1>3, <2>2, <2>3, <2>4
    <2>6. b.starts
      BY <1>4, <1>9, <2>3
    <2> QED BY <1>3, <1>6, <1>8, <2>2, <2>3, <2>4, <2>5, <2>6
  <1>10. CASE p.block = "TurboEncoder"
    <2>1. /\ b.sound /\ b.works /\ b.starts = (in[1].size \in TurboFrames) /\ b.gives.Ts = in[1].Ts
          /\ n[1] = in[1].size => b.writes = TurboCoded(p, in[1].size)
          /\ n[1] = in[1].size /\ b.writes < Word => b.gives.size = b.writes
      <3>1. TurboEncoderDoes(b, p, in, n)
        BY <1>2, <1>10, TurboEncoderIs
      <3> QED BY <1>2, <1>10, <3>1 DEF TurboEncoderDoes
    <2>2. b.writes = TurboCoded(p, size) /\ TurboCoded(p, size) \in Nat \ {0}
      BY <1>2, <1>6, <1>10, <2>1, TurboNumbers DEF size
    <2>3. b.starts
      BY <1>4, <1>10, <2>1 DEF size
    <2>4. b.gives.size = b.writes
      BY <1>2, <1>3, <2>1, <2>2
    <2> QED BY <1>3, <1>6, <1>8, <2>1, <2>2, <2>3, <2>4
  <1>11. CASE p.block = "MPSKModulator"
    <2>1. BitsPerSymbol(p.M) \in 1..4 /\ p.M = 2^BitsPerSymbol(p.M)
      BY <1>4, <1>11, BitsOfTheKnown
    <2>2. /\ b.sound = (BitsPerSymbol(p.M) # 0)
          /\ b.starts = (p.M = 2^BitsPerSymbol(p.M))
          /\ b.works = (n[1] <= in[1].size + Pad(p, in[1].size))
          /\ b.gives.Ts = in[1].Ts /\ b.writes = Symbols(p, in[1].size) /\ b.writes \in Nat
          /\ b.writes < Word => b.gives.size = b.writes
      <3>1. MPSKModulatorDoes(b, p, in, n)
        BY <1>2, <1>11, MPSKModulatorIs
      <3> QED BY <1>2, <1>11, <3>1 DEF MPSKModulatorDoes
    <2>3. Pad(p, size) \in Nat /\ Symbols(p, size) > 0 /\ Symbols(p, size) \in Nat
      BY <1>2, <1>6, <1>11, <2>1, SymbolsAre
    <2>4. b.sound
      <3>1. BitsPerSymbol(p.M) # 0
        BY <2>1
      <3> QED BY <2>2, <3>1
    <2>5. b.starts
      BY <2>1, <2>2
    <2>6. b.works
      <3>1. size <= size + Pad(p, size)
        BY <1>6, <2>3
      <3>2. n[1] <= in[1].size + Pad(p, in[1].size)
        BY <1>2, <3>1 DEF size
      <3> QED BY <2>2, <3>2
    <2>7. b.gives.size = b.writes /\ b.writes > 0
      BY <1>3, <2>2, <2>3 DEF size
    <2> QED BY <1>3, <1>6, <1>8, <2>2, <2>4, <2>5, <2>6, <2>7
  <1>12. CASE p.block = "RaisedCosineTransmit"
    <2> DEFINE u == p.upsampling
    <2>1. /\ u \in Nat \ {0} /\ b.sound /\ b.works /\ b.starts
          /\ b.gives.Ts = in[1].Ts \div u /\ b.writes = n[1] * u
          /\ n[1] = in[1].size /\ b.writes < Word => b.gives.size = b.writes
      <3>1. RaisedCosineTransmitDoes(b, p, in, n)
        BY <1>2, <1>12, RaisedCosineTransmitIs
      <3> QED BY <1>2, <1>12, <3>1 DEF RaisedCosineTransmitDoes
    <2>2. b.writes = size * u
      BY <1>2, <2>1 DEF size
    <2>3. size * u \in Nat \ {0}
      BY <1>6, <2>1, PositiveProduct
    <2>4. b.gives.size = b.writes
      BY <1>2, <1>3, <2>1, <2>2, <2>3
    <2>5. in[1].Ts \div u > 0
      <3> DEFINE Ts == in[1].Ts
                 q == Ts \div u
                 r == Ts % u
      <3>1. Ts = u * q + r /\ q \in Nat /\ r = 0
        BY <1>5, <1>6, <1>12, <2>1, Division
      <3> HIDE DEF q, r, u
      <3>2. q # 0
        BY <1>6, <2>1, <3>1
      <3> QED BY <3>1, <3>2 DEF q, u
    <2> QED BY <1>3, <1>8, <2>1, <2>2, <2>3, <2>4, <2>5
  <1>13. CASE p.block = "BlockInterleaver"
    BY <1>13, StraightRun DEF Straight
  <1> QED BY <1>9, <1>10, <1>11, <1>12, <1>13 DEF Transmitters

\* The blocks of a receiver run, each with the parameters of the one it undoes.
LEMMA ReceiversRun ==
    ASSUME LinkInv, Fits, WholeTimes, AsMeant, NEW j \in DOMAIN blocks,
           blocks[j].block \in Receivers
    PROVE  Runs(j)
  <1> DEFINE t == Undone(j)
             p == blocks[t]
             q == blocks[j]
             a == Input(t)
             in == Signals(feeds[j])
             n == Sizes(in)
             b == At(j)
             size == in[1].size
  <1>1. q.block \notin Sources
    BY DEF Receivers, Sources, Scramblers
  <1>2. /\ Does(b, q, in, n) /\ declared[j] = b.gives /\ q \in Library /\ Given(q, in)
        /\ Proper(in[1]) /\ in[1] = Input(j) /\ n[1] = in[1].size
    BY <1>1, FedBlock
  <1>3. t # 0
    BY DEF AsMeant, Sensible
  <1>4. /\ t \in DOMAIN blocks /\ Undoes(q, p) /\ p.block \in Transmitters
        /\ Keeps(a, declared[j]) /\ b.sound /\ declared[j].type \in Types
        /\ q.block = "ConvolutionalDecoder" => Decoded(q, size) = declared[j].size
    BY <1>2, <1>3, UndoneBlock
  <1>5. Proper(a) /\ p \in Library
    <2>1. p.block \notin Sources
      BY <1>4 DEF Transmitters, Sources, Scramblers
    <2> QED BY <1>4, <2>1, FedBlock
  <1>6. declared[j].Ts = a.Ts /\ declared[j].size = a.size
    BY <1>4 DEF Keeps, AsMeant
  <1>7. Possible(declared[j])
    <2>1. a.Ts > 0 /\ a.size > 0 /\ a.size < Word \div 2
      BY <1>5 DEF Proper, Possible
    <2> QED BY <1>4, <1>6, <2>1, PossibleIs
  <1>8. /\ p.block = "ConvolutionalEncoder" =>
              <<InverseRate(p), p.constraint_length>> \in KnownCodes
        /\ p.block = "TurboEncoder" => a.size \in TurboFrames
        /\ p.block = "MPSKModulator" => p.M \in {2, 4, 8, 16}
    BY <1>4 DEF AsMeant, Sensible
  <1>9. b.gives.size > 0 /\ b.gives.size = a.size
    BY <1>2, <1>6, <1>7 DEF Possible
  <1> HIDE DEF t, p, a, in, n, b, size
  <1>10. ASSUME b.starts, b.works PROVE Runs(j)
    BY <1>4, <1>7, <1>10 DEF Runs, Passed, b
  <1>11. CASE q.block = "ConvolutionalDecoder"
    <2>1. p.block = "ConvolutionalEncoder" /\ InverseRate(p) = InverseRate(q)
          /\ p.constraint_length = q.constraint_length
      BY <1>4, <1>11 DEF Undoes
    <2>2. /\ b.starts = (<<InverseRate(q), q.constraint_length>> \in KnownCodes)
          /\ Decoded(q, n[1]) > 0 => b.works
      <3>1. ConvolutionalDecoderDoes(b, q, in, n)
        BY <1>2, <1>11, ConvolutionalDecoderIs
      <3> QED BY <1>2, <1>11, <3>1 DEF ConvolutionalDecoderDoes
    <2>3. b.starts
      BY <1>8, <2>1, <2>2
    <2>4. Decoded(q, n[1]) > 0
      BY <1>2, <1>4, <1>9, <1>11 DEF size
    <2> QED BY <1>10, <2>2, <2>3, <2>4
  <1>12. CASE q.block = "TurboDecoder"
    <2>1. p.block = "TurboEncoder"
      BY <1>4, <1>12 DEF Undoes
    <2>2. /\ b.works /\ b.starts = (TurboDecoded(q, in[1].size) \in TurboFrames)
          /\ b.gives.size = TurboDecoded(q, in[1].size)
      <3>1. TurboDecoderDoes(b, q, in, n)
        BY <1>2, <1>12, TurboDecoderIs
      <3> QED BY <1>2, <1>12, <3>1 DEF TurboDecoderDoes
    <2>3. b.starts
      BY <1>8, <1>9, <2>1, <2>2
    <2> QED BY <1>10, <2>2, <2>3
  <1>13. CASE q.block = "MPSKDemodulator"
    <2>1. p.block = "MPSKModulator" /\ p.M = q.M
      BY <1>4, <1>13 DEF Undoes
    <2>2. q.M = 2^BitsPerSymbol(q.M)
      BY <1>8, <2>1, BitsOfTheKnown
    <2>3. b.works /\ b.starts = (q.M = 2^BitsPerSymbol(q.M))
      <3>1. MPSKDemodulatorDoes(b, q, in, n)
        BY <1>2, <1>13, MPSKDemodulatorIs
      <3> QED BY <1>2, <1>13, <3>1 DEF MPSKDemodulatorDoes
    <2>4. b.starts
      BY <2>2, <2>3
    <2> QED BY <1>10, <2>3, <2>4
  <1>14. CASE q.block = "RaisedCosineReceive"
    <2>1. /\ b.starts /\ b.works = (n[1] \div q.downsampling <= in[1].size \div q.downsampling)
          /\ q.downsampling \in Nat \ {0}
      <3>1. RaisedCosineReceiveDoes(b, q, in, n)
        BY <1>2, <1>14, RaisedCosineReceiveIs
      <3> QED BY <1>2, <1>14, <3>1 DEF RaisedCosineReceiveDoes
    <2>2. n[1] \div q.downsampling <= in[1].size \div q.downsampling
      <3>1. in[1].size \in Nat
        BY <1>2, FrameIs
      <3>2. in[1].size \div q.downsampling \in Nat
        BY <2>1, <3>1, Division
      <3> QED BY <1>2, <3>2
    <2>3. b.works
      BY <2>1, <2>2
    <2> QED BY <1>10, <2>1, <2>3
  <1>15. CASE q.block = "BlockDeinterleaver"
    BY <1>15, StraightRun DEF Straight
  <1> QED BY <1>11, <1>12, <1>13, <1>14, <1>15 DEF Receivers

\* So every block of the link runs.
LEMMA AllRun ==
    ASSUME LinkInv, Fits, WholeTimes, AsMeant, NEW i \in DOMAIN blocks
    PROVE  Runs(i)
  <1>1. blocks[i] \in Library
    BY DEF LinkInv, LinkShape
  <1>2. CASE blocks[i].block \in Sources \cup Sinks
    BY <1>2, EndsRun
  <1>3. CASE blocks[i].block \notin Sources \cup Sinks
    <2>1. blocks[i].block \in Straight \/ blocks[i].block \in Transmitters
          \/ blocks[i].block \in Receivers
      BY <1>1, <1>3, Kinds DEF Transmitters, Receivers
    <2> QED BY <2>1, StraightRun, TransmittersRun, ReceiversRun
  <1> QED BY <1>2, <1>3

\* A link of any length, of blocks used as they are meant to be and without frames that are
\* filled up or too long for a vector, is never aborted while it is built, never fails to
\* initialize, and never crashes in a step its scrambling sequences last for
\* (setup_output_ports, initialize and process of all blocks).
THEOREM MeantLinksRun == Spec => [](Fits /\ WholeTimes => SensibleLinksRun)
  <1>1. LinkInv => (Fits /\ WholeTimes => SensibleLinksRun)
    <2> SUFFICES ASSUME LinkInv, Fits, WholeTimes, AsMeant,
                        phase \in {"aborted", "failed", "crashed"}
                 PROVE  FALSE
      BY DEF SensibleLinksRun, AsMeant
    <2>1. Len(blocks) \in Nat /\ DOMAIN blocks = 1..Len(blocks) /\ blocks \in Seq(Library)
      BY Domains DEF LinkInv, LinkShape
    <2>2. CASE phase = "aborted"
      <3>1. Len(blocks) \in DOMAIN blocks
        <4>1. blocks # <<>>
          BY <2>2 DEF LinkInv, PhaseInv
        <4> QED BY <2>1, <4>1
      <3>2. ~Passed(Len(blocks))
        BY <2>2, <3>1 DEF LinkInv, PhaseInv
      <3> QED BY <3>1, <3>2, AllRun DEF Runs
    <2>3. CASE phase = "failed"
      <3>1. PICK i \in DOMAIN blocks : ~At(i).starts
        BY <2>3 DEF LinkInv, PhaseInv
      <3> QED BY <3>1, AllRun DEF Runs
    <2>4. CASE phase = "crashed"
      <3>1. PICK i : i = Len(samples) + 1
        OBVIOUS
      <3>2. Len(samples) \in Nat /\ Len(samples) < Len(blocks)
        BY <2>4 DEF LinkInv, SamplesInv
      <3>3. i \in DOMAIN blocks
        BY <2>1, <3>1, <3>2
      <3>4. ~Behaviour(i, Found(i)).works \/ Ended(i)
        BY <2>4, <3>1, <3>3 DEF LinkInv, SamplesInv
      <3>5. Found(i) = Sizes(Signals(feeds[i]))
        BY <3>1, <3>3, FoundIs DEF AsMeant
      <3>7. blocks[i] \in Library
        BY <3>3 DEF LinkInv, LinkShape
      <3>8. ~Ended(i)
        <4> SUFFICES ASSUME Ended(i) PROVE FALSE
          OBVIOUS
        <4>1. start[i] = SequenceLength /\ blocks[i].block \in Scramblers
          BY DEF Ended, AtEnd
        <4>2. blocks[i].framesize \in 1..(Word - 1) /\ SequenceLength \in Nat
          BY <3>7, <4>1, ConfiguredAssumption, LibraryAssumption DEF Sources, Scramblers
        <4>3. start[i] + blocks[i].framesize <= SequenceLength
          BY <3>3, <4>1 DEF AsMeant, SequencesLast
        <4> QED BY <4>1, <4>2, <4>3
      <3>6. ~At(i).works
        BY <3>4, <3>5, <3>7, <3>8, SameAnywhere DEF At, Behaviour
      <3> QED BY <3>3, <3>6, AllRun DEF Runs
    <2> QED BY <2>2, <2>3, <2>4
  <1> QED BY <1>1, LinkInvAlways, PTL
=============================================================================
