----------------------------- MODULE Scramblers -----------------------------
(***************************************************************************)
(* The generation of UMTS scrambling sequences: the loops of generate_impl *)
(* of the three scramblers (blocks/scrambler/scramble.cpp), one action per *)
(* iteration; then the frames that are taken from the sequence             *)
(* (ScramblerWindow).                                                      *)
(*                                                                         *)
(* register1 and register2 are registerX and registerY of the downlink     *)
(* scrambler, registerB and registerD of the short and registerA and       *)
(* registerB of the long uplink scrambler.  Elements of sequences are      *)
(* numbered from 1 here, from 0 there.                                     *)
(***************************************************************************)
EXTENDS ShiftRegister, ScramblerWindow

CONSTANTS
    DownlinkNumbers, UplinkNumbers,   \* bound: the sequence numbers tried
    Offsets,                          \* bound: the offsets of the long uplink sequence
    Length                            \* bound: seq_len_, except that of the short sequence

ASSUME ScramblerAssumption ==
    /\ DownlinkNumbers \subseteq Nat
    /\ UplinkNumbers \subseteq 0..(2^24 - 1)
    /\ Offsets \subseteq Nat
    /\ Length \in Nat \ {0}

VARIABLES
    scrambler,    \* which of the three
    seq_num, offset,
    skip,         \* steps registerX has still to make before the first element
    i,            \* the counter of the loop
    register1, register2,
    quaternary,   \* registerA of the short uplink scrambler
    c_1, c_2,     \* c_1_n_, c_2_n_
    re, im        \* c_n_real_, c_n_imag_

registers == <<register1, register2, quaternary>>
sequences == <<c_1, c_2, re, im>>
generator == <<scrambler, seq_num, offset, skip, i, registers, sequences>>
vars == <<generator, windowVars>>

\* The length the constructor is given.
SeqLen == IF scrambler = "ShortUplink" THEN 255 ELSE Length

-----------------------------------------------------------------------------
(* The registers *)

ShiftX(r) == Shift(r, 18, {0, 7})
ShiftY(r) == Shift(r, 18, {0, 5, 7, 10})
\* MUTANT of ShiftA: a tap one place off.
ShiftATapped(r) == Shift(r, 25, {0, 4})
ShiftA(r) == Shift(r, 25, {0, 3})
ShiftB(r) == Shift(r, 25, {0, 1, 2, 3})
\* MUTANT of ShiftShortB: a tap is missing.
ShiftShortBTapped(r) == Shift(r, 8, {0, 1, 5})
ShiftShortB(r) == Shift(r, 8, {0, 1, 5, 7})
ShiftShortD(r) == Shift(r, 8, {0, 4, 5, 7})

ShiftQuaternary(q) ==
    [k \in 0..7 |-> IF k < 7 THEN q[k + 1]
                    ELSE (3 * q[0] + 2 * q[1] + 3 * q[2] + q[3] + 3 * q[5]) % 4]

\* MUTANT of FirstQuaternary: registerA++ is missing.
FirstQuaternaryEven(n) == [k \in 0..7 |-> 2 * ((n \div 2^k) % 2)]

\* a0b0 c0d0 e0f0 g0h1
FirstQuaternary(n) ==
    [k \in 0..7 |-> 2 * ((n \div 2^k) % 2) + (IF k = 0 THEN 1 ELSE 0)]

FirstShortB(n) == Bits(n \div 2^8, 8)
FirstShortD(n) == Bits(n \div 2^16, 8)

\* tmpNewC_dl_q and tmpNewC_long_2_n
QuadratureX(r) == Odd(r \cap {4, 6, 15})
\* MUTANT of QuadratureY: the tap of the feedback is taken in, too.
QuadratureYAll(r) == Odd(r \cap {5, 6, 7, 8, 9, 10, 11, 12, 13, 14, 15})
QuadratureY(r) == Odd(r \cap {5, 6, 8, 9, 10, 11, 12, 13, 14, 15})
QuadratureA(r) == Odd(r \cap {4, 7, 18})
QuadratureB(r) == Odd(r \cap {4, 6, 17})

InPhase == (0 \in register1) # (0 \in register2)

Quadrature ==
    IF scrambler = "Downlink"
    THEN QuadratureX(register1) # QuadratureY(register2)
    ELSE QuadratureA(register1) # QuadratureB(register2)

\* mapping("+1 -1")
Mapped(bit) == IF bit THEN -1 ELSE 1

-----------------------------------------------------------------------------
Init ==
    /\ \/ /\ scrambler = "Downlink"
          /\ seq_num \in DownlinkNumbers /\ offset = 0 /\ skip = seq_num
          /\ register1 = {0} /\ register2 = 0..17
       \/ /\ scrambler = "ShortUplink"
          /\ seq_num \in UplinkNumbers /\ offset = 0 /\ skip = 0
          /\ register1 = FirstShortB(seq_num) /\ register2 = FirstShortD(seq_num)
       \/ /\ scrambler = "LongUplink"
          /\ seq_num \in UplinkNumbers /\ offset \in Offsets /\ skip = 0
          /\ register1 = Bits(seq_num, 24) \cup {24} /\ register2 = 0..24
    /\ quaternary = FirstQuaternary(seq_num)
    /\ i = 0
    /\ c_1 = <<>> /\ c_2 = <<>> /\ re = <<>> /\ im = <<>>
    /\ WindowInit(SeqLen)

\* The first loop of the downlink scrambler.
Skip ==
    /\ skip > 0
    /\ skip' = skip - 1
    /\ register1' = ShiftX(register1)
    /\ UNCHANGED <<scrambler, seq_num, offset, i, register2, quaternary, sequences, windowVars>>

DownlinkStep ==
    /\ scrambler = "Downlink"
    /\ skip = 0
    /\ i < seq_len
    /\ re' = Append(re, Mapped(InPhase))
    /\ im' = Append(im, Mapped(Quadrature))
    /\ register1' = ShiftX(register1)
    /\ register2' = ShiftY(register2)
    /\ i' = i + 1
    /\ UNCHANGED <<scrambler, seq_num, offset, skip, quaternary, c_1, c_2, windowVars>>

\* MUTANT of Imaginary: an odd element takes its own c_2_n_.
ImaginaryOwn(c1, c2, before) == IF i % 2 = 0 THEN c1 * c2 ELSE -c1 * c2

\* The imaginary part: even elements with their c_2_n_, odd ones with the one before.
Imaginary(c1, c2, before) == IF i % 2 = 0 THEN c1 * c2 ELSE -c1 * before

\* mapping(0, z(i)), for both sequences.
ShortMapped ==
    LET z == (quaternary[0] + (IF 0 \in register1 THEN 2 ELSE 0)
                            + (IF 0 \in register2 THEN 2 ELSE 0)) % 4
    IN IF z \in {0, 3} THEN 1 ELSE -1

ShortUplinkStep ==
    /\ scrambler = "ShortUplink"
    /\ i < seq_len
    /\ c_1' = Append(c_1, ShortMapped)
    /\ c_2' = Append(c_2, ShortMapped)
    /\ re' = Append(re, ShortMapped)
    /\ im' = Append(im, Imaginary(ShortMapped, ShortMapped, IF i = 0 THEN 0 ELSE c_2[i]))
    /\ register1' = ShiftShortB(register1)
    /\ register2' = ShiftShortD(register2)
    /\ quaternary' = ShiftQuaternary(quaternary)
    /\ i' = i + 1
    /\ UNCHANGED <<scrambler, seq_num, offset, skip, windowVars>>

\* With an odd offset the first element is an odd one and reads c_2_n_(-1): anything
\* an int8_t holds, of which three values stand for all.
LongUplinkStep ==
    /\ scrambler = "LongUplink"
    /\ i < seq_len + offset
    /\ IF i < offset
       THEN UNCHANGED sequences
       ELSE LET idx == i - offset IN
            /\ c_1' = Append(c_1, Mapped(InPhase))
            /\ c_2' = Append(c_2, Mapped(Quadrature))
            /\ re' = Append(re, Mapped(InPhase))
            /\ \E before \in IF idx = 0 THEN {-128, 0, 1} ELSE {c_2[idx]} :
                   im' = Append(im, Imaginary(Mapped(InPhase), Mapped(Quadrature), before))
    /\ register1' = ShiftA(register1)
    /\ register2' = ShiftB(register2)
    /\ i' = i + 1
    /\ UNCHANGED <<scrambler, seq_num, offset, skip, quaternary, windowVars>>

Generated == i = seq_len + offset

\* process, after initialize has generated the sequence.
Frame ==
    /\ Generated
    /\ WindowNext
    /\ UNCHANGED generator

Ended ==
    /\ Generated
    /\ (window = "idle" => asked = MaxFrames)
    /\ window # "getting"
    /\ UNCHANGED vars

Next == Skip \/ DownlinkStep \/ ShortUplinkStep \/ LongUplinkStep \/ Frame \/ Ended

Spec == Init /\ [][Next]_vars /\ WF_vars(Next)

-----------------------------------------------------------------------------
(* What makes it correct *)

TypeOK ==
    /\ scrambler \in {"Downlink", "ShortUplink", "LongUplink"}
    /\ seq_num \in Nat
    /\ offset \in Nat
    /\ skip \in Nat
    /\ i \in 0..(seq_len + offset)
    /\ LET width == [Downlink |-> 18, ShortUplink |-> 8, LongUplink |-> 25] IN
       /\ register1 \subseteq 0..(width[scrambler] - 1)
       /\ register2 \subseteq 0..(width[scrambler] - 1)
    /\ quaternary \in [0..7 -> 0..3]
    /\ c_1 \in Seq({-1, 1})
    /\ c_2 \in Seq({-1, 1})
    /\ re \in Seq({-1, 1})
    /\ im \in Seq(Int)
    /\ Len(re) = Len(im)
    /\ WindowTypeOK

\* No register that feeds a sequence ever runs empty: it would stay so, and the rest of
\* the sequence would be constant.
RegistersAlive ==
    /\ scrambler # "ShortUplink" => register1 # {} /\ register2 # {}
    /\ \E k \in 0..7 : quaternary[k] % 2 = 1

-----------------------------------------------------------------------------
(* Reference: what the registers give a number of steps later *)

TapsX == Polynomial(ShiftX, 18)
TapsY == Polynomial(ShiftY, 18)
TapsA == Polynomial(ShiftA, 25)
TapsB == Polynomial(ShiftB, 25)

DelayX == PowerOfX(131072, 18, 18, TapsX)
DelayY == PowerOfX(131072, 18, 18, TapsY)
DelayA == PowerOfX(16777232, 25, 25, TapsA)
DelayB == PowerOfX(16777232, 25, 25, TapsB)

\* The second sequence of the downlink and the long uplink scrambler is the first one,
\* 131072 or 16777232 steps later: the taps that compute it from the registers as they
\* are now tell what the last place will hold then.
QuadratureDelayed ==
    /\ scrambler = "Downlink" =>
          (Quadrature <=> Odd(register1 \cap DelayX) # Odd(register2 \cap DelayY))
    /\ scrambler = "LongUplink" =>
          (Quadrature <=> Odd(register1 \cap DelayA) # Odd(register2 \cap DelayB))

Period18 == 2^18 - 1
Period25 == 2^25 - 1

FullX == PowerOfX(Period18, 18, 18, TapsX)
FullY == PowerOfX(Period18, 18, 18, TapsY)
FullA == PowerOfX(Period25, 25, 25, TapsA)
FullB == PowerOfX(Period25, 25, 25, TapsB)

\* The periods over their prime factors.
PartsX == {PowerOfX(Period18 \div p, 18, 18, TapsX) : p \in {3, 7, 19, 73}}
PartsY == {PowerOfX(Period18 \div p, 18, 18, TapsY) : p \in {3, 7, 19, 73}}
PartsA == {PowerOfX(Period25 \div p, 25, 25, TapsA) : p \in {31, 601, 1801}}
PartsB == {PowerOfX(Period25 \div p, 25, 25, TapsB) : p \in {31, 601, 1801}}

\* What register r will hold after the steps that power stands for.
Ahead(r, power, width, taps) ==
    LET shifted[k \in 0..(width - 1)] ==
            IF k = 0 THEN power ELSE TimesX(shifted[k - 1], width, taps)
    IN {k \in 0..(width - 1) : Odd(r \cap shifted[k])}

Returns(r, width, taps, full, parts) ==
    /\ Ahead(r, full, width, taps) = r
    /\ \A part \in parts : Ahead(r, part, width, taps) # r

\* "both LFSRs have maximum period length 2^25-1", and those of the downlink scrambler
\* 2^18-1: a register comes back to what it holds after so many steps and no fewer.
MaximalPeriod ==
    /\ scrambler = "Downlink" =>
          /\ Returns(register1, 18, TapsX, FullX, PartsX)
          /\ Returns(register2, 18, TapsY, FullY, PartsY)
    /\ scrambler = "LongUplink" =>
          /\ Returns(register1, 25, TapsA, FullA, PartsA)
          /\ Returns(register2, 25, TapsB, FullB, PartsB)

\* After the 255 elements of the short uplink sequence its registers, those of four
\* values included, are where they began: get_scrambling_sequence, which goes on with
\* the first element after the last, goes on with the sequence.
ShortRepeats ==
    scrambler = "ShortUplink" /\ i = seq_len =>
        /\ register1 = FirstShortB(seq_num)
        /\ register2 = FirstShortD(seq_num)
        /\ quaternary = FirstQuaternary(seq_num)

\* From an even element of an uplink sequence to the next one the signal turns by a
\* right angle, whatever offset the sequence is cut at.
PairsRotate ==
    scrambler # "Downlink" =>
        \A k \in 1..(Len(re) - 1) :
            (k - 1 + offset) % 2 = 0 => re[k] * im[k] = -(re[k + 1] * im[k + 1])
=============================================================================
