-------------------------- MODULE ScramblersProofs --------------------------
(***************************************************************************)
(* That no register of a scrambler runs empty and that uplink sequences    *)
(* turn by right angles, for all sequence numbers, offsets and lengths;    *)
(* and that frames taken from a sequence continue it, and how long they    *)
(* are, for all lengths and frame sizes.                                   *)
(***************************************************************************)
EXTENDS Scramblers, FiniteSetTheorems, TLAPS

\* Feeding the last place back keeps a register from running empty: what is left of it
\* moves on, and a last one comes back in at the top.
LEMMA ShiftAlive ==
    ASSUME NEW width \in Nat, width > 0, NEW taps, 0 \in taps,
           NEW r \in SUBSET (0..(width - 1)), r # {}
    PROVE  /\ Shift(r, width, taps) # {}
           /\ Shift(r, width, taps) \in SUBSET (0..(width - 1))
<1>1. {k - 1 : k \in r \ {0}} \subseteq 0..(width - 1)
    OBVIOUS
<1>2. {k \in {width - 1} : Odd(r \cap taps)} \subseteq 0..(width - 1)
    OBVIOUS
<1>3. CASE r = {0}
    <2>1. r \cap taps = {0}
        BY <1>3
    <2>2. Cardinality({0}) = 1
        BY FS_Singleton
    <2>3. Odd(r \cap taps)
        BY <2>1, <2>2, 1 % 2 = 1 DEF Odd
    <2>4. width - 1 \in Shift(r, width, taps)
        BY <2>3 DEF Shift
    <2> QED BY <1>1, <1>2, <2>4 DEF Shift
<1>4. CASE r # {0}
    <2>1. PICK k \in r : k # 0
        BY <1>4
    <2>2. k - 1 \in Shift(r, width, taps)
        BY <2>1 DEF Shift
    <2> QED BY <1>1, <1>2, <2>2 DEF Shift
<1> QED BY <1>3, <1>4

\* The registers of the downlink scrambler have 18 places, those of the long uplink
\* scrambler 25.
LEMMA RegistersOfDownlink ==
    ASSUME NEW r \in SUBSET (0..17), r # {}
    PROVE  /\ ShiftX(r) \in SUBSET (0..17) /\ ShiftX(r) # {}
           /\ ShiftY(r) \in SUBSET (0..17) /\ ShiftY(r) # {}
<1>1. 18 - 1 = 17 /\ 18 \in Nat /\ 18 > 0
    OBVIOUS
<1>2. \A taps : 0 \in taps =>
          Shift(r, 18, taps) \in SUBSET (0..17) /\ Shift(r, 18, taps) # {}
    BY <1>1, ShiftAlive
<1> QED BY <1>2 DEF ShiftX, ShiftY

LEMMA RegistersOfLongUplink ==
    ASSUME NEW r \in SUBSET (0..24), r # {}
    PROVE  /\ ShiftA(r) \in SUBSET (0..24) /\ ShiftA(r) # {}
           /\ ShiftB(r) \in SUBSET (0..24) /\ ShiftB(r) # {}
<1>1. 25 - 1 = 24 /\ 25 \in Nat /\ 25 > 0
    OBVIOUS
<1>2. \A taps : 0 \in taps =>
          Shift(r, 25, taps) \in SUBSET (0..24) /\ Shift(r, 25, taps) # {}
    BY <1>1, ShiftAlive
<1> QED BY <1>2 DEF ShiftA, ShiftB

\* The place that moves out of the register of four values counts three times, the
\* others of odd weight are even then.
LEMMA QuaternaryAlive ==
    ASSUME NEW q \in [0..7 -> 0..3], \E k \in 0..7 : q[k] % 2 = 1
    PROVE  /\ ShiftQuaternary(q) \in [0..7 -> 0..3]
           /\ \E k \in 0..7 : ShiftQuaternary(q)[k] % 2 = 1
<1> DEFINE new == (3 * q[0] + 2 * q[1] + 3 * q[2] + q[3] + 3 * q[5]) % 4
<1>1. \A k \in 0..7 : q[k] \in 0..3
    OBVIOUS
<1>2. new \in 0..3
    BY <1>1
<1>3. \A k \in 0..6 : k + 1 \in 0..7
    OBVIOUS
<1>4. ShiftQuaternary(q) \in [0..7 -> 0..3]
    BY <1>1, <1>2, <1>3 DEF ShiftQuaternary
<1>5. CASE \E k \in 1..7 : q[k] % 2 = 1
    <2>1. PICK k \in 1..7 : q[k] % 2 = 1
        BY <1>5
    <2>2. k - 1 \in 0..7 /\ k - 1 < 7 /\ (k - 1) + 1 = k
        OBVIOUS
    <2>3. ShiftQuaternary(q)[k - 1] = q[k]
        BY <2>2 DEF ShiftQuaternary
    <2> QED BY <1>4, <2>1, <2>2, <2>3
<1>6. CASE ~ \E k \in 1..7 : q[k] % 2 = 1
    <2>1. q[0] % 2 = 1 /\ q[2] % 2 # 1 /\ q[3] % 2 # 1 /\ q[5] % 2 # 1
        BY <1>6
    <2>2. q[0] \in {1, 3} /\ q[2] \in {0, 2} /\ q[3] \in {0, 2} /\ q[5] \in {0, 2}
        BY <1>1, <2>1
    <2>3. new % 2 = 1
        BY <1>1, <2>2
    <2>4. ShiftQuaternary(q)[7] = new
        BY DEF ShiftQuaternary
    <2> QED BY <1>4, <2>3, <2>4
<1> QED BY <1>5, <1>6

Width == [Downlink |-> 18, LongUplink |-> 25]

\* The registers of two values of the short uplink scrambler may be empty from the start.
IInv ==
    /\ scrambler \in {"Downlink", "ShortUplink", "LongUplink"}
    /\ skip \in Nat
    /\ skip > 0 => scrambler = "Downlink"
    /\ scrambler # "ShortUplink" =>
          /\ register1 \in SUBSET (0..(Width[scrambler] - 1)) /\ register1 # {}
          /\ register2 \in SUBSET (0..(Width[scrambler] - 1)) /\ register2 # {}
    /\ quaternary \in [0..7 -> 0..3]
    /\ \E k \in 0..7 : quaternary[k] % 2 = 1

LEMMA FirstQuaternaryAlive ==
    ASSUME NEW n \in Nat
    PROVE  /\ FirstQuaternary(n) \in [0..7 -> 0..3]
           /\ \E k \in 0..7 : FirstQuaternary(n)[k] % 2 = 1
<1>1. \A k \in 0..7 : (n \div 2^k) % 2 \in 0..1
    OBVIOUS
<1>2. FirstQuaternary(n) \in [0..7 -> 0..3]
    BY <1>1 DEF FirstQuaternary
<1>3. FirstQuaternary(n)[0] % 2 = 1
    BY <1>1 DEF FirstQuaternary
<1> QED BY <1>2, <1>3

LEMMA InitIInv == Init => IInv
<1> SUFFICES ASSUME Init PROVE IInv
    OBVIOUS
<1>1. seq_num \in Nat
    <2>1. seq_num \in DownlinkNumbers \/ seq_num \in UplinkNumbers
        BY DEF Init
    <2>2. \A most : 0..most \subseteq Nat
        OBVIOUS
    <2>3. UplinkNumbers \subseteq 0..(2^24 - 1)
        BY Zenon, ScramblerAssumption
    <2>4. UplinkNumbers \subseteq Nat
        BY Zenon, <2>2, <2>3
    <2> QED BY <2>1, <2>4, ScramblerAssumption
<1>2. /\ quaternary \in [0..7 -> 0..3]
      /\ \E k \in 0..7 : quaternary[k] % 2 = 1
    BY <1>1, FirstQuaternaryAlive DEF Init
<1>3. Bits(seq_num, 24) \subseteq 0..23
    <2>1. Bits(seq_num, 24) \subseteq 0..(24 - 1)
        BY Zenon DEF Bits
    <2>2. 24 - 1 = 23
        OBVIOUS
    <2> QED BY <2>1, <2>2
<1>4. scrambler = "Downlink" =>
          /\ register1 = {0} /\ register2 = 0..17 /\ skip = seq_num
    BY DEF Init
<1>5. scrambler = "LongUplink" =>
          /\ register1 = Bits(seq_num, 24) \cup {24} /\ register2 = 0..24 /\ skip = 0
    BY DEF Init
<1>6. scrambler = "ShortUplink" => skip = 0
    BY DEF Init
<1>7. scrambler \in {"Downlink", "ShortUplink", "LongUplink"}
    BY DEF Init
<1> QED BY <1>1, <1>2, <1>3, <1>4, <1>5, <1>6, <1>7 DEF IInv, Width

LEMMA StepIInv == IInv /\ [Next]_vars => IInv'
<1> SUFFICES ASSUME IInv, [Next]_vars PROVE IInv'
    OBVIOUS
<1>1. CASE Skip
    <2>1. scrambler = "Downlink"
        BY <1>1 DEF Skip, IInv
    <2>2. register1' # {} /\ register1' \in SUBSET (0..17)
        BY <1>1, <2>1, RegistersOfDownlink DEF Skip, IInv, Width
    <2> QED BY <1>1, <2>1, <2>2 DEF Skip, IInv, Width
<1>2. CASE DownlinkStep
    <2>1. /\ register1 \in SUBSET (0..17) /\ register1 # {}
          /\ register2 \in SUBSET (0..17) /\ register2 # {}
        BY <1>2 DEF DownlinkStep, IInv, Width
    <2>2. register1' # {} /\ register1' \in SUBSET (0..17)
        BY <1>2, <2>1, RegistersOfDownlink DEF DownlinkStep
    <2>3. register2' # {} /\ register2' \in SUBSET (0..17)
        BY <1>2, <2>1, RegistersOfDownlink DEF DownlinkStep
    <2> QED BY <1>2, <2>2, <2>3 DEF DownlinkStep, IInv, Width
<1>3. CASE ShortUplinkStep
    <2>1. /\ quaternary' \in [0..7 -> 0..3]
          /\ \E k \in 0..7 : quaternary'[k] % 2 = 1
        BY <1>3, QuaternaryAlive DEF ShortUplinkStep, IInv
    <2> QED BY <1>3, <2>1 DEF ShortUplinkStep, IInv
<1>4. CASE LongUplinkStep
    <2>1. /\ register1 \in SUBSET (0..24) /\ register1 # {}
          /\ register2 \in SUBSET (0..24) /\ register2 # {}
        BY <1>4 DEF LongUplinkStep, IInv, Width
    <2>2. register1' # {} /\ register1' \in SUBSET (0..24)
        BY <1>4, <2>1, RegistersOfLongUplink DEF LongUplinkStep
    <2>3. register2' # {} /\ register2' \in SUBSET (0..24)
        BY <1>4, <2>1, RegistersOfLongUplink DEF LongUplinkStep
    <2> QED BY <1>4, <2>2, <2>3 DEF LongUplinkStep, IInv, Width
<1>5. CASE Frame
    BY <1>5 DEF Frame, generator, registers, IInv
<1>6. CASE UNCHANGED vars
    BY <1>6 DEF vars, generator, registers, IInv
<1> QED BY <1>1, <1>2, <1>3, <1>4, <1>5, <1>6 DEF Next, Ended

\* No register that feeds a sequence ever runs empty: the feedback of the loops of
\* generate_impl always takes in the place that is shifted out.
THEOREM Alive == Spec => []RegistersAlive
<1>1. IInv => RegistersAlive
    BY DEF IInv, RegistersAlive
<1> QED BY <1>1, InitIInv, StepIInv, PTL DEF Spec

-----------------------------------------------------------------------------
(* The frames *)

\* s runs through the elements of a sequence of len elements, over and over.
Cyclic(s, len) ==
    \A k \in 1..Len(s) :
        s[k] = IF k = 1 \/ s[k - 1] = len - 1 THEN 0 ELSE s[k - 1] + 1

\* start is the element that has to follow s.  For len, the first one has to, but the output
\* has not been set back yet.
Follows(start, s, len) ==
    /\ s = <<>> => start = 0
    /\ s # <<>> => start = s[Len(s)] + 1 \/ (start = 0 /\ s[Len(s)] = len - 1)

\* t continues s, up to the element b, with the elements of the sequence from a on, if any.
Continues(t, s, a, b, len) ==
    /\ t \in Seq(0..(len - 1))
    /\ Cyclic(t, len)
    /\ b >= a => t # <<>> /\ t[Len(t)] = b
    /\ b < a => t = s

\* A part of the sequence that begins with the element that has to follow continues it.
LEMMA SliceContinues ==
    ASSUME NEW len \in Nat \ {0}, NEW s \in Seq(0..(len - 1)), Cyclic(s, len),
           NEW a \in 0..len, NEW b \in Int, a - 1 <= b, b <= len - 1,
           Follows(a, s, len)
    PROVE  Continues(s \o Slice(a, b), s, a, b, len)
<1> DEFINE c == Slice(a, b)
           t == s \o c
<1>1. c \in Seq(0..(len - 1)) /\ Len(c) = b - a + 1
    <2>1. b - a + 1 \in Nat
        OBVIOUS
    <2>2. \A k \in 1..(b - a + 1) : a + k - 1 \in 0..(len - 1)
        OBVIOUS
    <2> QED BY <2>1, <2>2 DEF Slice
<1>2. t \in Seq(0..(len - 1)) /\ Len(t) = Len(s) + (b - a + 1)
    BY <1>1
<1>3. \A k \in 1..Len(s) : t[k] = s[k]
    BY <1>1
<1>4. \A k \in (Len(s) + 1)..Len(t) : t[k] = a + (k - Len(s)) - 1
    <2> SUFFICES ASSUME NEW k \in (Len(s) + 1)..Len(t)
                 PROVE  t[k] = a + (k - Len(s)) - 1
        OBVIOUS
    <2>1. t[k] = c[k - Len(s)]
        BY <1>1, <1>2
    <2>2. k - Len(s) \in 1..(b - a + 1)
        BY <1>2
    <2> QED BY <2>1, <2>2 DEF Slice
<1>lengths. Len(s) \in Nat /\ Len(t) \in Nat
    BY <1>1, <1>2
<1> HIDE DEF t, c
<1>5. Cyclic(t, len)
    <2> SUFFICES ASSUME NEW k \in 1..Len(t)
                 PROVE  t[k] = IF k = 1 \/ t[k - 1] = len - 1 THEN 0 ELSE t[k - 1] + 1
        BY DEF Cyclic
    <2>1. CASE k <= Len(s)
        <3>1. k \in 1..Len(s) /\ (k # 1 => k - 1 \in 1..Len(s))
            BY <2>1
        <3> QED BY <3>1, <1>3 DEF Cyclic
    <2>2. CASE k = Len(s) + 1
        <3>1. t[k] = a
            <4>1. k \in (Len(s) + 1)..Len(t) /\ k - Len(s) = 1
                BY <1>lengths, <2>2
            <4>2. t[k] = a + (k - Len(s)) - 1
                BY <1>4, <4>1
            <4> QED BY <4>1, <4>2
        <3>2. CASE s = <<>>
            BY <3>1, <3>2, <2>2 DEF Follows
        <3>3. CASE s # <<>>
            <4>1. k # 1 /\ k - 1 = Len(s) /\ Len(s) \in 1..Len(s)
                BY <2>2, <3>3
            <4>2. t[k - 1] = s[Len(s)]
                BY <4>1, <1>3
            <4>3. a < len
                BY <1>2, <2>2
            <4> QED BY <3>1, <3>3, <4>1, <4>2, <4>3 DEF Follows
        <3> QED BY <3>2, <3>3
    <2>3. CASE k > Len(s) + 1
        <3>1. k \in (Len(s) + 1)..Len(t) /\ k - 1 \in (Len(s) + 1)..Len(t) /\ k # 1
            BY <1>lengths, <2>3
        <3>2. t[k] = a + (k - Len(s)) - 1 /\ t[k - 1] = a + (k - 1 - Len(s)) - 1
            BY <3>1, <1>4
        <3>3. t[k - 1] < b /\ t[k] = t[k - 1] + 1
            BY <1>lengths, <3>2, <1>2
        <3>4. t[k - 1] # len - 1
            BY <1>lengths, <3>2, <3>3
        <3> QED BY <3>1, <3>3, <3>4
    <2> QED BY <2>1, <2>2, <2>3, <1>2, <1>lengths
<1>6. b >= a => t # <<>> /\ t[Len(t)] = b
    <2> SUFFICES ASSUME b >= a PROVE t # <<>> /\ t[Len(t)] = b
        OBVIOUS
    <2>1. Len(t) \in (Len(s) + 1)..Len(t)
        BY <1>2, <1>lengths
    <2>2. t[Len(t)] = a + (Len(t) - Len(s)) - 1
        BY <2>1, <1>4
    <2>3. Len(t) > 0
        BY <2>1, <1>lengths
    <2> QED BY <2>2, <2>3, <1>2, <1>lengths
<1>7. b < a => t = s
    <2> SUFFICES ASSUME b < a PROVE t = s
        OBVIOUS
    <2>1. c = <<>>
        BY <1>1
    <2> QED BY <2>1 DEF t
<1> QED BY <1>2, <1>5, <1>6, <1>7 DEF Continues, t, c

\* What a frame that is being taken or asked for rests on.
WindowInv ==
    /\ seq_len \in Nat \ {0}
    /\ start_output \in 0..seq_len
    /\ samples \in Nat
    /\ window = "getting" /\ samples = 0 => start_output = 0
    /\ asked \in Nat
    /\ asked > 0 => framesize \in FrameSizes
    /\ given \in Seq(0..(seq_len - 1))
    /\ Cyclic(given, seq_len)
    /\ Follows(start_output, given, seq_len)

LEMMA WindowInitial == Init => WindowInv
<1> SUFFICES ASSUME Init PROVE WindowInv
    OBVIOUS
<1>1. SeqLen \in Nat \ {0}
    <2>1. Length \in Nat \ {0}
        BY Zenon, ScramblerAssumption
    <2> QED BY <2>1 DEF SeqLen
<1> QED BY <1>1 DEF Init, WindowInit, WindowInv, Cyclic, Follows

LEMMA WindowStep == WindowInv /\ [Next]_vars => WindowInv'
<1> SUFFICES ASSUME WindowInv, [Next]_vars PROVE WindowInv'
    OBVIOUS
<1> USE DEF WindowInv
<1>1. CASE AskForFrame
    <2>1. framesize' \in FrameSizes
        BY <1>1 DEF AskForFrame
    <2>2. framesize' \in Nat \ {0}
        BY <2>1, WindowAssumption
    <2> QED BY <1>1, <2>1, <2>2 DEF AskForFrame
<1>2. CASE RunPastEnd
    <2> DEFINE last == seq_len - 1
               t == given \o Slice(start_output, last)
    <2>1. /\ last \in Int /\ start_output - 1 <= last /\ last <= seq_len - 1
          /\ last = seq_len - 1
        OBVIOUS
    <2>a. /\ seq_len \in Nat \ {0} /\ start_output \in 0..seq_len
          /\ given \in Seq(0..(seq_len - 1)) /\ Cyclic(given, seq_len)
          /\ Follows(start_output, given, seq_len)
        OBVIOUS
    <2> HIDE DEF last
    <2>b. Continues(t, given, start_output, last, seq_len)
        BY ONLY <2>1, <2>a, SliceContinues
    <2>2. /\ t \in Seq(0..(seq_len - 1))
          /\ Cyclic(t, seq_len)
          /\ Follows(0, t, seq_len)
        <3>1. CASE last >= start_output
            <4>1. /\ t \in Seq(0..(seq_len - 1)) /\ Cyclic(t, seq_len)
                  /\ t # <<>> /\ t[Len(t)] = last
                BY ONLY <2>b, <3>1 DEF Continues
            <4> HIDE DEF t
            <4> QED BY <2>1, <4>1 DEF Follows
        <3>2. CASE last < start_output
            <4>1. /\ t \in Seq(0..(seq_len - 1)) /\ Cyclic(t, seq_len)
                  /\ t = given
                BY ONLY <2>b, <2>1, <2>a, <3>2 DEF Continues
            <4>2. start_output = seq_len
                BY <2>1, <3>2
            <4> HIDE DEF t
            <4> QED BY <2>1, <4>1, <4>2 DEF Follows
        <3> QED BY <2>1, <3>1, <3>2
    <2>3. samples' \in Nat
        BY <1>2 DEF RunPastEnd, SamplesLeft
    <2>4. given' = t /\ start_output' = 0 /\ UNCHANGED <<seq_len, framesize, asked>>
        BY <1>2 DEF RunPastEnd, last
    <2> HIDE DEF t
    <2> QED BY <2>2, <2>3, <2>4
<1>3. CASE Finish
    <2> DEFINE t == given \o Slice(start_output, LastIndex)
    <2>1. /\ LastIndex \in Int /\ start_output - 1 <= LastIndex /\ LastIndex <= seq_len - 1
          /\ LastIndex >= start_output
        BY <1>3 DEF Finish, LastIndex
    <2>a. /\ seq_len \in Nat \ {0} /\ start_output \in 0..seq_len
          /\ given \in Seq(0..(seq_len - 1)) /\ Cyclic(given, seq_len)
          /\ Follows(start_output, given, seq_len)
        OBVIOUS
    <2>b. Continues(t, given, start_output, LastIndex, seq_len)
        BY ONLY <2>1, <2>a, SliceContinues
    <2>2. /\ t \in Seq(0..(seq_len - 1))
          /\ Cyclic(t, seq_len)
          /\ t # <<>> /\ t[Len(t)] = LastIndex
        BY ONLY <2>b, <2>1 DEF Continues
    <2>3. /\ given' = t /\ start_output' = start_output + samples /\ window' = "idle"
          /\ UNCHANGED <<seq_len, framesize, samples, asked>>
        BY <1>3 DEF Finish, NextStart
    <2>4. start_output' \in 0..seq_len
        BY <1>3, <2>3 DEF Finish
    <2>5. Follows(start_output', t, seq_len)
        <3>1. CASE samples = 0
            <4>1. start_output = 0 /\ LastIndex = seq_len - 1 /\ start_output' = 0
                BY <1>3, <2>3, <3>1 DEF Finish, LastIndex
            <4> QED BY <2>2, <4>1 DEF Follows
        <3>2. CASE samples # 0
            <4>1. start_output' = LastIndex + 1
                BY <2>3, <3>2 DEF LastIndex
            <4> QED BY <2>2, <4>1 DEF Follows
        <3> QED BY <3>1, <3>2
    <2> HIDE DEF t
    <2> QED BY <2>2, <2>3, <2>4, <2>5
<1>4. CASE UNCHANGED windowVars
    BY <1>4 DEF windowVars
<1>5. WindowNext \/ UNCHANGED windowVars
    BY DEF Next, Skip, DownlinkStep, ShortUplinkStep, LongUplinkStep, Frame, Ended, vars
<1> QED BY <1>1, <1>2, <1>3, <1>4, <1>5 DEF WindowNext

\* The frames of a scrambler, one after the other, are its sequence over and over, for all
\* lengths of the sequence and all frame sizes: each call of get_scrambling_sequence takes
\* up the sequence where the last one left it, also when it is asked for no element at all.
THEOREM FramesContinue == Spec => []Continuous
<1>1. WindowInv => Continuous
    BY DEF WindowInv, Cyclic, Continuous
<1> QED BY <1>1, WindowInitial, WindowStep, PTL DEF Spec

\* get_scrambling_sequence never calls itself with as many elements as it was called with, or
\* with fewer than none, for all lengths of the sequence and all frame sizes.
THEOREM CallsShrink == Spec => RecursionShrinks
<1> DEFINE Shrinks == window = "getting" /\ window' = "getting" => samples' \in 0..(samples - 1)
<1>1. WindowInv /\ [Next]_vars => [Shrinks]_windowVars
    <2> SUFFICES ASSUME WindowInv, [Next]_vars, windowVars' # windowVars,
                        window = "getting", window' = "getting"
                 PROVE  samples' \in 0..(samples - 1)
        OBVIOUS
    <2>1. WindowNext
        BY DEF Next, Skip, DownlinkStep, ShortUplinkStep, LongUplinkStep, Frame, Ended, vars
    <2>2. RunPastEnd
        BY <2>1 DEF WindowNext, AskForFrame, Finish
    <2> QED BY <2>2 DEF RunPastEnd, SamplesLeft, WindowInv
<1> QED BY <1>1, WindowInitial, WindowStep, PTL DEF Spec, RecursionShrinks

-----------------------------------------------------------------------------
(* The lengths of the frames *)

LEMMA QuotientAndRemainder ==
    ASSUME NEW a \in Nat, NEW b \in Nat \ {0}, NEW q \in Nat, NEW r \in 0..(b - 1),
           a = q * b + r
    PROVE  a \div b = q /\ a % b = r
  BY SMTT(30)

\* While a frame is taken: it ran past the end of the sequence e times, which took so many
\* elements too many from the number still to give.
LengthInv ==
    /\ first \in 0..Len(given)
    /\ from \in 0..seq_len
    /\ window = "getting" =>
          /\ asked > 0
          /\ \E e \in Nat : /\ from + framesize = e * (seq_len + 1) + (start_output + samples)
                            /\ Len(given) - first + samples = framesize - e
    /\ FrameLength

LEMMA LengthInitial == Init => LengthInv
<1> SUFFICES ASSUME Init PROVE LengthInv
    OBVIOUS
<1>1. /\ given = <<>> /\ first = 0 /\ from = 0 /\ window = "idle" /\ asked = 0
    BY DEF Init, WindowInit
<1>2. seq_len \in Nat
    BY WindowInitial DEF WindowInv
<1>3. first \in 0..Len(given)
    BY <1>1
<1> QED BY <1>1, <1>2, <1>3 DEF LengthInv, FrameLength

\* A part of the sequence has as many elements as its bounds say.
LEMMA SliceLength ==
    ASSUME NEW S, NEW s \in Seq(S), NEW a \in Int, NEW b \in Int, a - 1 <= b
    PROVE  Len(s \o Slice(a, b)) = Len(s) + (b - a + 1)
<1> DEFINE c == Slice(a, b)
<1>1. b - a + 1 \in Nat
    OBVIOUS
<1>2. c \in Seq(Int) /\ Len(c) = b - a + 1
    BY <1>1 DEF Slice
<1> HIDE DEF c
<1>3. s \in Seq(S \cup Int) /\ c \in Seq(S \cup Int)
    BY <1>2
<1>4. Len(s \o c) = Len(s) + Len(c)
    BY <1>3
<1> QED BY <1>2, <1>4 DEF c

LEMMA LengthStep == WindowInv /\ LengthInv /\ [Next]_vars => LengthInv'
<1> SUFFICES ASSUME WindowInv, LengthInv, [Next]_vars PROVE LengthInv'
    OBVIOUS
<1>types. /\ seq_len \in Nat \ {0} /\ start_output \in 0..seq_len /\ samples \in Nat
          /\ asked \in Nat /\ given \in Seq(0..(seq_len - 1)) /\ Len(given) \in Nat
          /\ first \in 0..Len(given) /\ from \in 0..seq_len
          /\ asked > 0 => framesize \in Nat \ {0}
    <2>1. /\ seq_len \in Nat \ {0} /\ start_output \in 0..seq_len /\ samples \in Nat
          /\ asked \in Nat /\ given \in Seq(0..(seq_len - 1))
          /\ asked > 0 => framesize \in FrameSizes
        BY DEF WindowInv
    <2>2. first \in 0..Len(given) /\ from \in 0..seq_len
        BY DEF LengthInv
    <2>3. Len(given) \in Nat
        BY <2>1
    <2> QED BY <2>1, <2>2, <2>3, WindowAssumption
<1>1. CASE AskForFrame
    <2>1. /\ framesize' \in FrameSizes /\ samples' = framesize' /\ first' = Len(given)
          /\ from' = start_output /\ asked' = asked + 1 /\ window' = "getting"
          /\ UNCHANGED <<seq_len, start_output, given>>
        BY <1>1 DEF AskForFrame, WindowInv
    <2>2. framesize' \in Nat \ {0}
        BY <2>1, WindowAssumption
    <2>3. /\ from' + framesize' = 0 * (seq_len' + 1) + (start_output' + samples')
          /\ Len(given') - first' + samples' = framesize' - 0
        BY <1>types, <2>1, <2>2
    <2>4. /\ first' \in 0..Len(given') /\ from' \in 0..seq_len' /\ asked' > 0
          /\ window' # "idle"
        BY <1>types, <2>1
    <2> QED BY <2>3, <2>4 DEF LengthInv, FrameLength
<1>2. CASE RunPastEnd
    <2>1. /\ window = "getting" /\ start_output + samples > seq_len
          /\ given' = given \o Slice(start_output, seq_len - 1)
          /\ samples' = samples - (seq_len - start_output + 1)
          /\ start_output' = 0
          /\ window' \in {"getting", "aborted"}
          /\ UNCHANGED <<seq_len, framesize, first, from, asked>>
        BY <1>2 DEF RunPastEnd, SamplesLeft
    <2>2. Len(given') = Len(given) + (seq_len - start_output)
        <3>1. start_output - 1 <= seq_len - 1 /\ start_output \in Int /\ seq_len - 1 \in Int
            BY <1>types
        <3>2. Len(given') = Len(given) + (seq_len - 1 - start_output + 1)
            BY <1>types, <2>1, <3>1, SliceLength
        <3> QED BY <1>types, <3>2
    <2>3. PICK e \in Nat : /\ from + framesize = e * (seq_len + 1) + (start_output + samples)
                           /\ Len(given) - first + samples = framesize - e
        BY <2>1 DEF LengthInv
    <2>4. framesize \in Nat /\ asked > 0
        BY <1>types, <2>1 DEF LengthInv
    <2>5. (e + 1) * (seq_len + 1) = e * (seq_len + 1) + (seq_len + 1)
          /\ e * (seq_len + 1) \in Nat
        BY <1>types, SMT
    <2>6. from' + framesize' = (e + 1) * (seq_len' + 1) + (start_output' + samples')
        BY <1>types, <2>1, <2>3, <2>4, <2>5
    <2>7. Len(given') - first' + samples' = framesize' - (e + 1)
        <3> DEFINE g == Len(given)
                   h == Len(given')
        <3>1. /\ g \in Nat /\ h = g + (seq_len - start_output) /\ first \in 0..g
              /\ g - first + samples = framesize - e
            BY <1>types, <2>2, <2>3
        <3> HIDE DEF g, h
        <3>2. h - first + (samples - (seq_len - start_output + 1)) = framesize - (e + 1)
            BY <1>types, <2>4, <3>1
        <3> QED BY <2>1, <3>2 DEF h
    <2>8. first' \in 0..Len(given') /\ from' \in 0..seq_len' /\ asked' > 0 /\ e + 1 \in Nat
        BY <1>types, <2>1, <2>2, <2>4
    <2>9. FrameLength'
        BY <2>1 DEF FrameLength
    <2> QED BY <2>6, <2>7, <2>8, <2>9 DEF LengthInv
<1>3. CASE Finish
    <2>1. /\ window = "getting" /\ start_output + samples <= seq_len
          /\ given' = given \o Slice(start_output, LastIndex)
          /\ window' = "idle"
          /\ UNCHANGED <<seq_len, framesize, samples, first, from, asked>>
        BY <1>3 DEF Finish
    <2>2. PICK e \in Nat : /\ from + framesize = e * (seq_len + 1) + (start_output + samples)
                           /\ Len(given) - first + samples = framesize - e
        BY <2>1 DEF LengthInv
    <2>3. framesize \in Nat /\ asked > 0
        BY <1>types, <2>1 DEF LengthInv
    <2>4. /\ Ends(from, framesize) = e
          /\ (from + framesize) % (seq_len + 1) = start_output + samples
        <3> DEFINE a == from + framesize
                   b == seq_len + 1
                   r == start_output + samples
        <3>1. a \in Nat /\ b \in Nat \ {0} /\ r \in 0..(b - 1) /\ a = e * b + r
            BY <1>types, <2>1, <2>2, <2>3
        <3> HIDE DEF a, b, r
        <3>2. a \div b = e /\ a % b = r
            BY ONLY <3>1, e \in Nat, QuotientAndRemainder
        <3> QED BY <3>2 DEF Ends, a, b, r
    <2>5. LastIndex \in Int /\ start_output - 1 <= LastIndex /\ start_output \in Int
        BY <1>types, <2>1 DEF LastIndex
    <2>6. Len(given') = Len(given) + (LastIndex - start_output + 1)
        BY <1>types, <2>1, <2>5, SliceLength
    <2>7. LastIndex - start_output + 1
            = samples + (IF start_output + samples = 0 THEN seq_len ELSE 0)
        BY <1>types, <2>1 DEF LastIndex
    <2>8. Len(given') - first
            = framesize - e + (IF start_output + samples = 0 THEN seq_len ELSE 0)
        <3> DEFINE g == Len(given)
                   h == Len(given')
                   l == LastIndex - start_output + 1
                   w == IF start_output + samples = 0 THEN seq_len ELSE 0
        <3>1. /\ g \in Nat /\ h = g + l /\ l = samples + w /\ first \in 0..g
              /\ g - first + samples = framesize - e /\ w \in Nat
            BY <1>types, <2>2, <2>6, <2>7
        <3> HIDE DEF g, h, l, w
        <3>2. h - first = framesize - e + w
            BY <1>types, <2>3, <3>1
        <3> QED BY <3>2 DEF h, w
    <2>9. FrameLength'
        <3>1. Ends(from, framesize)' = Ends(from, framesize)
            BY <2>1 DEF Ends
        <3> QED BY <2>1, <2>4, <2>8, <3>1 DEF FrameLength
    <2>10. first' \in 0..Len(given')
        BY <1>types, <2>1, <2>6, <2>7
    <2> QED BY <1>types, <2>1, <2>9, <2>10 DEF LengthInv
<1>4. CASE UNCHANGED windowVars
    BY <1>4 DEF windowVars, LengthInv, FrameLength, Ends
<1>5. WindowNext \/ UNCHANGED windowVars
    BY DEF Next, Skip, DownlinkStep, ShortUplinkStep, LongUplinkStep, Frame, Ended, vars
<1> QED BY <1>1, <1>2, <1>3, <1>4, <1>5 DEF WindowNext

\* How many elements process leaves in the buffer, for all lengths of the sequence and all
\* frame sizes: one less than the port declares for each time the sequence ends in the
\* frame, and a whole sequence more if then none are left to ask for.
THEOREM FramesFallShort == Spec => []FrameLength
<1>1. LengthInv => FrameLength
    BY DEF LengthInv
<1> QED BY <1>1, WindowInitial, WindowStep, LengthInitial, LengthStep, PTL DEF Spec

-----------------------------------------------------------------------------
(* The uplink sequences *)

\* What the loops of the uplink scramblers make of the two sequences a and b of ones: the
\* imaginary part m, the counter of the loop being off for the first element.
Combined(a, b, m, off) ==
    /\ a \in Seq({-1, 1}) /\ b \in Seq({-1, 1}) /\ m \in Seq(Int)
    /\ Len(b) = Len(a) /\ Len(m) = Len(a)
    /\ \A k \in 1..Len(a) : (k - 1 + off) % 2 = 0 => m[k] = a[k] * b[k]
    /\ \A k \in 2..Len(a) : (k - 1 + off) % 2 # 0 => m[k] = -(a[k] * b[k - 1])

LEMMA CombinedAppend ==
    ASSUME NEW a, NEW b, NEW m, NEW off \in Nat, Combined(a, b, m, off),
           NEW x \in {-1, 1}, NEW y \in {-1, 1}, NEW e \in Int,
           (Len(a) + off) % 2 = 0 => e = x * y,
           Len(a) > 0 /\ (Len(a) + off) % 2 # 0 => e = -(x * b[Len(a)])
    PROVE  /\ Combined(Append(a, x), Append(b, y), Append(m, e), off)
           /\ Len(Append(a, x)) = Len(a) + 1
<1> USE DEF Combined
<1> DEFINE c == Append(a, x)
           d == Append(b, y)
           n == Append(m, e)
           l == Len(a)
<1>1. l \in Nat
    OBVIOUS
<1>2. /\ c \in Seq({-1, 1}) /\ Len(c) = l + 1 /\ c[l + 1] = x
      /\ \A k \in 1..l : c[k] = a[k]
    OBVIOUS
<1>3. /\ d \in Seq({-1, 1}) /\ Len(d) = l + 1 /\ d[l + 1] = y
      /\ \A k \in 1..l : d[k] = b[k]
    OBVIOUS
<1>4. /\ n \in Seq(Int) /\ Len(n) = l + 1 /\ n[l + 1] = e
      /\ \A k \in 1..l : n[k] = m[k]
    OBVIOUS
<1>5. l > 0 => d[l] = b[l]
    BY <1>1, <1>3
<1> HIDE DEF c, d, n
<1>6. ASSUME NEW k \in 1..(l + 1), (k - 1 + off) % 2 = 0
      PROVE  n[k] = c[k] * d[k]
    <2>1. CASE k = l + 1
        <3>1. k - 1 + off = l + off
            BY <1>1, <2>1
        <3>2. e = x * y
            BY <1>6, <3>1
        <3> QED BY <1>2, <1>3, <1>4, <2>1, <3>2
    <2>2. CASE k # l + 1
        <3>1. k \in 1..l
            BY <1>1, <2>2
        <3>2. m[k] = a[k] * b[k]
            BY <1>6, <3>1
        <3> QED BY <1>2, <1>3, <1>4, <3>1, <3>2
    <2> QED BY <2>1, <2>2
<1>7. ASSUME NEW k \in 2..(l + 1), (k - 1 + off) % 2 # 0
      PROVE  n[k] = -(c[k] * d[k - 1])
    <2>1. CASE k = l + 1
        <3>1. k - 1 + off = l + off /\ k - 1 = l /\ l > 0
            BY <1>1, <2>1
        <3>2. e = -(x * b[l])
            BY <1>7, <3>1
        <3> QED BY <1>2, <1>4, <1>5, <2>1, <3>1, <3>2
    <2>2. CASE k # l + 1
        <3>1. k \in 2..l /\ k \in 1..l /\ k - 1 \in 1..l
            BY <1>1, <2>2
        <3>2. m[k] = -(a[k] * b[k - 1])
            BY <1>7, <3>1
        <3> QED BY <1>2, <1>3, <1>4, <3>1, <3>2
    <2> QED BY <2>1, <2>2
<1> QED BY <1>2, <1>3, <1>4, <1>6, <1>7 DEF c, d, n

\* The loop has made of each element what it should, and its counter tells how many there
\* are.
UplinkInv ==
    /\ scrambler \in {"Downlink", "ShortUplink", "LongUplink"}
    /\ offset \in Nat /\ i \in Nat
    /\ scrambler = "ShortUplink" => offset = 0
    /\ scrambler # "Downlink" =>
          /\ Combined(c_1, c_2, im, offset)
          /\ re = c_1
          /\ IF i < offset THEN Len(c_1) = 0 ELSE i = Len(c_1) + offset

LEMMA UplinkInitial == Init => UplinkInv
<1> SUFFICES ASSUME Init PROVE UplinkInv
    OBVIOUS
<1>1. /\ scrambler \in {"Downlink", "ShortUplink", "LongUplink"}
      /\ offset \in Nat /\ i = 0 /\ (scrambler = "ShortUplink" => offset = 0)
    <2>1. Offsets \subseteq Nat
        BY Zenon, ScramblerAssumption
    <2>2. offset = 0 \/ (scrambler = "LongUplink" /\ offset \in Offsets)
        BY Zenon DEF Init
    <2>3. scrambler \in {"Downlink", "ShortUplink", "LongUplink"} /\ i = 0
        BY Zenon DEF Init
    <2>4. offset \in Nat /\ (scrambler = "ShortUplink" => offset = 0)
        <3>1. offset = 0 => offset \in Nat
            OBVIOUS
        <3>2. offset \in Offsets => offset \in Nat
            BY <2>1
        <3>3. "LongUplink" # "ShortUplink"
            OBVIOUS
        <3> QED BY ONLY <2>2, <3>1, <3>2, <3>3
    <2> QED BY <2>3, <2>4
<1>2. re = <<>> /\ im = <<>> /\ c_1 = <<>> /\ c_2 = <<>>
    BY DEF Init
<1>3. Combined(<<>>, <<>>, <<>>, offset) /\ Len(<<>>) = 0
    BY DEF Combined
<1> QED BY <1>1, <1>2, <1>3 DEF UplinkInv

LEMMA UplinkStep == UplinkInv /\ [Next]_vars => UplinkInv'
<1> SUFFICES ASSUME UplinkInv, [Next]_vars PROVE UplinkInv'
    OBVIOUS
<1>1. CASE ShortUplinkStep
    <2> DEFINE x == ShortMapped
               before == IF i = 0 THEN 0 ELSE c_2[i]
               e == Imaginary(x, x, before)
    <2>1. /\ scrambler = "ShortUplink" /\ offset = 0 /\ i = Len(c_1) /\ i \in Nat
          /\ re = c_1 /\ Combined(c_1, c_2, im, offset)
        BY <1>1 DEF ShortUplinkStep, UplinkInv
    <2>2. /\ c_1' = Append(c_1, x) /\ c_2' = Append(c_2, x)
          /\ re' = Append(re, x) /\ im' = Append(im, e)
          /\ i' = i + 1 /\ UNCHANGED <<scrambler, offset>>
        BY <1>1 DEF ShortUplinkStep
    <2>3. x \in {-1, 1}
        BY DEF ShortMapped
    <2> HIDE DEF x
    <2>4. before \in Int
        <3>1. CASE i = 0
            BY <3>1
        <3>2. CASE i # 0
            <4>1. i \in 1..Len(c_2) /\ c_2 \in Seq({-1, 1})
                BY <2>1, <3>2 DEF Combined
            <4>2. c_2[i] \in {-1, 1}
                BY <4>1
            <4> QED BY <3>2, <4>2
        <3> QED BY <3>1, <3>2
    <2>5. /\ e \in Int
          /\ i % 2 = 0 => e = x * x
          /\ i % 2 # 0 => e = -(x * before)
        <3> HIDE DEF before
        <3> QED BY <2>3, <2>4 DEF Imaginary
    <2>6. Len(c_1) > 0 => before = c_2[Len(c_1)]
        BY <2>1
    <2> HIDE DEF e, before
    <2>7. /\ (Len(c_1) + offset) % 2 = 0 => e = x * x
          /\ Len(c_1) > 0 /\ (Len(c_1) + offset) % 2 # 0 => e = -(x * c_2[Len(c_1)])
        <3>1. Len(c_1) + offset = i
            BY <2>1
        <3> QED BY <2>5, <2>6, <3>1
    <2>8. Combined(c_1', c_2', im', offset') /\ Len(c_1') = Len(c_1) + 1
        <3>1. offset \in Nat
            BY <2>1
        <3> QED BY <2>1, <2>2, <2>3, <2>5, <2>7, <3>1, CombinedAppend
    <2> QED BY <2>1, <2>2, <2>8 DEF UplinkInv
<1>2. CASE LongUplinkStep
    <2>1. /\ scrambler = "LongUplink" /\ offset \in Nat /\ i \in Nat
          /\ re = c_1 /\ Combined(c_1, c_2, im, offset)
          /\ IF i < offset THEN Len(c_1) = 0 ELSE i = Len(c_1) + offset
        BY <1>2 DEF LongUplinkStep, UplinkInv
    <2>2. i' = i + 1 /\ UNCHANGED <<scrambler, offset>>
        BY <1>2 DEF LongUplinkStep
    <2>3. CASE i < offset
        <3>1. UNCHANGED <<c_1, c_2, re, im>>
            BY <1>2, <2>3 DEF LongUplinkStep, sequences
        <3>2. IF i' < offset THEN Len(c_1) = 0 ELSE i' = Len(c_1) + offset
            BY <2>1, <2>2, <2>3
        <3> QED BY <2>1, <2>2, <3>1, <3>2 DEF UplinkInv
    <2>4. CASE ~(i < offset)
        <3> DEFINE x == Mapped(InPhase)
                   y == Mapped(Quadrature)
                   idx == i - offset
        <3>1. x \in {-1, 1} /\ y \in {-1, 1}
            BY DEF Mapped
        <3>2. c_1' = Append(c_1, x) /\ c_2' = Append(c_2, y) /\ re' = Append(re, x)
            BY <1>2, <2>4 DEF LongUplinkStep
        <3>3. PICK before \in IF idx = 0 THEN {-128, 0, 1} ELSE {c_2[idx]} :
                     im' = Append(im, Imaginary(x, y, before))
            BY <1>2, <2>4 DEF LongUplinkStep
        <3>4. idx = Len(c_1) /\ idx \in Nat
            BY <2>1, <2>4
        <3> DEFINE e == Imaginary(x, y, before)
        <3> HIDE DEF x, y, idx
        <3>5. before \in Int /\ (idx # 0 => before = c_2[idx])
            <4>1. CASE idx = 0
                BY <3>3, <4>1
            <4>2. CASE idx # 0
                <5>1. idx \in 1..Len(c_2) /\ c_2 \in Seq({-1, 1})
                    BY <2>1, <3>4, <4>2 DEF Combined
                <5>2. c_2[idx] \in {-1, 1}
                    BY <5>1
                <5> QED BY <3>3, <4>2, <5>2
            <4> QED BY <4>1, <4>2
        <3>6. /\ e \in Int
              /\ i % 2 = 0 => e = x * y
              /\ i % 2 # 0 => e = -(x * before)
            BY <3>1, <3>5 DEF Imaginary
        <3> HIDE DEF e
        <3>7. /\ (Len(c_1) + offset) % 2 = 0 => e = x * y
              /\ Len(c_1) > 0 /\ (Len(c_1) + offset) % 2 # 0 => e = -(x * c_2[Len(c_1)])
            <4>1. Len(c_1) + offset = i
                BY <2>1, <2>4, <3>4
            <4> QED BY <3>4, <3>5, <3>6, <4>1
        <3>8. Combined(c_1', c_2', im', offset') /\ Len(c_1') = Len(c_1) + 1
            BY <2>1, <2>2, <3>1, <3>2, <3>3, <3>6, <3>7, CombinedAppend DEF e
        <3>9. Len(c_1') \in Nat /\ ~(i' < offset) /\ i' = Len(c_1') + offset
            BY <2>1, <2>2, <2>4, <3>4, <3>8
        <3> QED BY <2>1, <2>2, <3>2, <3>8, <3>9 DEF UplinkInv
    <2> QED BY <2>3, <2>4
<1>3. CASE DownlinkStep
    BY <1>3 DEF DownlinkStep, UplinkInv
<1>4. CASE UNCHANGED <<scrambler, offset, i, c_1, c_2, re, im>>
    BY <1>4 DEF UplinkInv
<1>5. Skip \/ Frame \/ Ended \/ UNCHANGED vars
        => UNCHANGED <<scrambler, offset, i, c_1, c_2, re, im>>
    BY DEF Skip, Frame, Ended, vars, generator, sequences
<1> QED BY <1>1, <1>2, <1>3, <1>4, <1>5 DEF Next

\* From an even element of an uplink sequence to the next one the signal turns by a right
\* angle, for all sequence numbers, lengths and offsets, odd ones included
\* (generate_impl of the short and of the long uplink scrambler).
THEOREM UplinkPairsRotate == Spec => []PairsRotate
<1>1. UplinkInv => PairsRotate
    <2> SUFFICES ASSUME UplinkInv, scrambler # "Downlink", NEW k \in 1..(Len(re) - 1),
                        (k - 1 + offset) % 2 = 0
                 PROVE  re[k] * im[k] = -(re[k + 1] * im[k + 1])
        BY DEF PairsRotate
    <2>1. Combined(c_1, c_2, im, offset) /\ re = c_1 /\ offset \in Nat
        BY DEF UplinkInv
    <2>2. Len(c_1) \in Nat
        BY <2>1 DEF Combined
    <2>3. /\ k \in 1..Len(c_1) /\ k + 1 \in 2..Len(c_1) /\ k + 1 \in 1..Len(c_1)
          /\ k + 1 - 1 = k
        BY <2>1, <2>2
    <2>4. (k + 1 - 1 + offset) % 2 # 0
        BY <2>1
    <2>5. im[k] = c_1[k] * c_2[k] /\ im[k + 1] = -(c_1[k + 1] * c_2[k])
        BY <2>1, <2>3, <2>4 DEF Combined
    <2>6. c_1[k] \in {-1, 1} /\ c_1[k + 1] \in {-1, 1} /\ c_2[k] \in {-1, 1}
        BY <2>1, <2>3 DEF Combined
    <2> QED BY <2>1, <2>5, <2>6
<1> QED BY <1>1, UplinkInitial, UplinkStep, PTL DEF Spec
=============================================================================
