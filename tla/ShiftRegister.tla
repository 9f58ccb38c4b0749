--------------------------- MODULE ShiftRegister ---------------------------
(***************************************************************************)
(* Linear feedback shift registers, as the scramblers use them             *)
(* (blocks/scrambler/scramble.cpp), and the arithmetic of polynomials that  *)
(* tells what a register will give many steps ahead.                       *)
(*                                                                         *)
(* A register is the set of the places that hold a one; LSB (r >> k) is    *)
(* k \in r.                                                                *)
(***************************************************************************)
EXTENDS Integers, Sequences, FiniteSets, FiniteSetsExt

Odd(S) == Cardinality(S) % 2 = 1

\* r >>= 1, and the sum of the tapped places moves in at the top.
Shift(r, width, taps) ==
    {k - 1 : k \in r \ {0}} \cup {k \in {width - 1} : Odd(r \cap taps)}

\* The places where n has ones.
Bits(n, width) == {k \in 0..(width - 1) : (n \div 2^k) % 2 = 1}

-----------------------------------------------------------------------------
(* Reference.  A register that shifts follows a linear recurrence: place k    *)
(* holds what comes out k steps later, and what comes out n steps later is    *)
(* the sum of some places.  Those places are the powers of x in x^n modulo    *)
(* the polynomial of the register, a polynomial being the set of its powers.  *)

\* The polynomial, but for x^width, of a register that shifts as step does.
Polynomial(step(_), width) == {k \in 0..(width - 1) : width - 1 \in step({k})}

TimesX(p, width, taps) ==
    LET product == {k + 1 : k \in p}
    IN IF width \in product THEN SymDiff(product \ {width}, taps) ELSE product

\* The powers at width and above are taken away, all of them at once, until there are none.
Square(p, width, taps) ==
    LET reduced[q \in SUBSET (0..(2 * width))] ==
            LET high == {k \in q : k >= width}
                for_high == {k \in 0..(2 * width) : Odd({h \in high : k - (h - width) \in taps})}
            IN IF high = {} THEN q ELSE reduced[SymDiff(q \ high, for_high)]
    IN reduced[{2 * k : k \in p}]

\* x^e, for e < 2^bits.
PowerOfX(e, bits, width, taps) ==
    LET from[k \in 0..bits] ==      \* x^(e \div 2^k)
            IF k = bits THEN {0}
            ELSE LET square == Square(from[k + 1], width, taps)
                 IN IF (e \div 2^k) % 2 = 1 THEN TimesX(square, width, taps) ELSE square
    IN from[0]
=============================================================================
