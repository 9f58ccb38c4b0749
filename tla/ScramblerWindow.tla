-------------------------- MODULE ScramblerWindow ---------------------------
(***************************************************************************)
(* What a scrambler block gives of its sequence: process asks for a frame, *)
(* get_scrambling_sequence(samples) takes it from where the last one ended *)
(* and calls itself when the sequence does not last (scramble.hpp and the  *)
(* three blocks).  An element stands for its index in Z_.                  *)
(*                                                                         *)
(* Each call is an action.  Z_(a, b) is external: IT++ takes -1 for the    *)
(* last index; for a = b + 1 it returns an empty vector, or, in a build    *)
(* that keeps its assertions, ends the program.                            *)
(***************************************************************************)
EXTENDS Integers, Sequences

CONSTANTS
    FrameSizes,   \* bound: the frame sizes tried
    MaxFrames     \* bound: frames asked for

ASSUME WindowAssumption ==
    /\ FrameSizes \subseteq Nat \ {0}
    /\ MaxFrames \in Nat

VARIABLES
    seq_len,        \* seq_len_
    framesize,      \* framesize_, chosen with the first frame: nothing reads it before
    start_output,   \* start_output_
    samples,        \* the argument of the current call
    window,         \* "idle", "getting" or "aborted"
    given,          \* the elements of all frames so far, one after the other
    first, from,    \* Len(given) and start_output when the last frame was asked for
    asked           \* frames so far

windowVars == <<seq_len, framesize, start_output, samples, window, given, first, from, asked>>

\* Z_(a, b), b not being -1.
Slice(a, b) == [k \in 1..(b - a + 1) |-> a + k - 1]

WindowInit(len) ==
    /\ seq_len = len
    /\ framesize = 0
    /\ start_output = 0
    /\ samples = 0
    /\ window = "idle"
    /\ given = <<>>
    /\ first = 0
    /\ from = 0
    /\ asked = 0

\* process
AskForFrame ==
    /\ window = "idle"
    /\ asked < MaxFrames
    /\ window' = "getting"
    /\ framesize' \in IF asked = 0 THEN FrameSizes ELSE {framesize}
    /\ samples' = framesize'
    /\ first' = Len(given)
    /\ from' = start_output
    /\ asked' = asked + 1
    /\ UNCHANGED <<seq_len, start_output, given>>

\* MUTANT of SamplesLeft: as if the output always stood at the first element.
SamplesLeftOfAll == samples - (seq_len + 1)

\* samples_left
SamplesLeft == samples - (seq_len - start_output + 1)

\* The call that finds the sequence too short, up to the one it makes.
RunPastEnd ==
    /\ window = "getting"
    /\ start_output + samples > seq_len
    /\ window' \in IF start_output = seq_len THEN {"getting", "aborted"} ELSE {"getting"}
    /\ given' = given \o Slice(start_output, seq_len - 1)
    /\ samples' = SamplesLeft
    /\ start_output' = 0
    /\ UNCHANGED <<seq_len, framesize, first, from, asked>>

\* MUTANT of LastIndex: one element too many.
LastIndexAfter == start_output + samples

\* The second index of Z_(start_output_, start_output_ + samples-1), -1 taken for the last.
LastIndex == IF start_output + samples = 0 THEN seq_len - 1 ELSE start_output + samples - 1

\* MUTANT of NextStart: the frame is taken for the first one.
NextStartOfFirst == samples

\* start_output_ after the call that finds the sequence long enough.
NextStart == start_output + samples

Finish ==
    /\ window = "getting"
    /\ start_output + samples <= seq_len
    /\ window' = "idle"
    /\ given' = given \o Slice(start_output, LastIndex)
    /\ start_output' = NextStart
    /\ UNCHANGED <<seq_len, framesize, samples, first, from, asked>>

WindowNext == AskForFrame \/ RunPastEnd \/ Finish

-----------------------------------------------------------------------------
(* What makes it correct *)

WindowTypeOK ==
    /\ seq_len \in Nat \ {0}
    /\ framesize \in FrameSizes \cup {0}
    /\ start_output \in 0..seq_len
    /\ samples \in Nat
    /\ window \in {"idle", "getting", "aborted"}
    /\ given \in Seq(0..(seq_len - 1))
    /\ first \in 0..Len(given)
    /\ from \in 0..seq_len
    /\ asked \in 0..MaxFrames

\* The frames, one after the other, are the sequence, over and over: nothing is left out
\* or repeated where one frame ends or where the sequence does, even though
\* get_scrambling_sequence then asks itself for another number of elements than is missing.
Continuous ==
    \A k \in 1..Len(given) :
        given[k] = IF k = 1 \/ given[k - 1] = seq_len - 1 THEN 0 ELSE given[k - 1] + 1

\* How often a frame runs past the end of the sequence, if each time the rest of the
\* sequence and one element more count as given.
Ends(start, size) == (start + size) \div (seq_len + 1)

\* process leaves in the buffer the number of elements the output port declares as long as
\* the sequence lasts.  It leaves one less for each time the sequence ends, also where it
\* ended with the frame before; if that leaves none to ask for, the whole sequence in
\* addition.
FrameLength ==
    window = "idle" /\ asked > 0 =>
        Len(given) - first =
            framesize - Ends(from, framesize)
                + (IF (from + framesize) % (seq_len + 1) = 0 THEN seq_len ELSE 0)

\* get_scrambling_sequence calls itself with fewer elements than it was called with, and
\* samples_left, which is unsigned, never passes below zero: the recursion ends.
RecursionShrinks ==
    [][window = "getting" /\ window' = "getting" => samples' \in 0..(samples - 1)]_windowVars
=============================================================================
