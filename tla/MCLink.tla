------------------------------- MODULE MCLink -------------------------------
(* An instance of Link for TLC: the configured blocks a link may be made of. *)
EXTENDS Link

\* Of the codes IT++ knows, three.
MCTurboFrames == 40..5114
MCCodes == {<<2, 3>>, <<3, 3>>, <<2, 4>>}

\* Frames of 40 bits, or of 84 when coded at a rate of 1/2; scrambling sequences that
\* fit the symbols made of them, and end with a step, within one, or after a whole frame
\* that follows a short one.
Generators ==
    {[block |-> "RandomUniformBitGenerator", Ts |-> 8, framesize |-> 40, lo |-> 0, hi |-> 1],
     [block |-> "UMTSDownlinkScrambler", Ts |-> 8, framesize |-> 42],
     [block |-> "UMTSShortUplinkScrambler", Ts |-> 8, framesize |-> 28],
     [block |-> "UMTSLongUplinkScrambler", Ts |-> 8, framesize |-> 20]}

Codecs ==
    {[block |-> "ConvolutionalEncoder", Ts |-> 0, framesize |-> 0, code_rate |-> 50,
      constraint_length |-> 3],
     [block |-> "ConvolutionalDecoder", Ts |-> 0, framesize |-> 0, code_rate |-> 34,
      constraint_length |-> 3],
     [block |-> "ConvolutionalDecoder", Ts |-> 8, framesize |-> 0, code_rate |-> 150,
      constraint_length |-> 3],
     [block |-> "ConvolutionalDecoder", Ts |-> 8, framesize |-> 20, code_rate |-> 33,
      constraint_length |-> 8],
     [block |-> "TurboEncoder", Ts |-> 0, framesize |-> 0, gen1 |-> 2, gen2 |-> 2,
      constraint_length |-> 3],
     [block |-> "TurboDecoder", Ts |-> 0, framesize |-> 0, gen1 |-> 2, gen2 |-> 2,
      constraint_length |-> 3]}

Modems ==
    {[block |-> "MPSKModulator", Ts |-> 0, framesize |-> 0, M |-> m] : m \in {1, 8}}
    \cup {[block |-> "MPSKDemodulator", Ts |-> 0, framesize |-> 0, M |-> 8, soft |-> s] : s \in {0, 1}}

Channels ==
    {[block |-> "FadingChannel", Ts |-> 0, framesize |-> 28, profile |-> 1, tail |-> t] : t \in {0, 28}}
    \cup {[block |-> "RaisedCosineTransmit", Ts |-> 0, framesize |-> 0, upsampling |-> 4],
     [block |-> "RaisedCosineReceive", Ts |-> 0, framesize |-> 0, downsampling |-> 4],
     [block |-> "AWGNChannel", Ts |-> 8, framesize |-> 0],
     [block |-> "FadingChannel", Ts |-> 0, framesize |-> 42, profile |-> 1, tail |-> 10],
     [block |-> "ConjugateComplex"]}

Interleavers ==
    {[block |-> b, Ts |-> 0, framesize |-> 0, rows |-> 2, cols |-> 2] :
        b \in {"BlockInterleaver", "BlockDeinterleaver"}}

Combiners ==
    {[block |-> "Fork", num_outputs |-> 2], [block |-> "Arithmetic", num_inputs |-> 2],
     [block |-> "ComposeComplex"]}

\* StdoutSink takes what ITWrite takes.
Outlets == {[block |-> "BitErrorCount"], [block |-> "ITWrite"]}

MCLibrary == Generators \cup Codecs \cup Modems \cup Channels
             \cup Interleavers \cup Combiners \cup Outlets
=============================================================================
