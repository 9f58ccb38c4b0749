---------------------------- MODULE MCSystemRerun ---------------------------
(* An instance of SystemInit for TLC with a single, larger system.         *)
EXTENDS SystemInit

\* A chain of two blocks, and two blocks that feed a third, which feeds two more.
ChainAndFork ==
    {[wiring |-> {<<1, 2>>, <<3, 5>>, <<4, 5>>, <<5, 6>>, <<5, 7>>}, spare |-> {}]}
=============================================================================
