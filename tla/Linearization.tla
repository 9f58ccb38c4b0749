--------------------------- MODULE Linearization ----------------------------
(***************************************************************************)
(* The first part of System::initialize: the blocks that have outputs, in  *)
(* an order that prefers those without inputs, are placed in the execution *)
(* matrix with everything their connections lead to, depth first           *)
(* (system.cpp).                                                           *)
(***************************************************************************)
EXTENDS ExecMatrix, FiniteSets

VARIABLES
    starts,    \* start blocks still to be visited
    frames     \* the recursion of linearize: blocks, and their connections still to be visited

Frame == [block : Block, left : SUBSET Block]

\* find_start_blocks
StartBlocks == {b \in Block : IsSource(b)}

\* SourceBlocksToFront, where it decides: blocks without inputs first, then by
\* the surplus of outputs.
ToFront(b, c) ==
    \/ ~IsSink(b) /\ IsSink(c)
    \/ IsSink(b) /\ IsSink(c) /\ numOut[b] + numIn[c] > numOut[c] + numIn[b]

\* The next of the sorted start blocks.
IsNextStart(b) == b \in starts /\ \A c \in starts : ~ToFront(c, b)

Visit(b) == [block |-> b, left |-> IF IsSource(b) THEN Connections(b) ELSE {}]

StartBlock(b) ==
    /\ pc = "start"
    /\ IsNextStart(b)
    /\ starts' = starts \ {b}
    /\ IF IsPlaced(b)
       THEN UNCHANGED <<stages, frames, pc>>
       ELSE AddBlock(b) /\ frames' = <<Visit(b)>> /\ pc' = "linearize"
    /\ UNCHANGED <<numIn, numOut, connections, curr, next>>

\* PlaceBlock for the next connection, in the order of the names.
LinearizeNext ==
    /\ pc = "linearize"
    /\ LET top == Last(frames) IN
       \E b \in top.left :
          /\ \A c \in top.left : b <= c
          /\ LET rest == Append(Front(frames), [top EXCEPT !.left = @ \ {b}]) IN
             IF IsPlaced(b)
             THEN frames' = rest /\ UNCHANGED stages
             ELSE frames' = Append(rest, Visit(b)) /\ PlaceBlock(b, top.block)
    /\ UNCHANGED <<numIn, numOut, connections, pc, curr, next, starts>>

LinearizeReturn ==
    /\ pc = "linearize"
    /\ Last(frames).left = {}
    /\ frames' = Front(frames)
    /\ pc' = IF Len(frames) = 1 THEN "start" ELSE pc
    /\ UNCHANGED <<matrixVars, curr, next, starts>>

-----------------------------------------------------------------------------
(* Notions to state properties with *)

\* The places of a matrix: a stage, a path of it and a place in that path.
PlacesIn(s) ==
    UNION {UNION {{<<i, p, k>> : k \in DOMAIN s[i][p]} : p \in DOMAIN s[i]} : i \in DOMAIN s}

BlockAt(s, x) == s[x[1]][x[2]][x[3]]

\* Where a block is.
Places(b) == {x \in PlacesIn(stages) : BlockAt(stages, x) = b}

\* What is placed at x is processed before what is placed at y.
Precedes(x, y) == x[1] < y[1] \/ (x[1] = y[1] /\ x[2] = y[2] /\ x[3] < y[3])

\* The blocks that connections lead to from a set of blocks.
Successors(S) == UNION {Connections(b) : b \in S}

\* No connections lead in a circle: leaving out blocks that nothing left leads
\* to, again and again, leaves none.
Acyclic == \A S \in SUBSET Block : S # {} => ~(S \subseteq Successors(S))
=============================================================================
