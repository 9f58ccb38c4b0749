----------------------------- MODULE SystemInit -----------------------------
(***************************************************************************)
(* System::initialize: the blocks of a connected system are placed in the  *)
(* execution matrix, depth first along their connections, and the matrix   *)
(* is then combined and parallelized (system.cpp).                         *)
(*                                                                         *)
(* A system is any set of blocks with ports and connections that add_block *)
(* and connect_ports accept, each port connected once at most; the blocks  *)
(* of "spare" may leave ports unconnected.                                 *)
(***************************************************************************)
EXTENDS Linearization

CONSTANTS
    MaxPorts,      \* bound: input ports, and output ports, of a block
    MaxRuns,       \* bound: how often the system is run
    Systems        \* bound: the systems tried

ASSUME SystemAssumption ==
    /\ MaxPorts \in Nat
    /\ MaxRuns \in Nat \ {0}
    /\ Systems \subseteq [wiring : SUBSET (Block \X Block), spare : SUBSET Block]

VARIABLE runs   \* how often initialize has been called

vars == <<matrixVars, pc, curr, next, starts, frames, runs>>

TypeOK ==
    /\ numIn \in [Block -> 0..MaxPorts]
    /\ numOut \in [Block -> 0..MaxPorts]
    /\ connections \subseteq Block \X Block
    /\ stages \in Seq(Seq(Seq(Block)))
    /\ pc \in {"start", "linearize", "combine", "parallelize", "ready", "crashed"}
    /\ curr \in Nat \ {0}
    /\ next \in Nat \ {0}
    /\ starts \subseteq Block
    /\ frames \in Seq(Frame)
    /\ runs \in 1..MaxRuns

Outs(b) == Cardinality({c \in connections : c[1] = b})
Ins(b) == Cardinality({c \in connections : c[2] = b})

\* How many ports the blocks may have when used[b] of b's are connected: no other
\* unless b may have spare ones.
Ports(used, spare) ==
    {m \in [Block -> 0..MaxPorts] :
        \A b \in Block : m[b] = used[b] \/ (b \in spare /\ used[b] < m[b])}

Init ==
    /\ \E sys \in Systems :
          /\ connections = sys.wiring
          /\ numIn \in Ports([b \in Block |-> Ins(b)], sys.spare)
          /\ numOut \in Ports([b \in Block |-> Outs(b)], sys.spare)
    /\ stages = <<>>
    /\ pc = "start"
    /\ curr = 1
    /\ next = 1
    /\ starts = StartBlocks
    /\ frames = <<>>
    /\ runs = 1

-----------------------------------------------------------------------------
Linearize ==
    /\ (\E b \in Block : StartBlock(b)) \/ LinearizeNext \/ LinearizeReturn
    /\ UNCHANGED runs

\* All start blocks are done: combine_stages begins.
Linearized ==
    /\ pc = "start"
    /\ starts = {}
    /\ pc' = "combine"
    /\ curr' = 1
    /\ next' = 1
    /\ UNCHANGED <<matrixVars, starts, frames, runs>>

Pass ==
    /\ CombineAdvance \/ CombineStage \/ ParallelizeStage \/ ParallelizeDone
    /\ UNCHANGED <<numIn, numOut, connections, starts, frames, runs>>

\* The system has been run, and the user runs it again.
RunAgain ==
    /\ pc = "ready"
    /\ runs < MaxRuns
    /\ runs' = runs + 1
    /\ pc' = "start"
    /\ starts' = StartBlocks
    /\ UNCHANGED <<matrixVars, curr, next, frames>>

Finished ==
    /\ pc \in {"ready", "crashed"}
    /\ UNCHANGED vars

Next ==
    \/ Linearize
    \/ Linearized
    \/ Pass
    \/ RunAgain
    \/ Finished

Spec == Init /\ [][Next]_vars /\ WF_vars(Next)

-----------------------------------------------------------------------------
(* What makes it correct *)

Built == pc \in {"combine", "parallelize", "ready"}

\* From the end of linearize on, every block that is a Source or connected to
\* one has one place: combine_stages and parallelize lose and repeat none.
NothingLost ==
    Built => \A b \in Block :
        Cardinality(Places(b)) = IF IsSource(b) \/ b \in Successors(Block) THEN 1 ELSE 0

\* A block is processed after those that write its inputs and never at the same
\* time, if the connections have no circle: in an earlier stage, or before it in
\* its path.
OrderRespected ==
    Built /\ Acyclic =>
        \A c \in connections : \A x \in Places(c[1]), y \in Places(c[2]) : Precedes(x, y)

\* combine_stages leaves no block that is the only one fed by the only one that
\* feeds it in a stage, or a path, of its own.
ChainsCombined ==
    pc \in {"parallelize", "ready"} /\ Acyclic =>
        \A c \in connections : numOut[c[1]] = 1 /\ numIn[c[2]] = 1 =>
            \E x \in Places(c[1]), y \in Places(c[2]) :
                x[1] = y[1] /\ x[2] = y[2] /\ y[3] = x[3] + 1

\* parallelize leaves no two stages that it could have made one.
StagesNeeded ==
    pc = "ready" => \A i \in 1..(Len(stages) - 1) :
        \E p \in DOMAIN stages[i] : Head(Head(stages[i + 1])) \in Connections(Last(stages[i][p]))

\* initialize never dereferences a null Source, and returns.
Initializes == <>[](pc = "ready")
=============================================================================
