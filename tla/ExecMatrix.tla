----------------------------- MODULE ExecMatrix -----------------------------
(***************************************************************************)
(* The execution matrix: a list of stages, each a list of paths, each a    *)
(* list of blocks (exec_matrix.cpp).  Stages are executed in order, the    *)
(* paths of a stage in parallel, the blocks of a path in order.  This      *)
(* module has the operations that place blocks, and the two passes that    *)
(* turn a stage per block into fewer stages: combine_stages moves a block  *)
(* behind the only block it is connected to, parallelize moves paths that  *)
(* are not connected into one stage.                                       *)
(*                                                                         *)
(* Blocks are numbered in the order of their names, which is the order in  *)
(* which std::map and std::set enumerate them.  A block that is no Sink    *)
(* has no input ports, one that is no Source no output ports.              *)
(***************************************************************************)
EXTENDS Naturals, Sequences, SequencesExt

CONSTANT NumBlocks

ASSUME BlocksAssumption == NumBlocks \in Nat \ {0}

Block == 1..NumBlocks

VARIABLES
    numIn, numOut,   \* ports of each block
    connections,     \* pairs of blocks, the connected_blocks_ of their Sources
    stages,
    pc,              \* what the system is doing
    curr, next       \* stage_curr and stage_next of the two passes

matrixVars == <<numIn, numOut, connections, stages>>

IsSource(b) == numOut[b] > 0
IsSink(b) == numIn[b] > 0
Connections(b) == {c \in Block : <<b, c>> \in connections}

-----------------------------------------------------------------------------
(* Placing blocks *)

\* A new stage of one path of one block.
NewStage(b) == << <<b>> >>

BlocksOf(stg) == UNION {ToSet(stg[p]) : p \in DOMAIN stg}

\* MUTANTS of IsPlaced: looks at the first block of each stage only; leaves the
\* last stage out.
IsPlacedFirst(b) == \E i \in DOMAIN stages : b = Head(Head(stages[i]))
IsPlacedButLast(b) == \E i \in 1..(Len(stages) - 1) : b \in BlocksOf(stages[i])

\* block_is_placed
IsPlaced(b) == \E i \in DOMAIN stages : b \in BlocksOf(stages[i])

\* add_block(b): a Source goes to the front.
AddBlock(b) ==
    stages' = IF IsSource(b) THEN <<NewStage(b)>> \o stages ELSE Append(stages, NewStage(b))

\* MUTANT of PlaceBlock: in front of the other block.
PlaceBlockBefore(b, after) ==
    \E i \in DOMAIN stages :
        /\ after \in BlocksOf(stages[i])
        /\ stages' = InsertAt(stages, i, NewStage(b))

\* add_block(b, insert_after): behind the first stage that has the other block.
PlaceBlock(b, after) ==
    LET at == {i \in DOMAIN stages : after \in BlocksOf(stages[i])} IN
    IF at = {} THEN UNCHANGED stages
    ELSE \E i \in at :
            /\ \A j \in at : i <= j
            /\ stages' = InsertAt(stages, i + 1, NewStage(b))

-----------------------------------------------------------------------------
(* combine_stages: one iteration of its inner loop per step *)

\* MUTANT of LeftTerminated: >= for >; of RightTerminated: a block that is no Source
\* is not terminated.
LeftTerminatedByOne(p) == numIn[Head(p)] >= 1
RightTerminatedByMany(p) == numOut[Last(p)] > 1

\* is_left_terminated, is_right_terminated: no ports on that side, or several.
LeftTerminated(p) == numIn[Head(p)] # 1
RightTerminated(p) == numOut[Last(p)] # 1

ToNextStage ==
    /\ curr' = curr + 1
    /\ next' = next + 1
    /\ UNCHANGED <<pc, stages>>

SkipNextStage ==
    /\ next' = next + 1
    /\ UNCHANGED <<pc, stages, curr>>

\* MUTANT of CombineAdvance: only the first stage is ever stage_curr.
CombineAdvanceOnce ==
    /\ pc = "combine"
    /\ next >= Len(stages)
    /\ UNCHANGED stages
    /\ pc' = "parallelize" /\ curr' = 1 /\ next' = 1

\* stage_next has reached the end: go on with the next stage_curr, if any.
CombineAdvance ==
    /\ pc = "combine"
    /\ next >= Len(stages)
    /\ UNCHANGED stages
    /\ IF curr < Len(stages)
       THEN curr' = curr + 1 /\ next' = curr + 1 /\ UNCHANGED pc
       ELSE pc' = "parallelize" /\ curr' = 1 /\ next' = 1

CombineStage ==
    /\ pc = "combine"
    /\ next < Len(stages)
    /\ LET this == stages[curr]
           other == stages[next + 1]
           last == Last(Head(this))
           first == Head(Head(other))
       IN
       CASE RightTerminated(Last(this)) -> ToNextStage
         [] ~RightTerminated(Last(this)) /\ LeftTerminated(Head(other)) -> SkipNextStage
         [] ~RightTerminated(Last(this)) /\ ~LeftTerminated(Head(other)) ->
              IF ~IsSource(last)
              THEN \* a null Source is dereferenced
                   pc' = "crashed" /\ UNCHANGED <<stages, curr, next>>
              ELSE IF first \in Connections(last)
              THEN /\ stages' = RemoveAt([stages EXCEPT ![curr][1] = Append(@, first)], next + 1)
                   /\ next' = curr
                   /\ UNCHANGED <<pc, curr>>
              ELSE SkipNextStage

-----------------------------------------------------------------------------
(* parallelize: one iteration of its outer loop per step *)

\* MUTANT of Inhibits: looks at the first path only.
InhibitsFirst(stg, b) == IsSource(Last(Head(stg))) /\ b \in Connections(Last(Head(stg)))

\* The do loop over the paths: some path ends in a block connected to b.
Inhibits(stg, b) ==
    \E p \in DOMAIN stg : IsSource(Last(stg[p])) /\ b \in Connections(Last(stg[p]))

ParallelizeStage ==
    /\ pc = "parallelize"
    /\ next < Len(stages)
    /\ LET moved == Head(stages[next + 1]) IN
       IF Inhibits(stages[curr], Head(moved))
       THEN ToNextStage
       ELSE /\ stages' = RemoveAt([stages EXCEPT ![curr] = Append(@, moved)], next + 1)
            /\ next' = curr
            /\ UNCHANGED <<pc, curr>>

\* MUTANT of ParallelizeDone: stops before the last stage.
ParallelizeDoneEarly ==
    /\ pc = "parallelize"
    /\ next + 1 >= Len(stages)
    /\ pc' = "ready"
    /\ UNCHANGED <<stages, curr, next>>

ParallelizeDone ==
    /\ pc = "parallelize"
    /\ next >= Len(stages)
    /\ pc' = "ready"
    /\ UNCHANGED <<stages, curr, next>>
=============================================================================
