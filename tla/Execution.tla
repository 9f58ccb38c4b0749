----------------------------- MODULE Execution ------------------------------
(***************************************************************************)
(* The execution of an initialized matrix: stage by stage, the blocks of a *)
(* path in order, the paths of a stage in any order, block by block, as    *)
(* they are in threads of their own (exec_matrix.cpp, exec_stage.cpp).     *)
(* process of a block reads the buffers of its input ports and writes      *)
(* those of its output ports.  A stage of several paths may be executed    *)
(* twice, once to measure it: ExecStage tells when.                        *)
(*                                                                         *)
(* A sample stands for the output port that wrote it, in this step.        *)
(***************************************************************************)
EXTENDS Ports

VARIABLES
    progress,    \* progress[p]: how many blocks of path p of stage curr have been processed
    tested,      \* whether stage curr has been executed to measure it
    holds,       \* holds[n]: the port that wrote to buffer n in this step
    taken        \* what input ports have read in this step

executionVars == <<progress, tested, holds, taken>>

Nobody == <<0, 0>>

InputsOf(b) == {<<b, q>> : q \in 1..numIn[b]}
OutputsOf(b) == {<<b, p>> : p \in 1..numOut[b]}
ReadBy(b) == {inBuf[x] : x \in InputsOf(b)}
WrittenBy(b) == {outBuf[x] : x \in OutputsOf(b)}

AtRest == progress = <<>> /\ tested = FALSE /\ holds = <<>> /\ taken = {}

\* No block of the i-th stage has been processed.
Unprocessed(i) == IF i <= Len(stages) THEN [p \in DOMAIN stages[i] |-> 0] ELSE <<>>

\* The first stage of a step: what the last step left in the buffers is old.
BeginStep ==
    /\ curr' = 1
    /\ progress' = Unprocessed(1)
    /\ tested' = FALSE
    /\ holds' = [n \in 1..buffers |-> Nobody]
    /\ taken' = {}

\* The buffers after process of b.
Stored(b) ==
    [n \in 1..buffers |-> IF \E x \in OutputsOf(b) : outBuf[x] = n
                          THEN CHOOSE x \in OutputsOf(b) : outBuf[x] = n
                          ELSE holds[n]]

\* call_process of the next block of path p
ProcessBlock(p) ==
    /\ pc = "running"
    /\ p \in DOMAIN progress
    /\ progress[p] < Len(stages[curr][p])
    /\ LET b == stages[curr][p][progress[p] + 1] IN
       /\ taken' = taken \cup {<<x, holds[inBuf[x]]>> : x \in InputsOf(b)}
       /\ holds' = Stored(b)
    /\ progress' = [progress EXCEPT ![p] = @ + 1]
    /\ UNCHANGED <<matrixVars, pc, curr, next, starts, frames, portVars, tested>>

\* All paths of the stage are done.
StageDone == curr <= Len(stages) /\ \A p \in DOMAIN progress : progress[p] = Len(stages[curr][p])

\* The stage has been measured, and is executed.
ExecuteAgain ==
    /\ pc = "running"
    /\ StageDone
    /\ Len(stages[curr]) > 1
    /\ ~tested
    /\ tested' = TRUE
    /\ progress' = Unprocessed(curr)
    /\ UNCHANGED <<matrixVars, pc, curr, next, starts, frames, portVars, holds, taken>>

ExecuteNext ==
    /\ pc = "running"
    /\ StageDone
    /\ curr' = curr + 1
    /\ progress' = Unprocessed(curr + 1)
    /\ tested' = FALSE
    /\ UNCHANGED <<matrixVars, pc, next, starts, frames, portVars, holds, taken>>

\* All stages are done.
StepDone == pc = "running" /\ curr > Len(stages)

\* wakeup_sys goes on with the next step; the number of steps is left open.
NextStep ==
    /\ StepDone
    /\ BeginStep
    /\ UNCHANGED <<matrixVars, pc, next, starts, frames, portVars>>
=============================================================================
