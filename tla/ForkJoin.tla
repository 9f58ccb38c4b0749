------------------------------ MODULE ForkJoin ------------------------------
(***************************************************************************)
(* What the execution of stages promises, whoever does the work: the paths *)
(* of one stage are taken up together, each is processed exactly once, in  *)
(* any order, and no stage is taken up before all of that is done.         *)
(***************************************************************************)
EXTENDS Naturals

CONSTANTS NumStages, NumPaths

Paths(s) == {s} \X (1..NumPaths[s])
AllPaths == UNION {Paths(s) : s \in 1..NumStages}

VARIABLES
    pending,   \* paths taken up and not processed yet
    count      \* how often each path has been processed

vars == <<pending, count>>

Init ==
    /\ pending = {}
    /\ count = [sp \in AllPaths |-> 0]

Fork(s) ==
    /\ pending = {}
    /\ pending' = Paths(s)
    /\ UNCHANGED count

Work(sp) ==
    /\ sp \in pending
    /\ pending' = pending \ {sp}
    /\ count' = [count EXCEPT ![sp] = @ + 1]

Next ==
    \/ \E s \in 1..NumStages : Fork(s)
    \/ \E sp \in AllPaths : Work(sp)

\* What has been taken up is processed.
Spec == Init /\ [][Next]_vars /\ WF_vars(\E sp \in AllPaths : Work(sp))
=============================================================================
