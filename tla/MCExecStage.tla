---------------------------- MODULE MCExecStage ----------------------------
(* Instances of ExecStage for TLC. *)
EXTENDS ExecStage

\* A threaded stage and, before and after it, a stage of one path.
PathsThreadedInside == <<1, 2, 1>>
\* Two threaded stages in a row.
PathsThreadedBoth == <<2, 2>>
\* One threaded stage of three paths.
PathsThreaded == <<3>>
\* The smallest threaded stage.
PathsPair == <<2>>
=============================================================================
