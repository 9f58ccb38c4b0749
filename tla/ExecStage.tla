----------------------------- MODULE ExecStage -----------------------------
(***************************************************************************)
(* Running a system: the loops of eval_run, System::wakeup_sys and         *)
(* ExecutionMatrix::exec around ExecutionStage::exec, which times the      *)
(* sequential execution of its paths against the threaded one before it    *)
(* settles for either; setup_threading before, and the destructors after.  *)
(*                                                                         *)
(* Main is the thread of the interpreter.  A path is the unit of           *)
(* processing: exec_path calls the blocks of one path in order.            *)
(* What combine_stages and parallelize make of the stages is taken as      *)
(* given here: NumPaths.                                                   *)
(***************************************************************************)
EXTENDS ThreadMgm

CONSTANTS
    TestRuns,    \* test_runs
    MaxSteps     \* bound: the times of one "run"

ASSUME TestAssumption == TestRuns \in Nat /\ MaxSteps \in Nat

VARIABLES
    pc,           \* where Main is
    stage,        \* the stage Main works on
    path,         \* the path Main works on
    run,          \* how many runs have been started
    steps,        \* wakeups this run has left
    measuring,    \* Main is in the calibrating branch of exec
    calibrating, threading, testMulti, executionCount,
    timed         \* measurements accumulated in time_single_threaded and time_multi_threaded

mainVars == <<pc, stage, path, run, steps, measuring>>
stageVars == <<calibrating, threading, testMulti, executionCount, timed>>
vars == <<threadVars, mainVars, stageVars>>

MainPC == {"idle", "setup", "spawn", "wakeup", "exec", "pre", "preWait", "post", "postWait",
           "sequential", "measured", "executed", "destroy", "shutPre", "shutWait", "join",
           "terminated"}

TypeOK ==
    /\ ThreadTypeOK
    /\ pc \in MainPC
    /\ stage \in Stage
    /\ path \in Path(stage)
    /\ run \in 0..MaxRuns
    /\ steps \in 0..MaxSteps
    /\ measuring \in BOOLEAN
    /\ calibrating \in [Stage -> BOOLEAN]
    /\ threading \in [Stage -> BOOLEAN]
    /\ testMulti \in [Stage -> BOOLEAN]
    /\ executionCount \in [Stage -> Nat]
    /\ timed \in [Stage -> [{"single", "multi"} -> Nat]]

Init ==
    /\ ThreadInit
    /\ pc = "idle"
    /\ stage = 1
    /\ path = 1
    /\ run = 0
    /\ steps = 0
    /\ measuring = FALSE
    /\ calibrating = [s \in Stage |-> TRUE]
    /\ threading = [s \in Stage |-> FALSE]
    /\ testMulti = [s \in Stage |-> FALSE]
    /\ executionCount = [s \in Stage |-> 0]
    /\ timed = [s \in Stage |-> [m \in {"single", "multi"} |-> 0]]

-----------------------------------------------------------------------------
(* Where Main goes next *)

AtStage(place, s) ==
    /\ pc' = place
    /\ stage' = s
    /\ path' = 1

\* Mutant: the loop goes on past the last stage.
NextStageTooFar(again, over) ==
    IF stage <= NumStages THEN AtStage(again, stage + 1) ELSE AtStage(over, 1)

\* The for loops over the stages: the next one, or past the end.
NextStage(again, over) ==
    IF stage < NumStages THEN AtStage(again, stage + 1) ELSE AtStage(over, 1)

\* One execution of all paths of the stage, by its Workers or by Main.
Process(multi) ==
    /\ pc' = IF multi THEN "pre" ELSE "sequential"
    /\ path' = 1
    /\ UNCHANGED stage

\* What follows that execution in exec.
Processed ==
    /\ pc' = IF measuring THEN "measured" ELSE "executed"
    /\ path' = 1
    /\ UNCHANGED stage

-----------------------------------------------------------------------------
(* eval_run: initialize, wakeup_sys, finalize *)

\* The first run builds the stages; add_path enables the threads of those
\* that got several paths if the environment has "threading".
StartRun ==
    /\ pc = "idle"
    /\ run < MaxRuns
    /\ run' = run + 1
    /\ steps' \in 0..MaxSteps
    /\ IF run = 0
       THEN \E env \in BOOLEAN : threading' = [s \in Stage |-> env /\ NumPaths[s] > 1]
       ELSE UNCHANGED threading
    /\ AtStage("setup", 1)
    /\ UNCHANGED <<threadVars, measuring, calibrating, testMulti, executionCount, timed>>

\* setup_threading of one stage, the last thing parallelize does: a new Boss ...
SetupThreading ==
    /\ pc = "setup"
    /\ IF threading[stage]
       THEN NewBoss(stage, run) /\ pc' = "spawn" /\ UNCHANGED <<stage, path>>
       ELSE NextStage("setup", "wakeup") /\ UNCHANGED <<boss, shutdown>>
    /\ UNCHANGED <<worker, before, after, freed, count, run, steps, measuring, stageVars>>

\* ... and a Worker for each path.
SpawnWorker ==
    /\ pc = "spawn"
    /\ NewThread(stage, path)
    /\ IF path < NumPaths[stage]
       THEN path' = path + 1 /\ UNCHANGED <<pc, stage>>
       ELSE NextStage("setup", "wakeup")
    /\ UNCHANGED <<boss, before, after, shutdown, freed, count, run, steps, measuring, stageVars>>

\* The loop of wakeup_sys: another step, or the end of the run.
Wakeup ==
    /\ pc = "wakeup"
    /\ IF steps > 0
       THEN steps' = steps - 1 /\ AtStage("exec", 1)
       ELSE UNCHANGED steps /\ AtStage("idle", 1)
    /\ UNCHANGED <<threadVars, run, measuring, stageVars>>

-----------------------------------------------------------------------------
(* ExecutionStage::exec *)

Exec ==
    /\ pc = "exec"
    /\ LET calibrate == calibrating[stage] /\ threading[stage] IN
       /\ measuring' = calibrate
       /\ Process(IF calibrate THEN testMulti[stage] ELSE threading[stage])
    /\ UNCHANGED <<threadVars, run, steps, stageVars>>

\* Mutant: the last path is left out.
ExecPathButLast ==
    /\ pc = "sequential"
    /\ count' = [count EXCEPT ![<<stage, path>>] = @ + 1]
    /\ IF path + 1 < NumPaths[stage]
       THEN path' = path + 1 /\ UNCHANGED <<pc, stage>>
       ELSE Processed
    /\ UNCHANGED <<worker, boss, before, after, shutdown, freed, run, steps, measuring, stageVars>>

\* for_each over the paths with exec_path, in the thread of the system.
ExecPath ==
    /\ pc = "sequential"
    /\ count' = [count EXCEPT ![<<stage, path>>] = @ + 1]
    /\ IF path < NumPaths[stage]
       THEN path' = path + 1 /\ UNCHANGED <<pc, stage>>
       ELSE Processed
    /\ UNCHANGED <<worker, boss, before, after, shutdown, freed, run, steps, measuring, stageVars>>

\* continue_all and sync_post_process of the Boss, each up to its wait and past it.
ContinueAll ==
    /\ pc = "pre"
    /\ SyncPre(stage, Main)
    /\ pc' = "preWait"
    /\ UNCHANGED <<worker, boss, after, shutdown, freed, count, stage, path, run, steps, measuring, stageVars>>

\* Mutant: exec does not wait for the Workers at after_process.
ContinuedDetached ==
    /\ pc = "preWait"
    /\ Released(before, Main)
    /\ Processed
    /\ UNCHANGED <<threadVars, run, steps, measuring, stageVars>>

Continued ==
    /\ pc = "preWait"
    /\ Released(before, Main)
    /\ pc' = "post"
    /\ UNCHANGED <<threadVars, stage, path, run, steps, measuring, stageVars>>

SyncPostProcess ==
    /\ pc = "post"
    /\ SyncPost(stage, Main)
    /\ pc' = "postWait"
    /\ UNCHANGED <<worker, boss, before, shutdown, freed, count, stage, path, run, steps, measuring, stageVars>>

PostProcessed ==
    /\ pc = "postWait"
    /\ Released(after, Main)
    /\ Processed
    /\ UNCHANGED <<threadVars, run, steps, measuring, stageVars>>

\* Mutant: the last test is number test_runs.
LastTestEven == TestRuns

\* Both kinds have been timed equally often when the count is test_runs | 1.
LastTest == IF TestRuns % 2 = 0 THEN TestRuns + 1 ELSE TestRuns

\* The rest of the calibrating branch; exec then goes on to execute the stage
\* as if it had not been executed yet.  Which way is faster is up to the clock.
Calibrate ==
    /\ pc = "measured"
    /\ LET kind == IF testMulti[stage] THEN "multi" ELSE "single" IN
       timed' = [timed EXCEPT ![stage][kind] = @ + 1]
    /\ testMulti' = [testMulti EXCEPT ![stage] = ~@]
    /\ IF executionCount[stage] = LastTest
       THEN /\ calibrating' = [calibrating EXCEPT ![stage] = FALSE]
            /\ \E faster \in BOOLEAN : threading' = [threading EXCEPT ![stage] = faster]
       ELSE UNCHANGED <<calibrating, threading>>
    /\ measuring' = FALSE
    /\ Process(threading'[stage])
    /\ UNCHANGED <<threadVars, run, steps, executionCount>>

Executed ==
    /\ pc = "executed"
    /\ executionCount' = [executionCount EXCEPT ![stage] = @ + 1]
    /\ NextStage("exec", "wakeup")
    /\ UNCHANGED <<threadVars, run, steps, measuring, calibrating, threading, testMulti, timed>>

-----------------------------------------------------------------------------
(* The end of the program: ~ExecutionStage, stage by stage *)

Quit ==
    /\ pc = "idle"
    /\ AtStage("destroy", 1)
    /\ UNCHANGED <<threadVars, run, steps, measuring, stageVars>>

\* Mutant: shutdown_ is not set.
ShutdownNowUnset ==
    /\ pc = "destroy"
    /\ IF threading[stage]
       THEN pc' = "shutPre" /\ UNCHANGED <<stage, path>>
       ELSE NextStage("destroy", "terminated")
    /\ UNCHANGED <<threadVars, run, steps, measuring, stageVars>>

\* shutdown_now, if the stage is threaded when it is destroyed.
ShutdownNow ==
    /\ pc = "destroy"
    /\ IF threading[stage]
       THEN /\ shutdown' = [shutdown EXCEPT ![stage] = TRUE]
            /\ pc' = "shutPre"
            /\ UNCHANGED <<stage, path>>
       ELSE NextStage("destroy", "terminated") /\ UNCHANGED shutdown
    /\ UNCHANGED <<worker, boss, before, after, freed, count, run, steps, measuring, stageVars>>

ShutdownSync ==
    /\ pc = "shutPre"
    /\ SyncPre(stage, Main)
    /\ pc' = "shutWait"
    /\ UNCHANGED <<worker, boss, after, shutdown, freed, count, stage, path, run, steps, measuring, stageVars>>

ShutdownSynced ==
    /\ pc = "shutWait"
    /\ Released(before, Main)
    /\ pc' = "join"
    /\ UNCHANGED <<threadVars, stage, path, run, steps, measuring, stageVars>>

JoinAll ==
    /\ pc = "join"
    /\ AllJoined(stage)
    /\ freed' = freed \cup {CurrentBoss(stage)}
    /\ NextStage("destroy", "terminated")
    /\ UNCHANGED <<worker, boss, before, after, shutdown, count, run, steps, measuring, stageVars>>

-----------------------------------------------------------------------------

MainStep ==
    \/ StartRun
    \/ SetupThreading
    \/ SpawnWorker
    \/ Wakeup
    \/ Exec
    \/ ExecPath
    \/ ContinueAll
    \/ Continued
    \/ SyncPostProcess
    \/ PostProcessed
    \/ Calibrate
    \/ Executed
    \/ Quit
    \/ ShutdownNow
    \/ ShutdownSync
    \/ ShutdownSynced
    \/ JoinAll

WorkerNext(w) == WorkerStep(w) /\ UNCHANGED <<mainVars, stageVars>>

\* The program is over.
Terminated == pc = "terminated" /\ UNCHANGED vars

Next ==
    \/ MainStep
    \/ \E w \in Worker : WorkerNext(w)
    \/ Terminated

\* The operating system runs every thread that can run.
Fairness ==
    /\ WF_vars(MainStep)
    /\ \A w \in Worker : WF_vars(WorkerNext(w))

Spec == Init /\ [][Next]_vars /\ Fairness

-----------------------------------------------------------------------------
(* What makes it correct *)

\* Blocks run in a Worker only while the thread of the system waits for that
\* Worker's stage: no block of another stage, and no other Boss call, runs at
\* the same time (continue_all and sync_post_process are a rendezvous).
NoOverlap ==
    \A w \in Worker :
        worker[w] = "process" => stage = w[1] /\ pc \in {"preWait", "post", "postWait"}

\* Boss::shutdown_ is a plain bool: no Worker may be about to read it in
\* must_shutdown when the thread of the system is about to write it, in
\* shutdown_now or when setup_threading overwrites the Boss.
NoRaceOnShutdown ==
    pc \in {"setup", "destroy"} =>
        \A w \in Worker : w[1] = stage => worker[w] # "check"

\* Between the steps every path of a stage has been processed once for each
\* exec of the stage and once more for each of its measurements, whichever
\* threads did it: no path is ever left out or ahead of its siblings.
CountsAgree ==
    pc = "wakeup" =>
        \A sp \in StagePath :
            count[sp] = executionCount[sp[1]] + timed[sp[1]]["single"] + timed[sp[1]]["multi"]

\* When a stage stops calibrating, the two totals it compares are of the same
\* number of executions (test_runs | 1 makes the last test an odd one).
ComparisonIsFair ==
    \A s \in Stage : ~calibrating[s] => timed[s]["single"] = timed[s]["multi"]

\* The barriers of a Boss are deleted when its Workers have all exited, and the program
\* ends with no Worker alive but those of a stage whose calibration has decided against
\* threads: its destructor does not ask for them.
NoneLeftBehind ==
    /\ \A b \in freed : \A w \in Worker : w[1] = b[1] => worker[w] = "exit"
    /\ pc = "terminated" =>
          \A w \in Worker : \/ worker[w] \in {"none", "exit"}
                            \/ ~threading[w[1]] /\ ~calibrating[w[1]]

\* The program ends: no barrier is ever waited at in vain, and every thread the
\* destructors join has exited (sync_pre_process, sync_post_process, join_all).
Termination == <>(pc = "terminated")

\* The paths that the current execution of a stage has still to process.
Pending ==
    CASE pc = "sequential" -> {stage} \X (path..NumPaths[stage])
      [] pc = "pre" \/ (pc = "preWait" /\ ~Released(before, Main)) -> {stage} \X Path(stage)
      [] \/ pc = "preWait" /\ Released(before, Main)
         \/ pc = "post"
         \/ pc = "postWait" /\ ~Released(after, Main) ->
            {<<w[1], w[3]>> : w \in {v \in Worker :
                v[1] = stage /\ v[2] = boss[stage] /\ worker[v] \in {"pre", "check", "process"}}}
      [] OTHER -> {}

Rounds == INSTANCE ForkJoin WITH pending <- Pending

\* Executing a stage, sequentially or by its Workers, implements ForkJoin.
ForkJoinSpec == Rounds!Spec

\* "running system N times": each path has been processed N times after a run
\* of N (and as often in earlier ones).
RunsNTimes ==
    pc = "wakeup" => \A sp \in StagePath : count[sp] = executionCount[sp[1]]
=============================================================================
