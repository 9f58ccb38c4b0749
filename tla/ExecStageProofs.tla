-------------------------- MODULE ExecStageProofs --------------------------
(***************************************************************************)
(* Proofs about ExecStage for every number of stages and of paths, every   *)
(* number of steps and of test runs: that the calibration compares like    *)
(* with like, for any number of runs; and, for a program that runs its     *)
(* system once, that nothing can race or be left behind, that every path   *)
(* is processed as often as its siblings, and that executing the stages    *)
(* implements ForkJoin.                                                    *)
(***************************************************************************)
EXTENDS ExecStage, FiniteSetTheorems, TLAPS

-----------------------------------------------------------------------------
(* The inductive invariant of a program that runs its system once at most. *)

\* The Workers of a stage, and the one Boss it may have.
Crew(s) == {<<s, 1, p>> : p \in Path(s)}
Only(s) == <<s, 1>>

\* Main and the Workers of s are between the two barriers.
InRound(s) ==
    /\ stage = s
    /\ \/ pc = "post"
       \/ pc = "preWait" /\ Main \notin before[Only(s)]
       \/ pc = "postWait" /\ Main \in after[Only(s)]

\* The Workers of s have been let go by shutdown_now, to find shutdown_ set.
Leaving(s) ==
    /\ shutdown[s]
    /\ ~(stage = s /\ pc = "shutPre")
    /\ ~(stage = s /\ pc = "shutWait" /\ Main \in before[Only(s)])

\* In any other state they gather at before_process.
Gathering(s) == ~InRound(s) /\ ~Leaving(s)

CrewInv(s) ==
    /\ InRound(s) =>
        /\ before[Only(s)] = {}
        /\ after[Only(s)] \ {Main} = {w \in Crew(s) : worker[w] = "postWait"}
        /\ \A w \in Crew(s) : worker[w] \in {"pre", "check", "process", "post", "postWait"}
    /\ Leaving(s) =>
        /\ before[Only(s)] = {}
        /\ after[Only(s)] = {}
        /\ \A w \in Crew(s) : worker[w] \in {"none", "pre", "check", "exit"}
    /\ Gathering(s) =>
        /\ after[Only(s)] = {}
        /\ before[Only(s)] \ {Main} = {w \in Crew(s) : worker[w] = "pre"}
        /\ \A w \in Crew(s) : worker[w] \in {"none", "loop", "pre", "postWait"}

\* When Main can be waiting at the barriers of s.
MainWaits(s) ==
    /\ Main \in before[Only(s)] => stage = s /\ pc \in {"preWait", "shutWait"}
    /\ Main \in after[Only(s)] => stage = s /\ pc = "postWait"

\* Workers and shutdown_ belong to a Boss that has been set up.
BossInv(s) ==
    /\ boss[s] = 0 => \A w \in Crew(s) : worker[w] = "none"
    /\ shutdown[s] =>
        /\ pc \in {"destroy", "shutPre", "shutWait", "join", "terminated"}
        /\ pc = "destroy" => s < stage
        /\ pc \in {"shutPre", "shutWait", "join"} => s <= stage

\* A threaded stage has a Boss as soon as setup_threading has been there.
ThreadingInv(s) ==
    /\ run = 0 => boss[s] = 0 /\ ~threading[s]
    /\ pc = "setup" /\ s >= stage => boss[s] = 0
    /\ pc = "spawn" /\ s > stage => boss[s] = 0
    /\ pc = "spawn" /\ s = stage =>
        /\ boss[s] = 1
        /\ \A p \in Path(s) : p >= path => worker[<<s, 1, p>>] = "none"
    /\ threading[s] =>
        \/ boss[s] = 1
        \/ pc = "setup" /\ s >= stage
        \/ pc = "spawn" /\ s > stage

MainInv ==
    /\ run = 0 => pc \in {"idle", "destroy", "terminated"}
    /\ pc \in {"pre", "preWait", "post", "postWait", "shutPre", "shutWait", "join"} =>
        boss[stage] = 1
    /\ pc \in {"shutPre", "shutWait", "join"} => shutdown[stage]
    /\ pc = "measured" => threading[stage]
    /\ measuring /\ pc \in {"pre", "preWait", "post", "postWait", "sequential"} => threading[stage]

IInv ==
    /\ TypeOK
    /\ MainInv
    /\ \A s \in Stage : CrewInv(s) /\ MainWaits(s) /\ BossInv(s) /\ ThreadingInv(s)

-----------------------------------------------------------------------------
(* Facts about the constants. *)

LEMMA PathFacts ==
    ASSUME NEW s \in Stage
    PROVE  /\ NumPaths[s] \in Nat
           /\ NumPaths[s] >= 1
           /\ 1 \in Path(s)
           /\ \A p \in Path(s) : p < NumPaths[s] => p + 1 \in Path(s)
<1>1. NumPaths[s] \in Nat \ {0}
    BY ShapeAssumption
<1> QED
    BY <1>1 DEF Path

LEMMA StageFacts ==
    /\ 1 \in Stage
    /\ \A s \in Stage : s < NumStages => s + 1 \in Stage
BY ShapeAssumption DEF Stage

\* A Worker is named by its stage, its run and its path.
LEMMA WorkerFacts ==
    ASSUME NEW w \in Worker
    PROVE  /\ w = <<w[1], w[2], w[3]>>
           /\ w[1] \in Stage
           /\ w[2] \in Run
           /\ w[3] \in Path(w[1])
           /\ <<w[1], w[3]>> \in StagePath
           /\ w \in Thread
           /\ w # Main
<1>1. PICK s \in Stage : w \in {s} \X Run \X Path(s)
    BY DEF Worker
<1>2. /\ w = <<w[1], w[2], w[3]>>
      /\ w[1] = s
      /\ w[2] \in Run
      /\ w[3] \in Path(s)
    BY <1>1
<1>3. <<w[1], w[3]>> \in StagePath
    BY <1>2 DEF StagePath
<1> QED
    BY <1>2, <1>3, MainAssumption DEF Thread

LEMMA EnterType ==
    ASSUME NEW B \in SUBSET Thread, NEW t \in Thread, NEW n
    PROVE  Enter(B, t, n) \in SUBSET Thread
BY DEF Enter

LEMMA SyncType ==
    ASSUME NEW s, NEW t \in Thread, ThreadTypeOK
    PROVE  /\ SyncPre(s, t) => before' \in [Boss -> SUBSET Thread]
           /\ SyncPost(s, t) => after' \in [Boss -> SUBSET Thread]
<1>1. ASSUME SyncPre(s, t)
      PROVE  before' \in [Boss -> SUBSET Thread]
    <2> DEFINE new == Enter(before[CurrentBoss(s)], t, Threshold(s))
    <2>1. CASE CurrentBoss(s) \in Boss
        <3>1. new \in SUBSET Thread
            BY <2>1, EnterType DEF ThreadTypeOK
        <3> HIDE DEF new
        <3>2. before' = [before EXCEPT ![CurrentBoss(s)] = new]
            BY <1>1 DEF SyncPre, new
        <3> QED
            BY <3>1, <3>2 DEF ThreadTypeOK
    <2>2. CASE CurrentBoss(s) \notin Boss
        BY <1>1, <2>2 DEF SyncPre, ThreadTypeOK
    <2> QED
        BY <2>1, <2>2
<1>2. ASSUME SyncPost(s, t)
      PROVE  after' \in [Boss -> SUBSET Thread]
    <2> DEFINE new == Enter(after[CurrentBoss(s)], t, Threshold(s))
    <2>1. CASE CurrentBoss(s) \in Boss
        <3>1. new \in SUBSET Thread
            BY <2>1, EnterType DEF ThreadTypeOK
        <3> HIDE DEF new
        <3>2. after' = [after EXCEPT ![CurrentBoss(s)] = new]
            BY <1>2 DEF SyncPost, new
        <3> QED
            BY <3>1, <3>2 DEF ThreadTypeOK
    <2>2. CASE CurrentBoss(s) \notin Boss
        BY <1>2, <2>2 DEF SyncPost, ThreadTypeOK
    <2> QED
        BY <2>1, <2>2
<1> QED
    BY <1>1, <1>2

-----------------------------------------------------------------------------
(* Type correctness, for any number of runs. *)

LEMMA InitType == Init => TypeOK
<1> SUFFICES ASSUME Init PROVE TypeOK
    OBVIOUS
<1>1. ThreadTypeOK
    BY ShapeAssumption DEF Init, ThreadInit, ThreadTypeOK, WorkerPC
<1>2. stage \in Stage /\ path \in Path(stage)
    BY StageFacts, PathFacts DEF Init
<1>3. run \in 0..MaxRuns /\ steps \in 0..MaxSteps
    BY ShapeAssumption, TestAssumption DEF Init
<1> QED
    BY <1>1, <1>2, <1>3 DEF Init, TypeOK, MainPC

\* Where NextStage and AtStage lead Main to.
LEMMA NextStageType ==
    ASSUME TypeOK, NEW again \in MainPC, NEW over \in MainPC
    PROVE  NextStage(again, over) =>
               pc' \in MainPC /\ stage' \in Stage /\ path' \in Path(stage')
<1>1. ASSUME NEW s \in Stage, NEW place \in MainPC, AtStage(place, s)
      PROVE  pc' \in MainPC /\ stage' \in Stage /\ path' \in Path(stage')
    BY <1>1, PathFacts DEF AtStage
<1> QED
    BY <1>1, StageFacts DEF NextStage, TypeOK

LEMMA WorkerStepType ==
    ASSUME TypeOK, NEW w \in Worker, WorkerNext(w)
    PROVE  TypeOK'
<1> USE WorkerFacts
<1>0. WorkerStep(w)
    BY DEF WorkerNext
<1>1. /\ worker' \in [Worker -> WorkerPC]
      /\ boss' = boss /\ shutdown' = shutdown /\ freed' = freed
      /\ count' \in [StagePath -> Nat]
    <2>1. CASE WorkerMustShutdown(w)
        BY <2>1 DEF WorkerMustShutdown, TypeOK, ThreadTypeOK, WorkerPC
    <2>2. CASE WorkerProcess(w)
        <3>1. count' \in [StagePath -> Nat]
            BY <2>2 DEF WorkerProcess, TypeOK, ThreadTypeOK
        <3> QED
            BY <2>2, <3>1 DEF WorkerProcess, TypeOK, ThreadTypeOK, WorkerPC
    <2>3. CASE WorkerSyncPre(w) \/ WorkerContinues(w) \/ WorkerSyncPost(w) \/ WorkerLoops(w)
        BY <2>3 DEF WorkerSyncPre, WorkerContinues, WorkerSyncPost, WorkerLoops,
                    TypeOK, ThreadTypeOK, WorkerPC
    <2> QED
        BY <1>0, <2>1, <2>2, <2>3 DEF WorkerStep
<1>2. before' \in [Boss -> SUBSET Thread] /\ after' \in [Boss -> SUBSET Thread]
    BY SyncType
    DEF WorkerNext, WorkerStep, WorkerSyncPre, WorkerContinues, WorkerMustShutdown,
        WorkerProcess, WorkerSyncPost, WorkerLoops, TypeOK, ThreadTypeOK
<1>3. UNCHANGED <<mainVars, stageVars>>
    BY DEF WorkerNext
<1> QED
    BY <1>1, <1>2, <1>3 DEF TypeOK, ThreadTypeOK, mainVars, stageVars

LEMMA MainStepType ==
    ASSUME TypeOK, MainStep
    PROVE  TypeOK'
<1> USE PathFacts, StageFacts DEF TypeOK
<1> DEFINE mainOK == /\ pc' \in MainPC
                     /\ stage' \in Stage
                     /\ path' \in Path(stage')
<1>0. Main \in Thread
    BY DEF Thread
<1>1. CASE StartRun
    <2>1. threading' \in [Stage -> BOOLEAN]
        BY <1>1 DEF StartRun
    <2>2. run' \in 0..MaxRuns /\ steps' \in 0..MaxSteps
        BY <1>1, ShapeAssumption DEF StartRun
    <2>3. mainOK
        BY <1>1 DEF StartRun, AtStage, MainPC
    <2> QED
        BY <1>1, <2>1, <2>2, <2>3 DEF StartRun, ThreadTypeOK, threadVars
<1>2. CASE SetupThreading
    <2>1. mainOK
        BY <1>2, NextStageType DEF SetupThreading, MainPC
    <2>2. boss' \in [Stage -> 0..MaxRuns] /\ shutdown' \in [Stage -> BOOLEAN]
        BY <1>2 DEF SetupThreading, NewBoss, ThreadTypeOK
    <2> QED
        BY <1>2, <2>1, <2>2 DEF SetupThreading, ThreadTypeOK, stageVars
<1>3. CASE SpawnWorker
    <2>1. mainOK
        BY <1>3, NextStageType DEF SpawnWorker, MainPC
    <2>2. worker' \in [Worker -> WorkerPC]
        BY <1>3 DEF SpawnWorker, NewThread, ThreadTypeOK, WorkerPC
    <2> QED
        BY <1>3, <2>1, <2>2 DEF SpawnWorker, ThreadTypeOK, stageVars
<1>4. CASE Wakeup
    <2>1. mainOK
        BY <1>4 DEF Wakeup, AtStage, MainPC
    <2>2. steps' \in 0..MaxSteps
        BY <1>4, TestAssumption DEF Wakeup
    <2> QED
        BY <1>4, <2>1, <2>2 DEF Wakeup, ThreadTypeOK, threadVars, stageVars
<1>5. CASE Exec
    <2>1. mainOK
        BY <1>5 DEF Exec, Process, MainPC
    <2>2. measuring' \in BOOLEAN
        BY <1>5 DEF Exec
    <2> QED
        BY <1>5, <2>1, <2>2 DEF Exec, ThreadTypeOK, threadVars, stageVars
<1>6. CASE ExecPath
    <2>1. mainOK
        BY <1>6 DEF ExecPath, Processed, MainPC
    <2>2. <<stage, path>> \in StagePath
        BY DEF StagePath
    <2>3. count' \in [StagePath -> Nat]
        BY <1>6, <2>2 DEF ExecPath, ThreadTypeOK
    <2> QED
        BY <1>6, <2>1, <2>3 DEF ExecPath, ThreadTypeOK, stageVars
<1>7. CASE ContinueAll
    BY <1>0, <1>7, SyncType DEF ContinueAll, ThreadTypeOK, stageVars, MainPC
<1>8. CASE Continued
    BY <1>8 DEF Continued, ThreadTypeOK, threadVars, stageVars, MainPC
<1>9. CASE SyncPostProcess
    BY <1>0, <1>9, SyncType DEF SyncPostProcess, ThreadTypeOK, stageVars, MainPC
<1>10. CASE PostProcessed
    BY <1>10 DEF PostProcessed, Processed, ThreadTypeOK, threadVars, stageVars, MainPC
<1>11. CASE Calibrate
    <2>1. mainOK
        BY <1>11 DEF Calibrate, Process, MainPC
    <2>2. threading' \in [Stage -> BOOLEAN] /\ calibrating' \in [Stage -> BOOLEAN]
        BY <1>11 DEF Calibrate
    <2>3. testMulti' \in [Stage -> BOOLEAN] /\ measuring' \in BOOLEAN
        BY <1>11 DEF Calibrate
    <2>4. timed' \in [Stage -> [{"single", "multi"} -> Nat]]
        <3> DEFINE kind == IF testMulti[stage] THEN "multi" ELSE "single"
        <3>1. kind \in {"single", "multi"}
            OBVIOUS
        <3>2. timed' = [timed EXCEPT ![stage][kind] = @ + 1]
            BY <1>11 DEF Calibrate
        <3> HIDE DEF kind
        <3> QED
            BY <3>1, <3>2
    <2> QED
        BY <1>11, <2>1, <2>2, <2>3, <2>4 DEF Calibrate, ThreadTypeOK, threadVars
<1>12. CASE Executed
    <2>1. mainOK
        BY <1>12, NextStageType DEF Executed, MainPC
    <2>2. executionCount' \in [Stage -> Nat]
        BY <1>12 DEF Executed
    <2> QED
        BY <1>12, <2>1, <2>2 DEF Executed, ThreadTypeOK, threadVars
<1>13. CASE Quit
    BY <1>13 DEF Quit, AtStage, ThreadTypeOK, threadVars, stageVars, MainPC
<1>14. CASE ShutdownNow
    <2>1. mainOK
        BY <1>14, NextStageType DEF ShutdownNow, MainPC
    <2>2. shutdown' \in [Stage -> BOOLEAN]
        BY <1>14 DEF ShutdownNow, ThreadTypeOK
    <2> QED
        BY <1>14, <2>1, <2>2 DEF ShutdownNow, ThreadTypeOK, stageVars
<1>15. CASE ShutdownSync
    BY <1>0, <1>15, SyncType DEF ShutdownSync, ThreadTypeOK, stageVars, MainPC
<1>16. CASE ShutdownSynced
    BY <1>16 DEF ShutdownSynced, ThreadTypeOK, threadVars, stageVars, MainPC
<1>17. CASE JoinAll
    <2>1. mainOK
        BY <1>17, NextStageType DEF JoinAll, MainPC
    <2>2. freed' \subseteq Stage \X (0..MaxRuns)
        BY <1>17 DEF JoinAll, CurrentBoss, ThreadTypeOK
    <2> QED
        BY <1>17, <2>1, <2>2 DEF JoinAll, ThreadTypeOK, stageVars
<1> QED
    BY <1>1, <1>2, <1>3, <1>4, <1>5, <1>6, <1>7, <1>8, <1>9, <1>10, <1>11, <1>12, <1>13,
       <1>14, <1>15, <1>16, <1>17 DEF MainStep

LEMMA TypeStep == TypeOK /\ [Next]_vars => TypeOK'
<1> SUFFICES ASSUME TypeOK, [Next]_vars PROVE TypeOK'
    OBVIOUS
<1>1. CASE MainStep
    BY <1>1, MainStepType
<1>2. CASE \E w \in Worker : WorkerNext(w)
    BY <1>2, WorkerStepType
<1>3. CASE UNCHANGED vars
    BY <1>3 DEF vars, threadVars, mainVars, stageVars, TypeOK, ThreadTypeOK
<1> QED
    BY <1>1, <1>2, <1>3 DEF Next, Terminated

\* Every variable keeps its type, however often the system is run.
THEOREM TypeCorrect == Spec => []TypeOK
BY InitType, TypeStep, PTL DEF Spec

-----------------------------------------------------------------------------
(* The barriers of a stage that is set up once: all of its Workers and Main *)
(* have to enter before any of them gets out.                               *)

LEMMA CrewFacts ==
    ASSUME MaxRuns = 1, NEW s \in Stage
    PROVE  /\ Crew(s) \subseteq Worker
           /\ Main \notin Crew(s)
           /\ \A w \in Worker : w[1] = s => w \in Crew(s)
           /\ \A w \in Crew(s) : w[1] = s /\ w[2] = 1
           /\ Boss = {Only(r) : r \in Stage}
<1>1. Run = {1}
    BY DEF Run
<1>2. Crew(s) = {s} \X Run \X Path(s)
    BY <1>1 DEF Crew
<1>3. \A w \in Crew(s) : w[1] = s /\ w[2] = 1
    BY DEF Crew
<1>4. Crew(s) \subseteq Worker
    BY <1>2 DEF Worker
<1>5. ASSUME NEW w \in Worker, w[1] = s
      PROVE  w \in Crew(s)
    BY <1>1, <1>5, WorkerFacts DEF Crew
<1>6. Boss = {Only(r) : r \in Stage}
    BY <1>1 DEF Boss, Only
<1>7. Main \notin Crew(s)
    BY <1>4, MainAssumption
<1> QED
    BY <1>3, <1>4, <1>5, <1>6, <1>7, Zenon

LEMMA CrewCardinality ==
    ASSUME MaxRuns = 1, NEW s \in Stage
    PROVE  /\ IsFiniteSet(Crew(s) \cup {Main})
           /\ Cardinality(Crew(s) \cup {Main}) = Threshold(s)
<1> DEFINE f == [p \in Path(s) |-> <<s, 1, p>>]
<1>1. NumPaths[s] \in Nat
    BY PathFacts
<1>2. IsFiniteSet(Path(s)) /\ Cardinality(Path(s)) = NumPaths[s]
    BY <1>1, FS_Interval DEF Path
<1>3. f \in Bijection(Path(s), Crew(s))
    BY DEF Crew, Bijection, Injection, Surjection, IsInjective
<1>4. IsFiniteSet(Crew(s)) /\ Cardinality(Crew(s)) = NumPaths[s]
    BY <1>2, <1>3, FS_Bijection DEF ExistsBijection
<1>5. Main \notin Crew(s)
    BY CrewFacts
<1>6. /\ IsFiniteSet(Crew(s) \cup {Main})
      /\ Cardinality(Crew(s) \cup {Main}) = NumPaths[s] + 1
    BY <1>4, <1>5, FS_AddElement
<1> QED
    BY <1>1, <1>6 DEF Threshold

\* Only the last one to enter opens a barrier.
LEMMA EnterCrew ==
    ASSUME MaxRuns = 1, NEW s \in Stage,
           NEW B \in SUBSET (Crew(s) \cup {Main}), NEW t \in Crew(s) \cup {Main}
    PROVE  Enter(B, t, Threshold(s)) =
               IF B \cup {t} = Crew(s) \cup {Main} THEN {} ELSE B \cup {t}
<1>1. B \cup {t} \subseteq Crew(s) \cup {Main}
    OBVIOUS
<1> QED
    BY <1>1, CrewCardinality, FS_Subset DEF Enter

-----------------------------------------------------------------------------
(* The bookkeeping of Main: which stages have a Boss, and when one is used. *)

LEMMA IInvInit == MaxRuns = 1 /\ Init => IInv
<1> SUFFICES ASSUME MaxRuns = 1, Init PROVE IInv
    OBVIOUS
<1>1. TypeOK
    BY InitType
<1>2. MainInv
    BY DEF Init, MainInv
<1>3. ASSUME NEW s \in Stage
      PROVE  CrewInv(s) /\ MainWaits(s) /\ BossInv(s) /\ ThreadingInv(s)
    <2>1. /\ before[Only(s)] = {} /\ after[Only(s)] = {}
          /\ \A w \in Crew(s) : worker[w] = "none"
          /\ boss[s] = 0 /\ ~shutdown[s] /\ ~threading[s] /\ pc = "idle"
        BY CrewFacts DEF Init, ThreadInit
    <2> QED
        BY <2>1 DEF CrewInv, MainWaits, BossInv, ThreadingInv, InRound, Leaving, Gathering
<1> QED
    BY <1>1, <1>2, <1>3 DEF IInv

\* In a single run, the Boss of the run is the Boss 1.
LEMMA RunFacts ==
    ASSUME MaxRuns = 1, IInv
    PROVE  /\ run \in {0, 1}
           /\ \A s \in Stage : boss[s] \in {0, 1}
           /\ pc # "idle" => pc \in {"destroy", "terminated"} \/ run = 1
           /\ StartRun => run = 0
BY DEF IInv, MainInv, TypeOK, ThreadTypeOK, StartRun, MainPC

LEMMA MainInvStep ==
    ASSUME MaxRuns = 1, IInv, MainStep
    PROVE  MainInv'
<1> USE RunFacts, StageFacts DEF MainInv
<1>0. /\ MainInv
      /\ ThreadingInv(stage)
      /\ BossInv(stage)
      /\ stage \in Stage
      /\ boss \in [Stage -> 0..MaxRuns]
      /\ threading \in [Stage -> BOOLEAN]
      /\ shutdown \in [Stage -> BOOLEAN]
      /\ run \in 0..MaxRuns
    BY DEF IInv, TypeOK, ThreadTypeOK
<1>1. CASE StartRun
    BY <1>0, <1>1 DEF StartRun, AtStage
<1>2. CASE SetupThreading
    BY <1>0, <1>2 DEF SetupThreading, NextStage, AtStage, stageVars
<1>3. CASE SpawnWorker
    BY <1>0, <1>3 DEF SpawnWorker, NextStage, AtStage, stageVars
<1>4. CASE Wakeup
    BY <1>0, <1>4 DEF Wakeup, AtStage, threadVars, stageVars
<1>5. CASE Exec
    BY <1>0, <1>5 DEF Exec, Process, threadVars, stageVars, ThreadingInv
<1>6. CASE ExecPath
    BY <1>0, <1>6 DEF ExecPath, Processed, stageVars
<1>7. CASE ContinueAll
    BY <1>0, <1>7 DEF ContinueAll, stageVars
<1>8. CASE Continued
    BY <1>0, <1>8 DEF Continued, threadVars, stageVars
<1>9. CASE SyncPostProcess
    BY <1>0, <1>9 DEF SyncPostProcess, stageVars
<1>10. CASE PostProcessed
    BY <1>0, <1>10 DEF PostProcessed, Processed, threadVars, stageVars
<1>11. CASE Calibrate
    BY <1>0, <1>11 DEF Calibrate, Process, threadVars, ThreadingInv
<1>12. CASE Executed
    BY <1>0, <1>12 DEF Executed, NextStage, AtStage, threadVars
<1>13. CASE Quit
    BY <1>0, <1>13 DEF Quit, AtStage, threadVars, stageVars
<1>14. CASE ShutdownNow
    BY <1>0, <1>14 DEF ShutdownNow, NextStage, AtStage, stageVars, ThreadingInv
<1>15. CASE ShutdownSync
    BY <1>0, <1>15 DEF ShutdownSync, stageVars
<1>16. CASE ShutdownSynced
    BY <1>0, <1>16 DEF ShutdownSynced, threadVars, stageVars
<1>17. CASE JoinAll
    BY <1>0, <1>17 DEF JoinAll, NextStage, AtStage, stageVars
<1> QED
    BY <1>1, <1>2, <1>3, <1>4, <1>5, <1>6, <1>7, <1>8, <1>9, <1>10, <1>11, <1>12, <1>13,
       <1>14, <1>15, <1>16, <1>17 DEF MainStep

\* The loops over the stages visit them in order.
LEMMA NextStageFacts ==
    ASSUME stage \in Stage, NEW again, NEW over, NextStage(again, over)
    PROVE  \/ pc' = again /\ stage' = stage + 1
           \/ pc' = over /\ stage' = 1 /\ \A s \in Stage : s <= stage
BY ShapeAssumption DEF NextStage, AtStage, Stage

LEMMA ThreadingInvStep ==
    ASSUME MaxRuns = 1, IInv, MainStep, NEW s \in Stage
    PROVE  ThreadingInv(s)'
<1> USE RunFacts, StageFacts DEF ThreadingInv
<1>0. /\ MainInv
      /\ ThreadingInv(s)
      /\ BossInv(s)
      /\ stage \in Stage /\ Stage \subseteq Nat
      /\ boss \in [Stage -> 0..MaxRuns]
      /\ threading \in [Stage -> BOOLEAN]
      /\ run \in 0..MaxRuns
    BY DEF IInv, TypeOK, ThreadTypeOK, Stage
<1>1. CASE StartRun
    <2>1. run = 0 /\ run' = 1 /\ boss'[s] = 0 /\ pc' = "setup" /\ stage' = 1 /\ s >= 1
        BY <1>0, <1>1, ShapeAssumption DEF StartRun, AtStage, threadVars, Stage
    <2> QED
        BY <2>1
<1>2. CASE SetupThreading
    <2>1. CASE threading[stage]
        <3>1. /\ boss' = [boss EXCEPT ![stage] = 1]
              /\ pc' = "spawn" /\ stage' = stage /\ run' = run /\ run = 1
              /\ UNCHANGED <<worker, threading>>
            BY <1>0, <1>2, <2>1 DEF SetupThreading, NewBoss, stageVars
        <3>2. s = stage => \A p \in Path(s) : worker[<<s, 1, p>>] = "none"
            BY <1>0, <1>2 DEF SetupThreading, BossInv, Crew
        <3>3. boss'[s] = IF s = stage THEN 1 ELSE boss[s]
            BY <1>0, <3>1
        <3>4. s > stage => boss[s] = 0
            BY <1>0, <1>2 DEF SetupThreading
        <3>5. s < stage /\ threading[s] => boss[s] = 1
            BY <1>0, <1>2 DEF SetupThreading
        <3>6. s < stage \/ s = stage \/ s > stage
            BY <1>0
        <3> QED
            BY <1>0, <3>1, <3>2, <3>3, <3>4, <3>5, <3>6 DEF Path
    <2>2. CASE ~threading[stage]
        <3>1. /\ NextStage("setup", "wakeup")
              /\ pc = "setup"
              /\ UNCHANGED <<worker, boss, threading, run>>
            BY <1>2, <2>2 DEF SetupThreading, stageVars
        <3>2. \/ pc' = "setup" /\ stage' = stage + 1
              \/ pc' = "wakeup" /\ stage' = 1 /\ s <= stage
            BY <1>0, <3>1, NextStageFacts
        <3>3. run = 1
            BY <3>1
        <3>4. s <= stage \/ s >= stage + 1
            BY <1>0
        <3> QED
            BY <1>0, <2>2, <3>1, <3>2, <3>3, <3>4
    <2> QED
        BY <2>1, <2>2
<1>3. CASE SpawnWorker
    <2>1. CASE path < NumPaths[stage]
        <3>1. /\ worker' = [worker EXCEPT ![<<stage, boss[stage], path>>] = "loop"]
              /\ pc' = "spawn" /\ stage' = stage /\ path' = path + 1
              /\ UNCHANGED <<boss, threading, run>>
            BY <1>3, <2>1 DEF SpawnWorker, NewThread, stageVars
        <3>2. path \in Nat /\ \A p \in Path(s) : p \in Nat
            BY <1>0 DEF IInv, TypeOK, Path
        <3>3. ASSUME NEW p \in Path(s), p >= path + 1
              PROVE  worker'[<<s, 1, p>>] = worker[<<s, 1, p>>]
            BY <3>1, <3>2, <3>3 DEF IInv, TypeOK, ThreadTypeOK
        <3>4. /\ s > stage => boss[s] = 0
              /\ s <= stage /\ threading[s] => boss[s] = 1
              /\ s = stage => boss[s] = 1
            BY <1>0, <1>3 DEF SpawnWorker
        <3>5. s = stage => \A p \in Path(s) : p >= path => worker[<<s, 1, p>>] = "none"
            BY <1>0, <1>3 DEF SpawnWorker
        <3>6. s = stage => \A p \in Path(s) : p >= path' => worker'[<<s, 1, p>>] = "none"
            BY <3>1, <3>2, <3>3, <3>5
        <3> QED
            BY <1>0, <1>3, <3>1, <3>4, <3>6 DEF SpawnWorker, Path
    <2>2. CASE ~(path < NumPaths[stage])
        <3>1. /\ NextStage("setup", "wakeup")
              /\ pc = "spawn"
              /\ UNCHANGED <<boss, threading, run>>
            BY <1>3, <2>2 DEF SpawnWorker, stageVars
        <3>2. \/ pc' = "setup" /\ stage' = stage + 1
              \/ pc' = "wakeup" /\ stage' = 1 /\ s <= stage
            BY <1>0, <3>1, NextStageFacts
        <3>3. run = 1
            BY <3>1
        <3>4. s <= stage \/ s >= stage + 1
            BY <1>0
        <3> QED
            BY <1>0, <3>1, <3>2, <3>3, <3>4
    <2> QED
        BY <2>1, <2>2
<1>4. CASE Wakeup
    BY <1>0, <1>4 DEF Wakeup, AtStage, threadVars, stageVars
<1>5. CASE Exec
    BY <1>0, <1>5 DEF Exec, Process, threadVars, stageVars
<1>6. CASE ExecPath
    BY <1>0, <1>6 DEF ExecPath, Processed, stageVars
<1>7. CASE ContinueAll
    BY <1>0, <1>7 DEF ContinueAll, stageVars
<1>8. CASE Continued
    BY <1>0, <1>8 DEF Continued, threadVars, stageVars
<1>9. CASE SyncPostProcess
    BY <1>0, <1>9 DEF SyncPostProcess, stageVars
<1>10. CASE PostProcessed
    BY <1>0, <1>10 DEF PostProcessed, Processed, threadVars, stageVars
<1>11. CASE Calibrate
    BY <1>0, <1>11 DEF Calibrate, Process, threadVars, MainInv
<1>12. CASE Executed
    BY <1>0, <1>12 DEF Executed, NextStage, AtStage, threadVars
<1>13. CASE Quit
    BY <1>0, <1>13 DEF Quit, AtStage, threadVars, stageVars
<1>14. CASE ShutdownNow
    BY <1>0, <1>14 DEF ShutdownNow, NextStage, AtStage, stageVars
<1>15. CASE ShutdownSync
    BY <1>0, <1>15 DEF ShutdownSync, stageVars
<1>16. CASE ShutdownSynced
    BY <1>0, <1>16 DEF ShutdownSynced, threadVars, stageVars
<1>17. CASE JoinAll
    BY <1>0, <1>17 DEF JoinAll, NextStage, AtStage, stageVars
<1> QED
    BY <1>1, <1>2, <1>3, <1>4, <1>5, <1>6, <1>7, <1>8, <1>9, <1>10, <1>11, <1>12, <1>13,
       <1>14, <1>15, <1>16, <1>17 DEF MainStep

LEMMA BossInvStep ==
    ASSUME MaxRuns = 1, IInv, MainStep, NEW s \in Stage
    PROVE  BossInv(s)'
<1> USE RunFacts, StageFacts DEF BossInv
<1>0. /\ MainInv
      /\ BossInv(s)
      /\ stage \in Stage /\ Stage \subseteq Nat
      /\ boss \in [Stage -> 0..MaxRuns]
      /\ shutdown \in [Stage -> BOOLEAN]
    BY DEF IInv, TypeOK, ThreadTypeOK, Stage
<1>1. CASE StartRun
    BY <1>0, <1>1 DEF StartRun, AtStage, threadVars
<1>2. CASE SetupThreading
    BY <1>0, <1>2 DEF SetupThreading, NewBoss, NextStage, AtStage, stageVars
<1>3. CASE SpawnWorker
    <2>1. /\ pc = "spawn" /\ pc' \in {"spawn", "setup", "wakeup"}
          /\ UNCHANGED <<boss, shutdown>>
          /\ worker' = [worker EXCEPT ![<<stage, boss[stage], path>>] = "loop"]
        BY <1>3 DEF SpawnWorker, NewThread, NextStage, AtStage
    <2>2. boss[stage] = 1
        BY <1>0, <2>1 DEF IInv, ThreadingInv
    <2>3. ASSUME boss[s] = 0, NEW w \in Crew(s)
          PROVE  worker'[w] = worker[w]
        BY <2>1, <2>2, <2>3, CrewFacts DEF IInv, TypeOK, ThreadTypeOK
    <2> QED
        BY <1>0, <2>1, <2>3
<1>4. CASE Wakeup
    BY <1>0, <1>4 DEF Wakeup, AtStage, threadVars, stageVars
<1>5. CASE Exec
    BY <1>0, <1>5 DEF Exec, Process, threadVars, stageVars
<1>6. CASE ExecPath
    BY <1>0, <1>6 DEF ExecPath, Processed, stageVars
<1>7. CASE ContinueAll
    BY <1>0, <1>7 DEF ContinueAll, stageVars
<1>8. CASE Continued
    BY <1>0, <1>8 DEF Continued, threadVars, stageVars
<1>9. CASE SyncPostProcess
    BY <1>0, <1>9 DEF SyncPostProcess, stageVars
<1>10. CASE PostProcessed
    BY <1>0, <1>10 DEF PostProcessed, Processed, threadVars, stageVars
<1>11. CASE Calibrate
    BY <1>0, <1>11 DEF Calibrate, Process, threadVars
<1>12. CASE Executed
    BY <1>0, <1>12 DEF Executed, NextStage, AtStage, threadVars
<1>13. CASE Quit
    BY <1>0, <1>13 DEF Quit, AtStage, threadVars, stageVars
<1>14. CASE ShutdownNow
    BY <1>0, <1>14 DEF ShutdownNow, NextStage, AtStage, stageVars
<1>15. CASE ShutdownSync
    BY <1>0, <1>15 DEF ShutdownSync, stageVars
<1>16. CASE ShutdownSynced
    BY <1>0, <1>16 DEF ShutdownSynced, threadVars, stageVars
<1>17. CASE JoinAll
    BY <1>0, <1>17 DEF JoinAll, NextStage, AtStage, stageVars
<1> QED
    BY <1>1, <1>2, <1>3, <1>4, <1>5, <1>6, <1>7, <1>8, <1>9, <1>10, <1>11, <1>12, <1>13,
       <1>14, <1>15, <1>16, <1>17 DEF MainStep

-----------------------------------------------------------------------------
(* The two rendezvous. *)

LEMMA CrewWaits ==
    ASSUME MaxRuns = 1, IInv, NEW s \in Stage
    PROVE  /\ before[Only(s)] \in SUBSET (Crew(s) \cup {Main})
           /\ after[Only(s)] \in SUBSET (Crew(s) \cup {Main})
<1>1. CrewInv(s)
    BY DEF IInv
<1>2. InRound(s) \/ Leaving(s) \/ Gathering(s)
    BY DEF Gathering
<1> QED
    BY <1>1, <1>2 DEF CrewInv

LEMMA SyncPreFacts ==
    ASSUME MaxRuns = 1, IInv, NEW s \in Stage, boss[s] = 1,
           NEW t \in Crew(s) \cup {Main}, SyncPre(s, t)
    PROVE  /\ before'[Only(s)] = IF before[Only(s)] \cup {t} = Crew(s) \cup {Main}
                                 THEN {} ELSE before[Only(s)] \cup {t}
           /\ \A r \in Stage : r # s => before'[Only(r)] = before[Only(r)]
<1>1. before' = [before EXCEPT ![Only(s)] = Enter(@, t, Threshold(s))]
    BY DEF SyncPre, CurrentBoss, Only
<1>2. before \in [Boss -> SUBSET Thread] /\ \A r \in Stage : Only(r) \in Boss
    BY CrewFacts DEF IInv, TypeOK, ThreadTypeOK
<1>3. \A r \in Stage : r # s => Only(r) # Only(s)
    BY DEF Only
<1>4. before'[Only(s)] = Enter(before[Only(s)], t, Threshold(s))
    BY <1>1, <1>2
<1>5. before[Only(s)] \in SUBSET (Crew(s) \cup {Main})
    BY CrewWaits
<1>6. \A r \in Stage : r # s => before'[Only(r)] = before[Only(r)]
    BY <1>1, <1>2, <1>3
<1> DEFINE B == before[Only(s)]
<1>7. ASSUME NEW C \in SUBSET (Crew(s) \cup {Main})
      PROVE  Enter(C, t, Threshold(s)) = IF C \cup {t} = Crew(s) \cup {Main} THEN {} ELSE C \cup {t}
    BY EnterCrew
<1>8. Enter(B, t, Threshold(s)) = IF B \cup {t} = Crew(s) \cup {Main} THEN {} ELSE B \cup {t}
    BY <1>5, <1>7
<1> QED
    BY <1>4, <1>6, <1>8, Zenon

LEMMA SyncPostFacts ==
    ASSUME MaxRuns = 1, IInv, NEW s \in Stage, boss[s] = 1,
           NEW t \in Crew(s) \cup {Main}, SyncPost(s, t)
    PROVE  /\ after'[Only(s)] = IF after[Only(s)] \cup {t} = Crew(s) \cup {Main}
                                THEN {} ELSE after[Only(s)] \cup {t}
           /\ \A r \in Stage : r # s => after'[Only(r)] = after[Only(r)]
<1>1. after' = [after EXCEPT ![Only(s)] = Enter(@, t, Threshold(s))]
    BY DEF SyncPost, CurrentBoss, Only
<1>2. after \in [Boss -> SUBSET Thread] /\ \A r \in Stage : Only(r) \in Boss
    BY CrewFacts DEF IInv, TypeOK, ThreadTypeOK
<1>3. \A r \in Stage : r # s => Only(r) # Only(s)
    BY DEF Only
<1>4. after'[Only(s)] = Enter(after[Only(s)], t, Threshold(s))
    BY <1>1, <1>2
<1>5. after[Only(s)] \in SUBSET (Crew(s) \cup {Main})
    BY CrewWaits
<1>6. \A r \in Stage : r # s => after'[Only(r)] = after[Only(r)]
    BY <1>1, <1>2, <1>3
<1> DEFINE B == after[Only(s)]
<1>7. ASSUME NEW C \in SUBSET (Crew(s) \cup {Main})
      PROVE  Enter(C, t, Threshold(s)) = IF C \cup {t} = Crew(s) \cup {Main} THEN {} ELSE C \cup {t}
    BY EnterCrew
<1>8. Enter(B, t, Threshold(s)) = IF B \cup {t} = Crew(s) \cup {Main} THEN {} ELSE B \cup {t}
    BY <1>5, <1>7
<1> QED
    BY <1>4, <1>6, <1>8, Zenon

\* A step that moves no Worker, barrier or flag, and starts or ends no round.
LEMMA CalmStep ==
    ASSUME MaxRuns = 1, IInv, NEW s \in Stage,
           UNCHANGED <<worker, before, after, shutdown>>,
           InRound(s)' <=> InRound(s), Leaving(s)' <=> Leaving(s)
    PROVE  CrewInv(s)'
<1>1. CrewInv(s)
    BY DEF IInv
<1> QED
    BY <1>1 DEF CrewInv, Gathering, Crew, Only

\* The calm steps of Main.
LEMMA CalmCrewInv ==
    ASSUME MaxRuns = 1, IInv, NEW s \in Stage,
           \/ StartRun
           \/ Wakeup
           \/ Exec
           \/ ExecPath
           \/ Continued
           \/ PostProcessed
           \/ Calibrate
           \/ Executed
           \/ Quit
           \/ ShutdownSynced
           \/ JoinAll
    PROVE  CrewInv(s)' /\ MainWaits(s)'
<1>0. /\ BossInv(s) /\ MainWaits(s) /\ MainInv
      /\ stage \in Stage /\ Stage \subseteq Nat
      /\ shutdown \in [Stage -> BOOLEAN]
      /\ Only(s) \in Boss
    BY CrewFacts DEF IInv, TypeOK, ThreadTypeOK, Stage
<1>1. UNCHANGED <<worker, before, after, shutdown>>
    BY DEF StartRun, Wakeup, Exec, ExecPath, Continued, PostProcessed, Calibrate, Executed,
           Quit, ShutdownSynced, JoinAll, threadVars
<1>2. CASE Continued
    <2>1. Main \notin before[Only(s)]
        BY <1>0, <1>2 DEF Continued, Released
    <2> QED
        BY <1>0, <1>1, <1>2, <2>1, CalmStep
        DEF Continued, InRound, Leaving, MainWaits, BossInv, Only
<1>3. CASE PostProcessed
    <2>1. Main \notin after[Only(s)]
        BY <1>0, <1>3 DEF PostProcessed, Released
    <2> QED
        BY <1>0, <1>1, <1>3, <2>1, CalmStep
        DEF PostProcessed, Processed, InRound, Leaving, MainWaits, BossInv, Only
<1>4. CASE ShutdownSynced
    <2>1. Main \notin before[Only(s)]
        BY <1>0, <1>4 DEF ShutdownSynced, Released
    <2> QED
        BY <1>0, <1>1, <1>4, <2>1, CalmStep DEF ShutdownSynced, InRound, Leaving, MainWaits, Only
<1>5. CASE JoinAll
    <2>1. pc = "join" /\ pc' \in {"destroy", "terminated"}
        BY <1>5 DEF JoinAll, NextStage, AtStage
    <2> QED
        BY <1>0, <1>1, <2>1, CalmStep DEF InRound, Leaving, MainWaits, Only
<1>6. CASE StartRun \/ Wakeup \/ Exec \/ ExecPath \/ Calibrate \/ Executed \/ Quit
    <2>1. /\ pc \in {"idle", "wakeup", "exec", "sequential", "measured", "executed"}
          /\ pc' \in {"setup", "idle", "exec", "pre", "sequential", "measured", "executed",
                      "wakeup", "destroy"}
        BY <1>6 DEF StartRun, Wakeup, Exec, ExecPath, Calibrate, Executed, Quit, Process,
                    Processed, NextStage, AtStage
    <2> QED
        BY <1>0, <1>1, <2>1, CalmStep DEF InRound, Leaving, MainWaits, BossInv, Only
<1> QED
    BY <1>2, <1>3, <1>4, <1>5, <1>6

\* Setting up: the stage has no Worker waiting anywhere.
LEMMA SetupCrewInv ==
    ASSUME MaxRuns = 1, IInv, NEW s \in Stage, SetupThreading \/ SpawnWorker
    PROVE  CrewInv(s)' /\ MainWaits(s)'
<1>0. /\ BossInv(s) /\ MainWaits(s) /\ MainInv /\ CrewInv(s) /\ ThreadingInv(stage)
      /\ stage \in Stage /\ path \in Path(stage)
      /\ shutdown \in [Stage -> BOOLEAN]
      /\ worker \in [Worker -> WorkerPC]
    BY DEF IInv, TypeOK, ThreadTypeOK
<1>1. /\ pc \in {"setup", "spawn"} /\ pc' \in {"setup", "spawn", "wakeup"}
      /\ UNCHANGED <<before, after>>
    BY DEF SetupThreading, SpawnWorker, NextStage, AtStage
<1>2. Gathering(s) /\ ~shutdown[s]
    BY <1>0, <1>1 DEF Gathering, InRound, Leaving, BossInv
<1>3. shutdown'[s] = FALSE
    <2>1. CASE SetupThreading
        BY <1>0, <1>2, <2>1 DEF SetupThreading, NewBoss
    <2>2. CASE SpawnWorker
        BY <1>2, <2>2 DEF SpawnWorker
    <2> QED
        BY <2>1, <2>2
<1>4. Gathering(s)' /\ ~InRound(s)' /\ ~Leaving(s)'
    BY <1>1, <1>3 DEF Gathering, InRound, Leaving
<1>5. \A w \in Crew(s) :
          \/ worker'[w] = worker[w]
          \/ worker'[w] = "loop" /\ worker[w] = "none"
    <2>1. CASE SetupThreading
        BY <2>1 DEF SetupThreading
    <2>2. CASE SpawnWorker
        <3> DEFINE v == <<stage, 1, path>>
        <3>1. boss[stage] = 1 /\ worker[v] = "none"
            BY <1>0, <2>2 DEF SpawnWorker, ThreadingInv, Path
        <3>2. worker' = [worker EXCEPT ![v] = "loop"]
            BY <2>2, <3>1 DEF SpawnWorker, NewThread
        <3> HIDE DEF v
        <3> QED
            BY <1>0, <3>1, <3>2, CrewFacts
    <2> QED
        BY <2>1, <2>2
<1>6. {w \in Crew(s) : worker'[w] = "pre"} = {w \in Crew(s) : worker[w] = "pre"}
    BY <1>5
<1>7. MainWaits(s)'
    BY <1>0, <1>1 DEF MainWaits, Only
<1>8. /\ after'[Only(s)] = {}
      /\ before'[Only(s)] \ {Main} = {w \in Crew(s) : worker'[w] = "pre"}
      /\ \A w \in Crew(s) : worker'[w] \in {"none", "loop", "pre", "postWait"}
    BY <1>0, <1>1, <1>2, <1>5, <1>6 DEF CrewInv
<1> QED
    BY <1>4, <1>7, <1>8 DEF CrewInv, Crew, Only

\* Main comes to before_process, to start a round or to shut the stage down.
LEMMA PreCrewInv ==
    ASSUME MaxRuns = 1, IInv, NEW s \in Stage, ContinueAll \/ ShutdownSync
    PROVE  CrewInv(s)' /\ MainWaits(s)'
<1>0. /\ BossInv(s) /\ MainWaits(s) /\ MainInv /\ CrewInv(s)
      /\ stage \in Stage
      /\ shutdown \in [Stage -> BOOLEAN]
      /\ BossInv(stage) /\ CrewInv(stage)
    BY DEF IInv, TypeOK, ThreadTypeOK
<1>1. /\ SyncPre(stage, Main)
      /\ UNCHANGED <<worker, after, shutdown, stage>>
      /\ \/ pc = "pre" /\ pc' = "preWait"
         \/ pc = "shutPre" /\ pc' = "shutWait"
    BY DEF ContinueAll, ShutdownSync
<1>2. boss[stage] = 1
    BY <1>0, <1>1 DEF MainInv
<1>3. /\ before'[Only(stage)] = IF before[Only(stage)] \cup {Main} = Crew(stage) \cup {Main}
                                THEN {} ELSE before[Only(stage)] \cup {Main}
      /\ \A r \in Stage : r # stage => before'[Only(r)] = before[Only(r)]
    BY <1>0, <1>1, <1>2, SyncPreFacts
<1>4. CASE s = stage
    <2>1. Gathering(s) /\ Main \notin before[Only(s)] /\ Main \notin after[Only(s)]
        BY <1>0, <1>1, <1>4 DEF Gathering, InRound, Leaving, BossInv, MainInv, MainWaits
    <2>2. CASE before[Only(s)] \cup {Main} = Crew(s) \cup {Main}
        <3>1. before'[Only(s)] = {} /\ after'[Only(s)] = {}
            BY <1>0, <1>1, <1>3, <1>4, <2>1, <2>2 DEF CrewInv, Only
        <3>2. \A w \in Crew(s) : worker'[w] = "pre"
            BY <1>0, <1>1, <2>1, <2>2, CrewFacts DEF CrewInv
        <3>3. /\ pc = "pre" => InRound(s)' /\ ~Leaving(s)'
              /\ pc = "shutPre" => ~InRound(s)' /\ Leaving(s)'
            BY <1>0, <1>1, <1>4, <3>1 DEF InRound, Leaving, BossInv, MainInv, Only
        <3> QED
            BY <1>1, <3>1, <3>2, <3>3 DEF CrewInv, Gathering, MainWaits, Crew, Only
    <2>3. CASE before[Only(s)] \cup {Main} # Crew(s) \cup {Main}
        <3>1. before'[Only(s)] = before[Only(s)] \cup {Main} /\ after'[Only(s)] = {}
            BY <1>0, <1>1, <1>3, <1>4, <2>1, <2>3 DEF CrewInv, Only
        <3>2. ~InRound(s)' /\ ~Leaving(s)'
            BY <1>0, <1>1, <1>4, <3>1 DEF InRound, Leaving, BossInv, Only
        <3> QED
            BY <1>0, <1>1, <1>4, <2>1, <3>1, <3>2 DEF CrewInv, Gathering, MainWaits, Crew, Only
    <2> QED
        BY <2>2, <2>3
<1>5. CASE s # stage
    <2>1. before'[Only(s)] = before[Only(s)]
        BY <1>3, <1>5
    <2>2. /\ InRound(s)' <=> InRound(s)
          /\ Leaving(s)' <=> Leaving(s)
        BY <1>1, <1>5, <2>1 DEF InRound, Leaving, Only
    <2> QED
        BY <1>0, <1>1, <1>5, <2>1, <2>2 DEF CrewInv, Gathering, MainWaits, Crew, Only
<1> QED
    BY <1>4, <1>5

\* Main comes to after_process.
LEMMA PostCrewInv ==
    ASSUME MaxRuns = 1, IInv, NEW s \in Stage, SyncPostProcess
    PROVE  CrewInv(s)' /\ MainWaits(s)'
<1>0. /\ BossInv(s) /\ MainWaits(s) /\ MainInv /\ CrewInv(s)
      /\ stage \in Stage
      /\ shutdown \in [Stage -> BOOLEAN]
    BY DEF IInv, TypeOK, ThreadTypeOK
<1>1. /\ SyncPost(stage, Main)
      /\ UNCHANGED <<worker, before, shutdown, stage>>
      /\ pc = "post" /\ pc' = "postWait"
    BY DEF SyncPostProcess
<1>2. boss[stage] = 1
    BY <1>0, <1>1 DEF MainInv
<1>3. /\ after'[Only(stage)] = IF after[Only(stage)] \cup {Main} = Crew(stage) \cup {Main}
                               THEN {} ELSE after[Only(stage)] \cup {Main}
      /\ \A r \in Stage : r # stage => after'[Only(r)] = after[Only(r)]
    BY <1>0, <1>1, <1>2, SyncPostFacts
<1>4. CASE s = stage
    <2>1. InRound(s) /\ ~shutdown[s] /\ ~Leaving(s)' /\ Main \notin after[Only(s)]
        BY <1>0, <1>1, <1>4 DEF InRound, Leaving, BossInv, MainWaits
    <2>2. CASE after[Only(s)] \cup {Main} = Crew(s) \cup {Main}
        <3>1. after'[Only(s)] = {} /\ before'[Only(s)] = {}
            BY <1>0, <1>1, <1>3, <1>4, <2>1, <2>2 DEF CrewInv, Only
        <3>2. \A w \in Crew(s) : worker'[w] = "postWait"
            BY <1>0, <1>1, <2>1, <2>2, CrewFacts DEF CrewInv
        <3>3. ~InRound(s)'
            BY <1>1, <3>1 DEF InRound, Only
        <3> QED
            BY <1>1, <2>1, <3>1, <3>2, <3>3 DEF CrewInv, Gathering, MainWaits, Crew, Only
    <2>3. CASE after[Only(s)] \cup {Main} # Crew(s) \cup {Main}
        <3>1. after'[Only(s)] = after[Only(s)] \cup {Main} /\ before'[Only(s)] = {}
            BY <1>0, <1>1, <1>3, <1>4, <2>1, <2>3 DEF CrewInv, Only
        <3>2. InRound(s)'
            BY <1>1, <1>4, <3>1 DEF InRound, Only
        <3> QED
            BY <1>0, <1>1, <1>4, <2>1, <3>1, <3>2 DEF CrewInv, Gathering, MainWaits, Crew, Only
    <2> QED
        BY <2>2, <2>3
<1>5. CASE s # stage
    <2>1. after'[Only(s)] = after[Only(s)]
        BY <1>3, <1>5
    <2>2. /\ InRound(s)' <=> InRound(s)
          /\ Leaving(s)' <=> Leaving(s)
        BY <1>1, <1>5, <2>1 DEF InRound, Leaving, Only
    <2> QED
        BY <1>0, <1>1, <1>5, <2>1, <2>2 DEF CrewInv, Gathering, MainWaits, Crew, Only
<1> QED
    BY <1>4, <1>5

\* The destructor reaches a stage.
LEMMA ShutdownCrewInv ==
    ASSUME MaxRuns = 1, IInv, NEW s \in Stage, ShutdownNow
    PROVE  CrewInv(s)' /\ MainWaits(s)'
<1>0. /\ BossInv(s) /\ MainWaits(s) /\ MainInv /\ CrewInv(s)
      /\ stage \in Stage /\ Stage \subseteq Nat
      /\ shutdown \in [Stage -> BOOLEAN]
    BY DEF IInv, TypeOK, ThreadTypeOK, Stage
<1>1. UNCHANGED <<worker, before, after>>
    BY DEF ShutdownNow
<1>2. CASE threading[stage]
    <2>1. /\ shutdown' = [shutdown EXCEPT ![stage] = TRUE]
          /\ pc = "destroy" /\ pc' = "shutPre" /\ stage' = stage
        BY <1>2 DEF ShutdownNow
    <2>2. /\ InRound(s)' <=> InRound(s)
          /\ Leaving(s)' <=> Leaving(s)
        BY <1>0, <1>1, <2>1 DEF InRound, Leaving, BossInv, Only
    <2> QED
        BY <1>0, <1>1, <2>1, <2>2 DEF CrewInv, Gathering, MainWaits, Crew, Only
<1>3. CASE ~threading[stage]
    <2>1. pc = "destroy" /\ pc' \in {"destroy", "terminated"} /\ shutdown' = shutdown
        BY <1>3 DEF ShutdownNow, NextStage, AtStage
    <2> QED
        BY <1>0, <1>1, <2>1, CalmStep DEF InRound, Leaving, MainWaits, Only
<1> QED
    BY <1>2, <1>3

\* A step of a Worker leaves Main where it is.
LEMMA WorkerMainInv ==
    ASSUME MaxRuns = 1, IInv, NEW w \in Worker, WorkerNext(w), NEW s \in Stage
    PROVE  MainInv' /\ BossInv(s)' /\ ThreadingInv(s)'
<1>0. /\ MainInv /\ BossInv(s) /\ ThreadingInv(s) /\ worker \in [Worker -> WorkerPC]
    BY DEF IInv, TypeOK, ThreadTypeOK
<1>1. UNCHANGED <<boss, shutdown, mainVars, stageVars>>
    BY DEF WorkerNext, WorkerStep, WorkerSyncPre, WorkerContinues, WorkerMustShutdown,
           WorkerProcess, WorkerSyncPost, WorkerLoops
<1>2. worker[w] # "none" /\ \A v \in Worker : v # w => worker'[v] = worker[v]
    BY <1>0 DEF WorkerNext, WorkerStep, WorkerSyncPre, WorkerContinues, WorkerMustShutdown,
                WorkerProcess, WorkerSyncPost, WorkerLoops
<1>3. \A v \in Worker : worker[v] = "none" => worker'[v] = "none"
    BY <1>2
<1>4. Crew(s) \subseteq Worker
    BY CrewFacts
<1>5. MainInv'
    BY <1>0, <1>1 DEF MainInv, mainVars, stageVars
<1>6. BossInv(s)'
    BY <1>0, <1>1, <1>3, <1>4 DEF BossInv, mainVars, Crew
<1>7. ThreadingInv(s)'
    <2>1. \A p \in Path(s) : <<s, 1, p>> \in Worker
        BY <1>4 DEF Crew
    <2> QED
        BY <1>0, <1>1, <1>3, <2>1 DEF ThreadingInv, mainVars, stageVars
<1> QED
    BY <1>5, <1>6, <1>7

\* A worker enters the barriers of its own stage only.
LEMMA OtherBarriers ==
    ASSUME MaxRuns = 1, IInv, NEW w \in Worker, WorkerStep(w),
           w \in Crew(w[1]), w[1] \in Stage, boss[w[1]] = 1, NEW s \in Stage, s # w[1]
    PROVE  before'[Only(s)] = before[Only(s)] /\ after'[Only(s)] = after[Only(s)]
<1>1. CASE SyncPre(w[1], w) /\ after' = after
    BY <1>1, SyncPreFacts
<1>2. CASE SyncPost(w[1], w) /\ before' = before
    BY <1>2, SyncPostFacts
<1>3. CASE before' = before /\ after' = after
    BY <1>3
<1> QED
    BY <1>1, <1>2, <1>3 DEF WorkerStep, WorkerSyncPre, WorkerContinues, WorkerMustShutdown,
                            WorkerProcess, WorkerSyncPost, WorkerLoops

\* ... and disturbs its own stage only.
LEMMA WorkerCrewInv ==
    ASSUME MaxRuns = 1, IInv, NEW w \in Worker, WorkerNext(w), NEW s \in Stage
    PROVE  CrewInv(s)' /\ MainWaits(s)'
<1>0. /\ CrewInv(s) /\ MainWaits(s) /\ BossInv(s) /\ MainInv
      /\ shutdown \in [Stage -> BOOLEAN]
      /\ worker \in [Worker -> WorkerPC]
      /\ Crew(s) \subseteq Worker
      /\ Main \notin Crew(s)
      /\ w[1] \in Stage
    BY CrewFacts, WorkerFacts DEF IInv, TypeOK, ThreadTypeOK
<1>1. /\ UNCHANGED <<boss, shutdown, pc, stage>>
      /\ worker[w] # "none"
      /\ \A v \in Worker : v # w => worker'[v] = worker[v]
    BY <1>0 DEF WorkerNext, WorkerStep, WorkerSyncPre, WorkerContinues, WorkerMustShutdown,
                WorkerProcess, WorkerSyncPost, WorkerLoops, mainVars
<1>2. w \in Crew(w[1]) /\ boss[w[1]] = 1
    <2>1. w \in Crew(w[1])
        BY <1>0, CrewFacts
    <2> QED
        BY <1>0, <1>1, <2>1, RunFacts DEF IInv, BossInv
<1>3. CASE s # w[1]
    <2>1. before'[Only(s)] = before[Only(s)] /\ after'[Only(s)] = after[Only(s)]
        BY <1>0, <1>2, <1>3, OtherBarriers DEF WorkerNext
    <2>2. \A v \in Crew(s) : worker'[v] = worker[v]
        BY <1>0, <1>1, <1>3, CrewFacts
    <2>3. {v \in Crew(s) : worker'[v] = "pre"} = {v \in Crew(s) : worker[v] = "pre"}
        BY <2>2
    <2>4. {v \in Crew(s) : worker'[v] = "postWait"} = {v \in Crew(s) : worker[v] = "postWait"}
        BY <2>2
    <2>5. /\ InRound(s)' <=> InRound(s)
          /\ Leaving(s)' <=> Leaving(s)
        BY <1>1, <2>1 DEF InRound, Leaving, Only
    <2> QED
        BY <1>0, <1>1, <2>1, <2>2, <2>3, <2>4, <2>5 DEF CrewInv, Gathering, MainWaits, Crew, Only
<1>4. CASE s = w[1] /\ WorkerSyncPre(w)
    <2>1. /\ worker[w] = "loop"
          /\ worker' = [worker EXCEPT ![w] = "pre"]
          /\ after' = after
          /\ SyncPre(s, w)
        BY <1>4 DEF WorkerSyncPre
    <2>2. w \in Crew(s) /\ boss[s] = 1
        BY <1>2, <1>4
    <2>3. Gathering(s) /\ w \notin before[Only(s)] /\ ~Leaving(s) /\ ~InRound(s)
        BY <1>0, <2>1, <2>2 DEF CrewInv, Gathering
    <2>4. before'[Only(s)] = IF before[Only(s)] \cup {w} = Crew(s) \cup {Main}
                             THEN {} ELSE before[Only(s)] \cup {w}
        BY <2>1, <2>2, SyncPreFacts
    <2>5. {v \in Crew(s) : worker'[v] = "pre"} = {v \in Crew(s) : worker[v] = "pre"} \cup {w}
        BY <1>0, <2>1, <2>2
    <2>6. CASE before[Only(s)] \cup {w} = Crew(s) \cup {Main}
        <3>1. before'[Only(s)] = {} /\ after'[Only(s)] = {} /\ Main \in before[Only(s)]
            BY <1>0, <2>1, <2>2, <2>3, <2>4, <2>6 DEF CrewInv, Only
        <3>2. \A v \in Crew(s) : worker'[v] = "pre"
            BY <1>0, <2>1, <2>2, <2>3, <2>6 DEF CrewInv
        <3>3. stage = s /\ pc \in {"preWait", "shutWait"}
            BY <1>0, <3>1 DEF MainWaits
        <3>4. /\ pc = "preWait" => InRound(s)' /\ ~Leaving(s)'
              /\ pc = "shutWait" => ~InRound(s)' /\ Leaving(s)'
            BY <1>0, <1>1, <3>1, <3>3 DEF InRound, Leaving, BossInv, MainInv, Only
        <3> QED
            BY <3>1, <3>2, <3>3, <3>4 DEF CrewInv, Gathering, MainWaits, Crew, Only
    <2>7. CASE before[Only(s)] \cup {w} # Crew(s) \cup {Main}
        <3>1. before'[Only(s)] = before[Only(s)] \cup {w} /\ after'[Only(s)] = {}
            BY <1>0, <2>1, <2>3, <2>4, <2>7 DEF CrewInv, Only
        <3>2. Main \in before'[Only(s)] <=> Main \in before[Only(s)]
            BY <1>0, <2>2, <3>1
        <3>3. ~InRound(s)' /\ ~Leaving(s)'
            BY <1>1, <2>1, <2>3, <3>2 DEF InRound, Leaving, Only
        <3>4. before'[Only(s)] \ {Main} = {v \in Crew(s) : worker'[v] = "pre"}
            BY <1>0, <2>2, <2>3, <2>5, <3>1 DEF CrewInv
        <3>5. \A v \in Crew(s) : worker'[v] \in {"none", "loop", "pre", "postWait"}
            BY <1>0, <2>1, <2>3 DEF CrewInv
        <3>6. MainWaits(s)'
            BY <1>0, <1>1, <2>1, <3>2 DEF MainWaits, Only
        <3> QED
            BY <3>1, <3>3, <3>4, <3>5, <3>6 DEF CrewInv, Crew, Only
    <2> QED
        BY <2>6, <2>7
<1>5. CASE s = w[1] /\ WorkerSyncPost(w)
    <2>1. /\ worker[w] = "post"
          /\ worker' = [worker EXCEPT ![w] = "postWait"]
          /\ before' = before
          /\ SyncPost(s, w)
        BY <1>5 DEF WorkerSyncPost
    <2>2. w \in Crew(s) /\ boss[s] = 1
        BY <1>2, <1>5
    <2>3. InRound(s) /\ w \notin after[Only(s)]
        BY <1>0, <2>1, <2>2 DEF CrewInv, Gathering
    <2>4. after'[Only(s)] = IF after[Only(s)] \cup {w} = Crew(s) \cup {Main}
                            THEN {} ELSE after[Only(s)] \cup {w}
        BY <2>1, <2>2, SyncPostFacts
    <2>5. {v \in Crew(s) : worker'[v] = "postWait"}
              = {v \in Crew(s) : worker[v] = "postWait"} \cup {w}
        BY <1>0, <2>1, <2>2
    <2>6. ~shutdown[s]
        BY <1>0, <2>3 DEF InRound, BossInv
    <2>7. ~Leaving(s)'
        BY <1>1, <2>6 DEF Leaving
    <2>8. CASE after[Only(s)] \cup {w} = Crew(s) \cup {Main}
        <3>1. before'[Only(s)] = {} /\ after'[Only(s)] = {} /\ Main \in after[Only(s)]
            BY <1>0, <2>1, <2>2, <2>3, <2>4, <2>8 DEF CrewInv, Only
        <3>2. \A v \in Crew(s) : worker'[v] = "postWait"
            BY <1>0, <2>1, <2>2, <2>3, <2>8 DEF CrewInv
        <3>3. ~InRound(s)'
            BY <1>0, <1>1, <3>1 DEF InRound, MainWaits, Only
        <3> QED
            BY <2>7, <3>1, <3>2, <3>3 DEF CrewInv, Gathering, MainWaits, Crew, Only
    <2>9. CASE after[Only(s)] \cup {w} # Crew(s) \cup {Main}
        <3>1. before'[Only(s)] = {} /\ after'[Only(s)] = after[Only(s)] \cup {w}
            BY <1>0, <2>1, <2>3, <2>4, <2>9 DEF CrewInv, Only
        <3>2. Main \in after'[Only(s)] <=> Main \in after[Only(s)]
            BY <1>0, <2>2, <3>1
        <3>3. InRound(s)'
            BY <1>1, <2>1, <2>3, <3>2 DEF InRound, Only
        <3>4. after'[Only(s)] \ {Main} = {v \in Crew(s) : worker'[v] = "postWait"}
            BY <1>0, <2>2, <2>3, <2>5, <3>1 DEF CrewInv
        <3>5. \A v \in Crew(s) : worker'[v] \in {"pre", "check", "process", "post", "postWait"}
            BY <1>0, <2>1, <2>3 DEF CrewInv
        <3>6. MainWaits(s)'
            BY <1>0, <1>1, <2>1, <3>2 DEF MainWaits, Only
        <3> QED
            BY <2>7, <3>1, <3>3, <3>4, <3>5, <3>6 DEF CrewInv, Gathering, Crew, Only
    <2> QED
        BY <2>8, <2>9
<1>6. CASE s = w[1] /\ ~WorkerSyncPre(w) /\ ~WorkerSyncPost(w)
    <2>1. /\ UNCHANGED <<before, after>>
          /\ w \in Crew(s)
          /\ Only(s) \in Boss
        BY <1>2, <1>6, CrewFacts
        DEF WorkerNext, WorkerStep, WorkerContinues, WorkerMustShutdown, WorkerProcess, WorkerLoops
    <2>2. /\ InRound(s)' <=> InRound(s)
          /\ Leaving(s)' <=> Leaving(s)
          /\ Gathering(s)' <=> Gathering(s)
        BY <1>1, <2>1 DEF InRound, Leaving, Gathering, Only
    <2>3. MainWaits(s)'
        BY <1>0, <1>1, <2>1 DEF MainWaits, Only
    <2>4. InRound(s) => ~shutdown[s]
        BY <1>0 DEF InRound, BossInv
    <2>5. CASE WorkerContinues(w)
        <3>1. worker[w] = "pre" /\ worker' = [worker EXCEPT ![w] = "check"]
            BY <2>5 DEF WorkerContinues
        <3>2. w \notin before[Only(s)]
            BY <2>1, <2>5 DEF WorkerContinues, Released
        <3>3. ~Gathering(s)
            BY <1>0, <2>1, <3>1, <3>2 DEF CrewInv
        <3>4. {v \in Crew(s) : worker'[v] = "postWait"} = {v \in Crew(s) : worker[v] = "postWait"}
            BY <1>0, <1>1, <3>1
        <3> QED
            BY <1>0, <2>1, <2>2, <2>3, <3>1, <3>3, <3>4 DEF CrewInv, Crew, Only
    <2>6. CASE WorkerMustShutdown(w)
        <3>1. /\ worker[w] = "check"
              /\ worker' = [worker EXCEPT ![w] = IF shutdown[s] THEN "exit" ELSE "process"]
            BY <1>6, <2>6 DEF WorkerMustShutdown
        <3>2. ~Gathering(s) /\ (Leaving(s) => shutdown[s])
            BY <1>0, <2>1, <3>1 DEF CrewInv, Leaving
        <3>3. {v \in Crew(s) : worker'[v] = "postWait"} = {v \in Crew(s) : worker[v] = "postWait"}
            BY <1>0, <1>1, <3>1
        <3> QED
            BY <1>0, <2>1, <2>2, <2>3, <2>4, <3>1, <3>2, <3>3 DEF CrewInv, Crew, Only
    <2>7. CASE WorkerProcess(w)
        <3>1. worker[w] = "process" /\ worker' = [worker EXCEPT ![w] = "post"]
            BY <2>7 DEF WorkerProcess
        <3>2. InRound(s) /\ ~Gathering(s) /\ ~Leaving(s)
            BY <1>0, <2>1, <3>1 DEF CrewInv, Gathering
        <3>3. {v \in Crew(s) : worker'[v] = "postWait"} = {v \in Crew(s) : worker[v] = "postWait"}
            BY <1>0, <1>1, <3>1
        <3> QED
            BY <1>0, <2>1, <2>2, <2>3, <3>1, <3>2, <3>3 DEF CrewInv, Crew, Only
    <2>8. CASE WorkerLoops(w)
        <3>1. worker[w] = "postWait" /\ worker' = [worker EXCEPT ![w] = "loop"]
            BY <2>8 DEF WorkerLoops
        <3>2. w \notin after[Only(s)]
            BY <2>1, <2>8 DEF WorkerLoops, Released
        <3>3. Gathering(s) /\ ~InRound(s) /\ ~Leaving(s)
            BY <1>0, <2>1, <3>1, <3>2 DEF CrewInv, Gathering
        <3>4. {v \in Crew(s) : worker'[v] = "pre"} = {v \in Crew(s) : worker[v] = "pre"}
            BY <1>0, <1>1, <3>1
        <3> QED
            BY <1>0, <2>1, <2>2, <2>3, <3>1, <3>3, <3>4 DEF CrewInv, Crew, Only
    <2> QED
        BY <1>6, <2>5, <2>6, <2>7, <2>8 DEF WorkerNext, WorkerStep
<1> QED
    BY <1>3, <1>4, <1>5, <1>6

-----------------------------------------------------------------------------
(* The theorems. *)

LEMMA IInvInductive == MaxRuns = 1 /\ IInv /\ [Next]_vars => IInv'
<1> SUFFICES ASSUME MaxRuns = 1, IInv, [Next]_vars PROVE IInv'
    OBVIOUS
<1>0. TypeOK
    BY DEF IInv
<1>1. CASE MainStep
    <2>1. TypeOK' /\ MainInv'
        BY <1>0, <1>1, MainStepType, MainInvStep
    <2>2. ASSUME NEW s \in Stage
          PROVE  (CrewInv(s) /\ MainWaits(s) /\ BossInv(s) /\ ThreadingInv(s))'
        BY <1>1, CalmCrewInv, SetupCrewInv, PreCrewInv, PostCrewInv, ShutdownCrewInv,
           BossInvStep, ThreadingInvStep DEF MainStep
    <2> QED
        BY <2>1, <2>2 DEF IInv, Stage
<1>2. CASE \E w \in Worker : WorkerNext(w)
    <2>1. PICK w \in Worker : WorkerNext(w)
        BY <1>2
    <2>2. TypeOK'
        BY <1>0, <2>1, WorkerStepType
    <2>3. ASSUME NEW s \in Stage
          PROVE  (CrewInv(s) /\ MainWaits(s) /\ BossInv(s) /\ ThreadingInv(s))' /\ MainInv'
        BY <2>1, WorkerMainInv, WorkerCrewInv
    <2> QED
        BY <2>2, <2>3, StageFacts DEF IInv, Stage
<1>3. CASE UNCHANGED vars
    BY <1>3 DEF vars, threadVars, mainVars, stageVars, IInv, TypeOK, ThreadTypeOK, MainInv,
                CrewInv, MainWaits, BossInv, ThreadingInv, InRound, Leaving, Gathering
<1> QED
    BY <1>1, <1>2, <1>3 DEF Next, Terminated

\* In a program that runs its system once, whatever its stages, blocks run in a
\* Worker only while the thread of the system waits for the stage of that Worker.
THEOREM SingleRunNoOverlap == MaxRuns = 1 /\ Spec => []NoOverlap
<1> SUFFICES ASSUME MaxRuns = 1 PROVE Spec => []NoOverlap
    OBVIOUS
<1>1. IInv => NoOverlap
    <2> SUFFICES ASSUME IInv, NEW w \in Worker, worker[w] = "process"
                 PROVE  stage = w[1] /\ pc \in {"preWait", "post", "postWait"}
        BY DEF NoOverlap
    <2>1. w \in Crew(w[1]) /\ w[1] \in Stage
        BY CrewFacts, WorkerFacts
    <2>2. InRound(w[1])
        BY <2>1 DEF IInv, CrewInv, Gathering
    <2> QED
        BY <2>2 DEF InRound
<1> QED
    BY <1>1, IInvInit, IInvInductive, PTL DEF Spec

\* In such a program no Worker is about to read shutdown_ when Main is about to
\* write it.
THEOREM SingleRunNoRaceOnShutdown == MaxRuns = 1 /\ Spec => []NoRaceOnShutdown
<1> SUFFICES ASSUME MaxRuns = 1 PROVE Spec => []NoRaceOnShutdown
    OBVIOUS
<1>1. IInv => NoRaceOnShutdown
    <2> SUFFICES ASSUME IInv, pc \in {"setup", "destroy"}, NEW w \in Worker, w[1] = stage
                 PROVE  worker[w] # "check"
        BY DEF NoRaceOnShutdown
    <2>1. stage \in Stage /\ w \in Crew(stage)
        BY CrewFacts DEF IInv, TypeOK
    <2>2. Gathering(stage)
        BY <2>1 DEF Gathering, InRound, Leaving, IInv, BossInv, Stage
    <2> QED
        BY <2>1, <2>2 DEF IInv, CrewInv
<1> QED
    BY <1>1, IInvInit, IInvInductive, PTL DEF Spec

-----------------------------------------------------------------------------
(* The calibration, for any number of runs. *)

Timings(s) == timed[s]["single"] + timed[s]["multi"]

\* The present execution of s has been measured, and follows as a real one.
Tested(s) ==
    /\ stage = s
    /\ pc \in {"sequential", "pre", "preWait", "post", "postWait", "executed"}
    /\ ~measuring

\* The measurements alternate, starting with a sequential one.
Alternates(s) == timed[s]["single"] = timed[s]["multi"] + (IF testMulti[s] THEN 1 ELSE 0)

\* While a stage is calibrating, there is one for each of its executions.
OnePerExecution(s) ==
    calibrating[s] /\ threading[s] =>
        Timings(s) = executionCount[s] + (IF Tested(s) THEN 1 ELSE 0)

Untouched(s) == executionCount[s] = 0 /\ timed[s]["single"] = 0 /\ timed[s]["multi"] = 0

TimingInv ==
    /\ \A s \in Stage :
        /\ Alternates(s)
        /\ OnePerExecution(s)
        /\ run = 0 => Untouched(s)
        /\ ~calibrating[s] => timed[s]["single"] = timed[s]["multi"]
    /\ pc \in {"sequential", "pre", "preWait", "post", "postWait"} /\ measuring =>
          calibrating[stage] /\ threading[stage]
    /\ pc = "measured" => measuring /\ calibrating[stage] /\ threading[stage]
    /\ pc = "executed" => ~measuring
    /\ run = 0 => pc \in {"idle", "destroy", "shutPre", "shutWait", "join", "terminated"}

\* What the types of the counters say of one stage.
LEMMA TimedFacts ==
    ASSUME TypeOK, NEW s \in Stage
    PROVE  /\ timed[s]["single"] \in Nat
           /\ timed[s]["multi"] \in Nat
           /\ executionCount[s] \in Nat
           /\ testMulti[s] \in BOOLEAN /\ calibrating[s] \in BOOLEAN /\ threading[s] \in BOOLEAN
BY DEF TypeOK

LEMMA TimingInit == Init => TimingInv
BY DEF Init, TimingInv, Alternates, OnePerExecution, Untouched, Timings, Tested

\* A step that leaves the counters alone, and the kind of the present execution.
LEMMA SteadyTiming ==
    ASSUME TypeOK, TimingInv, UNCHANGED <<run, measuring, stageVars>>,
           \A s \in Stage : Tested(s)' <=> Tested(s),
           \/ run # 0
           \/ pc' \in {"idle", "destroy", "shutPre", "shutWait", "join", "terminated"},
           pc' \in {"sequential", "pre", "preWait", "post", "postWait"} /\ measuring =>
               calibrating[stage'] /\ threading[stage'],
           pc' = "measured" => measuring /\ calibrating[stage'] /\ threading[stage'],
           pc' = "executed" => ~measuring
    PROVE  TimingInv'
<1>1. \A s \in Stage : Alternates(s)' /\ OnePerExecution(s)'
    BY DEF TimingInv, Alternates, OnePerExecution, Timings, stageVars
<1> QED
    BY <1>1 DEF TimingInv, Untouched, stageVars

\* test_runs | 1 is odd.
LEMMA LastTestOdd == \A n \in Nat : LastTest # 2 * n
BY TestAssumption DEF LastTest

\* One measurement more, of the kind that was tested.
LEMMA CalibrateTimed ==
    ASSUME TypeOK, Calibrate, NEW s \in Stage
    PROVE  /\ s = stage =>
               /\ timed'[s]["single"] = timed[s]["single"] + (IF testMulti[s] THEN 0 ELSE 1)
               /\ timed'[s]["multi"] = timed[s]["multi"] + (IF testMulti[s] THEN 1 ELSE 0)
           /\ s # stage => timed'[s] = timed[s]
<1> DEFINE kind == IF testMulti[stage] THEN "multi" ELSE "single"
<1>1. timed' = [timed EXCEPT ![stage][kind] = @ + 1] /\ stage \in Stage
    BY DEF Calibrate, TypeOK
<1>2. /\ timed[s] \in [{"single", "multi"} -> Nat]
      /\ testMulti[s] \in BOOLEAN
    BY DEF TypeOK
<1>3. s # stage => timed'[s] = timed[s]
    BY <1>1 DEF TypeOK
<1>4. s = stage => timed'[s] = [timed[s] EXCEPT ![kind] = @ + 1]
    BY <1>1 DEF TypeOK
<1> QED
    BY <1>2, <1>3, <1>4, TimedFacts

LEMMA TimingStep ==
    ASSUME TypeOK, TimingInv, [Next]_vars
    PROVE  TimingInv'
<1>0. stage \in Stage /\ TypeOK'
    BY TypeStep DEF TypeOK
<1>1. CASE StartRun
    <2>1. /\ pc = "idle" /\ pc' = "setup" /\ run' # 0
          /\ UNCHANGED <<calibrating, testMulti, executionCount, timed>>
          /\ run # 0 => threading' = threading
        BY <1>1 DEF StartRun, AtStage, TypeOK
    <2>2. \A s \in Stage : Alternates(s)' /\ OnePerExecution(s)'
        BY <2>1, TimedFacts
        DEF TimingInv, Alternates, OnePerExecution, Timings, Tested, Untouched
    <2> QED
        BY <2>1, <2>2 DEF TimingInv, Untouched
<1>2. CASE Exec
    <2>1. /\ pc = "exec" /\ pc' \in {"pre", "sequential"} /\ stage' = stage
          /\ measuring' = (calibrating[stage] /\ threading[stage])
          /\ UNCHANGED <<run, stageVars>>
        BY <1>2 DEF Exec, Process
    <2>2. \A s \in Stage : Alternates(s)' /\ OnePerExecution(s)'
        BY <2>1, TimedFacts DEF TimingInv, Alternates, OnePerExecution, Timings, Tested, stageVars
    <2> QED
        BY <2>1, <2>2 DEF TimingInv, Untouched, stageVars
<1>3. CASE Calibrate
    <2>1. /\ pc = "measured" /\ pc' \in {"pre", "sequential"} /\ stage' = stage /\ ~measuring'
          /\ testMulti' = [testMulti EXCEPT ![stage] = ~@]
          /\ UNCHANGED <<run, executionCount>>
        BY <1>3 DEF Calibrate, Process
    <2>2. measuring /\ calibrating[stage] /\ threading[stage] /\ run # 0
        BY <2>1 DEF TimingInv
    <2>3. /\ timed[stage]["single"] \in Nat /\ timed[stage]["multi"] \in Nat
          /\ executionCount[stage] \in Nat /\ testMulti[stage] \in BOOLEAN
        BY <1>0, TimedFacts
    <2>4. Timings(stage) = executionCount[stage] /\ Alternates(stage)
        BY <1>0, <2>1, <2>2, <2>3 DEF TimingInv, OnePerExecution, Tested
    <2>5. /\ timed'[stage]["single"] = timed[stage]["single"] + (IF testMulti[stage] THEN 0 ELSE 1)
          /\ timed'[stage]["multi"] = timed[stage]["multi"] + (IF testMulti[stage] THEN 1 ELSE 0)
          /\ testMulti'[stage] <=> ~testMulti[stage]
        <3>1. testMulti'[stage] <=> ~testMulti[stage]
            BY <1>0, <2>1 DEF TypeOK
        <3> QED
            BY <1>0, <1>3, <3>1, CalibrateTimed
    <2>6. /\ timed'[stage]["single"] = timed'[stage]["multi"] + (IF testMulti'[stage] THEN 1 ELSE 0)
          /\ timed'[stage]["single"] + timed'[stage]["multi"] = executionCount'[stage] + 1
        <3>1. executionCount'[stage] = executionCount[stage]
            BY <2>1
        <3>2. CASE testMulti[stage]
            BY <2>3, <2>4, <2>5, <3>1, <3>2 DEF Alternates, Timings
        <3>3. CASE ~testMulti[stage]
            BY <2>3, <2>4, <2>5, <3>1, <3>3 DEF Alternates, Timings
        <3> QED
            BY <3>2, <3>3
    <2>7. ASSUME executionCount[stage] = LastTest
          PROVE  testMulti[stage]
        BY <2>3, <2>4, <2>7, LastTestOdd DEF Alternates, Timings
    <2>8. /\ \A s \in Stage : s # stage => calibrating'[s] = calibrating[s]
          /\ \A s \in Stage : s # stage => threading'[s] = threading[s]
          /\ ~calibrating'[stage] => executionCount[stage] = LastTest
        BY <1>0, <1>3, <2>2 DEF Calibrate, TypeOK
    <2>9. \A s \in Stage : s # stage => timed'[s] = timed[s] /\ testMulti'[s] = testMulti[s]
        BY <1>0, <1>3, <2>1, CalibrateTimed DEF TypeOK
    <2>10. ASSUME NEW s \in Stage
           PROVE  /\ Alternates(s)' /\ OnePerExecution(s)'
                  /\ ~calibrating'[s] => timed'[s]["single"] = timed'[s]["multi"]
        <3>1. CASE s = stage
            <4>1. Tested(s)'
                BY <2>1, <3>1 DEF Tested
            <4>2. OnePerExecution(s)'
                BY <2>6, <3>1, <4>1 DEF OnePerExecution, Timings
            <4>3. ~calibrating'[s] => timed'[s]["single"] = timed'[s]["multi"]
                BY <2>3, <2>4, <2>5, <2>7, <2>8, <3>1 DEF Alternates
            <4> QED
                BY <2>6, <3>1, <4>2, <4>3 DEF Alternates
        <3>2. CASE s # stage
            <4>1. ~Tested(s) /\ ~Tested(s)'
                BY <2>1, <3>2 DEF Tested
            <4> QED
                BY <2>1, <2>8, <2>9, <3>2, <4>1
                DEF TimingInv, Alternates, OnePerExecution, Timings
        <3> QED
            BY <3>1, <3>2
    <2> QED
        BY <2>1, <2>2, <2>10 DEF TimingInv
<1>4. CASE Executed
    <2>1. /\ pc = "executed" /\ pc' \in {"exec", "wakeup"}
          /\ executionCount' = [executionCount EXCEPT ![stage] = @ + 1]
          /\ UNCHANGED <<run, measuring, calibrating, threading, testMulti, timed>>
        BY <1>4 DEF Executed, NextStage, AtStage
    <2>2. run # 0 /\ ~measuring
        BY <2>1 DEF TimingInv
    <2>3. ASSUME NEW s \in Stage
          PROVE  OnePerExecution(s)'
        <3>1. ~Tested(s)' /\ (Tested(s) <=> s = stage)
            BY <2>1, <2>2 DEF Tested
        <3>2. executionCount'[s] = executionCount[s] + (IF s = stage THEN 1 ELSE 0)
            BY <1>0, <2>1, TimedFacts DEF TypeOK
        <3>3. executionCount[s] \in Nat
            BY TimedFacts
        <3> QED
            BY <2>1, <3>1, <3>2, <3>3 DEF TimingInv, OnePerExecution, Timings
    <2> QED
        BY <2>1, <2>2, <2>3 DEF TimingInv, Alternates
<1>5. CASE \/ SetupThreading \/ SpawnWorker \/ Wakeup \/ Quit
           \/ ShutdownNow \/ ShutdownSync \/ ShutdownSynced \/ JoinAll
    <2>1. /\ UNCHANGED <<run, measuring, stageVars>>
          /\ pc \in {"setup", "spawn", "wakeup", "idle", "destroy", "shutPre", "shutWait", "join"}
          /\ pc' \in {"setup", "spawn", "wakeup", "exec", "idle", "destroy", "shutPre",
                      "shutWait", "join", "terminated"}
          /\ pc' \in {"setup", "spawn", "wakeup", "exec"} => pc \in {"setup", "spawn", "wakeup"}
        BY <1>5 DEF SetupThreading, SpawnWorker, Wakeup, Quit, ShutdownNow, ShutdownSync,
                    ShutdownSynced, JoinAll, NextStage, AtStage
    <2>2. \A s \in Stage : Tested(s)' <=> Tested(s)
        BY <2>1 DEF Tested
    <2> QED
        BY <2>1, <2>2, SteadyTiming DEF TimingInv
<1>6. CASE ExecPath \/ ContinueAll \/ Continued \/ SyncPostProcess \/ PostProcessed
    <2>1. /\ UNCHANGED <<run, stage, measuring, stageVars>>
          /\ pc \in {"sequential", "pre", "preWait", "post", "postWait"}
          /\ \/ pc' \in {"sequential", "preWait", "post", "postWait"}
             \/ pc' = IF measuring THEN "measured" ELSE "executed"
        BY <1>6 DEF ExecPath, ContinueAll, Continued, SyncPostProcess, PostProcessed, Processed
    <2>2. \A s \in Stage : Tested(s)' <=> Tested(s)
        BY <2>1 DEF Tested
    <2> QED
        BY <2>1, <2>2, SteadyTiming DEF TimingInv
<1>7. CASE (\E w \in Worker : WorkerNext(w)) \/ UNCHANGED vars
    <2>1. UNCHANGED <<mainVars, stageVars>>
        BY <1>7 DEF WorkerNext, vars
    <2>2. \A s \in Stage : Tested(s)' <=> Tested(s)
        BY <2>1 DEF Tested, mainVars
    <2> QED
        BY <2>1, <2>2, SteadyTiming DEF TimingInv, mainVars
<1> QED
    BY <1>1, <1>2, <1>3, <1>4, <1>5, <1>6, <1>7 DEF Next, MainStep, Terminated

\* When a stage stops calibrating, it has been timed sequentially as often as by
\* its Workers, however often the system is run and whatever test_runs is.
THEOREM FairComparison == Spec => []ComparisonIsFair
<1>1. TypeOK /\ TimingInv /\ [Next]_vars => TimingInv'
    BY TimingStep
<1>2. TimingInv => ComparisonIsFair
    BY DEF TimingInv, ComparisonIsFair
<1> QED
    BY <1>1, <1>2, TypeCorrect, TimingInit, PTL DEF Spec

-----------------------------------------------------------------------------
(* Workers left behind *)

Destroyed(s) ==
    \/ pc = "terminated"
    \/ pc \in {"destroy", "shutPre", "shutWait", "join"} /\ s < stage

Gone(w) == worker[w] \in {"none", "exit"}

LeftInv(s) ==
    /\ boss[s] = 1 /\ ~threading[s] => ~calibrating[s]
    /\ boss[s] = 1 /\ ~(pc = "spawn" /\ s = stage) => \A w \in Crew(s) : worker[w] # "none"
    /\ pc = "spawn" /\ s = stage =>
        \A p \in Path(s) : p < path => worker[<<s, 1, p>>] # "none"
    /\ Only(s) \in freed => \A w \in Crew(s) : worker[w] = "exit"
    /\ Destroyed(s) => (~threading[s] /\ ~calibrating[s]) \/ \A w \in Crew(s) : Gone(w)

LeavingInv ==
    /\ pc = "setup" => path = 1
    /\ freed \subseteq Boss
    /\ \A s \in Stage : LeftInv(s)

LEMMA LeavingInit == MaxRuns = 1 /\ Init => LeavingInv
<1> SUFFICES ASSUME MaxRuns = 1, Init PROVE LeavingInv
    OBVIOUS
<1>1. pc = "idle" /\ freed = {} /\ \A s \in Stage : boss[s] = 0
    BY DEF Init, ThreadInit
<1> QED
    BY <1>1 DEF LeavingInv, LeftInv, Destroyed

\* A step that moves no Worker, and destroys no stage.
LEMMA CalmLeft ==
    ASSUME MaxRuns = 1, IInv, LeavingInv, NEW s \in Stage,
           UNCHANGED <<worker, boss, freed>>,
           pc' # "spawn",
           pc = "spawn" => s # stage,
           Destroyed(s)' => Destroyed(s),
           boss[s] = 1 /\ ~threading'[s] => ~calibrating'[s],
           Destroyed(s) => threading'[s] = threading[s] /\ calibrating'[s] = calibrating[s]
    PROVE  LeftInv(s)'
BY DEF LeavingInv, LeftInv, Gone, Crew, Only

\* A Worker that has gone has no step to take.
LEMMA WorkerLeft ==
    ASSUME MaxRuns = 1, IInv, LeavingInv, NEW w \in Worker, WorkerNext(w)
    PROVE  LeavingInv'
<1>1. /\ UNCHANGED <<boss, freed, mainVars, stageVars>>
      /\ worker[w] \notin {"none", "exit"} /\ worker'[w] # "none"
      /\ \A v \in Worker : v # w => worker'[v] = worker[v]
    BY DEF IInv, TypeOK, ThreadTypeOK, WorkerNext, WorkerStep, WorkerSyncPre, WorkerContinues,
           WorkerMustShutdown, WorkerProcess, WorkerSyncPost, WorkerLoops
<1>2. \A v \in Worker : /\ worker[v] # "none" => worker'[v] # "none"
                        /\ worker[v] = "exit" => worker'[v] = "exit"
                        /\ Gone(v) => Gone(v)'
    BY <1>1 DEF Gone
<1>3. ASSUME NEW s \in Stage
      PROVE  LeftInv(s)'
    <2>1. LeftInv(s) /\ Crew(s) \subseteq Worker
        BY CrewFacts DEF LeavingInv
    <2>2. \A p \in Path(s) : <<s, 1, p>> \in Worker
        BY <2>1 DEF Crew
    <2>3. Destroyed(s)' <=> Destroyed(s)
        BY <1>1 DEF Destroyed, mainVars
    <2> QED
        BY <1>1, <1>2, <2>1, <2>2, <2>3 DEF LeftInv, Crew, Only, mainVars, stageVars
<1> QED
    BY <1>1, <1>3 DEF LeavingInv, mainVars

\* Setting up: every path gets its Worker before the loop goes on.
LEMMA SetupLeft ==
    ASSUME MaxRuns = 1, IInv, LeavingInv, SetupThreading \/ SpawnWorker, NEW s \in Stage
    PROVE  LeftInv(s)'
<1>0. /\ LeftInv(s) /\ ThreadingInv(stage) /\ ThreadingInv(s) /\ BossInv(s)
      /\ stage \in Stage /\ Stage \subseteq Nat /\ path \in Path(stage)
      /\ boss \in [Stage -> 0..MaxRuns] /\ worker \in [Worker -> WorkerPC]
      /\ Crew(s) \subseteq Worker
    BY CrewFacts DEF LeavingInv, IInv, TypeOK, ThreadTypeOK, Stage
<1>1. pc' \in {"setup", "spawn", "wakeup"} /\ UNCHANGED <<freed, stageVars, run>>
    BY DEF SetupThreading, SpawnWorker, NextStage, AtStage
<1>2. CASE SetupThreading /\ threading[stage]
    <2>1. /\ boss' = [boss EXCEPT ![stage] = 1] /\ pc = "setup" /\ pc' = "spawn"
          /\ UNCHANGED <<worker, stage, path>>
        BY <1>2, RunFacts DEF SetupThreading, NewBoss
    <2>2. path = 1 /\ \A p \in Path(s) : ~(p < path)
        BY <2>1 DEF LeavingInv, Path
    <2>3. s # stage => boss'[s] = boss[s]
        BY <1>0, <2>1
    <2> QED
        BY <1>0, <1>1, <1>2, <2>1, <2>2, <2>3
        DEF LeftInv, Destroyed, Crew, Only, stageVars, Path
<1>3. CASE SetupThreading /\ ~threading[stage]
    <2>1. pc = "setup" /\ pc' # "spawn" /\ UNCHANGED <<worker, boss>>
        BY <1>3 DEF SetupThreading, NextStage, AtStage
    <2> QED
        BY <1>0, <1>1, <2>1, CalmLeft DEF Destroyed, stageVars, LeftInv
<1>4. CASE SpawnWorker
    <2> DEFINE v == <<stage, 1, path>>
    <2>1. boss[stage] = 1 /\ worker[v] = "none" /\ pc = "spawn" /\ boss' = boss
        BY <1>0, <1>4 DEF SpawnWorker, ThreadingInv, Path
    <2>2. worker' = [worker EXCEPT ![v] = "loop"]
        BY <1>4, <2>1 DEF SpawnWorker, NewThread
    <2>3. v \in Worker
        BY <1>0, CrewFacts DEF Crew
    <2>4. worker'[v] = "loop" /\ \A w \in Worker : w # v => worker'[w] = worker[w]
        BY <1>0, <2>2, <2>3
    <2>5. \A w \in Crew(s) : worker[w] # "none" => worker'[w] # "none"
        BY <1>0, <2>4
    <2>6. Only(s) \in freed => \A w \in Crew(s) : worker'[w] = "exit"
        BY <1>0, <2>1, <2>4 DEF LeftInv
    <2>7. ~Destroyed(s)'
        BY <1>1 DEF Destroyed
    <2>8. CASE s # stage
        <3>1. boss[s] = 1 => \A w \in Crew(s) : worker'[w] # "none"
            BY <1>0, <2>5, <2>8 DEF LeftInv
        <3>2. pc' = "spawn" => stage' = stage
            BY <1>4 DEF SpawnWorker, NextStage, AtStage
        <3> QED
            BY <1>0, <1>1, <2>1, <2>6, <2>7, <2>8, <3>1, <3>2 DEF LeftInv, Crew, Only, stageVars
    <2>9. CASE s = stage
        <3>1. /\ path \in Nat /\ NumPaths[s] \in Nat
              /\ \A p \in Path(s) : p \in Nat /\ p <= NumPaths[s]
            BY <1>0, <2>9, PathFacts DEF Path
        <3>2. \A p \in Path(s) : p < path \/ p = path => worker'[<<s, 1, p>>] # "none"
            <4>1. \A p \in Path(s) : p < path =>
                      worker[<<s, 1, p>>] # "none" /\ <<s, 1, p>> \in Crew(s)
                BY <1>0, <2>1, <2>9 DEF LeftInv, Crew
            <4> QED
                BY <2>4, <2>5, <2>9, <4>1
        <3>3. CASE path < NumPaths[stage]
            <4>1. pc' = "spawn" /\ stage' = stage /\ path' = path + 1
                BY <1>4, <2>1, <3>3 DEF SpawnWorker
            <4>2. \A p \in Path(s) : p < path' => worker'[<<s, 1, p>>] # "none"
                BY <3>1, <3>2, <4>1
            <4> QED
                BY <1>0, <1>1, <2>1, <2>6, <2>7, <2>9, <4>1, <4>2
                DEF LeftInv, Crew, Only, stageVars, Path
        <3>4. CASE ~(path < NumPaths[stage])
            <4>1. pc' # "spawn"
                BY <1>4, <3>4 DEF SpawnWorker, NextStage, AtStage
            <4>2. \A w \in Crew(s) : worker'[w] # "none"
                BY <2>9, <3>1, <3>2, <3>4 DEF Crew
            <4> QED
                BY <1>0, <1>1, <2>1, <2>6, <2>7, <4>1, <4>2 DEF LeftInv, Crew, Only, stageVars
        <3> QED
            BY <3>3, <3>4
    <2> QED
        BY <2>8, <2>9
<1> QED
    BY <1>2, <1>3, <1>4

\* The destructors: a stage that is not threaded has no Worker, or calibrated away from
\* them; those of a threaded one are joined.
LEMMA DestroyLeft ==
    ASSUME MaxRuns = 1, IInv, LeavingInv, ShutdownNow \/ JoinAll, NEW s \in Stage
    PROVE  LeftInv(s)'
<1>0. /\ LeftInv(s) /\ BossInv(s) /\ MainInv
      /\ stage \in Stage /\ Stage \subseteq Nat
      /\ boss[s] \in {0, 1}
      /\ Crew(s) \subseteq Worker
    BY CrewFacts, RunFacts DEF LeavingInv, IInv, TypeOK, ThreadTypeOK, Stage
<1>1. UNCHANGED <<worker, boss, stageVars>>
    BY DEF ShutdownNow, JoinAll
<1>2. CASE ShutdownNow /\ threading[stage]
    <2>1. pc = "destroy" /\ pc' = "shutPre" /\ UNCHANGED <<stage, freed>>
        BY <1>2 DEF ShutdownNow
    <2> QED
        BY <1>0, <1>1, <2>1, CalmLeft DEF Destroyed, stageVars, LeftInv
<1>3. CASE (ShutdownNow /\ ~threading[stage]) \/ JoinAll
    <2>1. pc \in {"destroy", "join"} /\ NextStage("destroy", "terminated")
        BY <1>3 DEF ShutdownNow, JoinAll
    <2>2. pc' \in {"destroy", "terminated"} /\ (Destroyed(s)' => Destroyed(s) \/ s = stage)
        <3>1. \/ pc' = "destroy" /\ stage' = stage + 1
              \/ pc' = "terminated" /\ s <= stage
            BY <1>0, <2>1, NextStageFacts
        <3> QED
            BY <1>0, <2>1, <3>1 DEF Destroyed
    <2>3. s = stage => (~threading[s] /\ ~calibrating[s]) \/ \A w \in Crew(s) : Gone(w)
        <3>1. CASE JoinAll
            BY <1>0, <3>1, CrewFacts DEF JoinAll, AllJoined, Gone
        <3>2. CASE ShutdownNow /\ ~threading[stage]
            BY <1>0, <3>2 DEF LeftInv, BossInv, Gone
        <3> QED
            BY <1>3, <3>1, <3>2
    <2>4. Only(s) \in freed' => \A w \in Crew(s) : worker[w] = "exit"
        <3>1. CASE ShutdownNow
            BY <1>0, <3>1 DEF ShutdownNow, LeftInv
        <3>2. CASE JoinAll
            <4>1. freed' = freed \cup {Only(stage)} /\ boss[stage] = 1 /\ pc = "join"
                BY <1>0, <3>2 DEF JoinAll, CurrentBoss, Only, MainInv
            <4>2. s = stage => \A w \in Crew(s) : worker[w] = "exit"
                BY <1>0, <3>2, <4>1, CrewFacts DEF JoinAll, AllJoined, LeftInv
            <4> QED
                BY <1>0, <4>1, <4>2 DEF LeftInv, Only
        <3> QED
            BY <1>3, <3>1, <3>2
    <2>5. Destroyed(s)' => (~threading[s] /\ ~calibrating[s]) \/ \A w \in Crew(s) : Gone(w)
        BY <1>0, <2>2, <2>3 DEF LeftInv
    <2> QED
        BY <1>0, <1>1, <2>1, <2>2, <2>4, <2>5 DEF LeftInv, Gone, Crew, Only, stageVars
<1> QED
    BY <1>2, <1>3 DEF ShutdownNow

LEMMA LeavingStep ==
    ASSUME MaxRuns = 1, IInv, LeavingInv, [Next]_vars
    PROVE  LeavingInv'
<1>0. /\ stage \in Stage /\ MainInv
      /\ calibrating \in [Stage -> BOOLEAN] /\ threading \in [Stage -> BOOLEAN]
    BY DEF IInv, TypeOK
<1>1. CASE \E w \in Worker : WorkerNext(w)
    BY <1>1, WorkerLeft
<1>2. CASE UNCHANGED vars
    BY <1>2 DEF vars, threadVars, mainVars, stageVars, LeavingInv, LeftInv, Destroyed, Gone
<1>3. CASE MainStep
    <2>1. freed' \subseteq Boss
        <3>1. CASE JoinAll
            <4>1. CurrentBoss(stage) \in Boss
                BY <1>0, <3>1, CrewFacts DEF JoinAll, MainInv, CurrentBoss, Only
            <4> QED
                BY <3>1, <4>1 DEF JoinAll, LeavingInv
        <3>2. CASE ~JoinAll
            <4>1. freed' = freed
                BY <1>3, <3>2 DEF MainStep, StartRun, SetupThreading, SpawnWorker, Wakeup, Exec,
                   ExecPath, ContinueAll, Continued, SyncPostProcess, PostProcessed, Calibrate,
                   Executed, Quit, ShutdownNow, ShutdownSync, ShutdownSynced, threadVars
            <4> QED
                BY <4>1 DEF LeavingInv
        <3> QED
            BY <3>1, <3>2
    <2>2. pc' = "setup" => path' = 1
        BY <1>3 DEF MainStep, StartRun, SetupThreading, SpawnWorker, Wakeup, Exec,
           ExecPath, ContinueAll, Continued, SyncPostProcess, PostProcessed, Calibrate,
           Executed, Quit, ShutdownNow, ShutdownSync, ShutdownSynced, JoinAll, Process,
           Processed, NextStage, AtStage
    <2>3. ASSUME NEW s \in Stage
          PROVE  LeftInv(s)'
        <3>0. LeftInv(s) /\ (run = 0 => boss[s] = 0)
            BY DEF LeavingInv, IInv, ThreadingInv
        <3>1. CASE SetupThreading \/ SpawnWorker
            BY <3>1, SetupLeft
        <3>2. CASE ShutdownNow \/ JoinAll
            BY <3>2, DestroyLeft
        <3>3. CASE StartRun
            <4>1. /\ UNCHANGED <<worker, boss, freed>> /\ pc = "idle" /\ pc' = "setup"
                  /\ boss[s] = 0
                BY <3>0, <3>3, RunFacts DEF StartRun, AtStage, threadVars
            <4> QED
                BY <4>1, CalmLeft DEF Destroyed
        <3>4. CASE Calibrate
            <4>1. /\ UNCHANGED <<worker, boss, freed>>
                  /\ pc = "measured" /\ pc' \in {"pre", "sequential"}
                BY <3>4 DEF Calibrate, Process, threadVars
            <4>2. boss[s] = 1 /\ ~threading'[s] => ~calibrating'[s]
                BY <1>0, <3>0, <3>4 DEF Calibrate, LeftInv
            <4> QED
                BY <4>1, <4>2, CalmLeft DEF Destroyed
        <3>5. CASE \/ Wakeup \/ Exec \/ ExecPath \/ ContinueAll \/ Continued \/ SyncPostProcess
                   \/ PostProcessed \/ Executed
            <4>1. /\ UNCHANGED <<worker, boss, freed, threading, calibrating>>
                  /\ pc \notin {"setup", "spawn"}
                  /\ pc' \in {"idle", "exec", "sequential", "pre", "preWait", "post", "postWait",
                              "measured", "executed", "wakeup"}
                BY <3>5 DEF Wakeup, Exec, ExecPath, ContinueAll, Continued, SyncPostProcess,
                   PostProcessed, Executed, Process, Processed, NextStage, AtStage,
                   threadVars, stageVars
            <4> QED
                BY <3>0, <4>1, CalmLeft DEF Destroyed, LeftInv
        <3>6. CASE Quit \/ ShutdownSync \/ ShutdownSynced
            <4>1. /\ UNCHANGED <<worker, boss, freed, threading, calibrating>>
                  /\ pc' \in {"destroy", "shutWait", "join"}
                  /\ \/ pc = "idle" /\ stage' = 1
                     \/ pc \in {"shutPre", "shutWait"} /\ stage' = stage
                BY <3>6 DEF Quit, ShutdownSync, ShutdownSynced, AtStage, threadVars, stageVars
            <4> QED
                BY <3>0, <4>1, CalmLeft DEF Destroyed, LeftInv, Stage
        <3> QED
            BY <1>3, <3>1, <3>2, <3>3, <3>4, <3>5, <3>6 DEF MainStep
    <2> QED
        BY <2>1, <2>2, <2>3 DEF LeavingInv, Stage
<1> QED
    BY <1>1, <1>2, <1>3 DEF Next, Terminated

\* In a program that runs its system once, the barriers of a Boss outlive its Workers,
\* and the only threads left at the end are those of stages that calibrated away from
\* threads.
THEOREM SingleRunNoneLeftBehind == MaxRuns = 1 /\ Spec => []NoneLeftBehind
<1> SUFFICES ASSUME MaxRuns = 1 PROVE Spec => []NoneLeftBehind
    OBVIOUS
<1>1. IInv /\ LeavingInv => NoneLeftBehind
    <2> SUFFICES ASSUME IInv, LeavingInv PROVE NoneLeftBehind
        OBVIOUS
    <2>1. ASSUME NEW b \in freed, NEW w \in Worker, w[1] = b[1]
          PROVE  worker[w] = "exit"
        <3>1. PICK s \in Stage : b = Only(s)
            BY <2>1, CrewFacts, StageFacts DEF LeavingInv
        <3>2. w \in Crew(s)
            BY <2>1, <3>1, CrewFacts DEF Only
        <3> QED
            BY <3>1, <3>2 DEF LeavingInv, LeftInv
    <2>2. ASSUME pc = "terminated", NEW w \in Worker
          PROVE  worker[w] \in {"none", "exit"} \/ (~threading[w[1]] /\ ~calibrating[w[1]])
        <3>1. w[1] \in Stage /\ w \in Crew(w[1])
            BY CrewFacts, WorkerFacts
        <3> QED
            BY <2>2, <3>1 DEF LeavingInv, LeftInv, Destroyed, Gone
    <2> QED
        BY <2>1, <2>2 DEF NoneLeftBehind
<1>2. IInv /\ LeavingInv /\ [Next]_vars => LeavingInv'
    BY LeavingStep
<1> QED
    BY <1>1, <1>2, IInvInit, IInvInductive, LeavingInit, PTL DEF Spec

-----------------------------------------------------------------------------
(* Rounds: which paths the present execution of a stage has still to process. *)

\* Sequentially, those from the present one on; in a round, those of the Workers that
\* have not come past exec_path, whatever Main is waiting for.
Todo(sp) ==
    /\ sp[1] = stage
    /\ \/ pc = "sequential" /\ sp[2] >= path
       \/ pc = "pre"
       \/ pc = "preWait" /\ Main \in before[Only(stage)]
       \/ InRound(stage) /\ worker[<<stage, 1, sp[2]>>] \in {"pre", "check", "process"}

TodoPaths == {sp \in StagePath : Todo(sp)}

Executing ==
    pc \in {"sequential", "pre", "preWait", "post", "postWait", "measured", "executed"}

LEMMA StagePathFacts ==
    ASSUME NEW sp \in StagePath
    PROVE  /\ sp = <<sp[1], sp[2]>>
           /\ sp[1] \in Stage
           /\ sp[2] \in Path(sp[1])
           /\ sp[2] \in Nat /\ sp[2] >= 1 /\ sp[2] <= NumPaths[sp[1]]
           /\ MaxRuns = 1 => <<sp[1], 1, sp[2]>> \in Crew(sp[1])
<1>1. PICK s \in Stage : sp \in {s} \X Path(s)
    BY DEF StagePath
<1>2. sp = <<sp[1], sp[2]>> /\ sp[1] = s /\ sp[2] \in Path(s)
    BY <1>1
<1> QED
    BY <1>2, PathFacts DEF Path, Crew

\* What Main waits for is the barrier of the stage it works on.
LEMMA ReleasedFacts ==
    ASSUME MaxRuns = 1, IInv
    PROVE  /\ Released(before, Main) <=> Main \notin before[Only(stage)]
           /\ Released(after, Main) <=> Main \notin after[Only(stage)]
<1>1. stage \in Stage /\ \A s \in Stage : MainWaits(s)
    BY DEF IInv, TypeOK
<1>2. Boss = {Only(r) : r \in Stage}
    BY <1>1, CrewFacts
<1> QED
    BY <1>1, <1>2 DEF Released, MainWaits

LEMMA PendingIsTodo == MaxRuns = 1 /\ IInv => Pending = TodoPaths
<1> SUFFICES ASSUME MaxRuns = 1, IInv PROVE Pending = TodoPaths
    OBVIOUS
<1>0. /\ stage \in Stage /\ MainInv /\ path \in Path(stage) /\ NumPaths[stage] \in Nat
      /\ path \in Nat /\ path >= 1
    BY PathFacts DEF IInv, TypeOK, Path
<1>1. {stage} \X Path(stage) = {sp \in StagePath : sp[1] = stage}
    BY <1>0, StagePathFacts DEF StagePath
<1>2. CASE pc = "sequential"
    <2>1. Pending = {stage} \X (path..NumPaths[stage])
        BY <1>2 DEF Pending
    <2>2. TodoPaths = {sp \in StagePath : sp[1] = stage /\ sp[2] >= path}
        BY <1>2 DEF TodoPaths, Todo, InRound
    <2>3. ASSUME NEW sp \in StagePath, sp[1] = stage, sp[2] >= path
          PROVE  sp \in {stage} \X (path..NumPaths[stage])
        <3>1. sp = <<stage, sp[2]>> /\ sp[2] \in Nat /\ sp[2] <= NumPaths[stage]
            BY <2>3, StagePathFacts
        <3>2. sp[2] \in path..NumPaths[stage]
            BY <1>0, <2>3, <3>1
        <3> QED
            BY <3>1, <3>2
    <2>4. \A p \in path..NumPaths[stage] : <<stage, p>> \in StagePath
        BY <1>0 DEF StagePath, Path
    <2> QED
        BY <2>1, <2>2, <2>3, <2>4
<1>3. CASE pc = "pre" \/ (pc = "preWait" /\ Main \in before[Only(stage)])
    <2>1. Pending = {stage} \X Path(stage)
        BY <1>3, ReleasedFacts DEF Pending
    <2>2. TodoPaths = {sp \in StagePath : sp[1] = stage}
        BY <1>3 DEF TodoPaths, Todo
    <2> QED
        BY <1>1, <2>1, <2>2
<1>4. CASE InRound(stage)
    <2>1. /\ pc \notin {"sequential", "pre"}
          /\ ~(pc = "preWait" /\ Main \in before[Only(stage)])
          /\ boss[stage] = 1
        BY <1>0, <1>4 DEF InRound, MainInv
    <2>2. Pending = {<<w[1], w[3]>> : w \in {v \in Worker :
               v[1] = stage /\ v[2] = 1 /\ worker[v] \in {"pre", "check", "process"}}}
        BY <1>4, <2>1, ReleasedFacts DEF Pending, InRound
    <2>3. TodoPaths = {sp \in StagePath : sp[1] = stage
               /\ worker[<<stage, 1, sp[2]>>] \in {"pre", "check", "process"}}
        BY <1>4, <2>1 DEF TodoPaths, Todo
    <2>4. ASSUME NEW sp \in TodoPaths
          PROVE  sp \in Pending
        <3>1. /\ sp \in StagePath /\ sp[1] = stage
              /\ worker[<<stage, 1, sp[2]>>] \in {"pre", "check", "process"}
            BY <2>3, <2>4
        <3> DEFINE w == <<stage, 1, sp[2]>>
        <3>2. w \in Worker /\ w[1] = stage /\ w[2] = 1 /\ w[3] = sp[2] /\ sp = <<w[1], w[3]>>
            BY <1>0, <3>1, StagePathFacts, CrewFacts
        <3> HIDE DEF w
        <3>3. worker[w] \in {"pre", "check", "process"}
            BY <3>1 DEF w
        <3> QED
            BY <2>2, <3>2, <3>3
    <2>5. ASSUME NEW w \in Worker, w[1] = stage, w[2] = 1, worker[w] \in {"pre", "check", "process"}
          PROVE  <<w[1], w[3]>> \in TodoPaths
        <3>1. w = <<stage, 1, w[3]>> /\ <<w[1], w[3]>> \in StagePath
            BY <2>5, WorkerFacts
        <3> QED
            BY <2>3, <2>5, <3>1
    <2> QED
        BY <2>2, <2>4, <2>5
<1>5. CASE /\ pc \notin {"sequential", "pre"} /\ ~InRound(stage)
           /\ ~(pc = "preWait" /\ Main \in before[Only(stage)])
    <2>1. TodoPaths = {}
        BY <1>5 DEF TodoPaths, Todo
    <2>2. pc \notin {"preWait", "post"} /\ (pc = "postWait" => Main \notin after[Only(stage)])
        BY <1>5 DEF InRound
    <2>3. Pending = {}
        BY <1>5, <2>2, ReleasedFacts DEF Pending
    <2> QED
        BY <2>1, <2>3
<1> QED
    BY <1>2, <1>3, <1>4, <1>5

LEMMA PendingIsTodoNext == MaxRuns = 1 /\ IInv' => (Pending = TodoPaths)'
<1> SUFFICES ASSUME MaxRuns = 1 PROVE IInv' => (Pending = TodoPaths)'
    OBVIOUS
<1>1. IInv => Pending = TodoPaths
    BY PendingIsTodo
<1> QED
    BY <1>1, PTL

\* Taking up a stage: Exec, and again what follows a measurement.
LEMMA ForkStep ==
    ASSUME MaxRuns = 1, IInv, Exec \/ Calibrate, NEW sp \in StagePath
    PROVE  /\ ~Todo(sp)
           /\ Todo(sp)' <=> sp[1] = stage
<1>1. /\ pc \in {"exec", "measured"} /\ pc' \in {"pre", "sequential"}
      /\ path' = 1 /\ stage' = stage
    BY DEF Exec, Calibrate, Process
<1>2. sp[2] >= 1
    BY StagePathFacts
<1> QED
    BY <1>1, <1>2 DEF Todo, InRound

\* Processing a path, in the thread of the system or in a Worker.
LEMMA SequentialStep ==
    ASSUME MaxRuns = 1, IInv, ExecPath, NEW sp \in StagePath
    PROVE  /\ Todo(<<stage, path>>)
           /\ Todo(sp)' <=> Todo(sp) /\ sp # <<stage, path>>
<1>0. stage \in Stage /\ path \in Nat /\ path <= NumPaths[stage] /\ NumPaths[stage] \in Nat
    BY PathFacts DEF IInv, TypeOK, Path
<1>1. /\ sp = <<sp[1], sp[2]>> /\ sp[2] \in Nat
      /\ sp[1] = stage => sp[2] <= NumPaths[stage]
    BY StagePathFacts
<1>2. pc = "sequential" /\ Todo(<<stage, path>>) /\ (Todo(sp) <=> sp[1] = stage /\ sp[2] >= path)
    BY <1>0 DEF ExecPath, Todo, InRound
<1>3. CASE path < NumPaths[stage]
    <2>1. pc' = "sequential" /\ path' = path + 1 /\ stage' = stage
        BY <1>3 DEF ExecPath
    <2>2. Todo(sp)' <=> sp[1] = stage /\ sp[2] >= path + 1
        BY <2>1 DEF Todo, InRound
    <2> QED
        BY <1>0, <1>1, <1>2, <2>2
<1>4. CASE ~(path < NumPaths[stage])
    <2>1. pc' \in {"measured", "executed"}
        BY <1>4 DEF ExecPath, Processed
    <2>2. ~Todo(sp)'
        BY <2>1 DEF Todo, InRound
    <2> QED
        BY <1>0, <1>1, <1>2, <1>4, <2>2
<1> QED
    BY <1>2, <1>3, <1>4

LEMMA ThreadedStep ==
    ASSUME MaxRuns = 1, IInv, NEW w \in Worker, WorkerNext(w), WorkerProcess(w),
           NEW sp \in StagePath
    PROVE  /\ w[1] = stage /\ Executing
           /\ Todo(<<w[1], w[3]>>)
           /\ Todo(sp)' <=> Todo(sp) /\ sp # <<w[1], w[3]>>
<1>1. /\ w[1] \in Stage /\ w \in Crew(w[1]) /\ w = <<w[1], 1, w[3]>>
      /\ worker \in [Worker -> WorkerPC] /\ stage \in Stage
    BY CrewFacts, WorkerFacts DEF IInv, TypeOK, ThreadTypeOK
<1>2. /\ worker[w] = "process" /\ worker' = [worker EXCEPT ![w] = "post"]
      /\ UNCHANGED <<pc, stage, path, before, after>>
    BY DEF WorkerProcess, WorkerNext, mainVars
<1>3. InRound(w[1]) /\ w[1] = stage
    <2>1. CrewInv(w[1])
        BY <1>1 DEF IInv
    <2>2. InRound(w[1])
        BY <1>1, <1>2, <2>1 DEF CrewInv, Gathering
    <2> QED
        BY <2>2 DEF InRound
<1>4. InRound(stage) /\ InRound(stage)'
    BY <1>2, <1>3 DEF InRound, Only
<1>5. /\ pc \notin {"sequential", "pre"} /\ Executing
      /\ ~(pc = "preWait" /\ Main \in before[Only(stage)])
    BY <1>4 DEF InRound, Executing
<1>6. Todo(<<w[1], w[3]>>)
    BY <1>1, <1>2, <1>3, <1>4 DEF Todo
<1>7. Todo(sp) <=> sp[1] = stage /\ worker[<<stage, 1, sp[2]>>] \in {"pre", "check", "process"}
    BY <1>4, <1>5 DEF Todo
<1>8. Todo(sp)' <=> sp[1] = stage /\ worker'[<<stage, 1, sp[2]>>] \in {"pre", "check", "process"}
    BY <1>2, <1>4, <1>5 DEF Todo, Only
<1>9. sp = <<sp[1], sp[2]>> /\ (sp[1] = stage => <<stage, 1, sp[2]>> \in Worker)
    <2>1. Crew(stage) \subseteq Worker
        BY <1>1, CrewFacts
    <2> QED
        BY <2>1, StagePathFacts
<1>10. sp[1] = stage => (<<stage, 1, sp[2]>> = w <=> sp = <<w[1], w[3]>>)
    BY <1>1, <1>3, <1>9
<1> QED
    BY <1>1, <1>2, <1>3, <1>5, <1>6, <1>7, <1>8, <1>9, <1>10

\* The other steps of Main leave to do what there is.
LEMMA IdleStep ==
    ASSUME MaxRuns = 1, IInv, NEW sp \in StagePath,
           \/ StartRun \/ SetupThreading \/ SpawnWorker \/ Wakeup \/ Executed \/ Quit
           \/ ShutdownNow \/ ShutdownSync \/ ShutdownSynced \/ JoinAll
    PROVE  ~Todo(sp) /\ ~Todo(sp)'
<1>1. /\ pc \in {"idle", "setup", "spawn", "wakeup", "executed", "destroy", "shutPre",
                 "shutWait", "join"}
      /\ pc' \in {"idle", "setup", "spawn", "wakeup", "exec", "destroy", "shutPre",
                  "shutWait", "join", "terminated"}
    BY DEF StartRun, SetupThreading, SpawnWorker, Wakeup, Executed, Quit,
           ShutdownNow, ShutdownSync, ShutdownSynced, JoinAll, NextStage, AtStage
<1> QED
    BY <1>1 DEF Todo, InRound

LEMMA RendezvousStep ==
    ASSUME MaxRuns = 1, IInv, NEW sp \in StagePath,
           ContinueAll \/ Continued \/ SyncPostProcess \/ PostProcessed
    PROVE  Todo(sp)' <=> Todo(sp)
<1> DEFINE w == <<stage, 1, sp[2]>>
<1>0. /\ stage \in Stage /\ MainInv /\ CrewInv(stage) /\ MainWaits(stage) /\ BossInv(stage)
      /\ shutdown \in [Stage -> BOOLEAN]
      /\ Crew(stage) \subseteq Worker /\ Main \notin Crew(stage)
    BY CrewFacts DEF IInv, TypeOK, ThreadTypeOK
<1>1. sp[1] = stage => w \in Crew(stage)
    BY StagePathFacts
<1> HIDE DEF w
<1>2. CASE ContinueAll
    <2>1. /\ SyncPre(stage, Main) /\ pc = "pre" /\ pc' = "preWait"
          /\ UNCHANGED <<worker, stage>>
        BY <1>2 DEF ContinueAll
    <2>2. boss[stage] = 1 /\ Gathering(stage)
        BY <1>0, <2>1 DEF MainInv, Gathering, InRound, Leaving, BossInv
    <2>3. before'[Only(stage)] = IF before[Only(stage)] \cup {Main} = Crew(stage) \cup {Main}
                                 THEN {} ELSE before[Only(stage)] \cup {Main}
        BY <1>0, <2>1, <2>2, SyncPreFacts
    <2>4. CASE before[Only(stage)] \cup {Main} = Crew(stage) \cup {Main}
        <3>1. sp[1] = stage => worker'[w] = "pre"
            BY <1>0, <1>1, <2>1, <2>2, <2>4 DEF CrewInv
        <3> QED
            BY <2>1, <2>3, <2>4, <3>1 DEF Todo, InRound, Only, w
    <2>5. CASE before[Only(stage)] \cup {Main} # Crew(stage) \cup {Main}
        BY <2>1, <2>3, <2>5 DEF Todo, Only
    <2> QED
        BY <2>4, <2>5
<1>3. CASE Continued
    <2>1. /\ pc = "preWait" /\ pc' = "post" /\ UNCHANGED <<worker, before, after, stage>>
          /\ Main \notin before[Only(stage)]
        BY <1>3, ReleasedFacts DEF Continued, threadVars
    <2> QED
        BY <2>1 DEF Todo, InRound, Only
<1>4. CASE SyncPostProcess
    <2>1. /\ SyncPost(stage, Main) /\ pc = "post" /\ pc' = "postWait"
          /\ UNCHANGED <<worker, stage>>
        BY <1>4 DEF SyncPostProcess
    <2>2. boss[stage] = 1 /\ InRound(stage)
        BY <1>0, <2>1 DEF MainInv, InRound
    <2>3. after'[Only(stage)] = IF after[Only(stage)] \cup {Main} = Crew(stage) \cup {Main}
                                THEN {} ELSE after[Only(stage)] \cup {Main}
        BY <1>0, <2>1, <2>2, SyncPostFacts
    <2>4. CASE after[Only(stage)] \cup {Main} = Crew(stage) \cup {Main}
        <3>1. sp[1] = stage => worker[w] = "postWait"
            BY <1>0, <1>1, <2>1, <2>2, <2>4 DEF CrewInv
        <3> QED
            BY <2>1, <2>3, <2>4, <3>1 DEF Todo, InRound, Only, w
    <2>5. CASE after[Only(stage)] \cup {Main} # Crew(stage) \cup {Main}
        BY <2>1, <2>2, <2>3, <2>5 DEF Todo, InRound, Only
    <2> QED
        BY <2>4, <2>5
<1>5. CASE PostProcessed
    <2>1. /\ pc = "postWait" /\ pc' \in {"measured", "executed"}
          /\ Main \notin after[Only(stage)]
        BY <1>5, ReleasedFacts DEF PostProcessed, Processed
    <2> QED
        BY <2>1 DEF Todo, InRound
<1> QED
    BY <1>2, <1>3, <1>4, <1>5

\* The other steps of a Worker, too: passing a barrier does not make it the next round.
LEMMA CrewStep ==
    ASSUME MaxRuns = 1, IInv, NEW w \in Worker, WorkerNext(w), ~WorkerProcess(w),
           NEW sp \in StagePath
    PROVE  Todo(sp)' <=> Todo(sp)
<1> DEFINE v == <<stage, 1, sp[2]>>
<1>0. /\ stage \in Stage /\ MainInv /\ CrewInv(stage) /\ MainWaits(stage) /\ BossInv(stage)
      /\ shutdown \in [Stage -> BOOLEAN] /\ worker \in [Worker -> WorkerPC]
      /\ w[1] \in Stage /\ w \in Crew(w[1])
      /\ Main \notin Crew(stage) /\ w # Main
    BY CrewFacts, WorkerFacts DEF IInv, TypeOK, ThreadTypeOK
<1>1. sp[1] = stage => v \in Crew(stage) /\ v \in Worker
    BY <1>0, StagePathFacts, CrewFacts
<1>2. UNCHANGED <<pc, stage, path>> /\ \A u \in Worker : u # w => worker'[u] = worker[u]
    BY <1>0 DEF WorkerNext, WorkerStep, WorkerSyncPre, WorkerContinues, WorkerMustShutdown,
           WorkerSyncPost, WorkerLoops, mainVars
<1>3. boss[w[1]] = 1
    BY <1>0, RunFacts
    DEF IInv, BossInv, WorkerNext, WorkerStep, WorkerSyncPre, WorkerContinues,
        WorkerMustShutdown, WorkerSyncPost, WorkerLoops
<1> HIDE DEF v
<1>4. CASE w[1] # stage
    <2>1. before'[Only(stage)] = before[Only(stage)] /\ after'[Only(stage)] = after[Only(stage)]
        BY <1>0, <1>3, <1>4, OtherBarriers DEF WorkerNext
    <2>2. sp[1] = stage => worker'[v] = worker[v]
        BY <1>0, <1>1, <1>2, <1>4, CrewFacts
    <2> QED
        BY <1>2, <2>1, <2>2 DEF Todo, InRound, Only, v
<1>5. CASE w[1] = stage /\ WorkerSyncPre(w)
    <2>1. worker[w] = "loop" /\ worker' = [worker EXCEPT ![w] = "pre"] /\ after' = after
          /\ SyncPre(stage, w)
        BY <1>5 DEF WorkerSyncPre
    <2>2. /\ ~InRound(stage) /\ w \in Crew(stage)
          /\ Gathering(stage)
        BY <1>0, <1>5, <2>1 DEF CrewInv, Gathering
    <2>3. before'[Only(stage)] = IF before[Only(stage)] \cup {w} = Crew(stage) \cup {Main}
                                 THEN {} ELSE before[Only(stage)] \cup {w}
        BY <1>0, <1>3, <1>5, <2>1, <2>2, SyncPreFacts
    <2>4. CASE pc # "preWait"
        BY <1>2, <2>1, <2>2, <2>4 DEF Todo, InRound, Only
    <2>5. CASE pc = "preWait"
        <3>1. Main \in before[Only(stage)]
            BY <2>2, <2>5 DEF InRound
        <3>2. CASE before[Only(stage)] \cup {w} = Crew(stage) \cup {Main}
            <4>1. \A u \in Crew(stage) : u # w => worker[u] = "pre"
                BY <1>0, <2>2, <3>2 DEF CrewInv
            <4>2. sp[1] = stage => worker'[v] = "pre"
                BY <1>0, <1>1, <1>2, <2>1, <4>1
            <4> QED
                BY <1>2, <2>3, <2>5, <3>1, <3>2, <4>2 DEF Todo, InRound, Only, v
        <3>3. CASE before[Only(stage)] \cup {w} # Crew(stage) \cup {Main}
            BY <1>2, <2>3, <2>5, <3>1, <3>3 DEF Todo, Only
        <3> QED
            BY <3>2, <3>3
    <2> QED
        BY <2>4, <2>5
<1>6. CASE w[1] = stage /\ WorkerSyncPost(w)
    <2>1. worker[w] = "post" /\ worker' = [worker EXCEPT ![w] = "postWait"] /\ before' = before
          /\ SyncPost(stage, w)
        BY <1>6 DEF WorkerSyncPost
    <2>2. InRound(stage) /\ w \in Crew(stage)
        BY <1>0, <1>6, <2>1 DEF CrewInv, Gathering
    <2>3. after'[Only(stage)] = IF after[Only(stage)] \cup {w} = Crew(stage) \cup {Main}
                                THEN {} ELSE after[Only(stage)] \cup {w}
        BY <1>0, <1>3, <1>6, <2>1, <2>2, SyncPostFacts
    <2>4. sp[1] = stage => (worker'[v] \in {"pre", "check", "process"}
                            <=> worker[v] \in {"pre", "check", "process"})
        BY <1>0, <1>1, <1>2, <2>1
    <2>5. CASE after[Only(stage)] \cup {w} = Crew(stage) \cup {Main}
        <3>1. \A u \in Crew(stage) : worker[u] \in {"post", "postWait"}
            BY <1>0, <2>1, <2>2, <2>5 DEF CrewInv
        <3>2. Main \in after[Only(stage)] /\ Main \notin after'[Only(stage)]
            BY <1>0, <2>3, <2>5
        <3>3. pc = "postWait"
            BY <1>0, <3>2 DEF MainWaits
        <3>4. ~InRound(stage)'
            BY <1>2, <3>2, <3>3 DEF InRound, Only
        <3> QED
            BY <1>1, <1>2, <3>1, <3>3, <3>4 DEF Todo, v
    <2>6. CASE after[Only(stage)] \cup {w} # Crew(stage) \cup {Main}
        <3>1. Main \in after'[Only(stage)] <=> Main \in after[Only(stage)]
            BY <1>0, <2>3, <2>6
        <3>2. InRound(stage)'
            BY <1>2, <2>1, <2>2, <3>1 DEF InRound, Only
        <3> QED
            BY <1>2, <2>1, <2>2, <2>4, <3>2 DEF Todo, Only, v
    <2> QED
        BY <2>5, <2>6
<1>7. CASE w[1] = stage /\ (WorkerContinues(w) \/ WorkerMustShutdown(w) \/ WorkerLoops(w))
    <2>1. UNCHANGED <<before, after>> /\ w \in Crew(stage)
        BY <1>0, <1>7 DEF WorkerContinues, WorkerMustShutdown, WorkerLoops
    <2>2. InRound(stage)' <=> InRound(stage)
        BY <1>2, <2>1 DEF InRound, Only
    <2>3. ASSUME InRound(stage)
          PROVE  worker'[w] \in {"pre", "check", "process"}
                   <=> worker[w] \in {"pre", "check", "process"}
        <3>1. ~shutdown[stage]
            BY <1>0, <2>3 DEF InRound, BossInv
        <3> QED
            BY <1>0, <1>7, <3>1 DEF WorkerContinues, WorkerMustShutdown, WorkerLoops
    <2>4. InRound(stage) /\ sp[1] = stage => (worker'[v] \in {"pre", "check", "process"}
                                              <=> worker[v] \in {"pre", "check", "process"})
        BY <1>1, <1>2, <2>3
    <2> QED
        BY <1>2, <2>1, <2>2, <2>4 DEF Todo, Only, v
<1> QED
    BY <1>4, <1>5, <1>6, <1>7 DEF WorkerNext, WorkerStep
-----------------------------------------------------------------------------
(* How often each path has been processed. *)

\* Once for each execution and measurement of its stage that is over, and once for the
\* present one when there is nothing left to do for it.
CountInv ==
    \A sp \in StagePath :
        count[sp] = executionCount[sp[1]] + Timings(sp[1])
                    + (IF Executing /\ sp[1] = stage /\ ~Todo(sp) THEN 1 ELSE 0)

LEMMA CountInit == Init => CountInv
<1> SUFFICES ASSUME Init, NEW sp \in StagePath
             PROVE  count[sp] = executionCount[sp[1]] + Timings(sp[1])
                    + (IF Executing /\ sp[1] = stage /\ ~Todo(sp) THEN 1 ELSE 0)
    BY DEF CountInv
<1>1. sp[1] \in Stage /\ ~Executing
    BY StagePathFacts DEF Init, Executing
<1> QED
    BY <1>1 DEF Init, ThreadInit, Timings

\* A step that processes no path, and leaves the stage's counters and what is to do alone.
LEMMA SteadyCount ==
    ASSUME TypeOK, CountInv, NEW sp \in StagePath,
           count' = count, UNCHANGED <<executionCount, timed>>,
           Executing' <=> Executing,
           Executing => stage' = stage,
           Todo(sp)' <=> Todo(sp)
    PROVE  count'[sp] = executionCount'[sp[1]] + Timings(sp[1])'
               + (IF Executing' /\ sp[1] = stage' /\ ~Todo(sp)' THEN 1 ELSE 0)
BY DEF CountInv, Timings

\* A step that processes the path at, which is still to do, and nothing else.
LEMMA WorkCount ==
    ASSUME TypeOK, CountInv, NEW sp \in StagePath, NEW at \in StagePath,
           count' = [count EXCEPT ![at] = @ + 1], UNCHANGED <<executionCount, timed>>,
           Executing, Executing', stage' = stage, at[1] = stage, Todo(at),
           Todo(sp)' <=> Todo(sp) /\ sp # at
    PROVE  count'[sp] = executionCount'[sp[1]] + Timings(sp[1])'
               + (IF Executing' /\ sp[1] = stage' /\ ~Todo(sp)' THEN 1 ELSE 0)
<1>1. /\ executionCount[sp[1]] \in Nat
      /\ timed[sp[1]]["single"] \in Nat /\ timed[sp[1]]["multi"] \in Nat
    BY StagePathFacts, TimedFacts
<1>2. /\ count'[at] = count[at] + 1
      /\ sp # at => count'[sp] = count[sp]
    BY DEF TypeOK, ThreadTypeOK
<1>3. CASE sp = at
    BY <1>1, <1>2, <1>3 DEF CountInv, Timings
<1>4. CASE sp # at
    BY <1>2, <1>4 DEF CountInv, Timings
<1> QED
    BY <1>3, <1>4

LEMMA CountStep ==
    ASSUME MaxRuns = 1, IInv, CountInv, [Next]_vars
    PROVE  CountInv'
<1> SUFFICES ASSUME NEW sp \in StagePath
             PROVE  count'[sp] = executionCount'[sp[1]] + Timings(sp[1])'
                        + (IF Executing' /\ sp[1] = stage' /\ ~Todo(sp)' THEN 1 ELSE 0)
    BY DEF CountInv
<1>0. /\ TypeOK /\ stage \in Stage /\ sp[1] \in Stage
      /\ executionCount[sp[1]] \in Nat
      /\ timed[sp[1]]["single"] \in Nat /\ timed[sp[1]]["multi"] \in Nat
    BY StagePathFacts, TimedFacts DEF IInv, TypeOK
<1>1. CASE Exec
    <2>1. /\ pc = "exec" /\ pc' \in {"pre", "sequential"} /\ stage' = stage
          /\ UNCHANGED <<count, executionCount, timed>>
        BY <1>1 DEF Exec, Process, threadVars, stageVars
    <2>2. ~Executing /\ (Todo(sp)' <=> sp[1] = stage)
        BY <1>1, <2>1, ForkStep DEF Executing
    <2> QED
        BY <2>1, <2>2 DEF CountInv, Timings
<1>2. CASE Calibrate
    <2>1. /\ pc = "measured" /\ stage' = stage /\ UNCHANGED <<count, executionCount>>
          /\ testMulti[stage] \in BOOLEAN
        BY <1>0, <1>2, TimedFacts DEF Calibrate, Process, threadVars
    <2>2. Executing /\ ~Todo(sp) /\ (Todo(sp)' <=> sp[1] = stage)
        BY <1>2, <2>1, ForkStep DEF Executing
    <2>3. timed'[sp[1]]["single"] + timed'[sp[1]]["multi"]
              = Timings(sp[1]) + (IF sp[1] = stage THEN 1 ELSE 0)
        BY <1>0, <1>2, <2>1, CalibrateTimed DEF Timings
    <2> QED
        BY <1>0, <2>1, <2>2, <2>3 DEF CountInv, Timings
<1>3. CASE ExecPath
    <2>1. /\ count' = [count EXCEPT ![<<stage, path>>] = @ + 1]
          /\ UNCHANGED <<executionCount, timed>>
          /\ pc = "sequential" /\ pc' \in {"sequential", "measured", "executed"}
          /\ stage' = stage
        BY <1>3 DEF ExecPath, Processed, stageVars
    <2>2. <<stage, path>> \in StagePath
        BY <1>0 DEF TypeOK, StagePath
    <2> QED
        BY <1>0, <1>3, <2>1, <2>2, SequentialStep, WorkCount DEF Executing
<1>4. CASE Executed
    <2>1. /\ pc = "executed" /\ pc' \in {"exec", "wakeup"}
          /\ executionCount' = [executionCount EXCEPT ![stage] = @ + 1]
          /\ UNCHANGED <<count, timed>>
        BY <1>4 DEF Executed, NextStage, AtStage, threadVars
    <2>2. Executing /\ ~Executing' /\ ~Todo(sp)
        BY <1>4, <2>1, IdleStep DEF Executing
    <2>3. executionCount'[sp[1]] = executionCount[sp[1]] + (IF sp[1] = stage THEN 1 ELSE 0)
        <3>1. executionCount \in [Stage -> Nat]
            BY <1>0 DEF TypeOK
        <3>2. CASE sp[1] = stage
            BY <1>0, <2>1, <3>1, <3>2
        <3>3. CASE sp[1] # stage
            BY <1>0, <2>1, <3>1, <3>3
        <3> QED
            BY <3>2, <3>3
    <2>4. count'[sp] = count[sp] /\ Timings(sp[1])' = Timings(sp[1]) /\ Timings(sp[1]) \in Nat
        BY <1>0, <2>1 DEF Timings
    <2>5. count[sp] = executionCount[sp[1]] + Timings(sp[1]) + (IF sp[1] = stage THEN 1 ELSE 0)
        BY <2>2 DEF CountInv
    <2> QED
        BY <1>0, <2>2, <2>3, <2>4, <2>5
<1>5. CASE ContinueAll \/ Continued \/ SyncPostProcess \/ PostProcessed
    <2>1. /\ UNCHANGED <<count, executionCount, timed, stage>>
          /\ Executing /\ Executing'
        BY <1>5 DEF ContinueAll, Continued, SyncPostProcess, PostProcessed, Processed, Executing,
                    threadVars, stageVars
    <2> QED
        BY <1>0, <1>5, <2>1, RendezvousStep, SteadyCount
<1>6. CASE \/ StartRun \/ SetupThreading \/ SpawnWorker \/ Wakeup \/ Quit
           \/ ShutdownNow \/ ShutdownSync \/ ShutdownSynced \/ JoinAll
    <2>1. UNCHANGED <<count, executionCount, timed>> /\ ~Executing /\ ~Executing'
        BY <1>6 DEF StartRun, SetupThreading, SpawnWorker, Wakeup, Quit, ShutdownNow, ShutdownSync,
                    ShutdownSynced, JoinAll, NextStage, AtStage, Executing, threadVars, stageVars
    <2> QED
        BY <1>0, <1>6, <2>1, IdleStep, SteadyCount
<1>7. ASSUME NEW w \in Worker, WorkerNext(w)
      PROVE  count'[sp] = executionCount'[sp[1]] + Timings(sp[1])'
                 + (IF Executing' /\ sp[1] = stage' /\ ~Todo(sp)' THEN 1 ELSE 0)
    <2>1. UNCHANGED <<executionCount, timed, pc, stage>>
        BY <1>7 DEF WorkerNext, mainVars, stageVars
    <2>2. CASE WorkerProcess(w)
        <3>1. /\ count' = [count EXCEPT ![<<w[1], w[3]>>] = @ + 1]
              /\ <<w[1], w[3]>> \in StagePath
            BY <2>2, WorkerFacts DEF WorkerProcess
        <3> QED
            BY <1>0, <1>7, <2>1, <2>2, <3>1, ThreadedStep, WorkCount DEF Executing
    <2>3. CASE ~WorkerProcess(w)
        <3>1. count' = count
            BY <1>7, <2>3 DEF WorkerNext, WorkerStep, WorkerSyncPre, WorkerContinues,
                              WorkerMustShutdown, WorkerSyncPost, WorkerLoops
        <3> QED
            BY <1>0, <1>7, <2>1, <2>3, <3>1, CrewStep, SteadyCount DEF Executing
    <2> QED
        BY <2>2, <2>3
<1>8. CASE UNCHANGED vars
    BY <1>0, <1>8, SteadyCount
    DEF vars, threadVars, mainVars, stageVars, Todo, InRound, Executing
<1> QED
    BY <1>1, <1>2, <1>3, <1>4, <1>5, <1>6, <1>7, <1>8 DEF Next, MainStep, Terminated

\* In a program that runs its system once, between its steps every path has been processed
\* once for each execution and each measurement of its stage.
THEOREM SingleRunCountsAgree == MaxRuns = 1 /\ Spec => []CountsAgree
<1> SUFFICES ASSUME MaxRuns = 1 PROVE Spec => []CountsAgree
    OBVIOUS
<1>1. IInv /\ CountInv => CountsAgree
    <2> SUFFICES ASSUME IInv, CountInv, pc = "wakeup", NEW sp \in StagePath
                 PROVE  count[sp] = executionCount[sp[1]] + timed[sp[1]]["single"]
                                    + timed[sp[1]]["multi"]
        BY DEF CountsAgree
    <2>1. /\ executionCount[sp[1]] \in Nat
          /\ timed[sp[1]]["single"] \in Nat /\ timed[sp[1]]["multi"] \in Nat
        BY StagePathFacts, TimedFacts DEF IInv
    <2> QED
        BY <2>1 DEF CountInv, Executing, Timings
<1>2. IInv /\ CountInv /\ [Next]_vars => CountInv'
    BY CountStep
<1> QED
    BY <1>1, <1>2, IInvInit, IInvInductive, CountInit, PTL DEF Spec

-----------------------------------------------------------------------------
(* The refinement. *)

LEMMA AbstractPaths ==
    /\ \A s \in Stage : Rounds!Paths(s) = {sp \in StagePath : sp[1] = s}
    /\ Rounds!AllPaths = StagePath
<1>1. Rounds!AllPaths = StagePath
    BY DEF Rounds!AllPaths, Rounds!Paths, StagePath, Stage, Path
<1>2. ASSUME NEW s \in Stage
      PROVE  Rounds!Paths(s) = {sp \in StagePath : sp[1] = s}
    <2>1. Rounds!Paths(s) \subseteq StagePath
        BY DEF Rounds!Paths, StagePath, Path
    <2>2. ASSUME NEW sp \in StagePath, sp[1] = s
          PROVE  sp \in Rounds!Paths(s)
        <3>1. sp = <<s, sp[2]>> /\ sp[2] \in Path(s)
            BY <2>2, StagePathFacts
        <3> QED
            BY <3>1 DEF Rounds!Paths, Path
    <2> QED
        BY <2>1, <2>2 DEF Rounds!Paths
<1> QED
    BY <1>1, <1>2

LEMMA RoundsInit == MaxRuns = 1 /\ Init => Rounds!Init
<1> SUFFICES ASSUME MaxRuns = 1, Init PROVE Rounds!Init
    OBVIOUS
<1>1. Pending = {}
    BY DEF Init, Pending
<1> QED
    BY <1>1, AbstractPaths DEF Init, ThreadInit, Rounds!Init

\* Every step takes a stage up when nothing is to do, processes one path that is, or is
\* invisible.
LEMMA RoundsStep ==
    MaxRuns = 1 /\ IInv /\ IInv' /\ [Next]_vars => [Rounds!Next]_Rounds!vars
<1> SUFFICES ASSUME MaxRuns = 1, IInv, IInv', [Next]_vars
             PROVE  Rounds!Next \/ UNCHANGED <<Pending, count>>
    BY DEF Rounds!vars
<1>0. TypeOK /\ stage \in Stage
    BY DEF IInv, TypeOK
<1>1. Pending = TodoPaths
    BY PendingIsTodo
<1>2. Pending' = {sp \in StagePath : Todo(sp)'}
    BY PendingIsTodoNext DEF TodoPaths
<1>3. CASE Exec \/ Calibrate
    <2>1. Pending = {} /\ Pending' = Rounds!Paths(stage)
        BY <1>0, <1>1, <1>2, <1>3, ForkStep, AbstractPaths DEF TodoPaths
    <2>2. count' = count
        BY <1>3 DEF Exec, Calibrate, threadVars
    <2> QED
        BY <1>0, <2>1, <2>2 DEF Rounds!Next, Rounds!Fork, Stage
<1>4. ASSUME NEW at \in StagePath, Todo(at), count' = [count EXCEPT ![at] = @ + 1],
             \A sp \in StagePath : Todo(sp)' <=> Todo(sp) /\ sp # at
      PROVE  Rounds!Next
    <2>1. at \in Pending /\ Pending' = Pending \ {at}
        BY <1>1, <1>2, <1>4 DEF TodoPaths
    <2> QED
        BY <1>4, <2>1, AbstractPaths DEF Rounds!Next, Rounds!Work
<1>5. ASSUME count' = count, \A sp \in StagePath : Todo(sp)' <=> Todo(sp)
      PROVE  UNCHANGED <<Pending, count>>
    BY <1>1, <1>2, <1>5 DEF TodoPaths
<1>6. CASE ExecPath
    <2>1. <<stage, path>> \in StagePath
        BY <1>0 DEF TypeOK, StagePath
    <2>2. count' = [count EXCEPT ![<<stage, path>>] = @ + 1]
        BY <1>6 DEF ExecPath
    <2> QED
        BY <1>4, <1>6, <2>1, <2>2, SequentialStep
<1>7. CASE ContinueAll \/ Continued \/ SyncPostProcess \/ PostProcessed
    <2>1. count' = count
        BY <1>7 DEF ContinueAll, Continued, SyncPostProcess, PostProcessed, threadVars
    <2> QED
        BY <1>5, <1>7, <2>1, RendezvousStep
<1>8. CASE \/ StartRun \/ SetupThreading \/ SpawnWorker \/ Wakeup \/ Executed \/ Quit
           \/ ShutdownNow \/ ShutdownSync \/ ShutdownSynced \/ JoinAll
    <2>1. count' = count
        BY <1>8 DEF StartRun, SetupThreading, SpawnWorker, Wakeup, Executed, Quit, ShutdownNow,
                    ShutdownSync, ShutdownSynced, JoinAll, threadVars
    <2> QED
        BY <1>5, <1>8, <2>1, IdleStep
<1>9. ASSUME NEW w \in Worker, WorkerNext(w)
      PROVE  Rounds!Next \/ UNCHANGED <<Pending, count>>
    <2>1. CASE WorkerProcess(w)
        <3>1. /\ count' = [count EXCEPT ![<<w[1], w[3]>>] = @ + 1]
              /\ <<w[1], w[3]>> \in StagePath
            BY <2>1, WorkerFacts DEF WorkerProcess
        <3> QED
            BY <1>4, <1>9, <2>1, <3>1, ThreadedStep
    <2>2. CASE ~WorkerProcess(w)
        <3>1. count' = count
            BY <1>9, <2>2 DEF WorkerNext, WorkerStep, WorkerSyncPre, WorkerContinues,
                              WorkerMustShutdown, WorkerSyncPost, WorkerLoops
        <3> QED
            BY <1>5, <1>9, <2>2, <3>1, CrewStep
    <2> QED
        BY <2>1, <2>2
<1>10. CASE UNCHANGED vars
    BY <1>5, <1>10 DEF vars, threadVars, mainVars, Todo, InRound
<1> QED
    BY <1>3, <1>6, <1>7, <1>8, <1>9, <1>10 DEF Next, MainStep, Terminated

\* In a program that runs its system once, executing the stages implements the safety
\* part of ForkJoin, whichever threads do the work: the paths of a stage are taken up
\* together, each is processed exactly once, and no stage is taken up before that is done.
THEOREM SingleRunForkJoin == MaxRuns = 1 /\ Spec => Rounds!Init /\ [][Rounds!Next]_Rounds!vars
<1> SUFFICES ASSUME MaxRuns = 1 PROVE Spec => Rounds!Init /\ [][Rounds!Next]_Rounds!vars
    OBVIOUS
<1>1. IInv /\ IInv' /\ [Next]_vars => [Rounds!Next]_Rounds!vars
    BY RoundsStep
<1>2. Init => Rounds!Init
    BY RoundsInit
<1> QED
    BY <1>1, <1>2, IInvInit, IInvInductive, PTL DEF Spec
=============================================================================
