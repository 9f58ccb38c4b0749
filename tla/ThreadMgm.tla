----------------------------- MODULE ThreadMgm -----------------------------
(***************************************************************************)
(* Threads of the execution stages: the rendezvous a Boss shares with the  *)
(* Workers it created (thread_mgm.cpp).                                    *)
(*                                                                         *)
(* Every stage owns one Boss object.  ExecutionStage::setup_threading      *)
(* overwrites it, at each run of the system, with a new one that carries a *)
(* new pair of heap-allocated barriers; the Workers hold a reference to    *)
(* the object, and so read the barrier pointers it carries at the moment   *)
(* they call it.  A pair of barriers is therefore named by the stage and   *)
(* the run that created it.                                                *)
(*                                                                         *)
(* A boost::barrier is the set of threads that entered it and that it has  *)
(* not released: the last of its Threshold threads empties the set, and a  *)
(* thread that waits and is not in the set any more may leave, when its    *)
(* scheduler lets it.                                                      *)
(***************************************************************************)
EXTENDS Naturals, FiniteSets

CONSTANTS
    NumStages,   \* execution stages of the matrix
    NumPaths,    \* function: the paths of each stage
    MaxRuns,     \* bound: how often the user issues "run"
    Main         \* the thread that runs the system

Stage == 1..NumStages
Run == 1..MaxRuns
Path(s) == 1..NumPaths[s]
StagePath == UNION {{s} \X Path(s) : s \in Stage}

ASSUME ShapeAssumption ==
    /\ NumStages \in Nat \ {0}
    /\ NumPaths \in [Stage -> Nat \ {0}]
    /\ MaxRuns \in Nat

Boss == Stage \X Run
Worker == UNION {{s} \X Run \X Path(s) : s \in Stage}
Thread == Worker \cup {Main}

ASSUME MainAssumption == Main \notin Worker

VARIABLES
    worker,     \* where each Worker is in Worker::operator()
    boss,       \* the run whose Boss each stage holds, 0 for the default Boss
    before,     \* threads waiting in before_process of each Boss
    after,      \* threads waiting in after_process of each Boss
    shutdown,   \* shutdown_ of the Boss of each stage
    freed,      \* Bosses whose barriers have been deleted
    count       \* how often each path has been processed

threadVars == <<worker, boss, before, after, shutdown, freed, count>>

WorkerPC == {"none", "loop", "pre", "check", "process", "post", "postWait", "exit"}

ThreadTypeOK ==
    /\ worker \in [Worker -> WorkerPC]
    /\ boss \in [Stage -> 0..MaxRuns]
    /\ before \in [Boss -> SUBSET Thread]
    /\ after \in [Boss -> SUBSET Thread]
    /\ shutdown \in [Stage -> BOOLEAN]
    /\ freed \subseteq Stage \X (0..MaxRuns)
    /\ count \in [StagePath -> Nat]

ThreadInit ==
    /\ worker = [w \in Worker |-> "none"]
    /\ boss = [s \in Stage |-> 0]
    /\ before = [b \in Boss |-> {}]
    /\ after = [b \in Boss |-> {}]
    /\ shutdown = [s \in Stage |-> FALSE]
    /\ freed = {}
    /\ count = [sp \in StagePath |-> 0]

-----------------------------------------------------------------------------
(* boost::barrier *)

\* Mutant: the barriers are constructed for the paths alone.
ThresholdWithoutBoss(s) == NumPaths[s]

\* The threads a barrier is constructed for: the paths and the Boss itself.
Threshold(s) == 1 + NumPaths[s]

\* The waiting threads once t has entered: none when t completes the barrier.
Enter(waiting, t, n) ==
    IF Cardinality(waiting \cup {t}) = n THEN {} ELSE waiting \cup {t}

CurrentBoss(s) == <<s, boss[s]>>

\* sync_pre_process and sync_post_process, up to the wait inside them.
SyncPre(s, t) ==
    before' = [before EXCEPT ![CurrentBoss(s)] = Enter(@, t, Threshold(s))]
SyncPost(s, t) ==
    after' = [after EXCEPT ![CurrentBoss(s)] = Enter(@, t, Threshold(s))]

\* ... and the condition on which the wait returns.
Released(barriers, t) == \A b \in Boss : t \notin barriers[b]

-----------------------------------------------------------------------------
(* Worker::operator() *)

WorkerSyncPre(w) ==
    /\ worker[w] = "loop"
    /\ SyncPre(w[1], w)
    /\ worker' = [worker EXCEPT ![w] = "pre"]
    /\ UNCHANGED <<boss, after, shutdown, freed, count>>

WorkerContinues(w) ==
    /\ worker[w] = "pre"
    /\ Released(before, w)
    /\ worker' = [worker EXCEPT ![w] = "check"]
    /\ UNCHANGED <<boss, before, after, shutdown, freed, count>>

WorkerMustShutdown(w) ==
    /\ worker[w] = "check"
    /\ worker' = [worker EXCEPT ![w] = IF shutdown[w[1]] THEN "exit" ELSE "process"]
    /\ UNCHANGED <<boss, before, after, shutdown, freed, count>>

WorkerProcess(w) ==
    /\ worker[w] = "process"
    /\ worker' = [worker EXCEPT ![w] = "post"]
    /\ count' = [count EXCEPT ![<<w[1], w[3]>>] = @ + 1]
    /\ UNCHANGED <<boss, before, after, shutdown, freed>>

WorkerSyncPost(w) ==
    /\ worker[w] = "post"
    /\ SyncPost(w[1], w)
    /\ worker' = [worker EXCEPT ![w] = "postWait"]
    /\ UNCHANGED <<boss, before, shutdown, freed, count>>

WorkerLoops(w) ==
    /\ worker[w] = "postWait"
    /\ Released(after, w)
    /\ worker' = [worker EXCEPT ![w] = "loop"]
    /\ UNCHANGED <<boss, before, after, shutdown, freed, count>>

WorkerStep(w) ==
    \/ WorkerSyncPre(w)
    \/ WorkerContinues(w)
    \/ WorkerMustShutdown(w)
    \/ WorkerProcess(w)
    \/ WorkerSyncPost(w)
    \/ WorkerLoops(w)

-----------------------------------------------------------------------------
(* Boss *)

\* Boss::Boss: new barriers, shutdown_ cleared, in run r.
NewBoss(s, r) ==
    /\ boss' = [boss EXCEPT ![s] = r]
    /\ shutdown' = [shutdown EXCEPT ![s] = FALSE]

\* new_thread_from_path: the Worker of path p is created and may run at once.
NewThread(s, p) ==
    worker' = [worker EXCEPT ![<<s, boss[s], p>>] = "loop"]

\* Mutant: the thread created first is the only one joined.
FirstJoined(s) ==
    \A w \in Worker : w[1] = s /\ w[3] = 1 => worker[w] \in {"none", "exit"}

\* join_all: every thread of the stage's thread_group, of whatever run.
AllJoined(s) ==
    \A w \in Worker : w[1] = s => worker[w] \in {"none", "exit"}
=============================================================================
