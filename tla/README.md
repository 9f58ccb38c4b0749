# PlugBoard: a verification project

PlugBoard simulates communication systems. A script or a Python program adds
*blocks* (sources, sinks, and blocks that are both), connects their ports, and runs
the resulting system N times. Before a run the system orders its blocks, hands the
attributes of signals from port to port and makes their buffers; during a run blocks
are executed stage by stage, the paths of a stage in threads of their own if that
turns out to be faster.

This directory holds TLA+ models of the program, the TLC runs that check them and
the proofs TLAPS checks. Source paths are relative to `src/`.

- [The system](#the-system): the inventory
- [The modules](#the-modules): what each models, and how it corresponds to the code
- [The runs](#the-runs): what each checks, with which bounds
- [Fairness](#fairness)
- [The proofs](#the-proofs)
- [What the code does that it says it does not](#what-the-code-does-that-it-says-it-does-not)
- [What is not modelled](#what-is-not-modelled)
- [The plan](#the-plan)

## The system

| Component | State | Operations | Makes it correct |
|---|---|---|---|
| Threads: `thread_mgm.*` | `Boss`: two `boost::barrier`s, `shutdown_`, a thread group; `Worker`: its path | `new_thread_from_path`, `continue_all`, `sync_post_process`, `shutdown_now`, `Worker::operator()` | Workers run only between the two barriers; every barrier is completed; `shutdown_` is never read while written; every joined thread exits |
| Execution stage: `exec_stage.*` | paths, Boss, calibration (`threading_enabled`, `calibrate`, `test_multi`, `execution_count`, two totals of time) | `add_path`, `exec`, `setup_threading`, destructor | each path processed once per execution; calibration compares equal numbers of tests; it ends |
| Execution matrix: `exec_matrix.*` | list of stages, block store | place a block, `combine_stages`, `parallelize`, `init`, `exec`, `finalize` | no block lost or repeated; blocks come after those that feed them; parallel paths are independent |
| System: `system.*` | matrix, list of signal buffers, symbol table | `add_block`, `connect_ports`, `initialize`, `wakeup_sys`, `finalize` | a sound system runs, an unsound one is refused; it may be extended and run again |
| Ports and signals: `port/*`, `signal/*`, `block/source.*`, `block/sink.*`, `block/buffer_access.hpp`, `block/port_traits.hpp` | attributes (type, sample time, frame size), buffer pointers, `send` flag, connections of a Source | `setup_*_ports`, `propagate`, `connect`, `set_buffer`, `get_signal` | both ends of a connection agree and share one buffer, which no one else has |
| Blocks and parameters: `block/block.*`, `parameter.*`, `constraint.hpp` | parameter list, `param_curr`, `configured` | `add_parameter`, `set_parameter`, `initialize`, `process`, `finalize` | a block in the system has parameters of their types that obey their constraints |
| Dispatch: `block/dynamic.hpp` | two function pointers and an object | `initialize`, `proc`, `destroy` | called only for a type that was allowed, on what was made for it; freed once |
| Variables: `variable/*` | `data`, `numel`, `allocated`, `size`, type | `push_back`, `prealloc`, `cast`, `save_type_change`, `copy`, arithmetic | a copy equals its original; what is allocated is freed once |
| Symbol table: `symtab.*` | a map, a parent | look up, insert | the innermost definition wins |
| Commands: `grammar/command/actions.*`, `input/file.*` | the expression being built | `eval_run`, `eval_connect`, `eval_add_block`, expressions, ranges | a command has the effect of the calls it stands for |
| Grammar: `grammar/command/new_parse.hpp` | none | boost.spirit rules | |
| Front ends: `plugboard.cpp`, `plugboard.i`, `main.cpp` | one System | the commands as Python calls; conversion of numpy arrays | as commands |
| Block loader, factory, environment: `block_loader.*`, `factory.hpp`, `environment.*` | table of creators, list of available blocks; a map of settings | load a directory, create by name | what lies in a directory and one level below can be made; a name goes on meaning what it meant |
| Block library: `blocks/*.cpp` | parameters, ports and IT++ objects of each block | the handlers `Block` calls | frame sizes and types of outputs follow from inputs and parameters |
| Scramblers: `blocks/scrambler/*` | shift registers, sequences, `start_output_` | `generate`, `get_scrambling_sequence` | the UMTS sequences, windows of which follow on one another |
| Types and exceptions: `types/*`, `exception/*`, `message.hpp` | none | | |
| Old Python front end: `plugboard_py.cpp` | | not part of the build | |

How they interact. A front end calls `System`, and only it. `System::initialize` calls
the matrix (placing blocks), then the ports (attributes and buffers), then the matrix
again (the two passes, and `init`). Blocks are made by the creators of plugins, which the
loader registers before. `wakeup_sys` calls `ExecutionMatrix::exec`, which
calls every stage's `exec`, which calls the blocks itself or releases its Workers to do
so. Blocks share signal buffers and nothing else; they are not locked: the order of
stages and the barriers alone keep a block from reading what another is writing.

What is hard here: the rendezvous of the threads of several stages with the thread of
the system; calibration, which switches between threads and none while the system
runs; transformations of a list while it is walked; state that survives from one run
to the next, or from one that threw an exception; attributes that arrive at a port
while others are being compared; values converted, or not, between types, in buffers whose
size is counted in elements here and in bytes there; memory that is reserved by one call
of a block, replaced by another and freed by a third; bits shifted through registers. `PROJECT.json` lists the hazards at their lines, with the properties
that guard against each.

## The modules

### 1. Executing stages: `ThreadMgm`, `ExecStage`, `ForkJoin`, `MCExecStage`, `ExecStageProofs`

`ThreadMgm` has the Boss and Worker objects of all stages. `worker[<<s, r, p>>]` is the
program counter of the Worker made for path `p` of stage `s` in run `r`, between the
statements of `Worker::operator()`. A barrier (`before`, `after`) is the set of threads
waiting in it. A thread enters and leaves a barrier in two steps, and others may move
between them: the last one to enter empties the set, and whoever has left the set may
go on. `boss[s]` names the run whose barriers the Boss of a stage carries, because
`setup_threading` assigns a new Boss to the one the old Workers still refer to; that
Workers read the pointers through it when they call is kept (`CurrentBoss`).

`ExecStage` adds the thread of the system, `Main`: the loops of `eval_run`,
`wakeup_sys` and `ExecutionMatrix::exec`; each branch of `ExecutionStage::exec`,
with its calibration; `setup_threading`; the destructors. Time is abstracted: which way was
faster is a free choice, how many measurements were added to each total is counted
(`timed`). What the stages are made of is not: `NumPaths` is any function.

`ForkJoin` is the abstract specification: the paths of one stage are taken up together,
each is processed once, in any order, and nothing else is taken up before that is done.
`ExecStage` implements it with `pending <- Pending`.

### 2. Initializing: `ExecMatrix`, `Linearization`, `SystemInit`, `MCSystemInit`, `MCSystemRerun`, `LinearizationProofs`, `SystemInitProofs`

`ExecMatrix` has the matrix: `stages[i][p][k]` is the k-th block of path p of stage i.
Its operations are `add_block` in both forms, `block_is_placed`, one iteration of the
loops of `combine_stages` and `parallelize` per action, and the crash of
`combine_stages` on a block that is no Source. `Linearization` has the recursion of
`linearize` with an explicit stack, `frames`, started for each block `find_start_blocks`
returns. The order `std::sort` gives those is any order in which none comes after one
that its comparison puts first, since the comparison says nothing about the rest.
`SystemInit` composes them for arbitrary sets of blocks and connections, and runs
`initialize` again on the result. Names are numbers, in the order of `std::map`.

### 3. The life of a system: `Ports`, `Execution`, `System`, `MCSystem`, `SystemProofs`

`Ports` extends `Linearization` by ports: their attributes, `setup_output_ports`,
`OutPort::connect` with its three exceptions, `MakeConnection` with its new buffer, one
call per action, and `connect_calls` that are recorded by `connect_ports` and
replayed by every `initialize`. A block is a *kind*: how many ports it has and which
attributes it demands or assigns, `Unset` where the block takes those of its first input
port.

`Execution` executes what `initialize` has made of it: stage by stage, the blocks of a path
in order, those of different paths of a stage interleaved as in threads of their own, and a
stage of several paths once or twice, as in `ExecStage`. A sample stands for the output
port that wrote it: `holds` has what is in each buffer in this step, `taken` what has been
read from it. This ties the passes over the matrix, which move blocks by their names and
ports, to what they must not disturb.

`System` adds the user: blocks and connections in between runs, also after one that has
thrown, and the two ways a run can end the program (`aborted`, `crashed`).

### 4. Variables, expressions, scripts: `Variables`, `Parameters`, `Expressions`, `Script`, `MCParameters`, `MCScript`, `ScriptProofs`

`Variables` has the layout of a `Variable` in memory: its elements, whether the buffer has
them or pointers to them (`boxed`), the bytes it has (`room`) beside what the variable
believes of it (`allocated`, `size`), and whether anything was read or written outside of
it, or as what it is not (`intact`). `push_back` in both forms, `prealloc`, the copy
constructor, `cast`, `save_type_change`, the iterator and the destructor are operators.

`set_parameter` argument by argument, with `is_convertible_to`, `save_type_change`
whose result is dropped, constraints on sizes and on values, the copying that stops at
the first element that fails; the count the front ends check first, and the assertion
they check last. `Expressions` has `subtree_type`, `evaluate_scalar_arithmetic`,
`make_range`, `make_array` and `eval_expression`, on the trees the grammar makes; numbers
are fractions while they are reckoned with. The recursion is in functions on `Trees`, a set of
trees with all their subtrees, which TLC gets by taking children three times
(`MCScript`); the proofs are about any such set.

`Script` composes the three: a script assigns variables, adds a block with expressions for
arguments and runs the system; or a Python program passes arrays, which `plugboard.i` turns
into variables. An expression comes with what its author means by it (`type`, `elements`),
or none if the language does not support it, so that what arrives can be compared with
what was written. `StandsFor` says when a tree means that: a string itself, an integer or a fraction
its value, a row its members, a range the numbers from its start to its end, none of them with
a name inside or a division by zero. `ScriptAssumption` demands it of every supported
expression, and TLC evaluates it for those of the instance. `debug` tells whether the
program has its assertions.

### 5. Scramblers: `ShiftRegister`, `Scramblers`, `ScramblerWindow`, `ScramblersProofs`

The three `generate_impl`, an action per iteration. A register is the set of places that
hold a one, `>>=` moves them down, LSB after `>>= k` in all is `k \in r`. The reference
is arithmetic: a register that shifts gives the powers of x modulo its
polynomial, so that what it gives n steps later is known without taking them. It tells
whether a register has its full period, and whether the taps of the quadrature part
really give the in-phase part 131072 (downlink) or 16777232 (long uplink) steps later,
the distances of the UMTS standard (3GPP TS 25.213), without walking there. With an odd
offset the long uplink scrambler reads an element in front of a vector; the model takes
any of three values for it.

`ScramblerWindow` is the recursion of `get_scrambling_sequence(samples)` once the sequence
is there: a call at a time, with `samples_left`, `start_output_` and the index ranges that
IT++ is asked for; `(0, -1)` is the whole sequence to it, as `-1` is the last element.

### 6. The block library: `BlockLibrary`, `Link`, `MCLink`, `LinkProofs`

`BlockLibrary` has an operator for each block of `blocks/` (named as the block): which
signals its input ports accept, the signal its `setup_output_ports` gives its output
ports, whether `initialize` and `process` come to an end, and how many samples `process`
leaves in the buffers. The last need not be what the port declares, because blocks
resize the IT++ vectors that are their buffers, or fill them as they find them. A scrambler
does so where its sequence ends: how many samples its frame has depends on where in the
sequence it starts (`NextStart`), and one that starts at the very end (`AtEnd`) may end the
program; its `writes` is the closed form of what `ScramblerWindow` takes call by call. A fading
channel works with a tail of 1 to a frame's samples: its index -1, where there is none,
is the last element to IT++. Frame sizes are
unsigned and wrap around at `Word`. What IT++ accepts (codes it knows, lengths of its
turbo interleaver, padding of its block interleaver) is external.

`Link` is a user who builds a system of these blocks: `Add` hands the signals on, `Start`
initializes all blocks, `Process` processes the next one on the samples it really
finds, and `NextStep` begins another step, with the scramblers where they have come to. `aborted` is a vector that cannot be made, `failed` an `initialize` that throws or
aborts, `crashed` a `process` that reads or writes past a buffer or calls what is not there.
How the order of blocks comes about is the subject of `System`, not of this module.

### 7. Plugins: `Loader`, `Dynamic`, `Plugins`, `MCPlugins`, `PluginsProofs`

`Loader` has `load_dir` with its recursion as a stack of calls (`searching`), each with the
entries it has still to come to, in any order; a path is a sequence of pieces, of which the
identifier is cut out. `Factory::Register` fills `factory`, a function from identifiers to
files.

`Dynamic` has the life of a block that works on signals of several types: what `setup_*`,
`initialize`, the destructor of each class and that of `Dynamic` reserve, set and free, as
operators on a record. A piece of memory is named by its block, by what it is for, by the
run that reserved it and, where `delete` tells them apart, by a type of signal. A block that
fetches the buffer of a port nobody connected throws (`Throws`; `open` says whether there is
one, and whether it is fetched before or after the type is looked at), and is left as far as
its `initialize` has come (`Abandoned`): a Fork or an Arithmetic with memory it has reserved,
and none of them `initialized`.

`Plugins` composes both with what a program does: it loads directories, makes blocks (or is
refused, when a block is deleted where it was made), runs the system, and exits. A run gives
each block a type of signal, or none where an input is not connected, and then initializes
and processes the blocks in any order; how that order and those types come about is the
subject of `System`. An exception can end a run before the pass over its blocks, which
goes on (`Run`), or in the midst of it, which ends the program with some blocks initialized
and others not (`FailToInitialize`), as do those nobody expects, of the directory iterator, of
the cutting of identifiers and of the factory (`UnexpectedException`). Where `main` catches
it (`thrown`) the destructors run, otherwise (`aborted`) they do not. A start block with an open
input is in the pass as well; with assertions its run aborts. At the exit the destructors of the two singletons, `System` and
`BlockLoader`, run in either order. `misfits` remembers which blocks were initialized with
a signal they cannot take. What `combine_stages` does to a matrix that has stages of several
paths already (`init_rerun`) is a way a rerun may end here as well, `dereferenced`, told apart
from what blocks and plugins do, `crashed`; that threads of an earlier run may hang
(`exec_rerun`) is left to `ExecStage`.

## The runs

Runs marked *refuted* check one property each that the code states of itself and does
not have; see below. In all others TLC finishes without an error.

| Run | Instance | Checks | Shows |
|---|---|---|---|
| `exec_one_run` | 2 stages of 2 paths, one run of up to 5 steps, 2 test runs | `TypeOK`, `NoOverlap`, `NoRaceOnShutdown`, `CountsAgree`, `ComparisonIsFair`, `NoneLeftBehind`, `Termination`, `ForkJoinSpec` | the rendezvous, calibration and shutdown work in a program that runs once |
| `exec_counts` | 1 stage of 2 paths, 30 test runs, 34 steps | `RunsNTimes` | *refuted* |
| `exec_rerun` | 1 stage of 2 paths, 2 runs | `Termination` | *refuted* |
| `init_all` | all systems of 3 blocks with up to 2 ports a side, feedback, self-loops and open ports included, and all circle-free systems of 5 blocks without open ports, in six orders of names; 2 runs | `NothingLost`, `OrderRespected`, `ChainsCombined`, `StagesNeeded`, `Initializes` | placing and both passes do what they should, on any wiring, for forks, joins and diamonds, also where names run against the signals |
| `init_rerun` | one system of 7 blocks, 2 runs | `Initializes` | *refuted* |
| `system` | one user with 3 blocks of 6 kinds, 3 connections, 2 runs; one with 4 blocks of 3 kinds, 3 connections, 3 runs; at most one port left open | `RunsIfConsistent`, `BuffersJoined`, `SamplesDelivered`, `NoRace`, `SoundSystemRuns` | a run succeeds, throws or aborts exactly as a reference definition of a sound system says, also when the system was extended, or a run has thrown, before; blocks read in each step what was written for them in that step |
| `system_shared` | 3 blocks, ports connected twice | `BuffersJoined` | *refuted* |
| `script` | 23 expressions (9 scalars, 6 vectors, 6 oddities, 2 variables), 10 arrays, 2 variables and assignments, 5 parameter lists, up to 3 arguments, with and without assertions | `AddedIfAcceptable`, `AsWritten`, `MemoryIntact`, `StopsForAReason`, `RunsAsWritten` | what is written arrives, as the type and the elements that were meant, through buffers that hold it, and is checked as declared; programs stop for a reason |
| `params_numpy` | the same lists, with the types of numpy arrays | `ParametersHonoured` | *refuted* |
| `scramblers` | 3 scramblers, 9 sequence numbers, 4 offsets; 40 elements, 255 of the short sequence; up to 4 frames of 13, 20, 40, 41 or 90 | `RegistersAlive`, `QuadratureDelayed`, `MaximalPeriod`, `ShortRepeats`, `PairsRotate`, `Continuous`, `FrameLength`, `RecursionShrinks` | the registers and the pairing of elements are those of the standard; frames continue the sequence, each as long as its end lets it be |
| `links` | up to 7 of 28 configured blocks: every block of the library but StdoutSink, which takes what ITWrite takes; some with parameters that fit nothing; 3 steps, scrambling sequences of 42 elements | `Restored`, `WrittenAsDeclared`, `SensibleLinksRun` | receivers undo what transmitters do to frames; frames have the declared size in each step but those in which a sequence ends, also in the one after it; links of blocks used as they are meant to be used run |
| `plugins` | 17 files in directories three levels deep; one user who loads two directories and makes 2 blocks, one who does so with two versions of a plugin, one who runs one block of any class 3 times, one who runs two; 2 or 100 ports | `RegisteredOnce`, `TwoLevels`, `SameTypeSameClass`, `FitsItsSignal`, `CrashesForAReason`, `LeaksForAReason` | what can be made of which directories; blocks get the functions and the memory for their signal in every run; blocks and plugins crash a program for four reasons only, and lose memory for three, exceptions in the midst of `initialize` included |

Each module says in its `TypeOK` (or `ScriptTypeOK`, `PluginsTypeOK`, `WindowTypeOK`) what values
its variables take. They held in these instances, but only that of `ExecStage` is
among the properties above: the others say little that these do not need.
`TypeOK` of `ExecStage` and `ScriptTypeOK` are proved.

Why the bounds are enough. Two stages of two paths are the smallest system in which one
stage's Workers can overlap another's or one another; with `TestRuns = 2` the calibration
measures in tests 0, 1, 2 and 3 = 2 | 1, two of them sequential and two threaded, so that in five steps
every one of its branches is reached, the execution after the decision included (`TestRuns = 30`, as in the code, differs
in number only; both refutations use it). Three blocks with two ports make every local situation of the
passes (several ports or none on a side, connected or not, a stage between two that are
combined); five blocks add diamonds and a chain beside a join; of the orders their names
can have there are the five rotations of one and its reverse, so that every block is once the
first and once the last, and the proofs are for all orders. The passes are loops over
neighbouring stages that look at one block on each side. In `System`, three
blocks and three connections join two sources in one sink or fork one; the fourth block and
the third run are for systems extended twice. Two attributes with two values each are
enough because attributes do not influence each other and are only compared for
equality. Every kind of block has the ports of one in the library, so that a stage
has paths of all shapes, and a step more than the first only repeats it: `NextStep` leads
back to where a step begins. The parameter lists contain every constraint the library uses, in a list that
is checked first, in the middle and last, and one type no block has (complex), which
`set_parameter` handles all the same. The expressions have every node of the grammar at
least once, every type, division with and without a rest, ranges upwards, downwards, empty
and endless, and nodes where the actions do not expect them; an expression is evaluated
without regard to the ones before it but for the variables it names, of which there
are two, so that one can be assigned to the other or the same one twice; they are assigned in
turn, the second only as a copy. `Word` is 2^16
there, in place of 2^32: a bound above every number but the negative ones. Registers advance by the same linear step whatever they hold;
the numbers chosen fill them with none, one, all and a mix of ones, and every property
of them is checked at each step on the way. Seven blocks make a source, two pairs of
transmitter and receiver blocks, one in between and a sink, so that every pair is nested
in every other its types allow; the lengths 40, 42, 20 and 28 are divided with and without a rest by
what divides them. A sequence of 42 elements is read in frames of 42 (it ends with the first, and the second
starts at its very end), of 28 (which it ends within) and of 20 (a second frame fits, the third is
short), so that three steps have a scrambler before, at and after the end, and a whole frame
after a short one. Frames of 13 never end where a sequence of 40 does within four, those of 20
and 40 always do, 41 and 90 are longer than it. `Word` is 2^30 in `links`, the largest power of two TLC's integers leave room
for; no frame comes near it but by wrapping around. A block of `Plugins` does not see the others
but in the memory it does not share with them, so that one block in three runs meets every
order of types, and two are enough for refusals, names and the order in which they are
deleted; a run of no steps and a run of one tell processing from none. 2 and 100 are the
numbers of ports that fit into a port's name and that do not. In the directories
there are two plugins of one name, one of them in a level that is not searched unless it is
asked for, an old version, a module that is no plugin, and names without the prefix.

`CHECK_DEADLOCK` is off in `exec_rerun`, whose subject is a program that hangs, and in
`links`, where the user may stop building and a program that has crashed does nothing more.
The configurations without `CHECK_DEADLOCK` are checked for it.
States in which the program has ended loop (`Terminated`, `Finished`, `Ended`, `Done`,
`Generated`).

## Fairness

`ExecStage` assumes weak fairness of the thread of the system and of each Worker: the
operating system runs every thread that can run. Nothing is assumed of barriers beyond
their letting go those they have released, and nothing of which thread is next.
The other modules describe one thread: `WF_vars(Next)`, or `WF_vars(Step)` where the user
is part of `Next` and need not do anything, says that it runs. `Link`, `Script` and
`Plugins` have safety properties only, and no fairness.

## The proofs

TLAPS checks the eight modules of proofs to the last leaf. Where a theorem needs more than
the assumptions of the modules on their constants, it says so in its statement.

**`ExecStageProofs`**, for all stages, paths, steps and test runs:

- `TypeCorrect`: `Spec => []TypeOK`, for any number of runs.
- `SingleRunNoOverlap`: with `MaxRuns = 1`, `Spec => []NoOverlap`.
- `SingleRunNoRaceOnShutdown`: with `MaxRuns = 1`, `Spec => []NoRaceOnShutdown`.

The single run is a real assumption: `setup_threading` replaces the Boss of Workers that
are still waiting, and `exec_rerun` shows what comes of it. Neither property is
inductive, since neither says how the Workers of a stage and the thread of the system came to be
where they are. The invariant `IInv` does: where `Main` is determines where
the Workers of each stage can be, who waits in which barrier, and what `shutdown_` is.
For a stage that `Main` is not working on, all its Workers are on their way to
`before_process` (`Gathering`). For the one it is working on there are three rounds:
gathering, with Main in the barrier or not; in the round between the barriers (`InRound`), in
which no Worker can be in `before_process` because nobody is released from
`after_process` before Main enters it; and leaving (`Leaving`). That a barrier is
completed by the last thread and by no other is counting: its set is a
subset of the crew, and full only when everyone is in it. One step of each proof per
action, and below it one per conjunct the action can disturb.

The second part is about what the stages do with paths and clock:

- `FairComparison`: `Spec => []ComparisonIsFair`, for any number of runs. The measurements
  alternate, beginning with a sequential one (`Alternates`), and there is one for each
  execution of a stage that calibrates (`OnePerExecution`); since `test_runs | 1` is odd,
  the one that ends the calibration comes when both have been measured equally often.
- `SingleRunNoneLeftBehind`: with `MaxRuns = 1`, `Spec => []NoneLeftBehind`. A stage
  whose destructor Main has passed has joined its Workers, or had decided against them
  (`LeavingInv`, one stage at a time in `LeftInv`).
- `SingleRunCountsAgree`: with `MaxRuns = 1`, `Spec => []CountsAgree`.
- `SingleRunForkJoin`: with `MaxRuns = 1`, `Spec => Rounds!Init /\ [][Rounds!Next]_Rounds!vars`,
  the safety part of `ForkJoinSpec`.

The last two rest on `Todo`, which says of each path, from where Main and its Worker
are, whether the present execution has still to process it. Under `IInv` the paths to do are
those `ForkJoin` calls pending (`PendingIsTodo`); a path has been processed once for each execution and
measurement of its stage, and once more when it is no longer to do (`CountInv`). Taking up
a stage makes all its paths to do, processing takes away one, and the last one's end lets Main
go on: these are the steps of `ForkJoin`, and all others are stutters.

**`SystemInitProofs`**, for all sets of blocks, ports and connections, in every order of names,
with `MaxRuns = 1`:

- `SingleRunNothingLost`: `[]NothingLost`, and `SingleRunStagesNeeded`: `[]StagesNeeded`,
  feedback or not.
- `SingleRunOrderRespected`: `[]OrderRespected`, and `SingleRunChainsCombined`:
  `[]ChainsCombined`; both properties are about systems without feedback.
- `SingleRunNoCrash`: `[](pc # "crashed")`, the safety in `Initializes`.

The lemmas are in **`LinearizationProofs`** and need nothing of `SystemInit`, so that
`SystemProofs` can use them, too. While `linearize` runs, the matrix is a line of single blocks (`LineInv`). The blocks that
are being visited are the first of the line, since a start block is placed at its front and any
other right behind the one that leads to it; each is connected to the next, and whatever a block of the line is connected to is in the line
or has still to be visited by one of these. A block that is placed can therefore feed
nobody in front of it unless there is feedback (`NoWayBack`). The passes keep `Sound`: every block
reached has one place, neighbours in a path are connected to each other alone, and
connections lead forward. What they need to know of the part of the matrix they have
not come to (one block per stage, one path per stage), and of the part they have left behind
(no path of it can go on with another; no stage could take in the next), is in
`CombineAt` and `ParallelAt`. That what comes behind a stage can be put into it without
passing those it depends on is the argument of `CombinedOrdered` and
`ParallelizedOrdered`, in terms of how removing a stage moves the places of blocks
(`GoneFacts`, `CombinedPlaces`, `ParallelizedPlaces`). The single run is again a real
assumption: in a rerun the passes begin with stages of several paths, `combine_stages` can
reach a block that is no Source, and `init_rerun` shows it.

**`SystemProofs`**, for all blocks, kinds of blocks and users, where no port is connected twice
(`SharedPorts = FALSE`; `system_shared` shows why). For any number of runs, with extensions and
exceptions between them:

- `UnsharedBuffersJoined`: `Spec => []BuffersJoined`. Both ports of a connection have the same
  buffer, or none, and no other port that buffer (`BufInv`); where a connection has been made they have the
  same attributes, and setting up the output ports again changes nothing (`AttrInv`,
  `SettledOutput`). What is left to show is that `propagate_signal_attributes` comes to
  every connection (`SettledInv`): each Source is in the matrix, and one that is not first in its
  stage, where propagation does not look, was connected by an earlier run (`InnerFull`), since blocks are executed only after `init`
  has found a buffer at each of their ports.
- `UnsharedOnItsMerits`: `Spec => []OnItsMerits`, the greater part of `RunsIfConsistent`: once
  all ports are connected, blocks are executed only if they agree on the signals, and
  an exception means that they do not, circle or none. Whatever solution there is to the demands of the
  blocks, ports have what they have in it, or nothing yet (`MeritInv`); an exception leaves no
  solution, and blocks and connections that come later only demand more.

For one run (`OneRun`: no user runs the system twice):

- `SingleRunOnItsMerits`: `Spec => []RunsIfConsistent`, if blocks without inputs set all attributes of
  their outputs, as those of the library do (`GeneratorsSet`). Nothing aborts a complete system
  without a circle: the block that feeds another is in front of it in the line, and has handed its
  attributes on (`SetupSucceeds`); every port has its buffer, in later runs as well
  (`InitSucceeds`).
- `SingleRunSamplesDelivered`: `Spec => []SamplesDelivered`, and `SingleRunNoRace`:
  `Spec => [](Acyclic => NoRace)`. `ExecInv` says which blocks have been processed in this
  step, from `curr`, `progress` and `tested` (`Processed`); their samples are still in their
  buffers, because no other port has those, and what fed them has been read. The matrix being
  `Sound` does the rest: what feeds a block is processed before it (`FedBefore`), in the same path or
  an earlier stage, and no connection leads from one path of a stage to another.

For later runs `SamplesDelivered`, `NoRace` and the last conjunct of `RunsIfConsistent` are
model-checked: the matrix then holds combined paths that were made before the new connections,
and is no longer `Sound`.

**`ScramblersProofs`**, for all sequence numbers, offsets and lengths:

- `Alive`: `Spec => []RegistersAlive`. A register of bits whose feedback takes in the place
  that is shifted out cannot run empty (`ShiftAlive`): a one further up moves down, and a
  last one at the bottom makes the feedback odd. The register of four values has an odd
  place for the same reason (`QuaternaryAlive`), modulo 4.
- `UplinkPairsRotate`: `Spec => []PairsRotate`. Each element is what the
  loop makes of the two registers and of its own number, also with an odd offset, where one is read
  in front of the vector (`Combined` in `UplinkInv`).
- `FramesContinue`: `Spec => []Continuous`, and `CallsShrink`:
  `Spec => RecursionShrinks`, for every length of the sequence and every
  size of frames, from an invariant on `samples_left` and `start_output_` (`WindowInv`).
- `FramesFallShort`: `Spec => []FrameLength`. While a frame is taken that has come `e` times to the
  end of the sequence, `e` elements are missing from what was given and still is to be
  given (`LengthInv`).

**`LinkProofs`**, for all blocks of the library, parameters, frame sizes and links:

- `LinkTypeCorrect`: `Spec => []TypeOK`.
- `FramesAreWritten`: `Spec => [](Fits => WrittenAsDeclared)`. The property excepts frames an
  interleaver fills up, and the steps in which a scrambling sequence ends (`SequencesLast`):
  `FramesFallShort` says by how much those fall short.
- `ReceiversRestore`: `Spec => [](Fits /\ WholeTimes => Restored)`.
- `MeantLinksRun`: `Spec => [](Fits /\ WholeTimes => SensibleLinksRun)`, where a step counts as
  meant while the sequences last; a short frame in an earlier step does no harm to it.

`Fits` says that no block writes a frame of half a word or more, which no vector can hold
(`Word` is 2^32 in the code). Without it declared sizes wrap around, and a receiver has nothing to
restore. `WholeTimes` says that a transmit filter can divide its sample time, which is
real in the code and a natural number in the model. Both are about the link built so far, not about
the constants; in the instance of `links` they hold in every state, where the
longest frames are of some thousand samples and the one transmit filter divides 8 by 4.

The invariant is `LinkInv`: a block is fed by earlier ones (`LinkShape`), has declared
what it makes of what those have declared (`DeclaredInv`), only the last block can have
aborted the program (`PhaseInv`), each frame of a scrambler starts at a place in its sequence (`StepsInv`),
and the samples of a step are those declared, while sequences last and matrices are full, or the
next block is the one that crashed (`SamplesInv`). The steps need one lemma per block on what it declares
and writes, stated once as a definition (`ConvolutionalEncoderDoes` and `ConvolutionalEncoderIs`, and so
on), all of them together `WritesDeclared`.

`Restored` is about pairs that may be nested, with branches and other blocks in between. `OpenInv`
carries it from block to block, by induction along the link: what was
opened last has its output kept up to here, and what was open before it is open
below it. When a receiver closes it, `UndoneIs` shows for each of the five pairs that the input of the
one is kept up to the output of the other, and the next pair outside takes over. The
properties themselves are not enough for that: they speak of pairs that are closed, and not of
those still open. That `Open`, a recursive function, does what it is defined to do is `OpenIs`.

The other theorems are about single pairs, and allow for something in between that makes frames
longer, which no block of the library does to the sizes declared:

- `ConvolutionalFrames` and `TurboFramesRestored`: the decoder gives back the frame size
  its encoder was given, also when less than one bit's worth of samples was added.
- `PSKFrames`: the demodulator gives back the frame the modulator was given and less than
  one symbol more.

**`PluginsProofs`**, for all files, directories and calls of `load_dir`:

- `ListedAndCounted`: `Spec => []RegisteredOnce`. The number of available blocks is what the
  calls that have returned have counted plus what those that have not have so far
  (`Uncounted`); that they are two at most, since the inner one is not recursive,
  is part of the invariant (`CallsInv`).
- `TwoLevelsLoaded`: `Spec => []TwoLevels`. Of what lies in a directory that was loaded, or one
  level below, each plugin is registered or among the entries that the call for that directory
  has still to come to (`Settled`), and nothing is registered that no call could reach
  (`ReachInv`).

and for all users, blocks and runs:

- `CrashesExplained`: `Spec => []CrashesForAReason`. The property says nothing of a program
  that goes on, so that it is not inductive. `BlocksStaySound` is: as long as no run has
  found a misfit, every block that is left is `Sound`, which means that it has its array
  of ports if its class has one, that `proc` and `destroy` are set once it is initialized, which
  one that threw is not, and that what its destructors free is memory of its own, of the type they free it as
  (`SoundDeletion`). Memory carries the name of its block, so that deleting one
  block cannot take anything from another (`SoundStays`). `PassInv` adds that a
  block is initialized before it is processed.
- `OneClassPerName`: `Spec => []SameTypeSameClass`. A block has the class of the creator that its
  name stands for now, because `Factory::Register` never replaces one (`MadeInv`).
- `FunctionsFit`: `Spec => []FitsItsSignal`. What `initialize` has set fits the signal of this run,
  and no other block's `initialize` or destructor takes it back (`FitInv`).
- `LeaksExplained`: `Spec => []LeaksForAReason`. Memory belongs to a block that is left and
  would free it (`Owner`), or is for one of the three reasons out of reach of any
  (`Kept`); a program that has ended has no block left.

**`ScriptProofs`**, for all expressions, nested in any way, all arrays, all declarations of
parameters, any number of variables, assignments and arguments, with assertions and without:

- `ScriptTypeCorrect`: `ScriptSpec => []ScriptTypeOK`.
- `BuffersHold`: `ScriptSpec => []MemoryIntact`. A buffer has the bytes of its elements
  however it grew, with `prealloc` or without (`Laid`, `Pushed`), and keeps them when it is copied,
  converted and read. Bits are the exception the property names: their
  buffer is too small for the pointers in it.
- `ConstraintsDecide`: `ScriptSpec => []AddedIfAcceptable`, where no parameter is of bits and no
  remainder is taken of a number below one (`Ordinary`), as no block of the library does and none
  of the instance. A parameter before `param_curr` holds the elements of its argument, which
  obeys every constraint of it, those after it nothing (`BlockInv`); the copying that stops
  at the first bad element has copied all of them if there is none (`Filled`).
- `MeantIsHeld`: `ScriptSpec => []AsWritten`. An expression that stands for something comes to just
  that (`EvalStandsFor`), an array to its elements in their order, and a copy of a variable
  to what the variable came to.
- `EndsAreReasoned`: `ScriptSpec => []StopsForAReason`, and `RunAsOften`:
  `ScriptSpec => []RunsAsWritten`.

The invariant is `WholeInv`: the buffers and the block (`ScriptInv`), what variables and
arguments were meant to be (`MeaningInv`), and the last two properties. What a recursive function
computes is shown by induction over numbers, in the one form the provers have room for: a set of
natural numbers that is not empty has a least element, which `LeastElement` derives from intervals being well founded by inclusion
(`InductionOnSet`). For the arrays, whose elements are pushed
one after the other by a fold, it gives the solution of the recursion
(`PushAllUnfolds`); for `Terminals`, the set of leaves below a tree, the solution is the least
function closed under its definition (`TerminalsUnfold`), so that no depth of trees need be
assumed. `Evaluate` needs neither: what it computes for a tree is assumed to be a number where
nothing is divided by zero (`NumbersAssumption`, which TLC evaluates).

Only model-checked, because it is out of the prover's reach:

- `Termination`, `Initializes`, `SoundSystemRuns` and the liveness of `ForkJoin`: liveness under
  fairness. `SingleRunNoCrash` and `SingleRunForkJoin` are their safety.
- `QuadratureDelayed`, `MaximalPeriod` and `ShortRepeats`: computations on registers of fixed
  polynomials, recursive and without an argument shorter than doing them.

And what may be within reach: what `System` says of later runs beyond the theorems above.

## What the code does that it says it does not

Met while modelling; each is a run that TLC refutes.

- `exec_counts`: a threaded stage that is being calibrated is executed twice per step,
  once to measure it and once more (`exec_stage.cpp:255`), though N runs are announced.
- `exec_rerun`: the second run of a system replaces the Boss of each threaded stage
  (`exec_stage.cpp:333`). Its earlier Workers are never released, and the join of the
  destructor waits for them for ever.
- `init_rerun`: a second `initialize` combines stages that have several paths already; the
  last path is tested, the first one used, and its last block need not be a Source
  (`exec_matrix.cpp:330`).
- `system_shared`: an output port may be connected twice before the first run, since
  the flag `connect_ports` tests is set by the run (`system.cpp:317`). The first input
  port is left with a buffer nobody writes.
- `params_numpy`: arguments of a type that nothing converts pass for convertible
  (`block.cpp:379`) and evade the constraints.

Others have no run because nothing in the repository claims otherwise. They are in the
models as the code has them, and the properties name them as exceptions; the hazards in
`PROJECT.json` have their lines:

- Workers left behind when calibration decides against them (`NoneLeftBehind`); the
  comparison of start blocks that is no strict weak ordering (any order it allows, in `SystemInit`:
  `std::sort` inserts up to 16 elements; what its partitions do with more, by such a
  comparison, is not modelled);
  frames cut short, or a whole sequence too long, where a scrambling sequence ends (`FrameLength`,
  `WrittenAsDeclared`); a fading channel without a tail (`SensibleLinksRun`).
- A complex parameter given a number, which no one can read after the cast
  (`StopsForAReason`); buffers of bits that are too small for pointers (`MemoryIntact`);
  identifiers and powers within expressions, and arrays of several rows, which parse but come
  to nothing; `run(-1)`; numpy arrays of several dimensions (`AsWritten` is about one).
- Blocks with a signal they cannot take, refused for their name, with 100 ports, or deleted
  after their plugin was unloaded (`CrashesForAReason`); what each further run leaks, and
  an exception in the midst of `initialize` (`LeaksForAReason`); directories in a directory in a directory (`TwoLevels`).

## What is not modelled

- Signal processing: what blocks compute is calls into IT++; `BlockLibrary` has how much
  of it. Of the values in buffers there is only which port wrote them.
- Time, printing, messages, the wording of exceptions; names, but for their order and for
  whether one is taken; the exceptions of `connect_ports` for names that are unknown.
- Copies of Workers and paths that `boost::thread` makes; reference counts, but for the
  deletion that ends them.
- What libltdl does with a file, and which files have which symbols: inputs of `Loader`.
- The grammar (declarative; its trees are inputs of `Script`), the command line, the old Python
  front end (not built), vendored code.

## The plan

In this order; all twelve parts are done and described above.

1. Executing stages, with the proofs of its safety.
2. Initializing the matrix.
3. The life of a system: ports, attributes, buffers, reruns, exceptions.
4. Configuring blocks.
5. Scramblers, and the proof that their registers stay alive.
6. The block library: frame sizes, sample times and types, and the proof that receivers
   give back the frames of their transmitters.
7. The window of the scramblers, with the proof that frames continue the sequence.
8. Values in buffers, executed by the matrix in stages: `Execution`.
9. Variables, and the arrays of Python programs that become variables.
10. Expressions, ranges, assignments and the symbol table.
11. Dispatch, with the proof of what can crash a program.
12. Loader and factory, with the proof that each plugin is listed once.

Theorems still to be proved, in order of worth:

1. Which matrices later runs of a `System` begin with, and what of `Sound` is left of them; the
   attributes and buffers of later runs are shown already (`UnsharedBuffersJoined`,
   `UnsharedOnItsMerits`).
