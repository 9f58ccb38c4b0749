------------------------------ MODULE Plugins -------------------------------
(***************************************************************************)
(* Plugins from the file they are loaded from to the end of the program:   *)
(* the loader finds them, commands make blocks of them, runs set their     *)
(* blocks up, initialize and process them, and at the end of the program   *)
(* blocks and plugins go, in an order nobody determined: System and        *)
(* BlockLoader are singletons of two template instances.                   *)
(***************************************************************************)
EXTENDS Loader, Dynamic

CONSTANTS
    Users,      \* bound: the users there are, what each may do
    Nobody      \* where there is no block

\* The directories a user may load, how often, and how many blocks and runs there will be.
User == [roots : SUBSET Seq(STRING), loads : Nat, blocks : SUBSET Block, runs : Nat]

ASSUME PluginsAssumption ==
    /\ Users \subseteq User
    /\ Nobody \notin BlockState

VARIABLES
    user,       \* who is using the program
    pc,         \* "thrown": an exception has left main's try block; "aborted": an assertion
                \* failed or nobody caught an exception; "dereferenced": combine_stages used
                \* a pointer to a Source that is none; "crashed": other undefined behaviour
    debug,      \* whether assertions are compiled in
    block,      \* the blocks that are alive
    made,       \* the type of block each was made as
    inMatrix,   \* the blocks a run has placed in the matrix
    todo,       \* those the current pass over the blocks has not come to
    steps,      \* steps of the current run
    runs,       \* runs so far
    misfits,    \* the blocks an initialize found with a signal they cannot take
    memory,     \* what has been reserved and not given back
    unloaded    \* lt_dlexit has been called

blockVars == <<block, made, inMatrix, todo, steps, runs, misfits, memory>>
vars == <<loaderVars, blockVars, user, pc, debug, unloaded>>

Alive == {x \in Block : block[x] # Nobody}

Init ==
    /\ LoaderInit
    /\ user \in Users
    /\ pc = "idle"
    /\ debug \in BOOLEAN
    /\ block = [x \in Block |-> Nobody] /\ made = [x \in Block |-> <<>>]
    /\ inMatrix = {} /\ todo = {}
    /\ steps = 0 /\ runs = 0
    /\ misfits = {}
    /\ memory = {}
    /\ unloaded = FALSE

LoadBlocks ==
    /\ pc = "idle"
    /\ \/ \E dir \in user.roots : LoadDir(dir) /\ Len(asked) < user.loads
       \/ TakeEntry
       \/ LoadDirReturns
    /\ UNCHANGED <<blockVars, user, pc, debug, unloaded>>

\* An exception that PlugBoard does not expect: of the directory iterator, of substr, which
\* cuts a path that is too short, or of the factory, which does not know a type.  main,
\* which loads its directory before it makes blocks, catches it and the program ends; the
\* Python module does not.
UnexpectedException ==
    /\ pc = "idle"
    /\ \/ (searching # <<>> => Alive = {}) /\ pc' = "thrown"
       \/ pc' = "aborted"
    /\ UNCHANGED <<loaderVars, blockVars, user, debug, unloaded>>

-----------------------------------------------------------------------------
(* Making blocks *)

\* delete of the block b leaves the program in p, with memory m.  Garbage that is freed
\* may happen to be null.
Deleted(b, p, m) ==
    LET fatal == unloaded \/ Misfreed(b)
        sound == Freed(b) \subseteq memory
    IN \/ /\ fatal \/ ~sound
          /\ p = "crashed" /\ m = memory
       \/ /\ ~fatal /\ (sound \/ Garbage \in Freed(b))
          /\ p = pc /\ m = memory \ Freed(b)

\* new_block, of a type that is registered: of another one it throws.  The size is a
\* parameter that only blocks with an array of ports have.
MayMake(x, id, size) ==
    /\ pc = "idle" /\ searching = <<>>
    /\ x \in user.blocks \ Alive
    /\ HasPortArray([class |-> factory[id].class]) \/ size = CHOOSE n \in Counts : TRUE

\* Of a block with a new name, with its arguments.  setup_input_ports and
\* setup_output_ports follow.
AddBlock(x, id, size) ==
    /\ MayMake(x, id, size)
    /\ LET b == NewBlock(factory[id].class, size, TRUE)
       IN /\ block' = [block EXCEPT ![x] = SetUp(b, x, runs)]
          /\ memory' = memory \cup Owned(block'[x])
          /\ \/ UNCHANGED pc
             \/ NamesOverrun(b) /\ pc' = "crashed"
    /\ made' = [made EXCEPT ![x] = id]
    /\ UNCHANGED <<loaderVars, user, debug, inMatrix, todo, steps, runs, misfits, unloaded>>

\* With too few arguments, or ones that do not fit, or by a name that is taken, a block is
\* deleted where it was made.
RefuseBlock(x, id, size, configured) ==
    /\ MayMake(x, id, size)
    /\ configured => Alive # {}
    /\ LET b == NewBlock(factory[id].class, size, configured)
       IN \E p \in {pc, "crashed"}, m \in {memory, memory \ Freed(b)} :
              /\ Deleted(b, p, m)
              /\ pc' = p /\ memory' = m
              /\ block' = IF p = "crashed" THEN [block EXCEPT ![x] = b] ELSE block
              /\ made' = IF p = "crashed" THEN [made EXCEPT ![x] = id] ELSE made
    /\ UNCHANGED <<loaderVars, user, debug, inMatrix, todo, steps, runs, misfits, unloaded>>

-----------------------------------------------------------------------------
(* A run: the attributes of signals are propagated, each block of the matrix *)
(* is initialized and, unless the run is one of no steps, processed          *)

\* The type a run gives the first input of a block, if it has none yet: none again, where
\* that input is not connected or an exception ends the run before.
TypeInRun(b, t) == IF b.type = "empty" THEN t ELSE b.type

\* types and open: what propagation has made of the blocks the run has placed.  A port that
\* has a buffer keeps it.
Run(placed, types, open, n) ==
    /\ pc = "idle" /\ searching = <<>>
    /\ runs < user.runs
    /\ inMatrix \subseteq placed /\ placed # {}
    /\ \A x \in placed : open[x] \subseteq block[x].open
    /\ runs' = runs + 1
    /\ steps' = n
    /\ inMatrix' = placed
    /\ LET found(x) == [block[x] EXCEPT !.type = TypeInRun(block[x], types[x]), !.open = open[x]]
       IN block' = [x \in Block |-> IF x \notin placed THEN block[x]
                                    ELSE IF block[x].class = "Fork"
                                         THEN SetUp(found(x), x, runs')
                                    ELSE found(x)]
    /\ memory' = memory \cup UNION {Owned(block'[x]) : x \in placed}
    /\ LET untyped == {x \in placed : block'[x].type = "empty"}
       IN \/ \* One of PlugBoard's own exceptions, which only ends the run.
             pc' = "idle" /\ todo' = {}
          \/ \* A start block nothing is connected to, or one that is fed by such a block:
             \* "propagating a default value is certainly an error".
             /\ debug /\ \E x \in untyped : block[x].class # "StdoutSink"
             /\ pc' = "aborted" /\ todo' = {}
          \/ \* combine_stages, in a matrix that has been combined and parallelized before.
             /\ inMatrix # {}
             /\ pc' = "dereferenced" /\ todo' = {}
          \/ /\ debug => untyped = {}
             /\ pc' = "initialize" /\ todo' = placed
    /\ UNCHANGED <<loaderVars, user, debug, made, misfits, unloaded>>

\* Where a pass over the matrix leads when it is through.
AfterPass == IF pc = "initialize" /\ steps > 0 THEN "process" ELSE "idle"

Through(x) ==
    IF todo = {x}
    THEN pc' = AfterPass /\ todo' = IF AfterPass = "process" THEN inMatrix ELSE {}
    ELSE todo' = todo \ {x} /\ UNCHANGED pc

InitializeBlock(x) ==
    /\ pc = "initialize"
    /\ x \in todo
    /\ ~Throws(block[x])
    /\ block' = [block EXCEPT ![x] = Initialize(@, x, runs)]
    /\ memory' = memory \cup Owned(block'[x])
    /\ misfits' = IF block[x].type \in Allowed(block[x].class) THEN misfits ELSE misfits \cup {x}
    /\ Through(x)
    /\ UNCHANGED <<loaderVars, user, debug, made, inMatrix, steps, runs, unloaded>>

\* bad_function_call, in the midst of the pass: no exception of PlugBoard's own, so that the
\* program ends, with some blocks initialized, one half initialized, and others not at all.
FailToInitialize(x) ==
    /\ pc = "initialize"
    /\ x \in todo
    /\ Throws(block[x])
    /\ block' = [block EXCEPT ![x] = Abandoned(@, x, runs)]
    /\ memory' = memory \cup Owned(block'[x])
    /\ pc' \in {"thrown", "aborted"}
    /\ todo' = {}
    /\ UNCHANGED <<loaderVars, user, debug, made, inMatrix, steps, runs, misfits, unloaded>>

ProcessBlock(x) ==
    /\ pc = "process"
    /\ x \in todo
    /\ IF block[x].proc = Garbage THEN pc' = "crashed" /\ UNCHANGED todo ELSE Through(x)
    /\ UNCHANGED <<loaderVars, user, debug, block, made, inMatrix, steps, runs, misfits, memory,
                   unloaded>>

-----------------------------------------------------------------------------
(* The end of the program: the destructors of System and of BlockLoader *)

Exit ==
    /\ (pc = "idle" /\ searching = <<>>) \/ pc = "thrown"
    /\ pc' = "exit"
    /\ todo' = Alive
    /\ unloaded' \in BOOLEAN
    /\ UNCHANGED <<loaderVars, user, debug, block, made, inMatrix, steps, runs, misfits, memory>>

DeleteBlock(x) ==
    /\ pc = "exit"
    /\ x \in todo
    /\ \E p \in {pc, "crashed"}, m \in {memory, memory \ Freed(block[x])} :
          /\ Deleted(block[x], p, m)
          /\ pc' = p /\ memory' = m
    /\ todo' = todo \ {x}
    /\ UNCHANGED <<loaderVars, user, debug, block, made, inMatrix, steps, runs, misfits, unloaded>>

Exited ==
    /\ pc = "exit" /\ todo = {}
    /\ pc' = "ended"
    /\ unloaded' = TRUE
    /\ UNCHANGED <<loaderVars, user, blockVars, debug>>

Ended ==
    /\ pc \in {"ended", "aborted", "dereferenced", "crashed"}
    /\ UNCHANGED vars

Next ==
    \/ LoadBlocks
    \/ UnexpectedException
    \/ \E x \in Block, id \in DOMAIN factory, size \in Counts :
          \/ AddBlock(x, id, size)
          \/ \E configured \in BOOLEAN : RefuseBlock(x, id, size, configured)
    \/ \E placed \in SUBSET Alive, n \in {0, 1} :
          \E types \in [placed -> SignalTypes \cup {"empty"}],
             open \in [placed -> SUBSET {"before", "after"}] :
             Run(placed, types, open, n)
    \/ \E x \in Block :
          InitializeBlock(x) \/ FailToInitialize(x) \/ ProcessBlock(x) \/ DeleteBlock(x)
    \/ Exit
    \/ Exited
    \/ Ended

Spec == Init /\ [][Next]_vars

-----------------------------------------------------------------------------
(* What makes it correct *)

PluginsTypeOK ==
    /\ searching \in Seq(CallState)
    /\ Len(searching) <= 2
    /\ \A id \in DOMAIN factory : factory[id] \in Files
    /\ pc \in {"idle", "initialize", "process", "thrown", "exit", "ended",
               "aborted", "dereferenced", "crashed"}
    /\ \A x \in Alive : block[x] \in BlockState
    /\ inMatrix \subseteq Alive /\ todo \subseteq Alive
    /\ runs \in 0..user.runs
    /\ memory \subseteq Memory

\* Blocks made of the same type are of the same class, whatever plugins have been loaded
\* between the two.
SameTypeSameClass ==
    \A x, y \in Alive : made[x] = made[y] => block[x].class = block[y].class

\* A block is processed by the function for the type of its signal, and what that
\* function works on was made for that type, in this run.
FitsItsSignal ==
    pc = "process" =>
        \A x \in inMatrix :
            LET b == block[x]
            IN b.type \in Allowed(b.class) =>
                /\ b.proc = b.type
                /\ MakesObject(b) => b.object = Object(b, x, runs) /\ b.object \in memory

\* Blocks and plugins crash no program that gives each block signals it can take, a name of
\* its own and no more than 99 ports, and is unloaded after its blocks have been deleted;
\* whatever else goes wrong, in whatever order blocks come, are refused, run, rerun, left
\* half initialized by an exception, and deleted.  What the matrix itself does in another
\* run, "dereferenced" here, is the subject of SystemInit.
CrashesForAReason ==
    pc = "crashed" =>
        \/ unloaded
        \/ misfits # {}
        \/ \E x \in Alive :
              LET b == block[x]
              IN \/ b.class = "Arithmetic" /\ b.configured /\ b.numPorts = 0
                 \/ NamesOverrun(b)

\* At the end of a program memory is lost only by what a later run replaced, by a Fork that
\* no run initialized, and by a block of which the last run was ended by an exception: that
\* block has no buffer for one of its ports.
LeaksForAReason ==
    pc = "ended" =>
        \A m \in memory :
            LET b == block[m[1]]
            IN \/ m[2] = "object" /\ \E r \in (m[3] + 1)..runs : b.object = <<m[1], m[2], r, m[4]>>
               \/ m[2] = "ports" /\ b.class = "Fork" /\ ~b.initialized
               \/ m[2] = "object" /\ m[3] = runs /\ ~b.initialized /\ Throws(b)
=============================================================================
