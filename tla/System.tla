------------------------------- MODULE System -------------------------------
(***************************************************************************)
(* The life of a System: the user adds blocks, connects ports and runs it, *)
(* and may do so again after a run, also after one that has thrown an      *)
(* exception (system.cpp, exec_matrix.cpp, plugboard.cpp).  A run          *)
(* initializes the system, executes it and finalizes it.  It may end the   *)
(* program: pc is then "aborted" (an assertion on attributes fails, or a   *)
(* block asks for the buffer of a port that has none) or "crashed" (a null *)
(* Source is dereferenced).                                                *)
(***************************************************************************)
EXTENDS Execution

CONSTANTS
    Users,        \* bound: the users there are, what each may do
    SharedPorts   \* whether users connect a port that is connected already

\* The blocks, kinds of blocks, connections and runs of a user.
User == [blocks : SUBSET Block, kinds : SUBSET Kinds, calls : Nat, runs : Nat, open : Nat]

ASSUME SystemAssumption ==
    /\ Users \subseteq User
    /\ SharedPorts \in BOOLEAN

VARIABLES
    user,      \* who is using the system
    runs,      \* runs so far
    failed     \* whether a run has thrown an exception

vars == <<matrixVars, pc, curr, next, starts, frames, portVars, executionVars, user, runs, failed>>

Calls == UNION {{<<b, calls[b][i][1], calls[b][i][2], calls[b][i][3]>> : i \in DOMAIN calls[b]} :
                b \in Block}

\* The output and input ports that are not connected.
OpenPorts ==
    {x \in Block \X {"out", "in"} \X (1..MaxPorts) :
        \/ x[2] = "out" /\ x[3] <= numOut[x[1]] /\ \A c \in Calls : <<c[1], c[2]>> # <<x[1], x[3]>>
        \/ x[2] = "in" /\ x[3] <= numIn[x[1]] /\ \A c \in Calls : <<c[3], c[4]>> # <<x[1], x[3]>>}

Complete == OpenPorts = {}

TypeOK ==
    /\ kind \in [Block -> Kinds \cup {None}]
    /\ \A b \in Block : numIn[b] = kind[b].ins /\ numOut[b] = kind[b].outs
    /\ Calls \subseteq {c \in Block \X (1..MaxPorts) \X Block \X (1..MaxPorts) :
                           c[2] <= numOut[c[1]] /\ c[4] <= numIn[c[3]]}
    /\ connections = {<<c[1], c[3]>> : c \in Calls}
    /\ inAttr \in [Ports -> Attr]
    /\ outAttr \in [Ports -> Attr]
    /\ inBuf \in [Ports -> 0..buffers]
    /\ outBuf \in [Ports -> 0..buffers]
    /\ sent = {x \in Ports : outBuf[x] # 0}
    /\ stages \in Seq(Seq(Seq(Block)))
    /\ pc \in {"idle", "start", "linearize", "propagate", "combine", "parallelize", "ready",
               "running", "aborted", "crashed"}
    /\ frames \in Seq(Frame)
    /\ starts \subseteq Block
    /\ progress \in Seq(Nat)
    /\ tested \in BOOLEAN
    /\ holds \in Seq(Ports \cup {Nobody})
    /\ taken \subseteq Ports \X (Ports \cup {Nobody})
    /\ user \in Users
    /\ runs \in 0..user.runs
    /\ failed \in BOOLEAN

Init ==
    /\ numIn = [b \in Block |-> 0] /\ numOut = [b \in Block |-> 0]
    /\ connections = {}
    /\ stages = <<>>
    /\ pc = "idle" /\ curr = 1 /\ next = 1
    /\ starts = {} /\ frames = <<>>
    /\ kind = [b \in Block |-> None]
    /\ calls = [b \in Block |-> <<>>]
    /\ inAttr = [x \in Ports |-> None.in] /\ outAttr = [x \in Ports |-> None.out]
    /\ inBuf = [x \in Ports |-> 0] /\ outBuf = [x \in Ports |-> 0]
    /\ sent = {}
    /\ buffers = 0
    /\ AtRest
    /\ user \in Users
    /\ runs = 0
    /\ failed = FALSE

-----------------------------------------------------------------------------
(* The user *)

\* Blocks are added in the order of their names: a bound.
Add(b, k) ==
    /\ b \in user.blocks /\ k \in user.kinds
    /\ \A c \in Block : c < b => kind[c] # None
    /\ AddBlockOfKind(b, k)
    /\ UNCHANGED <<executionVars, user, runs, failed>>

\* Between two runs connections are made block by block: a bound.
Connect(b, p, c, q) ==
    /\ \A d \in Calls : <<d[1], d[2]>> \in sent \/ d[1] <= b
    /\ Cardinality(Calls) < user.calls
    /\ <<b, p, c, q>> \notin Calls
    /\ ~SharedPorts => \A d \in Calls : <<d[1], d[2]>> # <<b, p>> /\ <<d[3], d[4]>> # <<c, q>>
    /\ ConnectPorts(b, p, c, q)
    /\ UNCHANGED <<executionVars, user, runs, failed>>

Run ==
    /\ pc = "idle"
    /\ runs < user.runs
    /\ Cardinality(OpenPorts) <= user.open
    /\ runs' = runs + 1
    /\ pc' = "start"
    /\ starts' = StartBlocks
    /\ UNCHANGED <<matrixVars, curr, next, frames, portVars, executionVars, user, failed>>

-----------------------------------------------------------------------------
(* A run *)

Linearize ==
    /\ (\E b \in Block : StartBlock(b)) \/ LinearizeNext \/ LinearizeReturn
    /\ UNCHANGED <<portVars, executionVars, user, runs, failed>>

Linearized ==
    /\ pc = "start"
    /\ starts = {}
    /\ pc' = "propagate"
    /\ curr' = 1
    /\ next' = 0
    /\ UNCHANGED <<matrixVars, starts, frames, portVars, executionVars, user, runs, failed>>

Propagate ==
    /\ PropagateSetup \/ MakeConnection \/ PropagateNext \/ Propagated
    /\ failed' = (failed \/ pc' = "idle")
    /\ UNCHANGED <<executionVars, user, runs>>

Pass ==
    /\ CombineAdvance \/ CombineStage \/ ParallelizeStage \/ ParallelizeDone
    /\ UNCHANGED <<numIn, numOut, connections, starts, frames, portVars, executionVars, user, runs, failed>>

\* Every block in the matrix fetches the buffers of its ports.
HasBuffers(b) ==
    /\ \A p \in 1..numOut[b] : outBuf[<<b, p>>] # 0
    /\ \A q \in 1..numIn[b] : inBuf[<<b, q>>] # 0

\* ExecutionMatrix::init
InitBlocks ==
    /\ pc = "ready"
    /\ IF \A b \in Block : IsPlaced(b) => HasBuffers(b)
       THEN pc' = "running" /\ BeginStep
       ELSE pc' = "aborted" /\ UNCHANGED <<curr, executionVars>>
    /\ UNCHANGED <<matrixVars, next, starts, frames, portVars, user, runs, failed>>

\* wakeup_sys
Wakeup ==
    /\ (\E p \in Block : ProcessBlock(p)) \/ ExecuteAgain \/ ExecuteNext \/ NextStep
    /\ UNCHANGED <<user, runs, failed>>

\* wakeup_sys returns, finalize
Finalize ==
    /\ StepDone
    /\ pc' = "idle"
    /\ progress' = <<>> /\ tested' = FALSE /\ holds' = <<>> /\ taken' = {}
    /\ UNCHANGED <<matrixVars, curr, next, starts, frames, portVars, user, runs, failed>>

Ended ==
    /\ pc \in {"idle", "aborted", "crashed"}
    /\ UNCHANGED vars

Step == Linearize \/ Linearized \/ Propagate \/ Pass \/ InitBlocks \/ Wakeup \/ Finalize

Next ==
    \/ \E b \in Block, k \in Kinds : Add(b, k)
    \/ \E b, c \in Block, p, q \in 1..MaxPorts : Connect(b, p, c, q)
    \/ Run
    \/ Step
    \/ Ended

Spec == Init /\ [][Next]_vars /\ WF_vars(Step)

-----------------------------------------------------------------------------
(* What makes it correct *)

\* The call that feeds an input port, in a system where every port has one.
Feeding(b, q) == CHOOSE c \in Calls : c[3] = b /\ c[4] = q

\* The blocks agree on the signals: each connection can be given attributes that
\* are the ones of the block it leaves and acceptable to the block it enters.
Consistent ==
    \E sig \in [Calls -> [Aspect -> Value]] :
        \A c \in Calls, a \in Aspect :
            /\ sig[c][a] = IF kind[c[1]].out[a] = Unset /\ kind[c[1]].ins > 0
                           THEN sig[Feeding(c[1], 1)][a] ELSE kind[c[1]].out[a]
            /\ kind[c[3]].in[a] \in {Unset, sig[c][a]}

\* A run starts, or fails, on the merits of the system alone: if all ports are
\* connected, without a circle, blocks are executed only if they agree on the
\* signals, an exception is thrown only if they do not, and nothing ends the
\* program.
RunsIfConsistent ==
    (pc \in {"running", "aborted"} \/ failed) /\ Complete /\ Acyclic =>
        /\ pc = "running" => Consistent
        /\ failed => ~Consistent
        /\ pc # "aborted"

\* When blocks are executed the two ports of a connection use one buffer, which no
\* other connection uses, and have the same attributes, however often the system
\* was initialized, extended or abandoned half-way before.
BuffersJoined ==
    pc = "running" => \A c, d \in Calls :
        /\ inBuf[<<c[3], c[4]>>] = outBuf[<<d[1], d[2]>>] <=> c = d
        /\ inAttr[<<c[3], c[4]>>] = outAttr[<<c[1], c[2]>>]

\* In a system without a circle every input port that is read gets what the port
\* connected to it wrote in this step, whatever the paths of a stage do in what order, and
\* a step ends with every connection having passed its samples on.
SamplesDelivered ==
    pc = "running" /\ Acyclic =>
        /\ \A x \in taken : \E c \in Calls : x = << <<c[3], c[4]>>, <<c[1], c[2]>> >>
        /\ StepDone => \A c \in Calls : << <<c[3], c[4]>>, <<c[1], c[2]>> >> \in taken

\* Blocks that may be processed at the same time share no buffer that one of them writes.
NoRace ==
    pc = "running" =>
        \A p, r \in DOMAIN progress :
            /\ p # r
            /\ progress[p] < Len(stages[curr][p])
            /\ progress[r] < Len(stages[curr][r])
            => LET b == stages[curr][p][progress[p] + 1]
                   c == stages[curr][r][progress[r] + 1]
               IN WrittenBy(b) \cap (ReadBy(c) \cup WrittenBy(c)) = {}

\* A run of a sound system executes it.
SoundSystemRuns ==
    pc = "start" /\ Complete /\ Acyclic /\ Consistent ~> pc = "running"
=============================================================================
