-------------------------- MODULE SystemInitProofs --------------------------
(***************************************************************************)
(* What System::initialize makes of any system that is run once, whatever  *)
(* the number of its blocks: every block reached has one place, blocks     *)
(* come after those that feed them, chains are combined and no two stages  *)
(* are left that could be one.                                             *)
(***************************************************************************)
EXTENDS SystemInit, LinearizationProofs

-----------------------------------------------------------------------------
(* Ports and connections *)

LEMMA FewElements ==
    ASSUME NEW S, IsFiniteSet(S), NEW e \in S, NEW n \in Nat, Cardinality(S) <= n
    PROVE  /\ n > 0
           /\ n = 1 => \A f \in S : f = e
<1>1. Cardinality(S) \in Nat /\ Cardinality(S) # 0
  BY FS_CardinalityType, FS_EmptySet
<1>2. n > 0
  BY <1>1
<1>3. ASSUME n = 1
      PROVE  \A f \in S : f = e
  <2>1. Cardinality(S) = 1
    BY <1>1, <1>3
  <2>2. PICK x : S = {x}
    BY <2>1, FS_Singleton
  <2> QED
    BY <2>2
<1> QED
  BY <1>2, <1>3

LEMMA PortsInit == Init => PortsInv
<1> SUFFICES ASSUME Init
             PROVE  PortsInv
  OBVIOUS
<1>1. PICK sys \in Systems :
         /\ connections = sys.wiring
         /\ numIn \in Ports([b \in Block |-> Ins(b)], sys.spare)
         /\ numOut \in Ports([b \in Block |-> Outs(b)], sys.spare)
  BY DEF Init
<1>2. connections \subseteq Block \X Block
  BY <1>1, SystemAssumption
<1>3. IsFiniteSet(connections)
  <2>1. IsFiniteSet(Block)
    BY BlocksAssumption, FS_Interval DEF Block
  <2>2. IsFiniteSet(Block \X Block)
    BY <2>1, FS_Product
  <2> QED
    BY <1>2, <2>2, FS_Subset
<1>4. \A b \in Block : numIn[b] \in Nat /\ numOut[b] \in Nat
  BY <1>1, SystemAssumption DEF Ports
<1>5. \A b \in Block : IsFiniteSet({e \in connections : e[1] = b})
  BY <1>3, FS_Subset
<1>6. \A b \in Block : IsFiniteSet({e \in connections : e[2] = b})
  BY <1>3, FS_Subset
<1>7. \A b \in Block : Outs(b) \in Nat /\ Ins(b) \in Nat
  BY <1>5, <1>6, FS_CardinalityType DEF Outs, Ins
<1>8. \A b \in Block : Ins(b) <= numIn[b] /\ Outs(b) <= numOut[b]
  BY <1>1, <1>4, <1>7 DEF Ports
<1>9. ASSUME NEW e \in connections
      PROVE  /\ IsSource(e[1])
             /\ numOut[e[1]] = 1 => \A f \in connections : f[1] = e[1] => f = e
             /\ numIn[e[2]] = 1 => \A f \in connections : f[2] = e[2] => f = e
  <2>1. e[1] \in Block /\ e[2] \in Block
    BY <1>2
  <2> DEFINE O == {f \in connections : f[1] = e[1]}
             I == {f \in connections : f[2] = e[2]}
  <2>2. IsFiniteSet(O) /\ IsFiniteSet(I) /\ e \in O /\ e \in I
    BY <1>5, <1>6, <2>1
  <2>3. Cardinality(O) <= numOut[e[1]] /\ Cardinality(I) <= numIn[e[2]]
    BY <1>8, <2>1 DEF Outs, Ins
  <2> HIDE DEF O, I
  <2>4. numOut[e[1]] > 0 /\ (numOut[e[1]] = 1 => \A f \in O : f = e)
    BY <1>4, <2>1, <2>2, <2>3, FewElements
  <2>5. numIn[e[2]] = 1 => \A f \in I : f = e
    BY <1>4, <2>1, <2>2, <2>3, FewElements
  <2> QED
    BY <2>4, <2>5 DEF O, I, IsSource
<1> QED
  BY <1>2, <1>9 DEF PortsInv

LEMMA PortsStep == PortsInv /\ [Next]_vars => PortsInv'
<1> SUFFICES ASSUME PortsInv, [Next]_vars
             PROVE  PortsInv'
  OBVIOUS
<1>1. UNCHANGED <<numIn, numOut, connections>>
  <2>1. CASE Linearize
    BY <2>1 DEF Linearize, StartBlock, LinearizeNext, LinearizeReturn, matrixVars
  <2>2. CASE Linearized
    BY <2>2 DEF Linearized, matrixVars
  <2>3. CASE Pass
    BY <2>3 DEF Pass
  <2>4. CASE RunAgain
    BY <2>4 DEF RunAgain, matrixVars
  <2>5. CASE Finished
    BY <2>5 DEF Finished, vars, matrixVars
  <2>6. CASE UNCHANGED vars
    BY <2>6 DEF vars, matrixVars
  <2> QED
    BY <2>1, <2>2, <2>3, <2>4, <2>5, <2>6 DEF Next
<1> QED
  BY <1>1 DEF PortsInv, IsSource

-----------------------------------------------------------------------------
(* The invariant of System::initialize *)

InitInv ==
    /\ PortsInv
    /\ LineInv
    /\ PassInv
    /\ runs = 1
    /\ pc \in {"start", "linearize", "combine", "parallelize", "ready"}

LEMMA InitInvInit == Init => InitInv
<1> SUFFICES ASSUME Init
             PROVE  InitInv
  OBVIOUS
<1>1. /\ stages = <<>> /\ frames = <<>> /\ pc = "start" /\ runs = 1
      /\ starts = {b \in Block : IsSource(b)}
  BY DEF Init, StartBlocks
<1>2. LineAt(<<>>, <<>>, {b \in Block : IsSource(b)})
  <2>1. /\ <<>> \in Seq(Singles) /\ <<>> \in Seq(Frame) /\ Len(<<>>) = 0
        /\ \A i \in DOMAIN <<>> : FALSE
    OBVIOUS
  <2> QED
    BY <2>1 DEF LineAt
<1> QED
  BY <1>1, <1>2, PortsInit DEF InitInv, LineInv, PassInv, Built

LEMMA InitInvStep == MaxRuns = 1 => (InitInv /\ [Next]_vars => InitInv')
<1> SUFFICES ASSUME MaxRuns = 1, InitInv, [Next]_vars
             PROVE  InitInv'
  OBVIOUS
<1>1. PortsInv /\ LineInv /\ PassInv /\ runs = 1
  BY DEF InitInv
<1>2. PortsInv'
  BY <1>1, PortsStep
<1>3. CASE Linearize
  <2>1. LineInv' /\ pc' \in {"start", "linearize"}
    BY <1>1, <1>3, StartBlockStep, LinearizeNextStep, LinearizeReturnStep DEF Linearize
  <2>2. PassInv'
    BY <2>1 DEF PassInv, Built
  <2> QED
    BY <1>1, <1>2, <1>3, <2>1, <2>2 DEF Linearize, InitInv
<1>4. CASE Linearized
  <2>1. /\ pc = "start" /\ starts = {} /\ pc' = "combine" /\ curr' = 1 /\ next' = 1
        /\ UNCHANGED <<numIn, numOut, connections>> /\ stages' = stages /\ runs' = runs
    BY <1>4 DEF Linearized, matrixVars
  <2>2. LineAt(stages, <<>>, {})
    BY <1>1, <2>1 DEF LineInv
  <2>3. Sound(stages') /\ CombineAt(stages', curr', next')
    BY <1>1, <2>1, <2>2, LineSound
  <2>4. PassInv'
    BY <2>1, <2>3, PassNext
  <2>5. LineInv'
    BY <2>1 DEF LineInv
  <2> QED
    BY <1>1, <1>2, <2>1, <2>4, <2>5 DEF InitInv
<1>5. CASE Pass
  <2>1. UNCHANGED <<numIn, numOut, connections>> /\ runs' = runs
    BY <1>5 DEF Pass
  <2>2. PassInv' /\ pc' \in {"combine", "parallelize", "ready"}
    <3>1. CASE CombineAdvance
      BY <1>1, <2>1, <3>1, CombineAdvanceStep
    <3>2. CASE CombineStage
      BY <1>1, <2>1, <3>2, CombineStageStep
    <3>3. CASE ParallelizeStage
      BY <1>1, <2>1, <3>3, ParallelizeStageStep
    <3>4. CASE ParallelizeDone
      BY <1>1, <2>1, <3>4, ParallelizeDoneStep
    <3> QED
      BY <1>5, <3>1, <3>2, <3>3, <3>4 DEF Pass
  <2>3. LineInv'
    BY <2>2 DEF LineInv
  <2> QED
    BY <1>1, <1>2, <2>1, <2>2, <2>3 DEF InitInv
<1>6. ~RunAgain
  BY <1>1 DEF RunAgain
<1>7. CASE Finished \/ UNCHANGED vars
  <2>1. UNCHANGED vars
    BY <1>7 DEF Finished
  <2>2. /\ UNCHANGED <<numIn, numOut, connections>>
        /\ stages' = stages /\ curr' = curr /\ next' = next /\ pc' = pc
        /\ starts' = starts /\ frames' = frames /\ runs' = runs
    BY <2>1 DEF vars, matrixVars
  <2>3. PassInv'
    BY <1>1, <2>2, PassNext DEF PassInv, Built
  <2>4. LineInv'
    <3>1. ASSUME pc \in {"start", "linearize"}
          PROVE  LineAt(stages, frames, starts)'
      BY <1>1, <2>2, <3>1, LineNext DEF LineInv
    <3> QED
      BY <1>1, <2>2, <3>1 DEF LineInv
  <2> QED
    BY <1>2, <2>2, <2>3, <2>4 DEF InitInv
<1> QED
  BY <1>3, <1>4, <1>5, <1>6, <1>7 DEF Next

LEMMA InitInvAlways == MaxRuns = 1 /\ Spec => []InitInv
<1> SUFFICES ASSUME MaxRuns = 1
             PROVE  Spec => []InitInv
  OBVIOUS
<1>1. InitInv /\ [Next]_vars => InitInv'
  BY InitInvStep
<1> QED
  BY <1>1, InitInvInit, PTL DEF Spec

-----------------------------------------------------------------------------
(* What initialize makes of a system that is run once *)

\* No block is lost or repeated: every Source, and every block connected to one, has
\* one place from the end of linearize on, feedback or not.
THEOREM SingleRunNothingLost == MaxRuns = 1 /\ Spec => []NothingLost
<1>1. InitInv => NothingLost
  <2> SUFFICES ASSUME InitInv, Built, NEW b \in Block
               PROVE  Cardinality(Places(b)) = IF Reached(b) THEN 1 ELSE 0
    BY DEF NothingLost, Reached
  <2>1. DistinctIn(stages) /\ (Has(stages, b) <=> Reached(b))
    BY DEF InitInv, PassInv, Sound, Built
  <2>2. CASE Reached(b)
    <3>1. PICK x \in PlacesIn(stages) : BlockAt(stages, x) = b
      BY <2>1, <2>2 DEF Has
    <3>2. Places(b) = {x}
      BY <2>1, <3>1 DEF Places, DistinctIn
    <3> QED
      BY <2>2, <3>2, FS_Singleton
  <2>3. CASE ~Reached(b)
    <3>1. Places(b) = {}
      BY <2>1, <2>3 DEF Places, Has
    <3> QED
      BY <2>3, <3>1, FS_EmptySet
  <2> QED
    BY <2>2, <2>3
<1> QED
  BY <1>1, InitInvAlways, PTL

\* Without feedback, a block is processed after all that feed it.
THEOREM SingleRunOrderRespected == MaxRuns = 1 /\ Spec => []OrderRespected
<1>1. InitInv => OrderRespected
  <2> SUFFICES ASSUME InitInv, Built, Acyclic, NEW c \in connections,
                      NEW x \in Places(c[1]), NEW y \in Places(c[2])
               PROVE  Precedes(x, y)
    BY DEF OrderRespected
  <2>1. OrderedIn(stages) /\ connections \subseteq Block \X Block
    BY DEF InitInv, PassInv, Sound, PortsInv, Built
  <2>2. c = <<c[1], c[2]>>
    BY <2>1
  <2> QED
    BY <2>1, <2>2 DEF Places, OrderedIn
<1> QED
  BY <1>1, InitInvAlways, PTL

\* Without feedback, a block that only one block feeds, and that alone, comes right
\* behind it in the same path.
THEOREM SingleRunChainsCombined == MaxRuns = 1 /\ Spec => []ChainsCombined
<1>1. InitInv => ChainsCombined
  <2> SUFFICES ASSUME InitInv, pc \in {"parallelize", "ready"}, Acyclic, NEW c \in connections,
                      numOut[c[1]] = 1, numIn[c[2]] = 1
               PROVE  \E x \in Places(c[1]), y \in Places(c[2]) :
                         x[1] = y[1] /\ x[2] = y[2] /\ y[3] = x[3] + 1
    BY DEF ChainsCombined
  <2>1. PortsInv /\ Sound(stages) /\ UnlinkedIn(stages)
    BY DEF InitInv, PassInv, Built
  <2> DEFINE a == c[1]
             b == c[2]
  <2>2. a \in Block /\ b \in Block /\ <<a, b>> \in connections /\ Link(a, b)
    BY <2>1 DEF PortsInv, Link
  <2> HIDE DEF a, b
  <2>3. Has(stages, a)
    <3>1. <<a, b>>[1] = a
      OBVIOUS
    <3> QED
      BY <2>1, <2>2, <3>1 DEF Sound, Reached, PortsInv
  <2>4. PICK x \in PlacesIn(stages) : BlockAt(stages, x) = a
    BY <2>3 DEF Has
  <2>5. PICK i, p, k : x = <<i, p, k>>
    BY PlaceFacts
  <2>6. /\ i \in DOMAIN stages /\ p \in DOMAIN stages[i] /\ k \in DOMAIN stages[i][p]
        /\ stages[i][p][k] = a
    BY <2>4, <2>5, PlaceFacts
  <2>7. /\ Len(stages[i][p]) \in Nat /\ DOMAIN stages[i][p] = 1..Len(stages[i][p])
        /\ Last(stages[i][p]) = stages[i][p][Len(stages[i][p])]
    BY <2>1, <2>6, MatrixFacts DEF Sound
  <2>8. k # Len(stages[i][p])
    BY <2>1, <2>2, <2>6, <2>7 DEF UnlinkedIn, Unlinked
  <2>9. k \in 1..(Len(stages[i][p]) - 1) /\ k + 1 \in DOMAIN stages[i][p]
    BY <2>6, <2>7, <2>8
  <2>10. stages[i][p][k + 1] = b
    <3>1. Link(stages[i][p][k], stages[i][p][k + 1])
      BY <2>1, <2>6, <2>9 DEF Sound, ChainedIn
    <3>2. <<a, stages[i][p][k + 1]>> \in connections
      BY <2>6, <3>1 DEF Link
    <3> QED
      BY <2>1, <2>2, <3>2, LinkFacts
  <2>11. <<i, p, k>> \in Places(a) /\ <<i, p, k + 1>> \in Places(b)
    BY <2>6, <2>9, <2>10, PlaceFacts DEF Places
  <2>12. /\ <<i, p, k>>[1] = <<i, p, k + 1>>[1] /\ <<i, p, k>>[2] = <<i, p, k + 1>>[2]
         /\ <<i, p, k + 1>>[3] = <<i, p, k>>[3] + 1
    OBVIOUS
  <2> QED
    BY <2>11, <2>12 DEF a, b
<1> QED
  BY <1>1, InitInvAlways, PTL

\* Of two stages that follow each other, the first has a path that the second goes on
\* from: parallelize has left none that could be one.
THEOREM SingleRunStagesNeeded == MaxRuns = 1 /\ Spec => []StagesNeeded
<1>1. InitInv => StagesNeeded
  <2> SUFFICES ASSUME InitInv, pc = "ready", NEW i \in 1..(Len(stages) - 1)
               PROVE  \E p \in DOMAIN stages[i] :
                         Head(Head(stages[i + 1])) \in Connections(Last(stages[i][p]))
    BY DEF StagesNeeded
  <2>1. stages \in Matrix /\ NeededIn(stages)
    BY DEF InitInv, PassInv, Built, Sound
  <2>2. Len(stages) \in Nat /\ DOMAIN stages = 1..Len(stages)
    BY <2>1, LenProperties DEF Matrix
  <2>3. i \in DOMAIN stages /\ i + 1 \in DOMAIN stages
    BY <2>2
  <2>4. Inhibits(stages[i], stages[i + 1][1][1])
    BY <2>1, <2>3 DEF NeededIn
  <2>5. Head(Head(stages[i + 1])) = stages[i + 1][1][1]
    <3>1. Head(stages[i + 1]) = stages[i + 1][1] /\ 1 \in DOMAIN stages[i + 1]
      BY <2>1, <2>3, MatrixFacts
    <3> QED
      BY <2>1, <2>3, <3>1, MatrixFacts
  <2> QED
    BY <2>4, <2>5 DEF Inhibits
<1> QED
  BY <1>1, InitInvAlways, PTL

\* combine_stages dereferences no null Source.
THEOREM SingleRunNoCrash == MaxRuns = 1 /\ Spec => [](pc # "crashed")
<1>1. InitInv => pc # "crashed"
  BY DEF InitInv
<1> QED
  BY <1>1, InitInvAlways, PTL
=============================================================================
