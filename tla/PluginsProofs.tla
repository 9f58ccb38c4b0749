---------------------------- MODULE PluginsProofs ---------------------------
(***************************************************************************)
(* RegisteredOnce and TwoLevels for any file system and whatever users     *)
(* load, and CrashesForAReason for any file system, any users and any      *)
(* number of blocks and runs.                                              *)
(***************************************************************************)
EXTENDS Plugins, SequenceTheorems, TLAPS

-----------------------------------------------------------------------------
(* The loader *)

LEMMA ShortSequences ==
    ASSUME NEW S
    PROVE  <<>> \in Seq(S) /\ \A e \in S : <<e>> \in Seq(S)
OBVIOUS

LEMMA HeadAndTail ==
    ASSUME NEW S, NEW s \in Seq(S), s # <<>>
    PROVE  /\ 1 \in DOMAIN s /\ s[1] \in S /\ Head(s) = s[1]
           /\ \A e \in S : [s EXCEPT ![1] = e] \in Seq(S)
           /\ \A e \in S : <<e>> \o s \in Seq(S)
           /\ Tail(s) \in Seq(S)
           /\ Len(s) # 1 => Tail(s) # <<>>
<1>1. Len(s) \in Nat /\ Len(s) # 0 /\ DOMAIN s = 1..Len(s)
  OBVIOUS
<1>2. 1 \in DOMAIN s /\ s[1] \in S /\ Head(s) = s[1]
  BY <1>1
<1>3. Tail(s) \in Seq(S) /\ Len(Tail(s)) = Len(s) - 1
  BY <1>1
<1>4. \A e \in S : [s EXCEPT ![1] = e] \in Seq(S)
  BY <1>1
<1>5. \A e \in S : <<e>> \o s \in Seq(S)
  BY <1>1
<1> QED
  BY <1>1, <1>2, <1>3, <1>4, <1>5

LEMMA OneElement ==
    ASSUME NEW S, NEW e \in S
    PROVE  <<e>> \in Seq(S) /\ Len(<<e>>) = 1 /\ <<e>>[1] = e /\ <<e>> # <<>>
<1>1. Len(<<e>>) = 1 /\ Len(<<>>) = 0
  OBVIOUS
<1>2. <<e>> # <<>>
  BY <1>1
<1> QED
  BY <1>1, <1>2

LEMMA OneOrTwo ==
    ASSUME NEW S, NEW s \in Seq(S), s # <<>>, Len(s) <= 2
    PROVE  /\ Len(s) \in {1, 2} /\ s[1] \in S /\ Head(s) = s[1] /\ 1 \in DOMAIN s
           /\ Len(s) = 2 => s[2] \in S /\ Len(Tail(s)) = 1 /\ Tail(s)[1] = s[2]
           /\ \A e \in S : LET t == [s EXCEPT ![1] = e]
                          IN /\ Len(t) = Len(s) /\ t # <<>> /\ t[1] = e
                             /\ Len(s) = 2 => t[2] = s[2]
           /\ \A e \in S : LET t == <<e>> \o s
                          IN Len(t) = Len(s) + 1 /\ t # <<>> /\ t[1] = e /\ t[2] = s[1]
<1>1. Len(s) \in Nat /\ Len(s) # 0 /\ DOMAIN s = 1..Len(s) /\ Len(<<>>) = 0
  OBVIOUS
<1>2. Len(s) \in {1, 2}
  BY <1>1
<1>3. s[1] \in S /\ Head(s) = s[1] /\ 1 \in DOMAIN s
  BY <1>1
<1>4. ASSUME Len(s) = 2
      PROVE  s[2] \in S /\ Len(Tail(s)) = 1 /\ Tail(s)[1] = s[2]
  <2>a. 2 \in DOMAIN s
    BY <1>1, <1>4
  <2>1. s[2] \in S
    BY <2>a
  <2>2. Len(Tail(s)) = 1
    BY <1>1, <1>4
  <2>3. Tail(s)[1] = s[1 + 1]
    BY <2>2, HeadTailProperties
  <2> QED
    BY <1>4, <2>1, <2>2, <2>3
<1>5. ASSUME NEW e \in S
      PROVE  LET t == [s EXCEPT ![1] = e]
             IN Len(t) = Len(s) /\ t # <<>> /\ t[1] = e /\ (Len(s) = 2 => t[2] = s[2])
  <2> DEFINE t == [s EXCEPT ![1] = e]
  <2>1. t \in Seq(S) /\ DOMAIN t = DOMAIN s
    BY HeadAndTail
  <2>2. Len(t) \in Nat /\ DOMAIN t = 1..Len(t)
    BY <2>1
  <2>3. t[1] = e /\ \A i \in DOMAIN s : i # 1 => t[i] = s[i]
    BY <1>3
  <2> HIDE DEF t
  <2>4. Len(t) = Len(s)
    BY <1>1, <2>1, <2>2
  <2>5. t # <<>>
    BY <1>1, <2>4
  <2> QED
    BY <1>1, <2>3, <2>4, <2>5 DEF t
<1>6. ASSUME NEW e \in S
      PROVE  LET t == <<e>> \o s
             IN Len(t) = Len(s) + 1 /\ t # <<>> /\ t[1] = e /\ t[2] = s[1]
  <2> DEFINE t == <<e>> \o s
  <2>1. <<e>> \in Seq(S) /\ Len(<<e>>) = 1 /\ <<e>>[1] = e
    BY OneElement
  <2>2. Len(t) = Len(s) + 1 /\ t[1] = e /\ t[2] = s[1]
    BY <1>1, <2>1
  <2>3. t # <<>>
    BY <1>1, <2>2
  <2> QED
    BY <2>2, <2>3
<1> QED
  BY <1>2, <1>3, <1>4, <1>5, <1>6

\* What Load does to the innermost call.
LEMMA OneMore ==
    ASSUME searching \in Seq(CallState), searching # <<>>, searching[1] \in CallState, NEW f
    PROVE  [searching EXCEPT ![1].left = @ \ {f}, ![1].count = @ + 1] =
           [searching EXCEPT ![1] = [left |-> searching[1].left \ {f},
                                     recursive |-> searching[1].recursive,
                                     count |-> searching[1].count + 1]]
BY HeadAndTail DEF CallState

\* What load_dir does to its calls and to the creators.
LEMMA LoaderTypes ==
    ASSUME searching \in Seq(CallState),
           \A id \in DOMAIN factory : factory[id] \in Files,
           (\E dir \in user.roots : LoadDir(dir)) \/ TakeEntry \/ LoadDirReturns
    PROVE  /\ searching' \in Seq(CallState)
           /\ \A id \in DOMAIN factory' : factory'[id] \in Files
<1>1. \A dir : \A r \in BOOLEAN : Call(dir, r) \in CallState
  BY DEF Call, CallState, EntriesOf
<1>2. CASE \E dir \in user.roots : LoadDir(dir)
  <2>1. PICK dir : searching' = <<Call(dir, TRUE)>> /\ factory' = factory
    BY <1>2 DEF LoadDir
  <2>2. <<Call(dir, TRUE)>> \in Seq(CallState)
    BY <1>1, ShortSequences
  <2> QED
    BY <2>1, <2>2
<1>3. CASE TakeEntry
  <2>1. PICK f \in Head(searching).left : Skip(f) \/ Load(f) \/ Descend(f)
    BY <1>3 DEF TakeEntry
  <2>2. searching # <<>>
    BY <1>3 DEF TakeEntry
  <2>3. searching[1] \in CallState /\ Head(searching) = searching[1]
    BY <2>2, HeadAndTail
  <2>4. f \in Files
    BY <2>1, <2>3 DEF CallState
  <2> DEFINE rest == [searching EXCEPT ![1].left = @ \ {f}]
             counting == [searching EXCEPT ![1].left = @ \ {f}, ![1].count = @ + 1]
  <2>5. [searching[1] EXCEPT !.left = @ \ {f}] \in CallState
    BY <2>3 DEF CallState
  <2>6. rest \in Seq(CallState)
    BY <2>2, <2>5, HeadAndTail
  <2>7. CASE Skip(f)
    BY <2>6, <2>7 DEF Skip
  <2>8. CASE Load(f)
    <3>1. counting = [searching EXCEPT
                        ![1] = [left |-> searching[1].left \ {f},
                                recursive |-> searching[1].recursive,
                                count |-> searching[1].count + 1]]
      BY <2>2, <2>3, OneMore
    <3>2. [left |-> searching[1].left \ {f}, recursive |-> searching[1].recursive,
           count |-> searching[1].count + 1] \in CallState
      BY <2>3 DEF CallState
    <3>3. searching' \in Seq(CallState)
      BY <2>2, <2>8, <3>1, <3>2, HeadAndTail DEF Load
    <3>4. factory' = Extended(Id(f), f)
      BY <2>8 DEF Load, Register
    <3> QED
      BY <2>4, <3>3, <3>4 DEF Extended
  <2>9. CASE Descend(f)
    <3>1. Nested(f) \in CallState
      BY <1>1 DEF Nested
    <3>2. <<Nested(f)>> \o rest \in Seq(CallState)
      BY <2>6, <3>1
    <3> QED
      BY <2>9, <3>2 DEF Descend
  <2> QED
    BY <2>1, <2>7, <2>8, <2>9
<1>4. CASE LoadDirReturns
  <2> DEFINE counting == [Tail(searching) EXCEPT ![1].count = @ + Head(searching).count]
  <2>1. searching # <<>> /\ factory' = factory
    BY <1>4 DEF LoadDirReturns
  <2>2. searching' = <<>> \/ (Len(searching) # 1 /\ searching' = counting)
    BY <1>4 DEF LoadDirReturns
  <2>3. CASE Len(searching) # 1 /\ searching' = counting
    <3>1. Tail(searching) \in Seq(CallState) /\ Tail(searching) # <<>>
      BY <2>1, <2>3, HeadAndTail
    <3>2. Tail(searching)[1] \in CallState /\ Head(searching) \in CallState
      BY <2>1, <3>1, HeadAndTail
    <3>3. [Tail(searching)[1] EXCEPT !.count = @ + Head(searching).count] \in CallState
      <4> DEFINE outer == Tail(searching)[1]
                 inner == Head(searching)
      <4>1. outer \in CallState /\ inner.count \in Nat
        BY <3>2 DEF CallState
      <4> HIDE DEF outer, inner
      <4>2. [outer EXCEPT !.count = @ + inner.count] \in CallState
        BY <4>1 DEF CallState
      <4> QED
        BY <4>2 DEF outer, inner
    <3>4. counting \in Seq(CallState)
      BY <3>1, <3>3, HeadAndTail
    <3> QED
      BY <2>1, <2>3, <3>4
  <2> QED
    BY <2>1, <2>2, <2>3, ShortSequences
<1> QED
  BY <1>2, <1>3, <1>4

-----------------------------------------------------------------------------
(* What has been registered, and what has been counted *)

\* What the calls that have not returned have counted.
Uncounted ==
    IF searching = <<>> THEN 0
    ELSE IF Len(searching) = 1 THEN searching[1].count
    ELSE searching[1].count + searching[2].count

\* There are two calls at most, the inner one not recursive: only that makes them easy to
\* add up.
CallsInv ==
    /\ searching \in Seq(CallState)
    /\ Len(searching) <= 2
    /\ Len(searching) = 2 => ~searching[1].recursive

LInv ==
    /\ CallsInv
    /\ \A id \in DOMAIN factory : factory[id] \in Files
    /\ available \in Seq(DOMAIN factory)
    /\ IsInjective(available)
    /\ Range(available) = DOMAIN factory
    /\ counted \in Nat
    /\ counted + Uncounted = Len(available)

\* A list of the elements of S.
Lists(s, S) == s \in Seq(S) /\ IsInjective(s) /\ Range(s) = S

\* A new element at the end of it.
LEMMA ListedOnce ==
    ASSUME NEW S, NEW e, e \notin S, NEW s, Lists(s, S)
    PROVE  Lists(Append(s, e), S \cup {e}) /\ Len(Append(s, e)) = Len(s) + 1
<1> USE DEF Lists
<1> DEFINE t == Append(s, e)
<1>1. /\ s \in Seq(S \cup {e}) /\ Len(s) \in Nat /\ DOMAIN s = 1..Len(s)
      /\ \A i \in 1..Len(s) : s[i] \in S
  OBVIOUS
<1>2. /\ t \in Seq(S \cup {e}) /\ Len(t) = Len(s) + 1 /\ DOMAIN t = 1..(Len(s) + 1)
      /\ \A i \in 1..Len(s) : t[i] = s[i]
      /\ t[Len(s) + 1] = e
  BY <1>1
<1> HIDE DEF t
<1>3. IsInjective(t)
  BY <1>1, <1>2 DEF IsInjective
<1>4. Range(t) = S \cup {e}
  <2>1. \A i \in DOMAIN t : t[i] \in S \cup {e}
    BY <1>1, <1>2
  <2>2. \A y \in S : \E i \in DOMAIN t : t[i] = y
    BY <1>1, <1>2 DEF Range
  <2>3. \E i \in DOMAIN t : t[i] = e
    BY <1>1, <1>2
  <2> QED
    BY <2>1, <2>2, <2>3 DEF Range
<1> QED
  BY <1>2, <1>3, <1>4 DEF t

LEMMA LoadDirCounts ==
    ASSUME LInv, NEW dir, LoadDir(dir)
    PROVE  LInv'
<1>1. /\ searching = <<>> /\ searching' = <<Call(dir, TRUE)>>
      /\ UNCHANGED <<factory, available, counted>>
  BY DEF LoadDir
<1>2. Call(dir, TRUE) \in CallState /\ Call(dir, TRUE).count = 0
  BY DEF Call, CallState, EntriesOf
<1>3. /\ searching' \in Seq(CallState) /\ Len(searching') = 1 /\ searching' # <<>>
      /\ searching'[1] = Call(dir, TRUE)
  BY <1>1, <1>2, OneElement
<1>4. Uncounted = 0 /\ Uncounted' = 0
  BY <1>1, <1>2, <1>3 DEF Uncounted
<1>5. CallsInv'
  BY <1>3 DEF CallsInv
<1> QED
  BY <1>1, <1>4, <1>5 DEF LInv

LEMMA TakeEntryCounts ==
    ASSUME LInv, TakeEntry
    PROVE  LInv'
<1>1. PICK f \in Head(searching).left : Skip(f) \/ Load(f) \/ Descend(f)
  BY DEF TakeEntry
<1>2. searching # <<>> /\ UNCHANGED counted
  BY DEF TakeEntry
<1>3. /\ searching' \in Seq(CallState)
      /\ \A id \in DOMAIN factory' : factory'[id] \in Files
  BY LoaderTypes DEF LInv, CallsInv
<1>4. /\ searching \in Seq(CallState) /\ Len(searching) \in {1, 2}
      /\ 1 \in DOMAIN searching /\ searching[1] \in CallState
      /\ Head(searching) = searching[1]
      /\ Len(searching) = 2 => searching[2] \in CallState
  BY <1>2, OneOrTwo DEF LInv, CallsInv
<1>5. searching[1].count \in Nat /\ (Len(searching) = 2 => searching[2].count \in Nat)
  BY <1>4 DEF CallState
<1> DEFINE rest == [searching EXCEPT ![1].left = @ \ {f}]
<1>6. /\ Len(rest) = Len(searching) /\ rest # <<>>
      /\ rest[1].count = searching[1].count /\ rest[1].recursive = searching[1].recursive
      /\ Len(searching) = 2 => rest[2] = searching[2]
  <2> DEFINE e == [searching[1] EXCEPT !.left = @ \ {f}]
  <2>1. e \in CallState /\ e.count = searching[1].count /\ e.recursive = searching[1].recursive
    BY <1>4 DEF CallState
  <2>2. rest = [searching EXCEPT ![1] = e]
    OBVIOUS
  <2> HIDE DEF e, rest
  <2> QED
    BY <1>2, <1>4, <2>1, <2>2, OneOrTwo
<1>7. CASE Skip(f)
  <2>1. searching' = rest /\ UNCHANGED <<factory, available>>
    BY <1>7 DEF Skip
  <2> HIDE DEF rest
  <2>2. Uncounted' = Uncounted
    BY <1>2, <1>4, <1>6, <2>1 DEF Uncounted
  <2>3. CallsInv'
    BY <1>3, <1>4, <1>6, <2>1 DEF LInv, CallsInv
  <2> QED
    BY <1>2, <1>3, <2>1, <2>2, <2>3 DEF LInv
<1>8. CASE Load(f)
  <2> DEFINE more == [searching EXCEPT ![1].left = @ \ {f}, ![1].count = @ + 1]
  <2>1. searching' = more
    BY <1>8 DEF Load
  <2>2. /\ Len(more) = Len(searching) /\ more # <<>>
        /\ more[1].count = searching[1].count + 1
        /\ more[1].recursive = searching[1].recursive
        /\ Len(searching) = 2 => more[2] = searching[2]
    <3> DEFINE e == [left |-> searching[1].left \ {f}, recursive |-> searching[1].recursive,
                     count |-> searching[1].count + 1]
    <3>1. e \in CallState /\ e.count = searching[1].count + 1
            /\ e.recursive = searching[1].recursive
      BY <1>4 DEF CallState
    <3>2. more = [searching EXCEPT
                    ![1] = [left |-> searching[1].left \ {f},
                            recursive |-> searching[1].recursive,
                            count |-> searching[1].count + 1]]
      BY <1>2, <1>4, OneMore
    <3> HIDE DEF e, more
    <3> QED
      BY <1>2, <1>4, <3>1, <3>2, OneOrTwo
  <2> HIDE DEF more
  <2>3. Uncounted' = Uncounted + 1
    BY <1>2, <1>4, <1>5, <2>1, <2>2 DEF Uncounted
  <2>4. CallsInv'
    BY <1>3, <1>4, <2>1, <2>2 DEF LInv, CallsInv
  <2>5. /\ Id(f) \notin DOMAIN factory
        /\ DOMAIN factory' = DOMAIN factory \cup {Id(f)}
        /\ available' = Append(available, Id(f))
    BY <1>8 DEF Load, Register, Extended
  <2>6. /\ available' \in Seq(DOMAIN factory') /\ IsInjective(available')
        /\ Range(available') = DOMAIN factory' /\ Len(available') = Len(available) + 1
    <3> DEFINE S == DOMAIN factory
               k == Id(f)
    <3>1. Lists(available, S) /\ k \notin S
      BY <2>5 DEF LInv, Lists
    <3>2. DOMAIN factory' = S \cup {k} /\ available' = Append(available, k)
      BY <2>5
    <3> HIDE DEF S, k
    <3>3. /\ Lists(Append(available, k), S \cup {k})
          /\ Len(Append(available, k)) = Len(available) + 1
      BY ONLY <3>1, ListedOnce
    <3> QED
      BY <3>2, <3>3 DEF Lists
  <2>7. Uncounted \in Nat /\ Len(available) \in Nat /\ counted \in Nat
    BY <1>2, <1>4, <1>5 DEF Uncounted, LInv
  <2>8. counted' + Uncounted' = Len(available')
    BY <1>2, <2>3, <2>6, <2>7 DEF LInv
  <2> QED
    BY <1>2, <1>3, <2>4, <2>6, <2>7, <2>8 DEF LInv
<1>9. CASE Descend(f)
  <2>1. /\ searching' = <<Nested(f)>> \o rest /\ searching[1].recursive
        /\ UNCHANGED <<factory, available>>
    BY <1>4, <1>9 DEF Descend
  <2>2. Len(searching) = 1
    BY <1>4, <2>1 DEF LInv, CallsInv
  <2>3. Nested(f) \in CallState /\ Nested(f).count = 0 /\ ~Nested(f).recursive
    BY DEF Nested, Call, CallState, EntriesOf
  <2>4. rest \in Seq(CallState)
    <3>1. [searching[1] EXCEPT !.left = @ \ {f}] \in CallState
      BY <1>4 DEF CallState
    <3> QED
      BY <1>2, <1>4, <3>1, HeadAndTail
  <2> HIDE DEF rest
  <2>5. /\ Len(searching') = 2 /\ searching' # <<>>
        /\ searching'[1] = Nested(f) /\ searching'[2] = rest[1]
    BY <1>6, <2>1, <2>2, <2>3, <2>4, OneOrTwo
  <2>6. Uncounted' = Uncounted
    BY <1>2, <1>5, <1>6, <2>2, <2>3, <2>5 DEF Uncounted
  <2>7. CallsInv'
    BY <1>3, <2>3, <2>5 DEF CallsInv
  <2> QED
    BY <1>2, <1>3, <2>1, <2>6, <2>7 DEF LInv
<1> QED
  BY <1>1, <1>7, <1>8, <1>9

LEMMA LoadDirReturnsCounts ==
    ASSUME LInv, LoadDirReturns
    PROVE  LInv'
<1>1. searching # <<>> /\ UNCHANGED <<factory, available>>
  BY DEF LoadDirReturns
<1>2. /\ searching \in Seq(CallState) /\ Len(searching) \in {1, 2}
      /\ searching[1] \in CallState /\ Head(searching) = searching[1]
      /\ Len(searching) = 2 => searching[2] \in CallState
  BY <1>1, OneOrTwo DEF LInv, CallsInv
<1>3. searching[1].count \in Nat /\ (Len(searching) = 2 => searching[2].count \in Nat)
  BY <1>2 DEF CallState
<1>4. searching' \in Seq(CallState)
  BY LoaderTypes DEF LInv, CallsInv
<1>5. CASE Len(searching) = 1
  <2>1. searching' = <<>> /\ counted' = counted + searching[1].count
    BY <1>2, <1>5 DEF LoadDirReturns
  <2>2. Uncounted = searching[1].count /\ Uncounted' = 0
    BY <1>1, <1>5, <2>1 DEF Uncounted
  <2>3. counted' \in Nat /\ counted' + Uncounted' = Len(available')
    BY <1>1, <1>3, <2>1, <2>2 DEF LInv
  <2> QED
    BY <1>1, <1>4, <2>1, <2>3 DEF LInv, CallsInv
<1>6. CASE Len(searching) = 2
  <2>1. /\ searching' = [Tail(searching) EXCEPT ![1].count = @ + searching[1].count]
        /\ UNCHANGED counted
    BY <1>2, <1>6 DEF LoadDirReturns
  <2>2. /\ Tail(searching) \in Seq(CallState) /\ Tail(searching) # <<>>
        /\ Len(Tail(searching)) = 1 /\ Tail(searching)[1] = searching[2]
    BY <1>1, <1>2, <1>6, HeadAndTail, OneOrTwo
  <2>3. /\ Len(searching') = 1 /\ searching' # <<>>
        /\ searching'[1].count = searching[2].count + searching[1].count
    <3> DEFINE t == Tail(searching)
               e == [t[1] EXCEPT !.count = @ + searching[1].count]
    <3>1. t[1] \in CallState
      BY <1>2, <1>6, <2>2
    <3>2. e \in CallState /\ e.count = t[1].count + searching[1].count
      <4> HIDE DEF t
      <4> QED
        BY <1>3, <3>1 DEF CallState
    <3>3. searching' = [t EXCEPT ![1] = e]
      BY <2>1
    <3> HIDE DEF t, e
    <3>4. t \in Seq(CallState) /\ t # <<>> /\ Len(t) = 1 /\ t[1] = searching[2]
      BY <2>2 DEF t
    <3> QED
      BY <3>2, <3>3, <3>4, OneOrTwo
  <2>4. Uncounted' = Uncounted
    BY <1>1, <1>3, <1>6, <2>3 DEF Uncounted
  <2>5. CallsInv'
    BY <1>4, <2>3 DEF CallsInv
  <2> QED
    BY <1>1, <2>1, <2>4, <2>5 DEF LInv
<1> QED
  BY <1>2, <1>5, <1>6

\* The loader's state changes when blocks are loaded only.
LEMMA OnlyLoading == [Next]_vars => LoadBlocks \/ UNCHANGED loaderVars
<1> SUFFICES ASSUME [Next]_vars PROVE LoadBlocks \/ UNCHANGED loaderVars
  OBVIOUS
<1>1. \A x, id, size : AddBlock(x, id, size) => UNCHANGED loaderVars
  BY DEF AddBlock
<1>2. \A x, id, size, c : RefuseBlock(x, id, size, c) => UNCHANGED loaderVars
  BY DEF RefuseBlock
<1>3. \A p, types, open, n : Run(p, types, open, n) => UNCHANGED loaderVars
  BY DEF Run
<1>4. \A x : InitializeBlock(x) \/ FailToInitialize(x) \/ ProcessBlock(x) \/ DeleteBlock(x) =>
             UNCHANGED loaderVars
  BY DEF InitializeBlock, FailToInitialize, ProcessBlock, DeleteBlock
<1>5. UnexpectedException \/ Exit \/ Exited \/ Ended \/ UNCHANGED vars => UNCHANGED loaderVars
  BY DEF UnexpectedException, Exit, Exited, Ended, vars
<1> QED
  BY <1>1, <1>2, <1>3, <1>4, <1>5 DEF Next

LEMMA LoaderStarts == Init => LInv
<1> SUFFICES ASSUME Init PROVE LInv
  OBVIOUS
<1>1. /\ searching = <<>> /\ factory = <<>> /\ available = <<>> /\ counted = 0
  BY DEF Init, LoaderInit
<1>2. DOMAIN factory = {} /\ DOMAIN available = {} /\ Len(available) = 0
  BY <1>1
<1>3. available \in Seq(DOMAIN factory) /\ searching \in Seq(CallState)
  BY <1>1, ShortSequences
<1> QED
  BY <1>1, <1>2, <1>3 DEF LInv, CallsInv, Uncounted, IsInjective, Range

LEMMA LoaderSteps == LInv /\ [Next]_vars => LInv'
<1> SUFFICES ASSUME LInv, [Next]_vars PROVE LInv'
  OBVIOUS
<1>1. CASE UNCHANGED loaderVars
  BY <1>1 DEF LInv, CallsInv, Uncounted, loaderVars
<1>2. CASE LoadBlocks
  BY <1>2, LoadDirCounts, TakeEntryCounts, LoadDirReturnsCounts DEF LoadBlocks
<1> QED
  BY <1>1, <1>2, OnlyLoading

\* The list of available blocks names every registered creator once and load_dir
\* (block_loader.cpp) counts as many, for any files, however the directories are nested and
\* in whatever order their entries come.
THEOREM ListedAndCounted == Spec => []RegisteredOnce
<1>1. LInv => RegisteredOnce
  BY DEF LInv, RegisteredOnce, Uncounted
<1> QED
  BY <1>1, LoaderStarts, LoaderSteps, PTL DEF Spec

-----------------------------------------------------------------------------
(* Where what can be made was found *)

\* What the call from outside, and the one for a directory in it, have still to come to.
Outer == IF searching = <<>> THEN {} ELSE searching[Len(searching)].left
Inner == IF Len(searching) = 2 THEN searching[1].left ELSE {}

\* Only the call from outside searches directories.
OuterInv == searching # <<>> => searching[Len(searching)].recursive

\* An entry is taken that is no directory to search: if it is a plugin, it is known from
\* then on.
Taken(f) ==
    /\ IsPlugin(f) => Id(f) \in DOMAIN factory'
    /\ \/ UNCHANGED factory
       \/ IsPlugin(f) /\ factory' = Extended(Id(f), f)

\* What load_dir does, but for counting.
Moves ==
    \/ \E dir : /\ Outer = {} /\ Inner = {} /\ Outer' = EntriesOf(dir) /\ Inner' = {}
                /\ asked' = Append(asked, dir) /\ UNCHANGED factory
    \/ \E f \in Inner : /\ Inner' = Inner \ {f} /\ Outer' = Outer
                        /\ Taken(f) /\ UNCHANGED asked
    \/ \E f \in Outer : /\ Outer' = Outer \ {f} /\ Inner = {} /\ Inner' = {}
                        /\ Taken(f) /\ f.kind # "directory" /\ UNCHANGED asked
    \/ \E f \in Outer : /\ Outer' = Outer \ {f} /\ Inner = {} /\ Inner' = EntriesOf(Path(f))
                        /\ f.kind = "directory" /\ UNCHANGED <<asked, factory>>
    \/ UNCHANGED <<Outer, Inner, asked, factory>>

LEMMA LoadDirMoves ==
    ASSUME LInv, NEW dir, LoadDir(dir)
    PROVE  OuterInv' /\ Moves
<1>1. /\ searching = <<>> /\ searching' = <<Call(dir, TRUE)>>
      /\ asked' = Append(asked, dir) /\ UNCHANGED factory
  BY DEF LoadDir
<1>2. /\ Call(dir, TRUE) \in CallState /\ Call(dir, TRUE).recursive
      /\ Call(dir, TRUE).left = EntriesOf(dir)
  BY DEF Call, CallState, EntriesOf
<1>3. Len(searching) = 0
  BY <1>1
<1>4. searching' # <<>> /\ Len(searching') = 1 /\ searching'[1] = Call(dir, TRUE)
  BY <1>1, <1>2, OneElement
<1>5. OuterInv'
  BY <1>2, <1>4 DEF OuterInv
<1>6. Outer = {} /\ Inner = {}
  BY <1>1, <1>3 DEF Outer, Inner
<1>7. Outer' = Call(dir, TRUE).left /\ Inner' = {}
  BY <1>4 DEF Outer, Inner
<1> QED
  BY <1>1, <1>2, <1>5, <1>6, <1>7 DEF Moves

LEMMA TakeEntryMoves ==
    ASSUME LInv, OuterInv, TakeEntry
    PROVE  OuterInv' /\ Moves
<1>1. PICK f \in Head(searching).left : Skip(f) \/ Load(f) \/ Descend(f)
  BY DEF TakeEntry
<1>2. searching # <<>> /\ UNCHANGED asked
  BY DEF TakeEntry
<1>3. /\ searching \in Seq(CallState) /\ Len(searching) \in {1, 2}
      /\ searching[1] \in CallState /\ Head(searching) = searching[1]
      /\ 1 \in DOMAIN searching
      /\ Len(searching) = 2 => searching[2] \in CallState /\ ~searching[1].recursive
  BY <1>2, OneOrTwo DEF LInv, CallsInv
<1> DEFINE rest == [searching EXCEPT ![1].left = @ \ {f}]
           more == [searching EXCEPT ![1].left = @ \ {f}, ![1].count = @ + 1]
           Shorter(t) == /\ Len(t) = Len(searching) /\ t # <<>>
                         /\ t[1].left = searching[1].left \ {f}
                         /\ t[1].recursive = searching[1].recursive
                         /\ Len(searching) = 2 => t[2] = searching[2]
<1>4. Shorter(rest) /\ rest \in Seq(CallState)
  <2> DEFINE e == [searching[1] EXCEPT !.left = @ \ {f}]
  <2>1. /\ e \in CallState /\ e.left = searching[1].left \ {f}
        /\ e.recursive = searching[1].recursive
    BY <1>3 DEF CallState
  <2>2. rest = [searching EXCEPT ![1] = e]
    OBVIOUS
  <2> HIDE DEF e, rest
  <2>3. rest \in Seq(CallState)
    BY <1>2, <1>3, <2>1, <2>2, HeadAndTail
  <2> QED
    BY <1>2, <1>3, <2>1, <2>2, <2>3, OneOrTwo
<1>5. Shorter(more)
  <2> DEFINE e == [left |-> searching[1].left \ {f}, recursive |-> searching[1].recursive,
                   count |-> searching[1].count + 1]
  <2>1. /\ e \in CallState /\ e.left = searching[1].left \ {f}
        /\ e.recursive = searching[1].recursive
    BY <1>3 DEF CallState
  <2>2. more = [searching EXCEPT
                  ![1] = [left |-> searching[1].left \ {f},
                          recursive |-> searching[1].recursive,
                          count |-> searching[1].count + 1]]
    BY <1>2, <1>3, OneMore
  <2> HIDE DEF e, more
  <2> QED
    BY <1>2, <1>3, <2>1, <2>2, OneOrTwo DEF e
<1> HIDE DEF rest, more
<1>6. CASE Skip(f) \/ Load(f)
  <2>1. Shorter(searching')
    BY <1>4, <1>5, <1>6 DEF Skip, Load, rest, more
  <2>2. Taken(f)
    <3>1. CASE Skip(f)
      BY <3>1 DEF Skip, Taken, PassOver, IsPlugin
    <3>2. CASE Load(f)
      BY <3>2 DEF Load, Register, Extended, Taken
    <3> QED
      BY <1>6, <3>1, <3>2
  <2>3. OuterInv'
    BY <1>2, <1>3, <2>1 DEF OuterInv
  <2>4. CASE Len(searching) = 1
    <3>1. f \in Outer /\ Outer' = Outer \ {f} /\ Inner = {} /\ Inner' = {}
      BY <1>2, <1>3, <2>1, <2>4 DEF Outer, Inner
    <3>2. searching[1].recursive
      BY <1>2, <2>4 DEF OuterInv
    <3>3. f.kind # "directory"
      BY <1>3, <1>6, <3>2 DEF Skip, Load, PassOver, IsPlugin
    <3> QED
      BY <1>2, <2>2, <2>3, <3>1, <3>3 DEF Moves
  <2>5. CASE Len(searching) = 2
    <3>1. f \in Inner /\ Inner' = Inner \ {f} /\ Outer' = Outer
      BY <1>2, <1>3, <2>1, <2>5 DEF Outer, Inner
    <3> QED
      BY <1>2, <2>2, <2>3, <3>1 DEF Moves
  <2> QED
    BY <1>3, <2>4, <2>5
<1>7. CASE Descend(f)
  <2>1. /\ searching' = <<Nested(f)>> \o rest /\ searching[1].recursive
        /\ f.kind = "directory" /\ UNCHANGED factory
    BY <1>3, <1>7 DEF Descend, rest
  <2>2. Len(searching) = 1
    BY <1>3, <2>1
  <2>3. Nested(f) \in CallState /\ Nested(f).left = EntriesOf(Path(f))
    BY DEF Nested, Call, CallState, EntriesOf
  <2>4. /\ Len(searching') = 2 /\ searching' # <<>>
        /\ searching'[1] = Nested(f) /\ searching'[2] = rest[1]
    <3>1. rest \in Seq(CallState) /\ rest # <<>> /\ Len(rest) = 1 /\ Len(rest) <= 2
      BY <1>4, <2>2
    <3>2. \A e \in CallState : LET t == <<e>> \o rest
                              IN Len(t) = Len(rest) + 1 /\ t # <<>> /\ t[1] = e /\ t[2] = rest[1]
      BY ONLY <3>1, OneOrTwo
    <3> DEFINE n == Nested(f)
    <3>3. n \in CallState /\ searching' = <<n>> \o rest
      BY <2>1, <2>3
    <3> HIDE DEF n
    <3>4. /\ Len(searching') = Len(rest) + 1 /\ searching' # <<>>
          /\ searching'[1] = n /\ searching'[2] = rest[1]
      BY <3>2, <3>3
    <3> QED
      BY <3>1, <3>4 DEF n
  <2>5. OuterInv'
    BY <1>4, <2>1, <2>4 DEF OuterInv
  <2>6. Outer = searching[1].left /\ Inner = {}
    BY <1>2, <2>2 DEF Outer, Inner
  <2>7. Outer' = rest[1].left /\ Inner' = Nested(f).left
    BY <2>4 DEF Outer, Inner
  <2>8. /\ f \in Outer /\ Outer' = Outer \ {f}
        /\ Inner = {} /\ Inner' = EntriesOf(Path(f))
    BY <1>1, <1>3, <1>4, <2>3, <2>6, <2>7
  <2> QED
    BY <1>2, <2>1, <2>5, <2>8 DEF Moves
<1> QED
  BY <1>1, <1>6, <1>7

LEMMA LoadDirReturnsMoves ==
    ASSUME LInv, OuterInv, LoadDirReturns
    PROVE  OuterInv' /\ Moves
<1>1. searching # <<>> /\ Head(searching).left = {} /\ UNCHANGED <<factory, asked>>
  BY DEF LoadDirReturns
<1>2. /\ searching \in Seq(CallState) /\ Len(searching) \in {1, 2}
      /\ searching[1] \in CallState /\ Head(searching) = searching[1]
      /\ Len(searching) = 2 => searching[2] \in CallState
  BY <1>1, OneOrTwo DEF LInv, CallsInv
<1>3. CASE Len(searching) = 1
  <2>1. searching' = <<>> /\ Len(searching') = 0
    BY <1>3 DEF LoadDirReturns
  <2> QED
    BY <1>1, <1>2, <1>3, <2>1 DEF OuterInv, Outer, Inner, Moves
<1>4. CASE Len(searching) = 2
  <2> DEFINE t == Tail(searching)
             e == [t[1] EXCEPT !.count = @ + searching[1].count]
  <2>1. t \in Seq(CallState) /\ t # <<>> /\ Len(t) = 1 /\ t[1] = searching[2]
    BY <1>1, <1>2, <1>4, HeadAndTail, OneOrTwo
  <2>2. searching' = [t EXCEPT ![1] = e]
    BY <1>2, <1>4 DEF LoadDirReturns
  <2>3. e \in CallState /\ e.left = t[1].left /\ e.recursive = t[1].recursive
    <3>1. t[1] \in CallState /\ searching[1].count \in Nat
      BY <1>2, <1>4, <2>1 DEF CallState
    <3> HIDE DEF t
    <3> QED
      BY <3>1 DEF CallState
  <2> HIDE DEF t, e
  <2>4. Len(searching') = 1 /\ searching' # <<>> /\ searching'[1] = e
    BY <2>1, <2>2, <2>3, OneOrTwo
  <2>5. OuterInv'
    BY <1>1, <1>4, <2>1, <2>3, <2>4 DEF OuterInv
  <2>6. UNCHANGED <<Outer, Inner>>
    BY <1>1, <1>2, <1>4, <2>1, <2>3, <2>4 DEF Outer, Inner
  <2> QED
    BY <1>1, <2>5, <2>6 DEF Moves
<1> QED
  BY <1>2, <1>3, <1>4

\* A file is known, or the loader has still to come to it.
Settled(f) == f \in Outer \/ f \in Inner \/ (IsPlugin(f) => Id(f) \in DOMAIN factory)

\* All files in a directory asked for are settled, and those in its directories unless the
\* loader has still to come to the directory; and the loader looks nowhere else.
ReachInv ==
    /\ asked \in Seq(Range(asked))
    /\ Outer \subseteq Files /\ Inner \subseteq Files
    /\ \A f \in Outer : f.dir \in Range(asked)
    /\ \A f \in Inner : WithinReach(f)
    /\ \A f \in Files : f.dir \in Range(asked) => Settled(f)
    /\ \A d \in Files : d.kind = "directory" /\ d.dir \in Range(asked) =>
           d \in Outer \/ \A f \in EntriesOf(Path(d)) : Settled(f)
    /\ \A id \in DOMAIN factory :
           LET f == factory[id] IN IsPlugin(f) /\ WithinReach(f) /\ Id(f) = id

LEMMA ReachMoves ==
    ASSUME ReachInv, Moves
    PROVE  ReachInv'
<1>1. ASSUME UNCHANGED asked, Inner' \subseteq Files, Outer' \subseteq Outer,
             \A f \in Inner' : WithinReach(f),
             \A f \in Files : Settled(f) => Settled(f)',
             \A d \in Outer \ Outer' :
                 d.kind = "directory" => \A f \in EntriesOf(Path(d)) : Settled(f)',
             \A id \in DOMAIN factory' :
                 LET f == factory'[id] IN IsPlugin(f) /\ WithinReach(f) /\ Id(f) = id
      PROVE  ReachInv'
  <2>1. \A f : WithinReach(f)' <=> WithinReach(f)
    BY <1>1 DEF WithinReach
  <2>2. \A d \in Files : d.kind = "directory" /\ d.dir \in Range(asked) =>
            d \in Outer' \/ \A f \in EntriesOf(Path(d)) : Settled(f)'
    BY <1>1 DEF ReachInv, EntriesOf
  <2> QED
    BY <1>1, <2>1, <2>2 DEF ReachInv
<1>2. CASE \E f \in Inner : /\ Inner' = Inner \ {f} /\ Outer' = Outer
                            /\ Taken(f) /\ UNCHANGED asked
  <2>1. PICK f \in Inner : /\ Inner' = Inner \ {f} /\ Outer' = Outer
                           /\ Taken(f) /\ UNCHANGED asked
    BY <1>2
  <2>2. f \in Files /\ WithinReach(f)
    BY DEF ReachInv
  <2>3. \A g \in Files : Settled(g) => Settled(g)'
    BY <2>1 DEF Settled, Taken, Extended
  <2>4. \A id \in DOMAIN factory' :
            LET g == factory'[id] IN IsPlugin(g) /\ WithinReach(g) /\ Id(g) = id
    BY <2>1, <2>2 DEF ReachInv, Taken, Extended
  <2> QED
    BY <1>1, <2>1, <2>3, <2>4 DEF ReachInv
<1>3. CASE \E f \in Outer : /\ Outer' = Outer \ {f} /\ Inner = {} /\ Inner' = {}
                            /\ Taken(f) /\ f.kind # "directory" /\ UNCHANGED asked
  <2>1. PICK f \in Outer : /\ Outer' = Outer \ {f} /\ Inner = {} /\ Inner' = {}
                           /\ Taken(f) /\ f.kind # "directory" /\ UNCHANGED asked
    BY <1>3
  <2>2. f \in Files /\ WithinReach(f)
    BY DEF ReachInv, WithinReach
  <2>3. \A g \in Files : Settled(g) => Settled(g)'
    BY <2>1 DEF Settled, Taken, Extended
  <2>4. \A id \in DOMAIN factory' :
            LET g == factory'[id] IN IsPlugin(g) /\ WithinReach(g) /\ Id(g) = id
    BY <2>1, <2>2 DEF ReachInv, Taken, Extended
  <2> QED
    BY <1>1, <2>1, <2>3, <2>4
<1>4. CASE \E f \in Outer : /\ Outer' = Outer \ {f} /\ Inner = {}
                            /\ Inner' = EntriesOf(Path(f))
                            /\ f.kind = "directory" /\ UNCHANGED <<asked, factory>>
  <2>1. PICK f \in Outer : /\ Outer' = Outer \ {f} /\ Inner = {}
                           /\ Inner' = EntriesOf(Path(f))
                           /\ f.kind = "directory" /\ UNCHANGED <<asked, factory>>
    BY <1>4
  <2>2. f \in Files /\ f.dir \in Range(asked)
    BY DEF ReachInv
  <2>3. \A g \in Inner' : g \in Files /\ WithinReach(g)
    BY <2>1, <2>2 DEF WithinReach, EntriesOf
  <2>4. ~IsPlugin(f)
    BY <2>1 DEF IsPlugin
  <2>5. \A g \in Files : Settled(g) => Settled(g)'
    BY <2>1, <2>4 DEF Settled
  <2>6. \A g \in EntriesOf(Path(f)) : Settled(g)'
    BY <2>1 DEF Settled
  <2>7. \A id \in DOMAIN factory' :
            LET g == factory'[id] IN IsPlugin(g) /\ WithinReach(g) /\ Id(g) = id
    BY <2>1 DEF ReachInv
  <2> QED
    BY <1>1, <2>1, <2>3, <2>5, <2>6, <2>7
<1>5. CASE \E dir : /\ Outer = {} /\ Inner = {} /\ Outer' = EntriesOf(dir) /\ Inner' = {}
                    /\ asked' = Append(asked, dir) /\ UNCHANGED factory
  <2>1. PICK dir : /\ Outer = {} /\ Inner = {} /\ Outer' = EntriesOf(dir) /\ Inner' = {}
                   /\ asked' = Append(asked, dir) /\ UNCHANGED factory
    BY <1>5
  <2>2. Range(asked') = Range(asked) \cup {dir} /\ asked' \in Seq(Range(asked'))
    <3> DEFINE S == Range(asked)
               T == S \cup {dir}
    <3>1. asked \in Seq(S)
      BY DEF ReachInv
    <3>2. Range(asked) = S
      OBVIOUS
    <3> HIDE DEF S
    <3>3. asked \in Seq(T) /\ dir \in T
      BY <3>1
    <3> HIDE DEF T
    <3>4. /\ asked' \in Seq(T) /\ DOMAIN asked' = 1..(Len(asked) + 1)
          /\ DOMAIN asked = 1..Len(asked) /\ Len(asked) \in Nat
          /\ \A i \in 1..Len(asked) : asked'[i] = asked[i]
          /\ asked'[Len(asked) + 1] = dir
      BY <2>1, <3>3
    <3>5. Range(asked') = T
      <4>1. \A i \in DOMAIN asked' : asked'[i] \in T
        BY <3>4
      <4>2. \A y \in S : \E i \in DOMAIN asked' : asked'[i] = y
        BY <3>2, <3>4 DEF Range
      <4>3. \E i \in DOMAIN asked' : asked'[i] = dir
        BY <3>4
      <4> QED
        BY <4>1, <4>2, <4>3 DEF Range, T
    <3> QED
      BY <3>4, <3>5 DEF T, S
  <2>3. \A f : WithinReach(f) => WithinReach(f)'
    BY <2>2 DEF WithinReach
  <2>4. /\ Outer' \subseteq Files
        /\ \A f \in Outer' : f.dir \in Range(asked')
        /\ \A f \in Files : f.dir = dir => f \in Outer'
    BY <2>1, <2>2 DEF EntriesOf
  <2>5. \A f \in Files : Settled(f) => Settled(f)'
    BY <2>1 DEF Settled
  <2>6. \A f \in Files : f.dir \in Range(asked') => Settled(f)'
    BY <2>2, <2>4, <2>5 DEF ReachInv, Settled
  <2>7. \A d \in Files : d.kind = "directory" /\ d.dir \in Range(asked') =>
            d \in Outer' \/ \A f \in EntriesOf(Path(d)) : Settled(f)'
    BY <2>1, <2>2, <2>4, <2>5 DEF ReachInv, EntriesOf
  <2> QED
    BY <2>1, <2>2, <2>3, <2>4, <2>6, <2>7 DEF ReachInv
<1>6. CASE UNCHANGED <<Outer, Inner, asked, factory>>
  BY <1>6 DEF ReachInv, Settled, WithinReach
<1> QED
  BY <1>2, <1>3, <1>4, <1>5, <1>6 DEF Moves

\* Loading a directory makes known every plugin in it and one level below, unless another
\* one goes by its identifier, and nothing else (block_loader.cpp, load_dir), for any files,
\* in whatever order the entries come.
THEOREM TwoLevelsLoaded == Spec => []TwoLevels
<1> DEFINE I == OuterInv /\ ReachInv
<1>1. Init => I
  <2> SUFFICES ASSUME Init PROVE I
    OBVIOUS
  <2>1. searching = <<>> /\ factory = <<>> /\ asked = <<>>
    BY DEF Init, LoaderInit
  <2>2. /\ DOMAIN factory = {} /\ DOMAIN asked = {} /\ Len(searching) = 0
        /\ asked \in Seq(Range(asked))
    BY <2>1, ShortSequences
  <2>3. Range(asked) = {} /\ Outer = {} /\ Inner = {}
    BY <2>1, <2>2 DEF Range, Outer, Inner
  <2> QED
    BY <2>1, <2>2, <2>3 DEF OuterInv, ReachInv
<1>2. LInv /\ I /\ [Next]_vars => I'
  <2> SUFFICES ASSUME LInv, I, [Next]_vars PROVE I'
    OBVIOUS
  <2>1. CASE UNCHANGED loaderVars
    <3>1. UNCHANGED <<searching, factory, asked>>
      BY <2>1 DEF loaderVars
    <3> QED
      BY <3>1 DEF OuterInv, ReachInv, Settled, Outer, Inner, WithinReach
  <2>2. CASE LoadBlocks
    BY <2>2, LoadDirMoves, TakeEntryMoves, LoadDirReturnsMoves, ReachMoves DEF LoadBlocks
  <2> QED
    BY <2>1, <2>2, OnlyLoading
<1>3. LInv /\ I => TwoLevels
  <2> SUFFICES ASSUME I, searching = <<>>
               PROVE  /\ \A f \in Files : IsPlugin(f) /\ WithinReach(f) =>
                                              Id(f) \in DOMAIN factory
                      /\ \A id \in DOMAIN factory :
                             LET f == factory[id] IN IsPlugin(f) /\ WithinReach(f) /\ Id(f) = id
    BY DEF TwoLevels
  <2>1. Outer = {} /\ Inner = {}
    BY DEF Outer, Inner
  <2>2. \A f \in Files : WithinReach(f) => Settled(f)
    BY <2>1 DEF ReachInv, WithinReach, EntriesOf
  <2> QED
    BY <2>1, <2>2 DEF ReachInv, Settled
<1> QED
  BY <1>1, <1>2, <1>3, LoaderStarts, LoaderSteps, PTL DEF Spec

-----------------------------------------------------------------------------
(* Blocks and their memory *)

\* A piece of memory of a block.
Mine(m, x, what) == m \in memory /\ m[1] = x /\ m[2] = what

\* What keeps the deletion of block x from going wrong.
Sound(x) ==
    LET b == block[x]
    IN /\ HasPortArray(b) => b.numPorts = b.size /\ Mine(b.ports, x, "ports")
       /\ b.initialized =>
             /\ b.proc # Garbage
             /\ b.class \in {"Fork", "Arithmetic", "BlockInterleaver"} =>
                   Mine(b.object, x, "object")
             /\ b.class = "BlockInterleaver" => b.object[4] = b.proc

\* The blocks that are yet to be deleted, or may be.
Remaining == IF pc \in {"exit", "ended"} THEN todo ELSE Alive

TypeInv ==
    /\ block \in [Block -> BlockState \cup {Nobody}]
    /\ searching \in Seq(CallState)
    /\ \A id \in DOMAIN factory : factory[id] \in Files
    /\ inMatrix \subseteq Alive
    /\ todo \subseteq Alive
    /\ runs \in Nat
    /\ memory \subseteq Memory

PassInv ==
    /\ pc = "initialize" => \A x \in inMatrix \ todo : block[x].initialized
    /\ pc = "process" => \A x \in inMatrix : block[x].initialized
    /\ pc \in {"initialize", "process"} => todo \subseteq inMatrix

IInv ==
    /\ TypeInv
    /\ PassInv
    /\ misfits = {} /\ pc # "crashed" => \A x \in Remaining : Sound(x)
    /\ CrashesForAReason

-----------------------------------------------------------------------------
(* Blocks *)

LEMMA NewBlockState ==
    ASSUME NEW class \in STRING, NEW size \in Counts, NEW configured \in BOOLEAN
    PROVE  NewBlock(class, size, configured) \in BlockState
BY DynamicAssumption DEF NewBlock, Unconnected, BlockState

LEMMA SetUpState ==
    ASSUME NEW b \in BlockState, NEW x \in Block, NEW run \in Nat
    PROVE  /\ SetUp(b, x, run) \in BlockState
           /\ HasPortArray(SetUp(b, x, run)) <=> HasPortArray(b)
           /\ HasPortArray(b) => SetUp(b, x, run).numPorts = b.size
           /\ HasPortArray(b) /\ b.numPorts # b.size =>
                 SetUp(b, x, run).ports = <<x, "ports", run, "any">>
           /\ b.numPorts = b.size => SetUp(b, x, run) = b
           /\ SetUp(b, x, run).size = b.size
           /\ SetUp(b, x, run).class = b.class
           /\ SetUp(b, x, run).initialized = b.initialized
           /\ SetUp(b, x, run).proc = b.proc
           /\ SetUp(b, x, run).object = b.object
<1>1. <<x, "ports", run, "any">> \in Memory
  BY DEF Memory
<1> QED
  BY <1>1 DEF SetUp, BlockState, HasPortArray

LEMMA InitializeState ==
    ASSUME NEW b \in BlockState, NEW x \in Block, NEW run \in Nat
    PROVE  /\ Initialize(b, x, run) \in BlockState
           /\ Initialize(b, x, run).initialized
           /\ Initialize(b, x, run).class = b.class
           /\ Initialize(b, x, run).size = b.size
           /\ Initialize(b, x, run).numPorts = b.numPorts
           /\ Initialize(b, x, run).ports = b.ports
           /\ b.type \in Allowed(b.class) => Initialize(b, x, run).proc = b.type
           /\ MakesObject(b) => Initialize(b, x, run).object = Object(b, x, run)
<1>1. Allowed(b.class) \subseteq SignalTypes
  BY DEF Allowed, SignalTypes
<1>2. MakesObject(b) => Object(b, x, run) \in Memory
  BY <1>1 DEF MakesObject, Object, Memory
<1> QED
  BY <1>1, <1>2 DEF Initialize, BlockState

LEMMA AbandonedState ==
    ASSUME NEW b \in BlockState, NEW x \in Block, NEW run \in Nat, Throws(b)
    PROVE  /\ Abandoned(b, x, run) \in BlockState
           /\ Abandoned(b, x, run) =
                 [b EXCEPT !.object = IF HasPortArray(b) THEN <<x, "object", run, "any">> ELSE @]
<1>1. <<x, "object", run, "any">> \in Memory
  BY DEF Memory
<1>2. HasPortArray(b) => Object(b, x, run) = <<x, "object", run, "any">>
  BY DEF HasPortArray, Object
<1> QED
  BY <1>1, <1>2 DEF Abandoned, BlockState

-----------------------------------------------------------------------------
(* Steps *)

\* A block stays sound when neither it nor its memory is touched.
LEMMA SoundStays ==
    ASSUME NEW x, Sound(x), block'[x] = block[x],
           \A m \in memory : m[1] = x => m \in memory'
    PROVE  Sound(x)'
BY DEF Sound, Mine

\* Of what a program is allowed to crash for, only these change.
LEMMA Untouched ==
    ASSUME TypeInv, UNCHANGED <<searching, factory, block, inMatrix, runs, memory>>,
           todo' \subseteq Alive
    PROVE  TypeInv' /\ Alive' = Alive /\ \A x : Sound(x) => Sound(x)'
<1>1. Alive' = Alive
  BY DEF Alive
<1>2. TypeInv'
  BY <1>1 DEF TypeInv
<1> QED
  BY <1>1, <1>2 DEF Sound, Mine

LEMMA OwnedIsMemory ==
    ASSUME NEW b \in BlockState
    PROVE  Owned(b) \subseteq Memory
BY DEF Owned, BlockState

\* A block that has just been made.
LEMMA FreshBlock ==
    ASSUME NEW class \in STRING, NEW size \in Counts, NEW configured \in BOOLEAN
    PROVE  LET b == NewBlock(class, size, configured)
           IN /\ ~Misfreed(b)
              /\ Freed(b) \subseteq {Garbage}
              /\ Freed(b) # {} => class = "Arithmetic" /\ configured
BY DEF NewBlock, Misfreed, Freed, DestructorFrees, DestroyFrees

LEMMA StepLoadBlocks ==
    ASSUME IInv, LoadBlocks
    PROVE  IInv'
<1>1. searching' \in Seq(CallState) /\ \A id \in DOMAIN factory' : factory'[id] \in Files
  BY LoaderTypes DEF LoadBlocks, IInv, TypeInv
<1>2. UNCHANGED <<block, inMatrix, todo, runs, misfits, memory, pc, unloaded>>
  BY DEF LoadBlocks, blockVars
<1>3. Alive' = Alive /\ Remaining' = Remaining
  BY <1>2 DEF Alive, Remaining
<1>4. TypeInv'
  BY <1>1, <1>2, <1>3 DEF IInv, TypeInv
<1>5. PassInv'
  BY <1>2 DEF IInv, PassInv
<1>6. \A x : Sound(x) => Sound(x)'
  BY <1>2 DEF Sound, Mine
<1>7. CrashesForAReason'
  BY <1>2, <1>3 DEF IInv, CrashesForAReason
<1> QED
  BY <1>2, <1>3, <1>4, <1>5, <1>6, <1>7 DEF IInv

LEMMA StepAddBlock ==
    ASSUME IInv, NEW x \in Block, NEW id \in DOMAIN factory, NEW size \in Counts,
           AddBlock(x, id, size)
    PROVE  IInv'
<1> DEFINE b == NewBlock(factory[id].class, size, TRUE)
           c == SetUp(b, x, runs)
<1>1. factory[id].class \in STRING
  BY LoaderAssumption DEF IInv, TypeInv, Entry
<1>2. b \in BlockState
  BY <1>1, NewBlockState
<1>3. /\ b.numPorts = 0 /\ b.size = size /\ ~b.initialized
      /\ size \in Nat /\ size # 0
  BY DynamicAssumption DEF NewBlock
<1>4. /\ c \in BlockState
      /\ c.size = size /\ c.class = b.class /\ ~c.initialized
      /\ HasPortArray(c) => c.numPorts = size /\ c.ports = <<x, "ports", runs, "any">>
  <2>1. runs \in Nat
    BY DEF IInv, TypeInv
  <2> HIDE DEF b
  <2> QED
    BY <1>2, <1>3, <2>1, SetUpState
<1>5. /\ pc = "idle" /\ pc' \in {"idle", "crashed"}
      /\ pc' = "crashed" => NamesOverrun(b)
      /\ x \notin Alive
      /\ block' = [block EXCEPT ![x] = c]
      /\ memory' = memory \cup Owned(block'[x])
      /\ UNCHANGED <<searching, factory, inMatrix, todo, runs, misfits, unloaded>>
  BY DEF AddBlock, MayMake, loaderVars
<1> HIDE DEF b, c
<1>6. block'[x] = c /\ \A y \in Block : y # x => block'[y] = block[y]
  BY <1>5 DEF IInv, TypeInv
<1>7. Alive' = Alive \cup {x}
  BY <1>4, <1>5, <1>6, PluginsAssumption DEF Alive
<1>8. TypeInv'
  <2>1. memory' \subseteq Memory
    BY <1>4, <1>5, <1>6, OwnedIsMemory DEF IInv, TypeInv
  <2>2. block' \in [Block -> BlockState \cup {Nobody}]
    BY <1>4, <1>5 DEF IInv, TypeInv
  <2> QED
    BY <1>5, <1>7, <2>1, <2>2 DEF IInv, TypeInv
<1>9. PassInv'
  BY <1>5 DEF PassInv
<1>10. ASSUME misfits' = {}, pc' # "crashed", NEW y \in Remaining'
       PROVE  Sound(y)'
  <2>1. y \in Alive \cup {x}
    BY <1>5, <1>7, <1>10 DEF Remaining
  <2>2. CASE y = x
    <3>0. <<x, "ports", runs, "any">> \in Memory
      BY DEF Memory, IInv, TypeInv
    <3>1. HasPortArray(c) => c.ports \in Owned(c)
      <4>1. HasPortArray(c) => c.ports # Garbage
        BY <1>4, <3>0, DynamicAssumption
      <4> QED
        BY <4>1 DEF Owned
    <3>2. HasPortArray(c) => c.ports \in memory' /\ c.ports[1] = x /\ c.ports[2] = "ports"
      BY <1>4, <1>5, <1>6, <3>1
    <3> QED
      BY <1>4, <1>6, <2>2, <3>2 DEF Sound, Mine
  <2>3. CASE y \in Alive /\ y # x
    <3>1. Sound(y)
      BY <1>5, <1>10, <2>3 DEF IInv, Remaining
    <3>2. block'[y] = block[y]
      BY <1>6, <2>3 DEF Alive
    <3> QED
      BY <1>5, <3>1, <3>2, SoundStays
  <2> QED
    BY <2>1, <2>2, <2>3
<1>11. CrashesForAReason'
  <2>1. NamesOverrun(b) => NamesOverrun(c)
    BY <1>3, <1>4 DEF NamesOverrun, HasPortArray
  <2> QED
    BY <1>5, <1>6, <1>7, <2>1 DEF CrashesForAReason
<1> QED
  BY <1>8, <1>9, <1>10, <1>11 DEF IInv

LEMMA StepRefuseBlock ==
    ASSUME IInv, NEW x \in Block, NEW id \in DOMAIN factory, NEW size \in Counts,
           NEW configured \in BOOLEAN, RefuseBlock(x, id, size, configured)
    PROVE  IInv'
<1> DEFINE b == NewBlock(factory[id].class, size, configured)
<1>1. factory[id].class \in STRING
  BY LoaderAssumption DEF IInv, TypeInv, Entry
<1>2. /\ ~Misfreed(b)
      /\ Freed(b) \subseteq {Garbage}
      /\ Freed(b) # {} => b.class = "Arithmetic" /\ b.configured /\ b.numPorts = 0
      /\ b \in BlockState
  <2>1. Freed(b) # {} => b.class = "Arithmetic" /\ b.configured /\ b.numPorts = 0
    BY <1>1, FreshBlock DEF NewBlock
  <2> QED
    BY <1>1, <2>1, FreshBlock, NewBlockState
<1>3. pc = "idle" /\ x \notin Alive
  BY DEF RefuseBlock, MayMake
<1> HIDE DEF b
<1>4. PICK p \in {pc, "crashed"}, m \in {memory, memory \ Freed(b)} :
         /\ Deleted(b, p, m)
         /\ pc' = p /\ memory' = m
         /\ block' = IF p = "crashed" THEN [block EXCEPT ![x] = b] ELSE block
  BY DEF RefuseBlock, b
<1>5. UNCHANGED <<searching, factory, inMatrix, todo, runs, misfits, unloaded>>
  BY DEF RefuseBlock, loaderVars
<1>6. memory' = memory
  <2>1. Garbage \notin memory
    BY DynamicAssumption DEF IInv, TypeInv
  <2>2. memory \ Freed(b) = memory
    BY <1>2, <2>1
  <2> QED
    BY <1>4, <2>2
<1>7. PassInv'
  BY <1>3, <1>4 DEF PassInv
<1>8. CASE p = "crashed"
  <2>1. block' = [block EXCEPT ![x] = b] /\ pc' = "crashed"
    BY <1>4, <1>8
  <2>2. block'[x] = b /\ \A y \in Block : y # x => block'[y] = block[y]
    BY <2>1 DEF IInv, TypeInv
  <2>3. Alive' = Alive \cup {x}
    BY <1>2, <1>3, <2>2, PluginsAssumption DEF Alive
  <2>4. block' \in [Block -> BlockState \cup {Nobody}]
    BY <1>2, <2>1 DEF IInv, TypeInv
  <2>5. TypeInv'
    BY <1>5, <1>6, <2>3, <2>4 DEF IInv, TypeInv
  <2>6. unloaded \/ Freed(b) # {}
    BY <1>2, <1>3, <1>4, <1>8 DEF Deleted
  <2>7. CrashesForAReason'
    BY <1>2, <1>5, <2>2, <2>3, <2>6 DEF CrashesForAReason
  <2> QED
    BY <1>7, <2>1, <2>5, <2>7 DEF IInv
<1>9. CASE p # "crashed"
  <2>1. pc' = pc /\ block' = block
    BY <1>4, <1>9
  <2>2. TypeInv' /\ Alive' = Alive /\ \A y : Sound(y) => Sound(y)'
    BY <1>5, <1>6, <2>1, Untouched DEF IInv, TypeInv
  <2>3. Remaining' = Remaining
    BY <1>5, <2>1, <2>2 DEF Remaining
  <2>4. CrashesForAReason'
    BY <1>3, <2>1 DEF CrashesForAReason
  <2> QED
    BY <1>5, <1>7, <2>1, <2>2, <2>3, <2>4 DEF IInv
<1> QED
  BY <1>8, <1>9

LEMMA StepRun ==
    ASSUME IInv, NEW placed \in SUBSET Alive, NEW n \in {0, 1},
           NEW types \in [placed -> SignalTypes \cup {"empty"}],
           NEW open \in [placed -> SUBSET {"before", "after"}], Run(placed, types, open, n)
    PROVE  IInv'
<1> DEFINE typed(x) == [block[x] EXCEPT !.type = TypeInRun(block[x], types[x]), !.open = open[x]]
<1>1. /\ pc = "idle" /\ pc' \in {"idle", "aborted", "dereferenced", "initialize"}
      /\ inMatrix' = placed
      /\ pc' = "initialize" => todo' = placed
      /\ todo' \subseteq placed
      /\ runs' = runs + 1
      /\ block' = [x \in Block |-> IF x \notin placed THEN block[x]
                                   ELSE IF block[x].class = "Fork"
                                        THEN SetUp(typed(x), x, runs')
                                        ELSE typed(x)]
      /\ memory' = memory \cup UNION {Owned(block'[x]) : x \in placed}
      /\ UNCHANGED <<searching, factory, misfits, unloaded>>
  <2>1. /\ pc = "idle" /\ pc' \in {"idle", "aborted", "dereferenced", "initialize"}
        /\ pc' = "initialize" => todo' = placed
        /\ todo' \subseteq placed
    BY DEF Run
  <2> QED
    BY <2>1 DEF Run, loaderVars
<1>2. runs' \in Nat
  <2>1. runs \in Nat /\ runs' = runs + 1
    BY <1>1 DEF IInv, TypeInv
  <2> QED
    BY <2>1
<1>3. ASSUME NEW x \in placed
      PROVE  /\ typed(x) \in BlockState
             /\ typed(x).class = block[x].class /\ typed(x).size = block[x].size
             /\ typed(x).numPorts = block[x].numPorts /\ typed(x).ports = block[x].ports
             /\ typed(x).object = block[x].object /\ typed(x).proc = block[x].proc
             /\ typed(x).initialized = block[x].initialized
  <2>1. /\ block[x] \in BlockState /\ open[x] \in SUBSET {"before", "after"}
        /\ TypeInRun(block[x], types[x]) \in SignalTypes \cup {"empty"}
    BY DEF IInv, TypeInv, Alive, TypeInRun, BlockState
  <2> QED
    BY <2>1 DEF BlockState
<1> HIDE DEF typed
<1>4. \A x \in placed : x \in Block /\ block'[x] \in {typed(x), SetUp(typed(x), x, runs')}
  BY <1>1 DEF Alive
<1>5. \A x \in placed : block'[x] \in BlockState
  BY <1>2, <1>3, <1>4, SetUpState
<1>6. \A x \in Block \ placed : block'[x] = block[x]
  BY <1>1
<1>7. Alive' = Alive
  BY <1>5, <1>6, PluginsAssumption DEF Alive
<1>8. block' \in [Block -> BlockState \cup {Nobody}]
  <2>1. \A x \in Block : block'[x] \in BlockState \cup {Nobody}
    BY <1>5, <1>6 DEF IInv, TypeInv
  <2> QED
    BY <1>1, <2>1
<1>9. memory' \subseteq Memory
  <2>1. \A x \in placed : Owned(block'[x]) \subseteq Memory
    BY <1>5, OwnedIsMemory
  <2>2. memory \subseteq Memory
    BY DEF IInv, TypeInv
  <2>3. memory' = memory \cup UNION {Owned(block'[x]) : x \in placed}
    BY <1>1
  <2> QED
    BY <2>1, <2>2, <2>3
<1>10. TypeInv'
  BY <1>1, <1>2, <1>7, <1>8, <1>9 DEF IInv, TypeInv
<1>11. PassInv'
  BY <1>1 DEF PassInv
<1>12. ASSUME misfits' = {}, NEW x \in Remaining'
       PROVE  Sound(x)'
  <2>1. Sound(x) /\ x \in Alive
    BY <1>1, <1>7, <1>12 DEF IInv, Remaining
  <2>2. CASE x \in placed
    <3>1. block'[x] = typed(x)
      <4>1. HasPortArray(typed(x)) => typed(x).numPorts = typed(x).size
        BY <1>3, <2>1, <2>2 DEF HasPortArray, Sound
      <4>2. HasPortArray(typed(x)) => SetUp(typed(x), x, runs') = typed(x)
        BY <1>2, <1>3, <2>1, <2>2, <4>1, SetUpState DEF Alive
      <4>3. ~HasPortArray(typed(x)) => SetUp(typed(x), x, runs') = typed(x)
        BY DEF SetUp
      <4> QED
        BY <1>4, <2>2, <4>2, <4>3
    <3> QED
      BY <1>1, <1>3, <2>1, <2>2, <3>1 DEF Sound, Mine, HasPortArray
  <2>3. CASE x \notin placed
    BY <1>1, <1>6, <2>1, <2>3, SoundStays DEF Alive
  <2> QED
    BY <2>2, <2>3
<1>13. CrashesForAReason'
  BY <1>1 DEF CrashesForAReason
<1> QED
  BY <1>10, <1>11, <1>12, <1>13 DEF IInv

\* What a pass over the matrix leaves to do.
LEMMA ThroughOne ==
    ASSUME IInv, pc \in {"initialize", "process"}, NEW x \in todo, Through(x),
           UNCHANGED inMatrix
    PROVE  /\ pc' \in {"initialize", "process", "idle"}
           /\ todo' \subseteq inMatrix
           /\ pc' = "initialize" => todo' = todo \ {x} /\ pc = "initialize"
           /\ pc' = "process" /\ pc = "initialize" => todo = {x}
BY DEF Through, AfterPass, IInv, PassInv

LEMMA StepInitializeBlock ==
    ASSUME IInv, NEW x \in Block, InitializeBlock(x)
    PROVE  IInv'
<1> DEFINE b == block[x]
           c == Initialize(b, x, runs)
<1>1. /\ pc = "initialize" /\ x \in todo /\ Through(x)
      /\ block' = [block EXCEPT ![x] = c]
      /\ memory' = memory \cup Owned(block'[x])
      /\ misfits' = IF b.type \in Allowed(b.class) THEN misfits ELSE misfits \cup {x}
      /\ UNCHANGED <<searching, factory, inMatrix, runs, unloaded>>
  BY DEF InitializeBlock, loaderVars
<1>2. x \in Alive /\ x \in inMatrix /\ b \in BlockState /\ runs \in Nat
  BY <1>1 DEF IInv, TypeInv, PassInv, Alive
<1>3. /\ c \in BlockState /\ c.initialized
      /\ c.class = b.class /\ c.size = b.size
      /\ c.numPorts = b.numPorts /\ c.ports = b.ports
      /\ b.type \in Allowed(b.class) => c.proc = b.type
      /\ MakesObject(b) => c.object = Object(b, x, runs)
  <2> HIDE DEF b
  <2> QED
    BY <1>2, InitializeState
<1> HIDE DEF b, c
<1>4. block'[x] = c /\ \A y \in Block : y # x => block'[y] = block[y]
  BY <1>1 DEF IInv, TypeInv
<1>5. Alive' = Alive
  BY <1>2, <1>3, <1>4, PluginsAssumption DEF Alive
<1>6. /\ pc' \in {"initialize", "process", "idle"}
      /\ todo' \subseteq inMatrix
      /\ pc' = "initialize" => todo' = todo \ {x}
      /\ pc' = "process" => todo = {x}
  BY <1>1, ThroughOne
<1>7. TypeInv'
  <2>1. memory' \subseteq Memory
    BY <1>1, <1>3, <1>4, OwnedIsMemory DEF IInv, TypeInv
  <2>2. block' \in [Block -> BlockState \cup {Nobody}]
    BY <1>1, <1>3 DEF IInv, TypeInv
  <2> QED
    BY <1>1, <1>5, <1>6, <2>1, <2>2 DEF IInv, TypeInv
<1>8. PassInv'
  <2>1. \A y \in inMatrix : y \in Block
    BY DEF IInv, TypeInv, Alive
  <2>2. \A y \in inMatrix : y \notin todo \/ y = x => block'[y].initialized
    BY <1>1, <1>3, <1>4, <2>1 DEF IInv, PassInv
  <2> QED
    BY <1>1, <1>6, <2>2 DEF PassInv
<1>9. ASSUME misfits' = {}, NEW y \in Remaining'
      PROVE  Sound(y)'
  <2>1. misfits = {} /\ b.type \in Allowed(b.class)
    BY <1>1, <1>9
  <2>2. y \in Alive /\ Sound(y)
    BY <1>1, <1>5, <1>6, <1>9, <2>1 DEF IInv, Remaining
  <2>3. CASE y = x
    <3>1. c.proc # Garbage /\ c.proc = b.type /\ b.type \in SignalTypes
      BY <1>3, <2>1, DynamicAssumption DEF Allowed, SignalTypes
    <3>2. HasPortArray(c) => c.numPorts = c.size /\ c.ports \in memory'
                             /\ c.ports[1] = x /\ c.ports[2] = "ports"
      BY <1>1, <1>3, <2>2, <2>3 DEF Sound, Mine, HasPortArray, b
    <3>3. ASSUME c.class \in {"Fork", "Arithmetic", "BlockInterleaver"}
          PROVE  /\ c.object = Object(b, x, runs)
                 /\ c.object \in memory'
                 /\ c.object[1] = x /\ c.object[2] = "object"
                 /\ c.class = "BlockInterleaver" => c.object[4] = c.proc
      <4>1. c.object = Object(b, x, runs)
        BY <1>3, <2>1, <3>3 DEF MakesObject
      <4>2. Object(b, x, runs) \in Memory
        BY <1>2, <3>1 DEF Object, Memory
      <4>3. c.object \in Owned(c)
        BY <4>1, <4>2, DynamicAssumption DEF Owned
      <4>4. c.object[1] = x /\ c.object[2] = "object"
        BY <4>1 DEF Object
      <4>5. c.class = "BlockInterleaver" => c.object[4] = c.proc
        BY <1>3, <3>1, <4>1 DEF Object
      <4> QED
        BY <1>1, <1>4, <4>1, <4>3, <4>4, <4>5
    <3> QED
      BY <1>4, <2>3, <3>1, <3>2, <3>3 DEF Sound, Mine
  <2>4. CASE y # x
    <3>1. block'[y] = block[y]
      BY <1>4, <2>2, <2>4 DEF Alive
    <3> QED
      BY <1>1, <2>2, <3>1, SoundStays
  <2> QED
    BY <2>3, <2>4
<1>10. CrashesForAReason'
  BY <1>6 DEF CrashesForAReason
<1> QED
  BY <1>7, <1>8, <1>9, <1>10 DEF IInv

LEMMA StepFailToInitialize ==
    ASSUME IInv, NEW x \in Block, FailToInitialize(x)
    PROVE  IInv'
<1> DEFINE c == Abandoned(block[x], x, runs)
<1>1. /\ pc = "initialize" /\ pc' \in {"thrown", "aborted"}
      /\ x \in todo /\ todo' = {} /\ Throws(block[x])
      /\ block' = [block EXCEPT ![x] = c]
      /\ memory' = memory \cup Owned(block'[x])
      /\ UNCHANGED <<searching, factory, inMatrix, runs, misfits, unloaded>>
  BY DEF FailToInitialize, loaderVars
<1>2. x \in Alive /\ block[x] \in BlockState /\ runs \in Nat
  BY <1>1 DEF IInv, TypeInv, Alive
<1>3. /\ c \in BlockState
      /\ c = [block[x] EXCEPT !.object = IF HasPortArray(block[x]) THEN <<x, "object", runs, "any">>
                                         ELSE @]
  BY <1>1, <1>2, AbandonedState
<1> HIDE DEF c
<1>4. block'[x] = c /\ \A y \in Block : y # x => block'[y] = block[y]
  BY <1>1 DEF IInv, TypeInv
<1>5. Alive' = Alive
  BY <1>2, <1>3, <1>4, PluginsAssumption DEF Alive
<1>6. TypeInv'
  <2>1. memory' \subseteq Memory
    BY <1>1, <1>3, <1>4, OwnedIsMemory DEF IInv, TypeInv
  <2>2. block' \in [Block -> BlockState \cup {Nobody}]
    BY <1>1, <1>3 DEF IInv, TypeInv
  <2> QED
    BY <1>1, <1>5, <2>1, <2>2 DEF IInv, TypeInv
<1>7. ASSUME misfits = {}, NEW y \in Alive
      PROVE  Sound(y)'
  <2>1. Sound(y)
    BY <1>1, <1>7 DEF IInv, Remaining
  <2>2. CASE y = x
    <3>1. /\ c.class = block[x].class /\ c.size = block[x].size
          /\ c.numPorts = block[x].numPorts /\ c.ports = block[x].ports
          /\ c.initialized = block[x].initialized /\ c.proc = block[x].proc
          /\ ~HasPortArray(block[x]) => c.object = block[x].object
          /\ HasPortArray(block[x]) => c.object = <<x, "object", runs, "any">>
      BY <1>2, <1>3 DEF BlockState
    <3>2. HasPortArray(block[x]) => c.object \in memory'
      <4>1. <<x, "object", runs, "any">> \in Memory
        BY <1>2 DEF Memory
      <4> QED
        BY <1>1, <1>4, <3>1, <4>1, DynamicAssumption DEF Owned
    <3>3. block[x].class = "BlockInterleaver" => ~HasPortArray(block[x])
      BY DEF HasPortArray
    <3>4. HasPortArray(c) <=> HasPortArray(block[x])
      BY <3>1 DEF HasPortArray
    <3>5. c.initialized /\ HasPortArray(block[x]) =>
             c.object \in memory' /\ c.object[1] = x /\ c.object[2] = "object"
      BY <3>1, <3>2
    <3> QED
      BY <1>1, <1>4, <2>1, <2>2, <3>1, <3>3, <3>4, <3>5 DEF Sound, Mine
  <2>3. CASE y # x
    <3>1. block'[y] = block[y]
      BY <1>4, <2>3 DEF Alive
    <3> QED
      BY <1>1, <2>1, <3>1, SoundStays
  <2> QED
    BY <2>2, <2>3
<1> QED
  BY <1>1, <1>5, <1>6, <1>7 DEF IInv, PassInv, CrashesForAReason, Remaining

LEMMA StepProcessBlock ==
    ASSUME IInv, NEW x \in Block, ProcessBlock(x)
    PROVE  IInv'
<1>1. /\ pc = "process" /\ x \in todo
      /\ UNCHANGED <<searching, factory, block, inMatrix, runs, misfits, memory, unloaded>>
      /\ IF block[x].proc = Garbage THEN pc' = "crashed" /\ UNCHANGED todo ELSE Through(x)
  BY DEF ProcessBlock, loaderVars
<1>2. /\ pc' \in {"process", "idle", "crashed"}
      /\ todo' \subseteq inMatrix
      /\ pc' = "crashed" => block[x].proc = Garbage
  <2>1. todo \subseteq inMatrix
    BY <1>1 DEF IInv, PassInv
  <2> QED
    BY <1>1, <2>1, ThroughOne
<1>3. TypeInv' /\ Alive' = Alive /\ \A y : Sound(y) => Sound(y)'
  <2>1. todo' \subseteq Alive
    BY <1>2 DEF IInv, TypeInv
  <2> QED
    BY <1>1, <2>1, Untouched DEF IInv
<1>4. PassInv'
  BY <1>1, <1>2 DEF IInv, PassInv
<1>5. misfits = {} => \A y \in Alive : Sound(y)
  BY <1>1 DEF IInv, Remaining
<1>6. CrashesForAReason'
  <2>1. x \in Alive /\ block[x].initialized
    BY <1>1 DEF IInv, TypeInv, PassInv
  <2>2. pc' = "crashed" => misfits # {}
    BY <1>2, <1>5, <2>1 DEF Sound
  <2> QED
    BY <1>1, <2>2 DEF CrashesForAReason
<1>7. misfits' = {} => \A y \in Remaining' : Sound(y)'
  BY <1>1, <1>2, <1>3, <1>5 DEF Remaining
<1> QED
  BY <1>3, <1>4, <1>6, <1>7 DEF IInv

LEMMA StepUnexpectedException ==
    ASSUME IInv, UnexpectedException
    PROVE  IInv'
<1>1. /\ pc = "idle" /\ pc' \in {"thrown", "aborted"}
      /\ UNCHANGED <<searching, factory, block, inMatrix, todo, runs, misfits, memory>>
  BY DEF UnexpectedException, loaderVars, blockVars
<1>2. TypeInv' /\ Alive' = Alive /\ \A x : Sound(x) => Sound(x)'
  BY <1>1, Untouched DEF IInv, TypeInv
<1> QED
  BY <1>1, <1>2 DEF IInv, PassInv, CrashesForAReason, Remaining

LEMMA StepExit ==
    ASSUME IInv, Exit
    PROVE  IInv'
<1>1. /\ pc \in {"idle", "thrown"} /\ pc' = "exit" /\ todo' = Alive
      /\ UNCHANGED <<searching, factory, block, inMatrix, runs, misfits, memory>>
  BY DEF Exit, loaderVars
<1>2. TypeInv' /\ Alive' = Alive /\ \A x : Sound(x) => Sound(x)'
  BY <1>1, Untouched DEF IInv
<1> QED
  BY <1>1, <1>2 DEF IInv, PassInv, CrashesForAReason, Remaining

\* A sound block goes without harm to the program, and takes nothing with it but what
\* is its own.
LEMMA SoundDeletion ==
    ASSUME NEW x \in Block, Sound(x), block[x] \in BlockState, memory \subseteq Memory
    PROVE  /\ ~Misfreed(block[x])
           /\ Freed(block[x]) \subseteq memory
           /\ \A m \in Freed(block[x]) : m[1] = x
<1> DEFINE b == block[x]
<1>1. HasPortArray(b) => Mine(b.ports, x, "ports")
  BY DEF Sound
<1>2. b.initialized => b.proc # Garbage
  BY DEF Sound
<1>3. b.initialized /\ b.class \in {"Fork", "Arithmetic", "BlockInterleaver"} =>
         Mine(b.object, x, "object")
  BY DEF Sound
<1>4. b.initialized /\ b.class = "BlockInterleaver" => b.object[4] = b.proc
  BY DEF Sound
<1> HIDE DEF b
<1>5. ~Misfreed(b)
  <2>1. DestructorFrees(b) \cap DestroyFrees(b) = {}
    BY <1>1, <1>3 DEF DestructorFrees, DestroyFrees, HasPortArray, Mine
  <2> QED
    BY <1>2, <1>4, <2>1 DEF Misfreed
<1>6. \A m \in Freed(b) : m \in memory /\ m[1] = x
  BY <1>1, <1>3 DEF Freed, DestructorFrees, DestroyFrees, HasPortArray, Mine
<1> QED
  BY <1>5, <1>6 DEF b

LEMMA StepDeleteBlock ==
    ASSUME IInv, NEW x \in Block, DeleteBlock(x)
    PROVE  IInv'
<1>1. /\ pc = "exit" /\ x \in todo /\ todo' = todo \ {x}
      /\ UNCHANGED <<searching, factory, block, inMatrix, runs, misfits, unloaded>>
  BY DEF DeleteBlock, loaderVars
<1>2. PICK p \in {pc, "crashed"}, m \in {memory, memory \ Freed(block[x])} :
         Deleted(block[x], p, m) /\ pc' = p /\ memory' = m
  BY DEF DeleteBlock
<1>3. pc' \in {"exit", "crashed"} /\ memory' \in {memory, memory \ Freed(block[x])}
  BY <1>1, <1>2
<1>4. x \in Alive /\ block[x] \in BlockState /\ memory \subseteq Memory
  BY <1>1 DEF IInv, TypeInv, Alive
<1>5. misfits = {} => Sound(x)
  BY <1>1 DEF IInv, Remaining
<1>6. Alive' = Alive
  BY <1>1 DEF Alive
<1>7. TypeInv'
  BY <1>1, <1>3, <1>4, <1>6 DEF IInv, TypeInv
<1>8. PassInv'
  BY <1>3 DEF PassInv
<1>9. ASSUME misfits' = {}, pc' # "crashed", NEW y \in Remaining'
      PROVE  Sound(y)'
  <2>1. misfits = {} /\ y \in todo /\ y # x
    BY <1>1, <1>3, <1>9 DEF Remaining
  <2>2. Sound(x) /\ Sound(y)
    BY <1>1, <1>5, <2>1 DEF IInv, Remaining
  <2>3. \A m1 \in Freed(block[x]) : m1[1] = x
    BY <1>4, <2>2, SoundDeletion
  <2>4. \A m1 \in memory : m1[1] = y => m1 \in memory'
    BY <1>3, <2>1, <2>3
  <2> QED
    BY <1>1, <2>2, <2>4, SoundStays
<1>10. CrashesForAReason'
  <2>1. ASSUME misfits = {}, ~unloaded
        PROVE  pc' # "crashed"
    <3>1. ~Misfreed(block[x]) /\ Freed(block[x]) \subseteq memory
      BY <1>4, <1>5, <2>1, SoundDeletion
    <3> QED
      BY <1>1, <1>2, <2>1, <3>1 DEF Deleted
  <2> QED
    BY <1>1, <2>1 DEF CrashesForAReason
<1> QED
  BY <1>7, <1>8, <1>9, <1>10 DEF IInv

LEMMA StepExited ==
    ASSUME IInv, Exited
    PROVE  IInv'
<1>1. /\ pc = "exit" /\ todo = {} /\ pc' = "ended"
      /\ UNCHANGED <<searching, factory, block, inMatrix, todo, runs, misfits, memory>>
  BY DEF Exited, loaderVars, blockVars
<1>2. TypeInv' /\ Alive' = Alive
  BY <1>1, Untouched DEF IInv
<1> QED
  BY <1>1, <1>2 DEF IInv, PassInv, CrashesForAReason, Remaining

LEMMA StepStutter ==
    ASSUME IInv, UNCHANGED vars
    PROVE  IInv'
<1>1. UNCHANGED <<searching, factory, block, inMatrix, todo, runs, misfits, memory, pc, unloaded>>
  BY DEF vars, loaderVars, blockVars
<1>2. TypeInv' /\ Alive' = Alive /\ \A x : Sound(x) => Sound(x)'
  BY <1>1, Untouched DEF IInv, TypeInv
<1>3. CrashesForAReason'
  BY <1>1, <1>2 DEF IInv, CrashesForAReason
<1>4. PassInv' /\ Remaining' = Remaining
  BY <1>1, <1>2 DEF IInv, PassInv, Remaining
<1> QED
  BY <1>1, <1>2, <1>3, <1>4 DEF IInv

LEMMA Initially ==
    ASSUME Init
    PROVE  IInv
<1>1. Alive = {} /\ block \in [Block -> BlockState \cup {Nobody}]
  BY DEF Init, Alive
<1>2. searching \in Seq(CallState) /\ \A id \in DOMAIN factory : factory[id] \in Files
  <2>1. searching = <<>> /\ DOMAIN factory = {}
    BY DEF Init, LoaderInit
  <2> QED
    BY <2>1, ShortSequences
<1>3. TypeInv
  BY <1>1, <1>2 DEF Init, TypeInv
<1> QED
  BY <1>1, <1>3 DEF Init, IInv, PassInv, CrashesForAReason, Remaining

-----------------------------------------------------------------------------
(* The theorem *)

\* What deleting blocks relies on holds in every state of every program: as long as no run
\* has found a block with a signal it cannot take, each block that is left owns the memory
\* its destructors (dynamic.hpp, block_Fork.cpp, block_Arithmetic.cpp,
\* block_BlockInterleaver.cpp) give back; also after an exception that has left some blocks
\* initialized and one with an object but uninitialized (exec_matrix.cpp, CallInit).
THEOREM BlocksStaySound == Spec => []IInv
<1>1. IInv /\ [Next]_vars => IInv'
  BY StepLoadBlocks, StepUnexpectedException, StepAddBlock, StepRefuseBlock, StepRun,
     StepInitializeBlock, StepFailToInitialize, StepProcessBlock, StepDeleteBlock,
     StepExit, StepExited, StepStutter
     DEF Next, Ended
<1> QED
  BY <1>1, Initially, PTL DEF Spec

\* Blocks and plugins crash no program but for one of the reasons CrashesForAReason names,
\* whatever plugins there are, however many blocks it makes of them, however often it runs
\* and wherever an exception ends a run: what a program does with its blocks one by one
\* (plugboard.cpp, dynamic.hpp, block_ptr.cpp) is safe otherwise.  The passes over the matrix
\* of another run, which dereference a null pointer (exec_matrix.cpp), are not among this.
THEOREM CrashesExplained == Spec => []CrashesForAReason
<1>1. IInv => CrashesForAReason
  BY DEF IInv
<1> QED
  BY <1>1, BlocksStaySound, PTL
-----------------------------------------------------------------------------
(* Which creator made a block *)

\* What a program knows of its creators it does not forget, and which one made a block it
\* keeps in mind.
MadeInv ==
    /\ DOMAIN made = Block
    /\ \A x \in Alive : made[x] \in DOMAIN factory /\ block[x].class = factory[made[x]].class

\* Loading plugins adds to the creators and replaces none.
LEMMA CreatorsStay ==
    ASSUME LoadBlocks, NEW id \in DOMAIN factory
    PROVE  id \in DOMAIN factory' /\ factory'[id] = factory[id]
<1>1. \/ factory' = factory
      \/ \E f \in Head(searching).left : Register(Id(f), f)
  BY DEF LoadBlocks, LoadDir, TakeEntry, Skip, Load, Descend, LoadDirReturns
<1>2. ASSUME NEW f, Register(Id(f), f)
      PROVE  id \in DOMAIN factory' /\ factory'[id] = factory[id]
  BY <1>2 DEF Register, Extended
<1> QED
  BY <1>1, <1>2

\* A run may set the first input's type of the blocks it places, if it had none, may give
\* ports a buffer, and leaves alone what the blocks have beside it.
LEMMA RunBlocks ==
    ASSUME IInv, NEW placed \in SUBSET Alive, NEW n \in {0, 1},
           NEW types \in [placed -> SignalTypes \cup {"empty"}],
           NEW open \in [placed -> SUBSET {"before", "after"}], Run(placed, types, open, n),
           NEW x \in Alive
    PROVE  /\ block'[x] \in BlockState
           /\ block'[x].class = block[x].class
           /\ HasPortArray(block[x]) /\ block[x].numPorts = block[x].size =>
                 /\ block'[x].numPorts = block[x].numPorts
                 /\ block'[x].ports = block[x].ports
           /\ ~HasPortArray(block[x]) => block'[x].ports = block[x].ports
           /\ block'[x].size = block[x].size
           /\ block'[x].configured = block[x].configured
           /\ block'[x].initialized = block[x].initialized
           /\ block'[x].object = block[x].object
           /\ block[x].type # "empty" => block'[x].type = block[x].type
<1> DEFINE t == TypeInRun(block[x], types[x])
           b == [block[x] EXCEPT !.type = t, !.open = open[x]]
<1>1. x \in Block /\ block[x] \in BlockState /\ runs' \in Nat
  <2>1. x \in Block /\ block[x] \in BlockState /\ runs \in Nat
    BY DEF IInv, TypeInv, Alive
  <2>2. runs' = runs + 1
    BY DEF Run
  <2> QED
    BY <2>1, <2>2
<1>2. block'[x] = IF x \notin placed THEN block[x]
                  ELSE IF block[x].class = "Fork" THEN SetUp(b, x, runs') ELSE b
  BY <1>1 DEF Run
<1>3. CASE x \notin placed
  BY <1>1, <1>2, <1>3
<1>4. CASE x \in placed
  <2>1. /\ t \in SignalTypes \cup {"empty"} /\ (block[x].type # "empty" => t = block[x].type)
        /\ open[x] \in SUBSET {"before", "after"}
    BY <1>1, <1>4 DEF TypeInRun, BlockState
  <2> HIDE DEF t
  <2>2. /\ b \in BlockState
        /\ b.class = block[x].class /\ b.size = block[x].size
        /\ b.configured = block[x].configured /\ b.initialized = block[x].initialized
        /\ b.numPorts = block[x].numPorts /\ b.ports = block[x].ports
        /\ b.object = block[x].object /\ b.type = t
    BY <1>1, <2>1 DEF BlockState
  <2> DEFINE s == SetUp(b, x, runs')
  <2>3. block'[x] = s \/ block'[x] = b
    BY <1>2, <1>4
  <2>4. HasPortArray(b) <=> HasPortArray(block[x])
    BY <2>2 DEF HasPortArray
  <2>5. /\ s \in BlockState /\ s.class = b.class /\ s.size = b.size
        /\ s.initialized = b.initialized /\ s.object = b.object
        /\ b.numPorts = b.size => s = b
    <3> HIDE DEF b
    <3> QED
      BY <1>1, <2>2, SetUpState
  <2>6. s.configured = b.configured /\ s.type = b.type /\ (~HasPortArray(b) => s = b)
    <3> HIDE DEF b
    <3> QED
      BY <1>1, <2>2 DEF SetUp, BlockState
  <2> HIDE DEF s, b
  <2> QED
    BY <2>1, <2>2, <2>3, <2>4, <2>5, <2>6
<1> QED
  BY <1>3, <1>4

\* The only blocks that come or go without a crash are those that are added.
LEMMA AddedBlock ==
    ASSUME IInv, NEW x \in Block, NEW id \in DOMAIN factory, NEW size \in Counts,
           AddBlock(x, id, size)
    PROVE  /\ x \notin Alive /\ Alive' = Alive \cup {x}
           /\ \A y \in Alive : block'[y] = block[y]
           /\ block'[x] \in BlockState
           /\ block'[x].class = factory[id].class
           /\ block'[x].configured /\ ~block'[x].initialized
           /\ block'[x].object = Garbage
           /\ HasPortArray(block'[x]) => /\ block'[x].numPorts = block'[x].size
                                         /\ block'[x].ports = <<x, "ports", runs, "any">>
           /\ ~HasPortArray(block'[x]) => block'[x].ports = Garbage
<1> DEFINE b == NewBlock(factory[id].class, size, TRUE)
           c == SetUp(b, x, runs)
<1>1. factory[id].class \in STRING /\ runs \in Nat
  BY LoaderAssumption DEF IInv, TypeInv, Entry
<1>2. /\ b \in BlockState
      /\ b.numPorts = 0 /\ b.size = size /\ size # 0 /\ ~b.initialized /\ b.configured
      /\ b.class = factory[id].class /\ b.ports = Garbage /\ b.object = Garbage
  <2>1. b \in BlockState
    BY <1>1, NewBlockState
  <2>2. size # 0
    BY DynamicAssumption
  <2> QED
    BY <2>1, <2>2 DEF NewBlock
<1> HIDE DEF b
<1>3. /\ c \in BlockState /\ c.class = b.class /\ ~c.initialized /\ c.object = b.object
      /\ HasPortArray(c) => c.numPorts = c.size /\ c.ports = <<x, "ports", runs, "any">>
  BY <1>1, <1>2, SetUpState
<1>4. c.configured /\ (~HasPortArray(c) => c.ports = Garbage)
  BY <1>2 DEF SetUp, BlockState, HasPortArray
<1>5. x \notin Alive /\ block' = [block EXCEPT ![x] = c]
  BY DEF AddBlock, MayMake, b
<1> HIDE DEF c
<1>6. block'[x] = c /\ \A y \in Block : y # x => block'[y] = block[y]
  BY <1>5 DEF IInv, TypeInv
<1>7. Alive' = Alive \cup {x}
  BY <1>3, <1>6, PluginsAssumption DEF Alive
<1> QED
  BY <1>2, <1>3, <1>4, <1>5, <1>6, <1>7 DEF Alive

\* What initialize does to a block, and to no other.
LEMMA InitializedBlock ==
    ASSUME IInv, NEW x \in Block, InitializeBlock(x)
    PROVE  /\ x \in Alive /\ x \in todo /\ pc = "initialize" /\ Alive' = Alive
           /\ \A y \in Alive : y # x => block'[y] = block[y]
           /\ block[x] \in BlockState
           /\ block'[x] = Initialize(block[x], x, runs)
           /\ pc' = "initialize" => todo' = todo \ {x}
           /\ pc' = "process" => todo = {x}
           /\ pc' \in {"initialize", "process", "idle"}
           /\ memory' = memory \cup Owned(block'[x])
           /\ UNCHANGED <<factory, made, inMatrix, runs>>
<1>1. /\ pc = "initialize" /\ x \in todo /\ Through(x)
      /\ block' = [block EXCEPT ![x] = Initialize(block[x], x, runs)]
      /\ memory' = memory \cup Owned(block'[x])
      /\ UNCHANGED <<factory, made, inMatrix, runs>>
  BY DEF InitializeBlock, loaderVars
<1>2. x \in Alive /\ block[x] \in BlockState /\ runs \in Nat
  BY <1>1 DEF IInv, TypeInv, Alive
<1>3. Initialize(block[x], x, runs) \in BlockState
  BY <1>2, InitializeState
<1>4. block'[x] = Initialize(block[x], x, runs) /\ \A y \in Block : y # x => block'[y] = block[y]
  BY <1>1 DEF IInv, TypeInv
<1>5. Alive' = Alive
  BY <1>2, <1>3, <1>4, PluginsAssumption DEF Alive
<1>6. /\ pc' \in {"initialize", "process", "idle"}
      /\ pc' = "initialize" => todo' = todo \ {x}
      /\ pc' = "process" => todo = {x}
  BY <1>1, ThroughOne
<1> QED
  BY <1>1, <1>2, <1>4, <1>5, <1>6 DEF Alive

\* What an exception of its initialize makes of a block, and of no other.
LEMMA AbandonedBlock ==
    ASSUME IInv, NEW x \in Block, FailToInitialize(x)
    PROVE  /\ x \in Alive /\ pc = "initialize" /\ Alive' = Alive
           /\ \A y \in Alive : y # x => block'[y] = block[y]
           /\ block[x] \in BlockState /\ Throws(block[x])
           /\ block'[x] = [block[x] EXCEPT !.object = IF HasPortArray(block[x])
                                                      THEN <<x, "object", runs, "any">> ELSE @]
           /\ pc' \in {"thrown", "aborted"}
           /\ memory' = memory \cup Owned(block'[x])
           /\ UNCHANGED <<factory, made, runs>>
<1>1. /\ pc = "initialize" /\ x \in todo /\ Throws(block[x])
      /\ block' = [block EXCEPT ![x] = Abandoned(block[x], x, runs)]
      /\ memory' = memory \cup Owned(block'[x])
      /\ pc' \in {"thrown", "aborted"}
      /\ UNCHANGED <<factory, made, runs>>
  BY DEF FailToInitialize, loaderVars
<1>2. x \in Alive /\ block[x] \in BlockState /\ runs \in Nat
  BY <1>1 DEF IInv, TypeInv, Alive
<1>3. /\ Abandoned(block[x], x, runs) \in BlockState
      /\ Abandoned(block[x], x, runs) =
            [block[x] EXCEPT !.object = IF HasPortArray(block[x]) THEN <<x, "object", runs, "any">>
                                        ELSE @]
  BY <1>1, <1>2, AbandonedState
<1>4. /\ block'[x] = Abandoned(block[x], x, runs)
      /\ \A y \in Block : y # x => block'[y] = block[y]
  BY <1>1 DEF IInv, TypeInv
<1>5. Alive' = Alive
  BY <1>2, <1>3, <1>4, PluginsAssumption DEF Alive
<1> QED
  BY <1>1, <1>2, <1>3, <1>4, <1>5 DEF Alive

\* A block that is refused leaves no trace, unless its deletion crashes the program.
LEMMA RefusedBlock ==
    ASSUME IInv, NEW x \in Block, NEW id \in DOMAIN factory, NEW size \in Counts,
           NEW configured \in BOOLEAN, RefuseBlock(x, id, size, configured)
    PROVE  /\ pc = "idle" /\ memory' = memory /\ UNCHANGED <<factory, inMatrix, todo, runs>>
           /\ \/ pc' = pc /\ UNCHANGED <<block, made>>
              \/ /\ pc' = "crashed" /\ Alive' = Alive \cup {x} /\ x \notin Alive
                 /\ \A y \in Alive : block'[y] = block[y] /\ made'[y] = made[y]
                 /\ block'[x].class = factory[id].class
                 /\ made' = [made EXCEPT ![x] = id]
<1> DEFINE b == NewBlock(factory[id].class, size, configured)
<1>1. factory[id].class \in STRING
  BY LoaderAssumption DEF IInv, TypeInv, Entry
<1>2. b \in BlockState /\ b.class = factory[id].class /\ Freed(b) \subseteq {Garbage}
  <2>1. b.class = factory[id].class
    BY DEF NewBlock
  <2> QED
    BY <1>1, <2>1, FreshBlock, NewBlockState
<1>3. pc = "idle" /\ x \notin Alive /\ UNCHANGED <<factory, inMatrix, todo, runs>>
  BY DEF RefuseBlock, MayMake, loaderVars
<1> HIDE DEF b
<1>4. PICK p \in {pc, "crashed"}, m \in {memory, memory \ Freed(b)} :
         /\ pc' = p /\ memory' = m
         /\ block' = IF p = "crashed" THEN [block EXCEPT ![x] = b] ELSE block
         /\ made' = IF p = "crashed" THEN [made EXCEPT ![x] = id] ELSE made
  BY DEF RefuseBlock, b
<1>5. memory' = memory
  <2>1. Garbage \notin memory
    BY DynamicAssumption DEF IInv, TypeInv
  <2>2. memory \ Freed(b) = memory
    BY <1>2, <2>1
  <2> QED
    BY <1>4, <2>2
<1>6. CASE p = "crashed"
  <2>1. block'[x] = b /\ \A y \in Block : y # x => block'[y] = block[y]
    BY <1>4, <1>6 DEF IInv, TypeInv
  <2>2. Alive' = Alive \cup {x}
    BY <1>2, <2>1, PluginsAssumption DEF Alive
  <2>3. \A y : y # x => made'[y] = made[y]
    BY <1>4, <1>6
  <2> QED
    BY <1>2, <1>3, <1>4, <1>5, <1>6, <2>1, <2>2, <2>3 DEF Alive
<1>7. CASE p # "crashed"
  BY <1>3, <1>4, <1>5, <1>7
<1> QED
  BY <1>6, <1>7

LEMMA MadeStep ==
    ASSUME IInv, MadeInv, [Next]_vars
    PROVE  MadeInv'
<1>1. CASE LoadBlocks
  <2>1. UNCHANGED <<block, made>>
    BY <1>1 DEF LoadBlocks, blockVars
  <2> QED
    BY <1>1, <2>1, CreatorsStay DEF MadeInv, Alive
<1>2. ASSUME NEW x \in Block, NEW id \in DOMAIN factory, NEW size \in Counts,
             AddBlock(x, id, size)
      PROVE  MadeInv'
  <2>1. made' = [made EXCEPT ![x] = id] /\ factory' = factory
    BY <1>2 DEF AddBlock, loaderVars
  <2>2. DOMAIN made' = Block /\ made'[x] = id /\ \A y \in Alive : y # x => made'[y] = made[y]
    BY <2>1 DEF MadeInv, Alive
  <2>3. /\ x \notin Alive /\ Alive' = Alive \cup {x}
        /\ \A y \in Alive : block'[y] = block[y]
        /\ block'[x].class = factory[id].class
    BY <1>2, AddedBlock
  <2> QED
    BY <2>1, <2>2, <2>3 DEF MadeInv
<1>3. ASSUME NEW x \in Block, NEW id \in DOMAIN factory, NEW size \in Counts,
             NEW configured \in BOOLEAN, RefuseBlock(x, id, size, configured)
      PROVE  MadeInv'
  <2>1. CASE UNCHANGED <<block, made, factory>>
    BY <2>1 DEF MadeInv, Alive
  <2>2. CASE /\ factory' = factory /\ Alive' = Alive \cup {x} /\ x \notin Alive
             /\ \A y \in Alive : block'[y] = block[y] /\ made'[y] = made[y]
             /\ block'[x].class = factory[id].class
             /\ made' = [made EXCEPT ![x] = id]
    <3>1. DOMAIN made' = Block /\ made'[x] = id
      BY <2>2 DEF MadeInv
    <3> QED
      BY <2>2, <3>1 DEF MadeInv
  <2> QED
    BY <1>3, <2>1, <2>2, RefusedBlock
<1>4. ASSUME NEW placed \in SUBSET Alive, NEW n \in {0, 1},
             NEW types \in [placed -> SignalTypes \cup {"empty"}],
             NEW open \in [placed -> SUBSET {"before", "after"}], Run(placed, types, open, n)
      PROVE  MadeInv'
  <2>1. \A x \in Alive : block'[x] \in BlockState /\ block'[x].class = block[x].class
    BY <1>4, RunBlocks
  <2>2. \A x \in Block \ Alive : block'[x] = block[x]
    BY <1>4 DEF Run
  <2>3. Alive' = Alive
    BY <2>1, <2>2, PluginsAssumption DEF Alive
  <2>4. UNCHANGED <<made, factory>>
    BY <1>4 DEF Run, loaderVars
  <2> QED
    BY <2>1, <2>3, <2>4 DEF MadeInv
<1>5. ASSUME NEW x \in Block, InitializeBlock(x)
      PROVE  MadeInv'
  <2>1. /\ x \in Alive /\ Alive' = Alive /\ block[x] \in BlockState /\ runs \in Nat
        /\ \A y \in Alive : y # x => block'[y] = block[y]
        /\ block'[x] = Initialize(block[x], x, runs)
        /\ UNCHANGED <<factory, made>>
    BY <1>5, InitializedBlock DEF IInv, TypeInv
  <2>2. block'[x].class = block[x].class
    BY <2>1, InitializeState
  <2> QED
    BY <2>1, <2>2 DEF MadeInv
<1>6. CASE UNCHANGED <<block, made, factory>>
  BY <1>6 DEF MadeInv, Alive
<1>7. ASSUME NEW x \in Block, ProcessBlock(x) \/ DeleteBlock(x)
      PROVE  UNCHANGED <<block, made, factory>>
  BY <1>7 DEF ProcessBlock, DeleteBlock, loaderVars
<1>8. UnexpectedException \/ Exit \/ Exited \/ Ended \/ UNCHANGED vars =>
         UNCHANGED <<block, made, factory>>
  BY DEF UnexpectedException, Exit, Exited, Ended, vars, loaderVars, blockVars
<1>9. ASSUME NEW x \in Block, FailToInitialize(x)
      PROVE  MadeInv'
  <2>1. /\ x \in Alive /\ Alive' = Alive /\ block[x] \in BlockState
        /\ \A y \in Alive : y # x => block'[y] = block[y]
        /\ block'[x] = [block[x] EXCEPT !.object = IF HasPortArray(block[x])
                                                   THEN <<x, "object", runs, "any">> ELSE @]
        /\ UNCHANGED <<factory, made>>
    BY <1>9, AbandonedBlock
  <2>2. block'[x].class = block[x].class
    BY <2>1 DEF BlockState
  <2> QED
    BY <2>1, <2>2 DEF MadeInv
<1> QED
  BY <1>1, <1>2, <1>3, <1>4, <1>5, <1>6, <1>7, <1>8, <1>9 DEF Next

\* A name of a block means the same class all through a program: loading more plugins in
\* between, by Factory::Register (factory.hpp), changes no creator that is there.
THEOREM OneClassPerName == Spec => []SameTypeSameClass
<1>1. Init => MadeInv
  BY DEF Init, MadeInv, Alive
<1>2. IInv /\ MadeInv /\ [Next]_vars => MadeInv'
  BY MadeStep
<1>3. MadeInv => SameTypeSameClass
  BY DEF MadeInv, SameTypeSameClass
<1> QED
  BY <1>1, <1>2, <1>3, BlocksStaySound, PTL DEF Spec

-----------------------------------------------------------------------------
(* Functions and memory that fit the signal *)

Fits(x) ==
    LET b == block[x]
    IN b.type \in Allowed(b.class) =>
           /\ b.proc = b.type
           /\ MakesObject(b) => b.object = Object(b, x, runs) /\ b.object \in memory

\* It holds of a block from the moment the run has initialized it.
FitInv ==
    /\ pc = "initialize" => \A x \in inMatrix \ todo : Fits(x)
    /\ pc = "process" => \A x \in inMatrix : Fits(x)

\* initialize gives a block what fits its signal, if it can take it.
LEMMA InitializeFits ==
    ASSUME IInv, NEW x \in Block, InitializeBlock(x)
    PROVE  Fits(x)'
<1> DEFINE b == block[x]
           c == Initialize(b, x, runs)
<1>1. /\ b \in BlockState /\ runs \in Nat
      /\ block'[x] = c /\ memory' = memory \cup Owned(block'[x]) /\ runs' = runs
  BY InitializedBlock DEF IInv, TypeInv
<1>2. /\ c.class = b.class
      /\ b.type \in Allowed(b.class) => c.proc = b.type
      /\ MakesObject(b) => c.object = Object(b, x, runs)
  <2> HIDE DEF b
  <2> QED
    BY <1>1, InitializeState
<1>3. c.type = b.type
  BY <1>1 DEF Initialize, BlockState
<1> HIDE DEF c, b
<1>4. (MakesObject(c) <=> MakesObject(b)) /\ Object(c, x, runs) = Object(b, x, runs)
  BY <1>2, <1>3 DEF MakesObject, Object
<1>5. ASSUME b.type \in Allowed(b.class), MakesObject(b)
      PROVE  c.object \in memory'
  <2>1. b.type \in SignalTypes
    BY <1>5 DEF Allowed, SignalTypes
  <2>2. Object(b, x, runs) \in Memory
    BY <1>1, <2>1 DEF Object, Memory
  <2>3. c.object \in Owned(c)
    BY <1>2, <1>5, <2>2, DynamicAssumption DEF Owned
  <2> QED
    BY <1>1, <2>3
<1> QED
  BY <1>1, <1>2, <1>3, <1>4, <1>5 DEF Fits

LEMMA FitStep ==
    ASSUME IInv, FitInv, [Next]_vars
    PROVE  FitInv'
<1>1. ASSUME NEW x \in Block, InitializeBlock(x)
      PROVE  FitInv'
  <2>1. /\ x \in todo /\ pc = "initialize"
        /\ \A y \in Alive : y # x => block'[y] = block[y]
        /\ pc' = "initialize" => todo' = todo \ {x}
        /\ pc' = "process" => todo = {x}
        /\ memory \subseteq memory'
        /\ inMatrix' = inMatrix /\ runs' = runs
    BY <1>1, InitializedBlock
  <2>2. inMatrix \subseteq Alive
    BY DEF IInv, TypeInv
  <2>3. ASSUME NEW y \in inMatrix \ todo
        PROVE  Fits(y)'
    <3>1. Fits(y) /\ block'[y] = block[y]
      BY <2>1, <2>2, <2>3 DEF FitInv
    <3> QED
      BY <2>1, <3>1 DEF Fits
  <2>4. Fits(x)'
    BY <1>1, InitializeFits
  <2>5. pc' \in {"initialize", "process"} => \A y \in inMatrix : y \in todo' \/ Fits(y)'
    BY <1>1, <2>1, <2>3, <2>4, InitializedBlock
  <2>6. pc' = "process" => \A y \in inMatrix : Fits(y)'
    BY <2>1, <2>3, <2>4
  <2> QED
    BY <2>1, <2>5, <2>6 DEF FitInv
<1>2. ASSUME NEW x \in Block, ProcessBlock(x)
      PROVE  FitInv'
  <2>1. /\ pc = "process" /\ UNCHANGED <<block, inMatrix, runs, memory>>
    BY <1>2 DEF ProcessBlock
  <2>2. pc' \in {"process", "idle", "crashed"}
    BY <1>2 DEF ProcessBlock, Through, AfterPass
  <2> QED
    BY <2>1, <2>2 DEF FitInv, Fits
<1>3. ASSUME NEW placed \in SUBSET Alive, NEW n \in {0, 1},
             NEW types \in [placed -> SignalTypes \cup {"empty"}],
             NEW open \in [placed -> SUBSET {"before", "after"}], Run(placed, types, open, n)
      PROVE  FitInv'
  <2>1. pc' # "process" /\ (pc' = "initialize" => todo' = inMatrix')
    BY <1>3 DEF Run
  <2> QED
    BY <2>1 DEF FitInv
<1>4. CASE UNCHANGED <<pc, block, inMatrix, todo, runs, memory>>
  BY <1>4 DEF FitInv, Fits
<1>5. LoadBlocks \/ Ended \/ UNCHANGED vars => UNCHANGED <<pc, block, inMatrix, todo, runs, memory>>
  BY DEF LoadBlocks, Ended, vars, blockVars
<1>6. CASE pc' \notin {"initialize", "process"}
  BY <1>6 DEF FitInv
<1>7. /\ \A x, id, size : AddBlock(x, id, size) => pc' \notin {"initialize", "process"}
      /\ \A x, id, size, c : RefuseBlock(x, id, size, c) => pc' \notin {"initialize", "process"}
      /\ \A x : DeleteBlock(x) => pc' \notin {"initialize", "process"}
      /\ \A x : FailToInitialize(x) => pc' \notin {"initialize", "process"}
      /\ UnexpectedException \/ Exit \/ Exited => pc' \notin {"initialize", "process"}
  <2>1. \A x, id, size : AddBlock(x, id, size) => pc' \notin {"initialize", "process"}
    BY DEF AddBlock, MayMake
  <2>2. \A x, id, size, c : RefuseBlock(x, id, size, c) => pc' \notin {"initialize", "process"}
    BY DEF RefuseBlock, MayMake
  <2>3. \A x : DeleteBlock(x) => pc' \notin {"initialize", "process"}
    BY DEF DeleteBlock
  <2>4. \A x : FailToInitialize(x) => pc' \notin {"initialize", "process"}
    BY DEF FailToInitialize
  <2> QED
    BY <2>1, <2>2, <2>3, <2>4 DEF UnexpectedException, Exit, Exited
<1> QED
  BY <1>1, <1>2, <1>3, <1>4, <1>5, <1>6, <1>7 DEF Next

\* Whenever blocks are processed, each whose signal it can take has the function for
\* that type from this run's initialize (dynamic.hpp), and the object it works on was made in
\* this run, for that type, and has not been freed.
THEOREM FunctionsFit == Spec => []FitsItsSignal
<1>1. Init => FitInv
  BY DEF Init, FitInv
<1>2. IInv /\ FitInv /\ [Next]_vars => FitInv'
  BY FitStep
<1>3. FitInv => FitsItsSignal
  BY DEF FitInv, FitsItsSignal, Fits
<1> QED
  BY <1>1, <1>2, <1>3, BlocksStaySound, PTL DEF Spec

-----------------------------------------------------------------------------
(* Memory that is lost *)

Piece(m, x, what) == m \in Memory /\ m[1] = x /\ m[2] = what

\* What pc is until a program is at its end.
Underway == {"idle", "initialize", "process"}

\* What a block has reserved, and when it reserved the object it works on.
Owner(x) ==
    LET b == block[x]
    IN /\ b.configured
       /\ HasPortArray(b) => b.numPorts = b.size /\ Piece(b.ports, x, "ports")
       /\ ~HasPortArray(b) => b.ports = Garbage
       /\ b.object # Garbage =>
             /\ b.initialized \/ (Throws(b) /\ b.object[3] = runs /\ pc \notin Underway)
             /\ b.class \in {"Fork", "Arithmetic", "BlockInterleaver"}
             /\ Piece(b.object, x, "object")
             /\ b.object[3] <= runs
             /\ pc = "initialize" /\ x \in todo => b.object[3] < runs
             /\ IF b.class = "BlockInterleaver"
                THEN b.type \in SignalTypes /\ b.object[4] = b.type
                ELSE b.object[4] = "any"

\* What is in memory belongs to a block: its ports, its object, or an object that a later
\* run has replaced.
Kept(m) ==
    LET b == block[m[1]]
    IN /\ m[1] \in Alive
       /\ \/ HasPortArray(b) /\ m = b.ports
          \/ m = b.object
          \/ /\ m[2] = "object" /\ b.object # Garbage
             /\ m[3] < b.object[3] /\ m[4] = b.object[4]
       /\ pc \in {"exit", "ended"} /\ m[1] \notin todo => m \notin Freed(b)

LeakInv == pc # "crashed" => (\A x \in Alive : Owner(x)) /\ (\A m \in memory : Kept(m))

LEMMA OwnerStays ==
    ASSUME NEW x, Owner(x), block'[x] = block[x], runs' = runs,
           pc' \in Underway => pc \in Underway,
           pc' = "initialize" /\ x \in todo' => pc = "initialize" /\ x \in todo
    PROVE  Owner(x)'
BY DEF Owner

\* Outside of the end of the program.
LEMMA KeptStays ==
    ASSUME NEW m, Kept(m), block'[m[1]] = block[m[1]], m[1] \in Alive',
           pc' \notin {"exit", "ended"}
    PROVE  Kept(m)'
BY DEF Kept

\* Nothing is reserved but what a block says is its own.
LEMMA OwnedKept ==
    ASSUME NEW x, x \in Alive', Owner(x)', NEW m, m \in Owned(block'[x]),
           pc' \notin {"exit", "ended"}
    PROVE  Kept(m)'
<1>1. m # Garbage /\ (m = block'[x].ports \/ m = block'[x].object)
  BY DEF Owned
<1>2. CASE m = block'[x].ports
  <2>1. HasPortArray(block'[x])
    BY <1>1, <1>2 DEF Owner
  <2>2. m[1] = x
    BY <1>2, <2>1 DEF Owner, Piece
  <2> QED
    BY <1>2, <2>1, <2>2 DEF Kept
<1>3. CASE m = block'[x].object
  <2>1. m[1] = x
    BY <1>1, <1>3 DEF Owner, Piece
  <2> QED
    BY <1>3, <2>1 DEF Kept
<1> QED
  BY <1>1, <1>2, <1>3

LEMMA LeakAddBlock ==
    ASSUME IInv, LeakInv, NEW x \in Block, NEW id \in DOMAIN factory, NEW size \in Counts,
           AddBlock(x, id, size)
    PROVE  LeakInv'
<1>1. /\ pc = "idle" /\ pc' \in {"idle", "crashed"} /\ runs' = runs
      /\ memory' = memory \cup Owned(block'[x])
      /\ \A y \in Alive : Owner(y)
      /\ \A m \in memory : Kept(m)
  BY DEF LeakInv, AddBlock, MayMake
<1>2. /\ x \notin Alive /\ Alive' = Alive \cup {x}
      /\ \A y \in Alive : block'[y] = block[y]
      /\ block'[x].configured /\ block'[x].object = Garbage
      /\ HasPortArray(block'[x]) => /\ block'[x].numPorts = block'[x].size
                                    /\ block'[x].ports = <<x, "ports", runs, "any">>
      /\ ~HasPortArray(block'[x]) => block'[x].ports = Garbage
  BY AddedBlock
<1>3. Piece(<<x, "ports", runs, "any">>, x, "ports")
  BY DEF Piece, Memory, IInv, TypeInv
<1>4. Owner(x)'
  BY <1>2, <1>3 DEF Owner
<1>5. \A y \in Alive : Owner(y)'
  BY <1>1, <1>2, OwnerStays DEF Underway
<1>6. \A m \in memory : Kept(m)'
  <2> SUFFICES ASSUME NEW m \in memory PROVE Kept(m)'
    OBVIOUS
  <2>1. Kept(m) /\ m[1] \in Alive
    BY <1>1 DEF Kept
  <2> QED
    BY <1>1, <1>2, <2>1, KeptStays
<1>7. \A m \in Owned(block'[x]) : Kept(m)'
  BY <1>1, <1>2, <1>4, OwnedKept
<1> QED
  BY <1>1, <1>2, <1>4, <1>5, <1>6, <1>7 DEF LeakInv

LEMMA LeakRun ==
    ASSUME IInv, LeakInv, NEW placed \in SUBSET Alive, NEW n \in {0, 1},
           NEW types \in [placed -> SignalTypes \cup {"empty"}],
           NEW open \in [placed -> SUBSET {"before", "after"}], Run(placed, types, open, n)
    PROVE  LeakInv'
<1>1. /\ pc = "idle" /\ pc' \notin {"exit", "ended"} /\ runs' = runs + 1 /\ runs \in Nat
      /\ memory' = memory \cup UNION {Owned(block'[x]) : x \in placed}
      /\ \A y \in Alive : Owner(y)
      /\ \A m \in memory : Kept(m)
  BY DEF LeakInv, Run, IInv, TypeInv
<1>2. ASSUME NEW x \in Alive
      PROVE  /\ block'[x] \in BlockState
             /\ block'[x].class = block[x].class
             /\ block'[x].numPorts = block[x].numPorts
             /\ block'[x].ports = block[x].ports
             /\ block'[x].size = block[x].size
             /\ block'[x].configured = block[x].configured
             /\ block'[x].initialized = block[x].initialized
             /\ block'[x].object = block[x].object
             /\ block[x].type # "empty" => block'[x].type = block[x].type
  <2>1. HasPortArray(block[x]) => block[x].numPorts = block[x].size
    BY <1>1 DEF Owner
  <2>2. ~HasPortArray(block[x]) => block'[x].numPorts = block[x].numPorts
    <3>1. x \in Block /\ block[x] \in BlockState
      BY DEF IInv, TypeInv, Alive
    <3> QED
      BY <3>1 DEF Run, SetUp, HasPortArray, BlockState
  <2> QED
    BY <2>1, <2>2, RunBlocks
<1>3. Alive' = Alive
  <2>1. \A x \in Block \ Alive : block'[x] = block[x]
    BY DEF Run
  <2> QED
    BY <1>2, <2>1, PluginsAssumption DEF Alive
<1>4. ASSUME NEW x \in Alive
      PROVE  Owner(x)'
  <2>1. Owner(x)
    BY <1>1
  <2>2. HasPortArray(block'[x]) <=> HasPortArray(block[x])
    BY <1>2 DEF HasPortArray
  <2>3. block[x].object # Garbage => block[x].object[3] < runs'
    <3>1. block[x].object # Garbage => block[x].object[3] \in Nat /\ block[x].object[3] <= runs
      BY <2>1 DEF Owner, Piece, Memory
    <3> QED
      BY <1>1, <3>1
  <2>4. block[x].object # Garbage => block[x].object[3] <= runs'
    <3>1. block[x].object # Garbage => block[x].object[3] \in Nat /\ block[x].object[3] <= runs
      BY <2>1 DEF Owner, Piece, Memory
    <3> QED
      BY <1>1, <3>1
  <2>5. block[x].type \in SignalTypes => block'[x].type = block[x].type
    BY <1>2 DEF SignalTypes
  <2> QED
    BY <1>1, <1>2, <2>1, <2>2, <2>3, <2>4, <2>5 DEF Owner, Underway
<1>5. ASSUME NEW m \in memory
      PROVE  Kept(m)'
  <2>1. Kept(m) /\ m[1] \in Alive
    BY <1>1 DEF Kept
  <2>2. HasPortArray(block'[m[1]]) <=> HasPortArray(block[m[1]])
    BY <1>2, <2>1 DEF HasPortArray
  <2> QED
    BY <1>1, <1>2, <1>3, <2>1, <2>2 DEF Kept
<1>6. ASSUME NEW x \in placed, NEW m \in Owned(block'[x])
      PROVE  Kept(m)'
  BY <1>1, <1>3, <1>4, <1>6, OwnedKept
<1> QED
  BY <1>1, <1>3, <1>4, <1>5, <1>6 DEF LeakInv

LEMMA LeakInitialize ==
    ASSUME IInv, LeakInv, NEW x \in Block, InitializeBlock(x)
    PROVE  LeakInv'
<1> DEFINE b == block[x]
           c == Initialize(b, x, runs)
<1>1. /\ x \in Alive /\ x \in todo /\ pc = "initialize" /\ Alive' = Alive
      /\ \A y \in Alive : y # x => block'[y] = block[y]
      /\ b \in BlockState /\ block'[x] = c
      /\ pc' = "initialize" => todo' = todo \ {x}
      /\ pc' \in {"initialize", "process", "idle"}
      /\ memory' = memory \cup Owned(block'[x])
      /\ runs' = runs /\ runs \in Nat
  BY InitializedBlock DEF IInv, TypeInv
<1>2. Owner(x) /\ (\A y \in Alive : Owner(y)) /\ (\A m \in memory : Kept(m))
  BY <1>1 DEF LeakInv
<1>3. /\ c \in BlockState /\ c.initialized
      /\ c.class = b.class /\ c.size = b.size
      /\ c.numPorts = b.numPorts /\ c.ports = b.ports
      /\ MakesObject(b) => c.object = Object(b, x, runs)
  <2> HIDE DEF b
  <2> QED
    BY <1>1, InitializeState
<1>4. /\ c.type = b.type /\ c.configured = b.configured
      /\ ~MakesObject(b) => c.object = b.object
  BY <1>1 DEF Initialize, BlockState
<1> HIDE DEF c
<1>5. HasPortArray(c) <=> HasPortArray(b)
  BY <1>3 DEF HasPortArray
<1>6. ASSUME MakesObject(b)
      PROVE  /\ b.class \in {"Fork", "Arithmetic", "BlockInterleaver"}
             /\ Piece(c.object, x, "object")
             /\ c.object[3] = runs
             /\ IF b.class = "BlockInterleaver"
                THEN b.type \in SignalTypes /\ c.object[4] = b.type
                ELSE c.object[4] = "any"
  <2>1. b.class \in {"Fork", "Arithmetic", "BlockInterleaver"}
    BY <1>6 DEF MakesObject
  <2>2. b.class = "BlockInterleaver" => b.type \in SignalTypes
    BY <1>6 DEF MakesObject, Allowed, SignalTypes
  <2>3. c.object = <<x, "object", runs, IF b.class = "BlockInterleaver" THEN b.type ELSE "any">>
    BY <1>3, <1>6 DEF Object
  <2> DEFINE t == IF b.class = "BlockInterleaver" THEN b.type ELSE "any"
  <2>4. t \in SignalTypes \cup {"any"}
    BY <2>2
  <2>5. c.object = <<x, "object", runs, t>>
    BY <2>3
  <2> HIDE DEF t
  <2>6. Piece(c.object, x, "object") /\ c.object[3] = runs /\ c.object[4] = t
    BY <1>1, <2>4, <2>5 DEF Piece, Memory
  <2> QED
    BY <2>1, <2>2, <2>6 DEF t
<1> HIDE DEF b
<1>7. Owner(x)'
  <2>1. pc' = "initialize" => x \notin todo'
    BY <1>1
  <2>2. CASE MakesObject(b)
    <3>1. c.object[3] <= runs
      BY <1>1, <1>6, <2>2
    <3> QED
      BY <1>1, <1>2, <1>3, <1>4, <1>5, <1>6, <2>1, <2>2, <3>1 DEF Owner, b
  <2>3. CASE ~MakesObject(b)
    BY <1>1, <1>2, <1>3, <1>4, <1>5, <2>1, <2>3 DEF Owner, b
  <2> QED
    BY <2>2, <2>3
<1>8. ASSUME NEW y \in Alive
      PROVE  Owner(y)'
  <2>1. CASE y = x
    BY <1>7, <2>1
  <2>2. CASE y # x
    BY <1>1, <1>2, <2>2, OwnerStays DEF Underway
  <2> QED
    BY <2>1, <2>2
<1>9. ASSUME NEW m \in memory
      PROVE  Kept(m)'
  <2>1. Kept(m) /\ m[1] \in Alive /\ pc' \notin {"exit", "ended"}
    BY <1>1, <1>2 DEF Kept
  <2>2. CASE m[1] # x
    BY <1>1, <2>1, <2>2, KeptStays
  <2>3. CASE m[1] = x
    <3>1. CASE HasPortArray(b) /\ m = b.ports
      BY <1>1, <1>3, <1>5, <2>1, <2>3, <3>1 DEF Kept
    <3>2. CASE c.object = b.object /\ ~(HasPortArray(b) /\ m = b.ports)
      BY <1>1, <1>3, <1>5, <2>1, <2>3, <3>2 DEF Kept, b
    <3>3. CASE c.object # b.object /\ ~(HasPortArray(b) /\ m = b.ports)
      <4>1. MakesObject(b) /\ c.object[3] = runs /\ c.object # Garbage
        <5>1. MakesObject(b)
          BY <1>4, <3>3
        <5>2. c.object \in Memory
          BY <1>6, <5>1 DEF Piece
        <5> QED
          BY <1>6, <5>1, <5>2, DynamicAssumption
      <4>2. m \in Memory
        BY DEF IInv, TypeInv
      <4>3. m # Garbage
        BY <4>2, DynamicAssumption
      <4>4. b.object # Garbage /\ m[2] = "object" /\ m[4] = b.object[4] /\
            (m = b.object \/ m[3] < b.object[3])
        BY <1>2, <2>1, <2>3, <3>3, <4>3 DEF Kept, Owner, Piece, b
      <4>5. b.object[3] < runs /\ b.object \in Memory
        BY <1>1, <1>2, <4>4 DEF Owner, Piece, b
      <4>6. m[3] \in Nat /\ b.object[3] \in Nat
        BY <4>2, <4>5 DEF Memory
      <4>7. m[3] < c.object[3]
        BY <1>1, <4>1, <4>4, <4>5, <4>6
      <4>8. c.object[4] = b.object[4]
        BY <1>2, <1>6, <4>1, <4>4 DEF Owner, b
      <4> QED
        BY <1>1, <2>1, <2>3, <4>1, <4>4, <4>7, <4>8 DEF Kept
    <3> QED
      BY <3>1, <3>2, <3>3
  <2> QED
    BY <2>2, <2>3
<1>10. \A m \in Owned(block'[x]) : Kept(m)'
  BY <1>1, <1>7, OwnedKept
<1> QED
  BY <1>1, <1>8, <1>9, <1>10 DEF LeakInv

\* A block whose initialize throws owns what it has reserved, and nothing else is lost by it
\* but what it has replaced.
LEMMA LeakAbandon ==
    ASSUME IInv, LeakInv, NEW x \in Block, FailToInitialize(x)
    PROVE  LeakInv'
<1> DEFINE b == block[x]
           o == <<x, "object", runs, "any">>
           c == [b EXCEPT !.object = IF HasPortArray(b) THEN o ELSE @]
<1>1. /\ x \in Alive /\ x \in todo /\ pc = "initialize" /\ Alive' = Alive
      /\ \A y \in Alive : y # x => block'[y] = block[y]
      /\ b \in BlockState /\ Throws(b) /\ block'[x] = c
      /\ pc' \in {"thrown", "aborted"}
      /\ memory' = memory \cup Owned(block'[x])
      /\ runs' = runs /\ runs \in Nat
  BY AbandonedBlock DEF FailToInitialize, IInv, TypeInv
<1>2. (\A y \in Alive : Owner(y)) /\ (\A m \in memory : Kept(m))
  BY <1>1 DEF LeakInv
<1>3. Owner(x) /\ (b.object # Garbage => b.initialized)
  BY <1>1, <1>2 DEF Owner, Underway
<1>4. /\ c.class = b.class /\ c.size = b.size /\ c.type = b.type /\ c.open = b.open
      /\ c.numPorts = b.numPorts /\ c.ports = b.ports
      /\ c.configured = b.configured /\ c.initialized = b.initialized
      /\ c.object = IF HasPortArray(b) THEN o ELSE b.object
  BY <1>1 DEF BlockState
<1>5. /\ HasPortArray(c) <=> HasPortArray(b)
      /\ Throws(c)
  BY <1>1, <1>4 DEF HasPortArray, Throws
<1>6. Piece(o, x, "object") /\ o[3] = runs /\ o[4] = "any" /\ o # Garbage
  BY <1>1, DynamicAssumption DEF Piece, Memory
<1>7. pc' \notin Underway /\ pc' \notin {"exit", "ended"}
  BY <1>1 DEF Underway
<1> HIDE DEF o, c
<1>8. Owner(x)'
  <2>1. CASE HasPortArray(b)
    <3>1. c.object = o /\ c.class \in {"Fork", "Arithmetic"}
      BY <1>4, <2>1 DEF HasPortArray
    <3> QED
      BY <1>1, <1>3, <1>4, <1>5, <1>6, <1>7, <2>1, <3>1 DEF Owner
  <2>2. CASE ~HasPortArray(b)
    BY <1>1, <1>3, <1>4, <1>5, <1>7, <2>2 DEF Owner
  <2> QED
    BY <2>1, <2>2
<1>9. ASSUME NEW y \in Alive
      PROVE  Owner(y)'
  <2>1. CASE y = x
    BY <1>8, <2>1
  <2>2. CASE y # x
    BY <1>1, <1>2, <1>7, <2>2, OwnerStays
  <2> QED
    BY <2>1, <2>2
<1> HIDE DEF b
<1>10. ASSUME NEW m \in memory
       PROVE  Kept(m)'
  <2>1. Kept(m) /\ m[1] \in Alive
    BY <1>2 DEF Kept
  <2>2. CASE m[1] # x
    BY <1>1, <1>7, <2>1, <2>2, KeptStays
  <2>3. CASE m[1] = x
    <3>1. CASE HasPortArray(b) /\ m = b.ports
      BY <1>1, <1>4, <1>5, <1>7, <2>1, <2>3, <3>1 DEF Kept
    <3>2. CASE ~HasPortArray(b)
      BY <1>1, <1>4, <1>5, <1>7, <2>1, <2>3, <3>2 DEF Kept, b
    <3>3. CASE HasPortArray(b) /\ m # b.ports
      <4>1. m \in Memory /\ m # Garbage
        BY DynamicAssumption DEF IInv, TypeInv
      <4>2. b.object # Garbage /\ m[2] = "object" /\ m[4] = b.object[4] /\
            (m = b.object \/ m[3] < b.object[3])
        BY <1>3, <2>1, <2>3, <3>3, <4>1 DEF Kept, Owner, Piece, b
      <4>3. b.object[3] < runs /\ b.object \in Memory /\ b.object[4] = "any"
        BY <1>1, <1>3, <3>3, <4>2 DEF Owner, Piece, HasPortArray, b
      <4>4. m[3] \in Nat /\ b.object[3] \in Nat
        BY <4>1, <4>3 DEF Memory
      <4>5. m[3] < o[3]
        BY <1>1, <1>6, <4>2, <4>3, <4>4
      <4> QED
        BY <1>1, <1>4, <1>6, <1>7, <2>1, <2>3, <3>3, <4>2, <4>3, <4>5 DEF Kept
    <3> QED
      BY <3>1, <3>2, <3>3
  <2> QED
    BY <2>2, <2>3
<1>11. \A m \in Owned(block'[x]) : Kept(m)'
  BY <1>1, <1>7, <1>8, OwnedKept
<1> QED
  BY <1>1, <1>9, <1>10, <1>11 DEF LeakInv

LEMMA LeakDelete ==
    ASSUME IInv, LeakInv, NEW x \in Block, DeleteBlock(x)
    PROVE  LeakInv'
<1>1. /\ pc = "exit" /\ x \in todo /\ todo' = todo \ {x}
      /\ UNCHANGED <<block, runs>>
  BY DEF DeleteBlock
<1>2. PICK p \in {pc, "crashed"}, n \in {memory, memory \ Freed(block[x])} :
         Deleted(block[x], p, n) /\ pc' = p /\ memory' = n
  BY DEF DeleteBlock
<1> SUFFICES ASSUME pc' # "crashed" PROVE LeakInv'
  BY DEF LeakInv
<1>3. pc' = "exit" /\ memory' = memory \ Freed(block[x])
  BY <1>1, <1>2 DEF Deleted
<1>4. (\A y \in Alive : Owner(y)) /\ (\A m \in memory : Kept(m)) /\ Alive' = Alive
  BY <1>1 DEF LeakInv, Alive
<1>5. \A y \in Alive : Owner(y)'
  BY <1>1, <1>3, <1>4, OwnerStays DEF Underway
<1>6. ASSUME NEW m \in memory'
      PROVE  Kept(m)'
  <2>1. Kept(m) /\ m \notin Freed(block[x])
    BY <1>3, <1>4
  <2> QED
    BY <1>1, <1>3, <1>4, <2>1 DEF Kept
<1> QED
  BY <1>4, <1>5, <1>6 DEF LeakInv

LEMMA LeakStep ==
    ASSUME IInv, LeakInv, [Next]_vars
    PROVE  LeakInv'
<1>1. ASSUME UNCHANGED <<block, runs, memory>>, pc # "crashed",
             pc' \in Underway => pc \in Underway,
             pc' = "initialize" => pc = "initialize" /\ todo' \subseteq todo,
             pc' \in {"exit", "ended"} => \/ todo' = Alive
                                          \/ pc \in {"exit", "ended"} /\ todo' = todo
      PROVE  LeakInv'
  <2>1. (\A x \in Alive : Owner(x)) /\ (\A m \in memory : Kept(m)) /\ Alive' = Alive
    BY <1>1 DEF LeakInv, Alive
  <2>2. \A x \in Alive : Owner(x)'
    BY <1>1, <2>1, OwnerStays
  <2>3. ASSUME NEW m \in memory
        PROVE  Kept(m)'
    BY <1>1, <2>1 DEF Kept
  <2> QED
    BY <1>1, <2>1, <2>2, <2>3 DEF LeakInv
<1>2. LoadBlocks => LeakInv'
  <2> SUFFICES ASSUME LoadBlocks PROVE LeakInv'
    OBVIOUS
  <2>1. pc = "idle" /\ UNCHANGED <<pc, block, todo, runs, memory>>
    BY DEF LoadBlocks, LoadDir, TakeEntry, LoadDirReturns, blockVars
  <2> QED
    BY <1>1, <2>1
<1>3. ASSUME NEW x \in Block, NEW id \in DOMAIN factory, NEW size \in Counts,
             NEW configured \in BOOLEAN, RefuseBlock(x, id, size, configured)
      PROVE  LeakInv'
  <2>1. CASE pc' = "crashed"
    BY <2>1 DEF LeakInv
  <2>2. CASE pc' # "crashed"
    <3>1. pc = "idle" /\ UNCHANGED <<pc, block, todo, runs, memory>>
      BY <1>3, <2>2, RefusedBlock
    <3> QED
      BY <1>1, <3>1
  <2> QED
    BY <2>1, <2>2
<1>4. ASSUME NEW x \in Block, ProcessBlock(x)
      PROVE  LeakInv'
  <2>1. pc = "process" /\ UNCHANGED <<block, runs, memory>>
        /\ pc' \in {"process", "idle", "crashed"}
    BY <1>4 DEF ProcessBlock, Through, AfterPass
  <2> QED
    BY <1>1, <2>1 DEF Underway
<1>5. UnexpectedException \/ Exit \/ Exited => LeakInv'
  <2>1. Exit => LeakInv'
    BY <1>1 DEF Exit, Underway
  <2>2. Exited => LeakInv'
    <3> SUFFICES ASSUME Exited PROVE LeakInv'
      OBVIOUS
    <3>1. pc = "exit" /\ pc' = "ended" /\ UNCHANGED <<block, todo, runs, memory>>
      BY DEF Exited, blockVars
    <3> QED
      BY <1>1, <3>1 DEF Underway
  <2>3. UnexpectedException => LeakInv'
    <3> SUFFICES ASSUME UnexpectedException PROVE LeakInv'
      OBVIOUS
    <3>1. /\ pc = "idle" /\ pc' \in {"thrown", "aborted"}
          /\ UNCHANGED <<block, todo, runs, memory>>
      BY DEF UnexpectedException, blockVars
    <3> QED
      BY <1>1, <3>1 DEF Underway
  <2> QED
    BY <2>1, <2>2, <2>3
<1>6. Ended \/ UNCHANGED vars => LeakInv'
  <2> SUFFICES ASSUME UNCHANGED vars PROVE LeakInv'
    BY DEF Ended
  <2>1. UNCHANGED <<pc, block, todo, runs, memory>>
    BY DEF vars, blockVars
  <2> QED
    BY <2>1 DEF LeakInv, Owner, Kept, Alive
<1> QED
  BY <1>2, <1>3, <1>4, <1>5, <1>6, LeakAddBlock, LeakRun, LeakInitialize,
     LeakAbandon, LeakDelete DEF Next

\* A program that has ended has deleted all its blocks.
EndInv == pc = "ended" => todo = {}

LEMMA EndStep ==
    ASSUME EndInv, [Next]_vars
    PROVE  EndInv'
<1>1. \A x, id, size : AddBlock(x, id, size) => pc' # "ended"
  BY DEF AddBlock, MayMake
<1>2. \A x, id, size, c : RefuseBlock(x, id, size, c) => pc' # "ended"
  BY DEF RefuseBlock, MayMake
<1>3. \A p, types, open, n : Run(p, types, open, n) => pc' # "ended"
  BY DEF Run
<1>4. \A x : InitializeBlock(x) \/ FailToInitialize(x) \/ ProcessBlock(x) \/ DeleteBlock(x) =>
             pc' # "ended"
  BY DEF InitializeBlock, FailToInitialize, ProcessBlock, DeleteBlock, Through, AfterPass
<1>5. LoadBlocks \/ UnexpectedException => pc' # "ended"
  BY DEF LoadBlocks, LoadDir, TakeEntry, LoadDirReturns, UnexpectedException
<1>6. Exit \/ Exited \/ Ended \/ UNCHANGED vars => EndInv'
  BY DEF Exit, Exited, Ended, EndInv, vars, blockVars
<1> QED
  BY <1>1, <1>2, <1>3, <1>4, <1>5, <1>6 DEF Next, EndInv

\* What a program that has ended has not given back is an object that initialize replaced
\* in a later run, of the same block, the ports of a Fork that was never initialized
\* (block_Fork.cpp frees them in dynamic_delete alone), or the object of a block whose
\* initialize threw in the last run, before set_initialized (exec_matrix.cpp): adding,
\* refusing, running and deleting blocks lose nothing else.
THEOREM LeaksExplained == Spec => []LeaksForAReason
<1>1. Init => LeakInv
  BY DEF Init, LeakInv, Alive
<1>2. IInv /\ LeakInv /\ [Next]_vars => LeakInv'
  BY LeakStep
<1>3. IInv /\ LeakInv /\ EndInv => LeaksForAReason
  <2> SUFFICES ASSUME IInv, LeakInv, EndInv, pc = "ended", NEW m \in memory
               PROVE  LET b == block[m[1]]
                      IN \/ m[2] = "object" /\ \E r \in (m[3] + 1)..runs :
                                                  b.object = <<m[1], m[2], r, m[4]>>
                         \/ m[2] = "ports" /\ b.class = "Fork" /\ ~b.initialized
                         \/ m[2] = "object" /\ m[3] = runs /\ ~b.initialized /\ Throws(b)
    BY DEF LeaksForAReason
  <2> DEFINE b == block[m[1]]
  <2>1. Kept(m) /\ m[1] \in Alive /\ Owner(m[1]) /\ m \in Memory /\ todo = {}
    BY DEF LeakInv, Kept, IInv, TypeInv, EndInv
  <2>2. m \notin Freed(b) /\ m # Garbage /\ runs \in Nat
    BY <2>1, DynamicAssumption DEF Kept, IInv, TypeInv
  <2> HIDE DEF b
  <2>3. CASE HasPortArray(b) /\ m = b.ports
    <3>1. m[2] = "ports" /\ b.configured
      BY <2>1, <2>3 DEF Owner, Piece, b
    <3>2. b.class # "Arithmetic"
      BY <2>2, <2>3, <3>1 DEF Freed, DestructorFrees
    <3>3. b.class = "Fork" /\ ~b.initialized
      BY <2>2, <2>3, <3>2 DEF HasPortArray, Freed, DestroyFrees
    <3> QED
      BY <3>1, <3>3 DEF b
  <2>4. CASE m = b.object
    <3>1. /\ b.initialized \/ (Throws(b) /\ m[3] = runs)
          /\ b.class \in {"Fork", "Arithmetic", "BlockInterleaver"}
          /\ m[2] = "object"
      BY <2>1, <2>2, <2>4 DEF Owner, Piece, b
    <3>2. b.initialized => m \in Freed(b)
      BY <2>4, <3>1 DEF Freed, DestroyFrees
    <3>3. ~b.initialized /\ Throws(b) /\ m[3] = runs
      BY <2>2, <3>1, <3>2
    <3> QED
      BY <3>1, <3>3 DEF b
  <2>5. CASE /\ m[2] = "object" /\ b.object # Garbage
             /\ m[3] < b.object[3] /\ m[4] = b.object[4]
    <3> DEFINE o == b.object
               r == o[3]
    <3>1. o \in Memory /\ o[1] = m[1] /\ o[2] = "object" /\ r <= runs
      BY <2>1, <2>5 DEF Owner, Piece, b
    <3>2. r \in Nat /\ m[3] \in Nat
      BY <2>1, <3>1 DEF Memory
    <3>3. o = <<m[1], m[2], r, m[4]>>
      BY <2>5, <3>1 DEF Memory
    <3> HIDE DEF r
    <3>4. r \in (m[3] + 1)..runs
      BY <2>2, <2>5, <3>1, <3>2 DEF r
    <3> QED
      BY <2>5, <3>3, <3>4 DEF b
  <2> QED
    BY <2>1, <2>3, <2>4, <2>5 DEF Kept, b
<1>4. Init => EndInv
  BY DEF Init, EndInv
<1>5. EndInv /\ [Next]_vars => EndInv'
  BY EndStep
<1> QED
  BY <1>1, <1>2, <1>3, <1>4, <1>5, BlocksStaySound, PTL DEF Spec
=============================================================================
