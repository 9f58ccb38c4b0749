------------------------ MODULE LinearizationProofs ------------------------
(***************************************************************************)
(* What System::initialize makes of a matrix, whatever the number of       *)
(* blocks: linearize places every block reached once, behind those that    *)
(* feed it unless there is feedback; the passes combine chains, and leave  *)
(* no two stages that could be one.  These lemmas are about the actions of *)
(* Linearization; the modules that compose them say what follows.          *)
(***************************************************************************)
EXTENDS Linearization, SequenceTheorems, FiniteSetTheorems, TLAPS

-----------------------------------------------------------------------------
(* Sequences *)

LEMMA EndOf ==
    ASSUME NEW S, NEW s \in Seq(S), s # <<>>
    PROVE  /\ Len(s) \in Nat /\ Len(s) >= 1
           /\ DOMAIN s = 1..Len(s)
           /\ Head(s) = s[1] /\ s[1] \in S
           /\ Last(s) = s[Len(s)] /\ s[Len(s)] \in S
<1>1. Len(s) \in Nat /\ DOMAIN s = 1..Len(s) /\ Len(s) # 0
  BY LenProperties, EmptySeq
<1> QED
  BY <1>1, LenProperties DEF Last

LEMMA FrontOf ==
    ASSUME NEW S, NEW s \in Seq(S), s # <<>>
    PROVE  /\ Front(s) \in Seq(S)
           /\ Len(Front(s)) = Len(s) - 1
           /\ \A i \in 1..(Len(s) - 1) : Front(s)[i] = s[i]
<1>1. PICK n \in Nat : Len(s) = n /\ n >= 1
  BY EndOf
<1>2. \A i \in 1..(n - 1) : s[i] \in S
  BY <1>1, LenProperties
<1> DEFINE f == SubSeq(s, 1, n - 1)
<1>3. /\ f \in Seq(S)
      /\ Len(f) = IF 1 <= n - 1 THEN n - 1 - 1 + 1 ELSE 0
      /\ \A i \in 1..(n - 1 - 1 + 1) : f[i] = s[1 + i - 1]
  BY <1>2, SubSeqProperties
<1> HIDE DEF f
<1>4. f \in Seq(S) /\ Len(f) = n - 1 /\ \A i \in 1..(n - 1) : f[i] = s[i]
  BY <1>1, <1>3
<1> QED
  BY <1>1, <1>4 DEF Front, f

LEMMA Removed ==
    ASSUME NEW S, NEW s \in Seq(S), NEW n \in 1..Len(s)
    PROVE  /\ RemoveAt(s, n) \in Seq(S)
           /\ Len(RemoveAt(s, n)) = Len(s) - 1
           /\ \A i \in 1..(Len(s) - 1) : RemoveAt(s, n)[i] = IF i < n THEN s[i] ELSE s[i + 1]
<1> DEFINE a == SubSeq(s, 1, n - 1)
           b == SubSeq(s, n + 1, Len(s))
<1>1. Len(s) \in Nat /\ \A i \in 1..Len(s) : s[i] \in S
  BY LenProperties
<1>2. \A i \in 1..(n - 1) : s[i] \in S
  BY <1>1
<1>3. \A i \in (n + 1)..Len(s) : s[i] \in S
  BY <1>1
<1>4. n \in Nat /\ 1 \in Int /\ n - 1 \in Int /\ n + 1 \in Int /\ Len(s) \in Int
  BY <1>1
<1>5. /\ a \in Seq(S)
      /\ Len(a) = n - 1
      /\ \A i \in 1..(n - 1) : a[i] = s[i]
  <2>1. /\ a \in Seq(S)
        /\ Len(a) = IF 1 <= n - 1 THEN n - 1 - 1 + 1 ELSE 0
        /\ \A i \in 1..(n - 1 - 1 + 1) : a[i] = s[1 + i - 1]
    BY <1>2, <1>4, SubSeqProperties
  <2> QED
    BY <1>1, <2>1
<1>6. /\ b \in Seq(S)
      /\ Len(b) = Len(s) - n
      /\ \A i \in 1..(Len(s) - n) : b[i] = s[n + i]
  <2>1. /\ b \in Seq(S)
        /\ Len(b) = IF n + 1 <= Len(s) THEN Len(s) - (n + 1) + 1 ELSE 0
        /\ \A i \in 1..(Len(s) - (n + 1) + 1) : b[i] = s[n + 1 + i - 1]
    BY <1>3, <1>4, SubSeqProperties
  <2> QED
    BY <1>1, <2>1
<1> HIDE DEF a, b
<1>7. /\ a \o b \in Seq(S)
      /\ Len(a \o b) = Len(a) + Len(b)
      /\ \A i \in 1..(Len(a) + Len(b)) :
            (a \o b)[i] = IF i <= Len(a) THEN a[i] ELSE b[i - Len(a)]
  BY <1>5, <1>6, ConcatProperties
<1>8. \A i \in 1..(Len(s) - 1) : (a \o b)[i] = IF i < n THEN s[i] ELSE s[i + 1]
  <2> SUFFICES ASSUME NEW i \in 1..(Len(s) - 1)
               PROVE  (a \o b)[i] = IF i < n THEN s[i] ELSE s[i + 1]
    OBVIOUS
  <2>1. (a \o b)[i] = IF i <= n - 1 THEN a[i] ELSE b[i - (n - 1)]
    BY <1>1, <1>5, <1>6, <1>7
  <2>2. CASE i < n
    BY <1>4, <1>5, <2>1, <2>2
  <2>3. CASE ~(i < n)
    <3>1. i - (n - 1) \in 1..(Len(s) - n) /\ n + (i - (n - 1)) = i + 1 /\ ~(i <= n - 1)
      BY <1>1, <1>4, <2>3
    <3> QED
      BY <1>6, <2>1, <2>3, <3>1
  <2> QED
    BY <2>2, <2>3
<1>9. Len(a \o b) = Len(s) - 1
  BY <1>1, <1>4, <1>5, <1>6, <1>7
<1> QED
  BY <1>7, <1>8, <1>9 DEF RemoveAt, a, b

LEMMA Inserted ==
    ASSUME NEW S, NEW s \in Seq(S), NEW n \in 1..(Len(s) + 1), NEW e \in S
    PROVE  /\ InsertAt(s, n, e) \in Seq(S)
           /\ Len(InsertAt(s, n, e)) = Len(s) + 1
           /\ \A i \in 1..(Len(s) + 1) : InsertAt(s, n, e)[i] =
                 IF i < n THEN s[i] ELSE IF i = n THEN e ELSE s[i - 1]
<1> DEFINE a == SubSeq(s, 1, n - 1)
           b == SubSeq(s, n, Len(s))
           c == <<e>>
<1>1. Len(s) \in Nat /\ \A i \in 1..Len(s) : s[i] \in S
  BY LenProperties
<1>2. \A i \in 1..(n - 1) : s[i] \in S
  BY <1>1
<1>3. \A i \in n..Len(s) : s[i] \in S
  BY <1>1
<1>4. n \in Nat /\ 1 \in Int /\ n - 1 \in Int /\ n \in Int /\ Len(s) \in Int
  BY <1>1
<1>5. /\ a \in Seq(S)
      /\ Len(a) = n - 1
      /\ \A i \in 1..(n - 1) : a[i] = s[i]
  <2>1. /\ a \in Seq(S)
        /\ Len(a) = IF 1 <= n - 1 THEN n - 1 - 1 + 1 ELSE 0
        /\ \A i \in 1..(n - 1 - 1 + 1) : a[i] = s[1 + i - 1]
    BY <1>2, <1>4, SubSeqProperties
  <2> QED
    BY <1>1, <2>1
<1>6. /\ b \in Seq(S)
      /\ Len(b) = Len(s) - n + 1
      /\ \A i \in 1..(Len(s) - n + 1) : b[i] = s[n + i - 1]
  <2>1. /\ b \in Seq(S)
        /\ Len(b) = IF n <= Len(s) THEN Len(s) - n + 1 ELSE 0
        /\ \A i \in 1..(Len(s) - n + 1) : b[i] = s[n + i - 1]
    BY <1>3, <1>4, SubSeqProperties
  <2> QED
    BY <1>1, <2>1
<1>7. c \in Seq(S) /\ Len(c) = 1 /\ c[1] = e
  OBVIOUS
<1> HIDE DEF a, b, c
<1>8. /\ a \o c \in Seq(S)
      /\ Len(a \o c) = n
      /\ \A i \in 1..n : (a \o c)[i] = IF i < n THEN s[i] ELSE e
  <2>1. /\ a \o c \in Seq(S)
        /\ Len(a \o c) = Len(a) + Len(c)
        /\ \A i \in 1..(Len(a) + Len(c)) :
              (a \o c)[i] = IF i <= Len(a) THEN a[i] ELSE c[i - Len(a)]
    BY <1>5, <1>7, ConcatProperties
  <2>2. Len(a) + Len(c) = n
    BY <1>4, <1>5, <1>7
  <2>3. ASSUME NEW i \in 1..n
        PROVE  (a \o c)[i] = IF i < n THEN s[i] ELSE e
    <3>1. CASE i < n
      BY <1>4, <1>5, <2>1, <2>2, <3>1
    <3>2. CASE ~(i < n)
      <4>1. i = n /\ i - Len(a) = 1 /\ ~(i <= Len(a))
        BY <1>4, <1>5, <3>2
      <4> QED
        BY <1>7, <2>1, <2>2, <3>2, <4>1
    <3> QED
      BY <3>1, <3>2
  <2> QED
    BY <2>1, <2>2, <2>3
<1> DEFINE d == a \o c
<1>d. d \in Seq(S)
  BY <1>8
<1> HIDE DEF d
<1>9. /\ d \o b \in Seq(S)
      /\ Len(d \o b) = Len(d) + Len(b)
      /\ \A i \in 1..(Len(d) + Len(b)) :
            (d \o b)[i] = IF i <= Len(d) THEN d[i] ELSE b[i - Len(d)]
  BY <1>6, <1>d, ConcatProperties
<1>10. Len(d) + Len(b) = Len(s) + 1
  BY <1>1, <1>4, <1>6, <1>8 DEF d
<1>11. ASSUME NEW i \in 1..(Len(s) + 1)
       PROVE  (d \o b)[i] = IF i < n THEN s[i] ELSE IF i = n THEN e ELSE s[i - 1]
  <2>1. (d \o b)[i] = IF i <= n THEN d[i] ELSE b[i - n]
    BY <1>8, <1>9, <1>10 DEF d
  <2>2. CASE i <= n
    BY <1>4, <1>8, <2>1, <2>2 DEF d
  <2>3. CASE ~(i <= n)
    <3>1. i - n \in 1..(Len(s) - n + 1) /\ n + (i - n) - 1 = i - 1 /\ ~(i < n) /\ i # n
      BY <1>1, <1>4, <2>3
    <3> QED
      BY <1>6, <2>1, <2>3, <3>1
  <2> QED
    BY <2>2, <2>3
<1> QED
  BY <1>9, <1>10, <1>11 DEF InsertAt, a, b, c, d

-----------------------------------------------------------------------------
(* Matrices and their places *)

Path == {p \in Seq(Block) : p # <<>>}
Stage == {st \in Seq(Path) : st # <<>>}
Matrix == Seq(Stage)

\* What is true of every matrix: stages have paths and paths have blocks.
LEMMA MatrixFacts ==
    ASSUME NEW s \in Matrix, NEW i \in DOMAIN s
    PROVE  /\ Len(s) \in Nat /\ DOMAIN s = 1..Len(s)
           /\ s[i] \in Stage /\ s[i] \in Seq(Path) /\ s[i] # <<>>
           /\ Len(s[i]) \in Nat /\ Len(s[i]) >= 1 /\ DOMAIN s[i] = 1..Len(s[i])
           /\ Head(s[i]) = s[i][1] /\ Last(s[i]) = s[i][Len(s[i])]
           /\ \A p \in DOMAIN s[i] :
                /\ s[i][p] \in Path /\ s[i][p] \in Seq(Block) /\ s[i][p] # <<>>
                /\ Len(s[i][p]) \in Nat /\ Len(s[i][p]) >= 1
                /\ DOMAIN s[i][p] = 1..Len(s[i][p])
                /\ Head(s[i][p]) = s[i][p][1] /\ Last(s[i][p]) = s[i][p][Len(s[i][p])]
                /\ \A k \in DOMAIN s[i][p] : s[i][p][k] \in Block
<1>1. Len(s) \in Nat /\ DOMAIN s = 1..Len(s) /\ s[i] \in Stage
  BY LenProperties DEF Matrix
<1>2. s[i] \in Seq(Path) /\ s[i] # <<>>
  BY <1>1 DEF Stage
<1>3. /\ Len(s[i]) \in Nat /\ Len(s[i]) >= 1 /\ DOMAIN s[i] = 1..Len(s[i])
      /\ Head(s[i]) = s[i][1] /\ Last(s[i]) = s[i][Len(s[i])]
  BY <1>2, EndOf
<1>4. ASSUME NEW p \in DOMAIN s[i]
      PROVE  /\ s[i][p] \in Path /\ s[i][p] \in Seq(Block) /\ s[i][p] # <<>>
             /\ Len(s[i][p]) \in Nat /\ Len(s[i][p]) >= 1
             /\ DOMAIN s[i][p] = 1..Len(s[i][p])
             /\ Head(s[i][p]) = s[i][p][1] /\ Last(s[i][p]) = s[i][p][Len(s[i][p])]
             /\ \A k \in DOMAIN s[i][p] : s[i][p][k] \in Block
  <2>1. s[i][p] \in Path
    BY <1>2, LenProperties
  <2>2. s[i][p] \in Seq(Block) /\ s[i][p] # <<>>
    BY <2>1 DEF Path
  <2> QED
    BY <2>1, <2>2, EndOf, LenProperties
<1> QED
  BY <1>1, <1>2, <1>3, <1>4

LEMMA PlaceFacts ==
    ASSUME NEW s
    PROVE  /\ \A i, p, k : <<i, p, k>> \in PlacesIn(s) <=>
                 i \in DOMAIN s /\ p \in DOMAIN s[i] /\ k \in DOMAIN s[i][p]
           /\ \A x \in PlacesIn(s) :
                 /\ x = <<x[1], x[2], x[3]>>
                 /\ x[1] \in DOMAIN s
                 /\ x[2] \in DOMAIN s[x[1]]
                 /\ x[3] \in DOMAIN s[x[1]][x[2]]
           /\ \A i, p, k : BlockAt(s, <<i, p, k>>) = s[i][p][k]
BY DEF PlacesIn, BlockAt

\* Stage c becomes st, and stage n goes: what a step of the two passes does.
Gone(s, c, n, st) == RemoveAt([s EXCEPT ![c] = st], n)

IsGone(t, s, c, n, st) ==
    /\ t \in Matrix
    /\ Len(t) = Len(s) - 1
    /\ t[c] = st
    /\ \A i \in 1..(Len(s) - 1) : i # c => t[i] = IF i < n THEN s[i] ELSE s[i + 1]

LEMMA GoneFacts ==
    ASSUME NEW s \in Matrix, NEW c \in 1..Len(s), NEW n \in 1..Len(s), c < n, NEW st \in Stage
    PROVE  IsGone(Gone(s, c, n, st), s, c, n, st)
<1> DEFINE e == [s EXCEPT ![c] = st]
<1>1. Len(s) \in Nat
  BY LenProperties DEF Matrix
<1>2. /\ e \in Seq(Stage)
      /\ Len(e) = Len(s)
      /\ \A j \in 1..Len(s) : e[j] = IF j = c THEN st ELSE s[j]
  BY ExceptSeq DEF Matrix
<1> HIDE DEF e
<1>3. /\ RemoveAt(e, n) \in Seq(Stage)
      /\ Len(RemoveAt(e, n)) = Len(e) - 1
      /\ \A i \in 1..(Len(e) - 1) : RemoveAt(e, n)[i] = IF i < n THEN e[i] ELSE e[i + 1]
  BY <1>2, Removed
<1>4. c \in 1..(Len(s) - 1)
  BY <1>1
<1>5. RemoveAt(e, n)[c] = st
  BY <1>2, <1>3, <1>4
<1>6. ASSUME NEW i \in 1..(Len(s) - 1), i # c
      PROVE  RemoveAt(e, n)[i] = IF i < n THEN s[i] ELSE s[i + 1]
  <2>1. RemoveAt(e, n)[i] = IF i < n THEN e[i] ELSE e[i + 1]
    BY <1>2, <1>3
  <2>2. CASE i < n
    BY <1>1, <1>2, <1>6, <2>1, <2>2
  <2>3. CASE ~(i < n)
    BY <1>1, <1>2, <1>6, <2>1, <2>3
  <2> QED
    BY <2>2, <2>3
<1> QED
  BY <1>2, <1>3, <1>5, <1>6 DEF IsGone, Gone, Matrix, e

-----------------------------------------------------------------------------
(* Ports and connections *)

Link(a, b) == <<a, b>> \in connections /\ numOut[a] = 1 /\ numIn[b] = 1

\* What the ports of a system's blocks say of its connections: a block connected
\* to another is a Source, and one port has one connection.
PortsInv ==
    /\ connections \subseteq Block \X Block
    /\ \A e \in connections : IsSource(e[1])
    /\ \A e, f \in connections : numOut[e[1]] = 1 /\ f[1] = e[1] => f = e
    /\ \A e, f \in connections : numIn[e[2]] = 1 /\ f[2] = e[2] => f = e

\* The only block a link leads to, and the only one it leads from.
LEMMA LinkFacts ==
    ASSUME PortsInv, NEW a, NEW b, Link(a, b)
    PROVE  /\ a \in Block /\ b \in Block
           /\ \A c : <<a, c>> \in connections => c = b
           /\ \A c : <<c, b>> \in connections => c = a
<1>1. <<a, b>> \in connections /\ numOut[a] = 1 /\ numIn[b] = 1
  BY DEF Link
<1>2. a \in Block /\ b \in Block
  BY <1>1 DEF PortsInv
<1>3. ASSUME NEW c, <<a, c>> \in connections
      PROVE  c = b
  <2>1. <<a, b>>[1] = a /\ <<a, c>>[1] = a
    OBVIOUS
  <2>2. <<a, c>> = <<a, b>>
    BY <1>1, <1>3, <2>1 DEF PortsInv
  <2> QED
    BY <2>2
<1>4. ASSUME NEW c, <<c, b>> \in connections
      PROVE  c = a
  <2>1. <<a, b>>[2] = b /\ <<c, b>>[2] = b
    OBVIOUS
  <2>2. <<c, b>> = <<a, b>>
    BY <1>1, <1>4, <2>1 DEF PortsInv
  <2> QED
    BY <2>2
<1> QED
  BY <1>2, <1>3, <1>4

-----------------------------------------------------------------------------
(* Rearranging a matrix *)

DistinctIn(s) == \A x, y \in PlacesIn(s) : BlockAt(s, x) = BlockAt(s, y) => x = y
Has(s, b) == \E x \in PlacesIn(s) : BlockAt(s, x) = b
OrderedIn(s) ==
    \A x, y \in PlacesIn(s) : <<BlockAt(s, x), BlockAt(s, y)>> \in connections => Precedes(x, y)
ChainedIn(s) ==
    \A i \in DOMAIN s : \A p \in DOMAIN s[i] : \A k \in 1..(Len(s[i][p]) - 1) :
        Link(s[i][p][k], s[i][p][k + 1])

\* Matrix t has the blocks of s at other places: old[x] is where x was.
Rearranges(old, s, t) ==
    /\ \A x \in PlacesIn(t) : old[x] \in PlacesIn(s) /\ BlockAt(t, x) = BlockAt(s, old[x])
    /\ \A x, y \in PlacesIn(t) : old[x] = old[y] => x = y
    /\ \A y \in PlacesIn(s) : \E x \in PlacesIn(t) : old[x] = y

LEMMA Rearranged ==
    ASSUME NEW old, NEW s, NEW t, Rearranges(old, s, t)
    PROVE  /\ DistinctIn(s) => DistinctIn(t)
           /\ \A b : Has(s, b) <=> Has(t, b)
<1>1. ASSUME DistinctIn(s), NEW x \in PlacesIn(t), NEW y \in PlacesIn(t),
             BlockAt(t, x) = BlockAt(t, y)
      PROVE  x = y
  <2>1. old[x] = old[y]
    BY <1>1 DEF Rearranges, DistinctIn
  <2> QED
    BY <1>1, <2>1 DEF Rearranges
<1>2. ASSUME NEW b, Has(s, b)
      PROVE  Has(t, b)
  <2>1. PICK y \in PlacesIn(s) : BlockAt(s, y) = b
    BY <1>2 DEF Has
  <2>2. PICK x \in PlacesIn(t) : old[x] = y
    BY DEF Rearranges
  <2> QED
    BY <2>1, <2>2 DEF Has, Rearranges
<1>3. ASSUME NEW b, Has(t, b)
      PROVE  Has(s, b)
  BY <1>3 DEF Has, Rearranges
<1> QED
  BY <1>1, <1>2, <1>3 DEF DistinctIn

\* combine_stages: the block of stage n goes to the end of the only path of stage c.
Longer(s, c, n) == <<Append(s[c][1], s[n][1][1])>>
Combined(s, c, n) == Gone(s, c, n, Longer(s, c, n))
BeforeCombined(s, c, n) ==
    [x \in PlacesIn(Combined(s, c, n)) |->
        IF x[1] = c /\ x[3] = Len(s[c][1]) + 1 THEN <<n, 1, 1>>
        ELSE IF x[1] < n THEN x
        ELSE <<x[1] + 1, x[2], x[3]>>]

CanCombine(s, c, n) ==
    /\ s \in Matrix
    /\ c \in 1..Len(s)
    /\ n \in 1..Len(s)
    /\ c < n
    /\ Len(s[c]) = 1
    /\ Len(s[n]) = 1
    /\ Len(s[n][1]) = 1

LEMMA CombinedShape ==
    ASSUME NEW s, NEW c, NEW n, CanCombine(s, c, n)
    PROVE  LET t == Combined(s, c, n)
               l == Len(s[c][1])
           IN /\ t \in Matrix /\ Len(s) \in Nat /\ Len(t) = Len(s) - 1
              /\ DOMAIN s = 1..Len(s) /\ DOMAIN t = 1..(Len(s) - 1)
              /\ c \in Nat /\ n \in Nat /\ l \in Nat /\ l >= 1
              /\ c \in DOMAIN t
              /\ DOMAIN s[c] = {1} /\ DOMAIN s[c][1] = 1..l
              /\ DOMAIN s[n] = {1} /\ DOMAIN s[n][1] = {1}
              /\ Len(t[c]) = 1 /\ DOMAIN t[c] = {1}
              /\ Len(t[c][1]) = l + 1 /\ DOMAIN t[c][1] = 1..(l + 1)
              /\ \A k \in 1..l : t[c][1][k] = s[c][1][k]
              /\ t[c][1][l + 1] = s[n][1][1]
              /\ \A i \in DOMAIN t : i # c => t[i] = IF i < n THEN s[i] ELSE s[i + 1]
<1> DEFINE t == Combined(s, c, n)
           l == Len(s[c][1])
<1>1. /\ s \in Matrix /\ c \in DOMAIN s /\ n \in DOMAIN s
      /\ Len(s) \in Nat /\ DOMAIN s = 1..Len(s) /\ c < n
  BY LenProperties DEF CanCombine, Matrix
<1>2. /\ s[c] \in Seq(Path) /\ DOMAIN s[c] = 1..1
      /\ s[c][1] \in Seq(Block) /\ l \in Nat /\ l >= 1 /\ DOMAIN s[c][1] = 1..l
  BY <1>1, MatrixFacts DEF CanCombine
<1>3. /\ DOMAIN s[n] = 1..1 /\ DOMAIN s[n][1] = 1..1 /\ s[n][1][1] \in Block
  <2>1. DOMAIN s[n] = 1..1
    BY <1>1, MatrixFacts DEF CanCombine
  <2>2. 1 \in DOMAIN s[n]
    BY <2>1
  <2>3. DOMAIN s[n][1] = 1..1
    BY <1>1, <2>2, MatrixFacts DEF CanCombine
  <2>4. 1 \in DOMAIN s[n][1]
    BY <2>3
  <2> QED
    BY <1>1, <2>1, <2>2, <2>3, <2>4, MatrixFacts
<1> DEFINE q == Append(s[c][1], s[n][1][1])
<1>4. /\ q \in Seq(Block) /\ Len(q) = l + 1
      /\ \A k \in 1..l : q[k] = s[c][1][k]
      /\ q[l + 1] = s[n][1][1]
  BY <1>2, <1>3, AppendProperties
<1> HIDE DEF q
<1>5. q \in Path /\ DOMAIN q = 1..(l + 1)
  <2>1. q # <<>>
    BY <1>2, <1>4
  <2> QED
    BY <1>4, <2>1, LenProperties DEF Path
<1>6. <<q>> \in Stage /\ Len(<<q>>) = 1 /\ <<q>>[1] = q /\ DOMAIN <<q>> = {1}
  <2>1. <<q>> \in Seq(Path) /\ Len(<<q>>) = 1 /\ <<q>>[1] = q /\ DOMAIN <<q>> = 1..1
    BY <1>5
  <2> QED
    BY <2>1 DEF Stage
<1>7. Longer(s, c, n) = <<q>>
  BY DEF Longer, q
<1>8. /\ t \in Matrix
      /\ Len(t) = Len(s) - 1
      /\ t[c] = <<q>>
      /\ \A i \in 1..(Len(s) - 1) : i # c => t[i] = IF i < n THEN s[i] ELSE s[i + 1]
  <2> DEFINE st == <<q>>
  <2>1. t = Gone(s, c, n, st) /\ st \in Stage
    BY <1>6, <1>7 DEF Combined
  <2>2. c \in 1..Len(s) /\ n \in 1..Len(s)
    BY <1>1
  <2> HIDE DEF t, st
  <2>3. s \in Matrix /\ c < n
    BY <1>1 DEF CanCombine
  <2>4. IsGone(t, s, c, n, st)
    BY ONLY <2>1, <2>2, <2>3, GoneFacts
  <2> QED
    BY <2>4 DEF IsGone, st
<1> HIDE DEF t
<1>9. DOMAIN t = 1..(Len(s) - 1)
  BY <1>8, LenProperties DEF Matrix
<1>10. c \in DOMAIN t /\ c \in Nat /\ n \in Nat
  BY <1>1, <1>9
<1>11. 1..1 = {1}
  OBVIOUS
<1> HIDE DEF l
<1>12. /\ t \in Matrix /\ Len(s) \in Nat /\ Len(t) = Len(s) - 1
       /\ DOMAIN s = 1..Len(s) /\ DOMAIN t = 1..(Len(s) - 1)
       /\ c \in Nat /\ n \in Nat /\ l \in Nat /\ l >= 1
       /\ c \in DOMAIN t
       /\ DOMAIN s[c] = {1} /\ DOMAIN s[c][1] = 1..l
       /\ DOMAIN s[n] = {1} /\ DOMAIN s[n][1] = {1}
  BY <1>1, <1>2, <1>3, <1>8, <1>9, <1>10, <1>11
<1>13. /\ Len(t[c]) = 1 /\ DOMAIN t[c] = {1}
       /\ Len(t[c][1]) = l + 1 /\ DOMAIN t[c][1] = 1..(l + 1)
       /\ \A k \in 1..l : t[c][1][k] = s[c][1][k]
       /\ t[c][1][l + 1] = s[n][1][1]
  BY <1>4, <1>5, <1>6, <1>8
<1>14. \A i \in DOMAIN t : i # c => t[i] = IF i < n THEN s[i] ELSE s[i + 1]
  BY <1>8, <1>9
<1> QED
  BY <1>12, <1>13, <1>14 DEF t, l

LEMMA CombinedPlaces ==
    ASSUME NEW s, NEW c, NEW n, CanCombine(s, c, n)
    PROVE  LET t == Combined(s, c, n)
               l == Len(s[c][1])
               old == BeforeCombined(s, c, n)
           IN /\ Rearranges(old, s, t)
              /\ \A x \in PlacesIn(t) :
                    \/ x = <<c, 1, l + 1>> /\ old[x] = <<n, 1, 1>>
                    \/ x[1] < n /\ old[x] = x /\ x # <<c, 1, l + 1>>
                    \/ x[1] >= n /\ old[x] = <<x[1] + 1, x[2], x[3]>>
<1> DEFINE t == Combined(s, c, n)
           l == Len(s[c][1])
           old == BeforeCombined(s, c, n)
<1>0. c < n
  BY DEF CanCombine
<1>1. /\ Len(s) \in Nat
      /\ DOMAIN s = 1..Len(s) /\ DOMAIN t = 1..(Len(s) - 1)
      /\ c \in Nat /\ n \in Nat /\ l \in Nat /\ l >= 1
      /\ c \in DOMAIN t
  BY CombinedShape
<1>2. /\ DOMAIN s[c] = {1} /\ DOMAIN s[c][1] = 1..l
      /\ DOMAIN s[n] = {1} /\ DOMAIN s[n][1] = {1}
      /\ DOMAIN t[c] = {1} /\ DOMAIN t[c][1] = 1..(l + 1)
      /\ \A k \in 1..l : t[c][1][k] = s[c][1][k]
      /\ t[c][1][l + 1] = s[n][1][1]
  BY CombinedShape
<1>3. \A i \in DOMAIN t : i # c => t[i] = IF i < n THEN s[i] ELSE s[i + 1]
  BY CombinedShape
<1>4. n \in DOMAIN s
  BY <1>1 DEF CanCombine
<1>5. \A x \in PlacesIn(t) :
         old[x] = IF x[1] = c /\ x[3] = l + 1 THEN <<n, 1, 1>>
                  ELSE IF x[1] < n THEN x ELSE <<x[1] + 1, x[2], x[3]>>
  BY DEF BeforeCombined
<1> HIDE DEF t, l, old
<1>6. ASSUME NEW x \in PlacesIn(t)
      PROVE  /\ old[x] \in PlacesIn(s) /\ BlockAt(t, x) = BlockAt(s, old[x])
             /\ \/ x = <<c, 1, l + 1>> /\ old[x] = <<n, 1, 1>>
                \/ x[1] < n /\ old[x] = x /\ x # <<c, 1, l + 1>>
                \/ x[1] >= n /\ old[x] = <<x[1] + 1, x[2], x[3]>>
  <2>1. PICK i, p, k : x = <<i, p, k>>
    BY PlaceFacts
  <2>2. i \in DOMAIN t /\ p \in DOMAIN t[i] /\ k \in DOMAIN t[i][p]
    BY <2>1, PlaceFacts
  <2>3. x[1] = i /\ x[2] = p /\ x[3] = k
    BY <2>1
  <2>4. BlockAt(t, x) = t[i][p][k]
    BY <2>1, PlaceFacts
  <2>5. i \in Nat
    BY <1>1, <2>2
  <2>6. CASE i = c
    <3>1. p = 1 /\ k \in 1..(l + 1)
      BY <1>2, <2>2, <2>6
    <3>2. CASE k = l + 1
      <4>1. old[x] = <<n, 1, 1>> /\ x = <<c, 1, l + 1>>
        BY <1>5, <2>1, <2>3, <2>6, <3>1, <3>2
      <4>2. <<n, 1, 1>> \in PlacesIn(s) /\ BlockAt(s, <<n, 1, 1>>) = s[n][1][1]
        BY <1>2, <1>4, PlaceFacts
      <4> QED
        BY <1>2, <2>4, <2>6, <3>1, <3>2, <4>1, <4>2
    <3>3. CASE k # l + 1
      <4>1. old[x] = x
        BY <1>0, <1>5, <2>3, <2>6, <3>3
      <4>2. k \in 1..l
        BY <1>1, <3>1, <3>3
      <4>3. x \in PlacesIn(s) /\ BlockAt(s, x) = s[c][1][k]
        BY <1>1, <1>2, <2>1, <2>6, <3>1, <4>2, PlaceFacts
      <4>4. x # <<c, 1, l + 1>>
        BY <2>1, <3>3
      <4> QED
        BY <1>0, <1>2, <2>3, <2>4, <2>6, <3>1, <4>1, <4>2, <4>3, <4>4
    <3> QED
      BY <3>2, <3>3
  <2>7. CASE i # c /\ i < n
    <3>1. t[i] = s[i] /\ old[x] = x /\ x # <<c, 1, l + 1>>
      BY <1>3, <1>5, <2>1, <2>2, <2>3, <2>7
    <3>2. i \in DOMAIN s
      BY <1>1, <2>2
    <3>3. x \in PlacesIn(s) /\ BlockAt(s, x) = s[i][p][k]
      BY <2>1, <2>2, <3>1, <3>2, PlaceFacts
    <3> QED
      BY <2>3, <2>4, <2>7, <3>1, <3>3
  <2>8. CASE ~(i < n)
    <3>1. i # c
      BY <1>0, <2>8
    <3>2. t[i] = s[i + 1] /\ old[x] = <<i + 1, p, k>>
      BY <1>3, <1>5, <2>2, <2>3, <2>8, <3>1
    <3>3. i + 1 \in DOMAIN s
      BY <1>1, <2>2
    <3>4. <<i + 1, p, k>> \in PlacesIn(s) /\ BlockAt(s, <<i + 1, p, k>>) = s[i + 1][p][k]
      BY <2>2, <3>2, <3>3, PlaceFacts
    <3>5. i >= n
      BY <1>1, <2>5, <2>8
    <3> QED
      BY <2>3, <2>4, <3>2, <3>4, <3>5
  <2> QED
    BY <2>6, <2>7, <2>8
<1>7. ASSUME NEW x \in PlacesIn(t), NEW y \in PlacesIn(t), old[x] = old[y]
      PROVE  x = y
  <2>1. x = <<x[1], x[2], x[3]>> /\ y = <<y[1], y[2], y[3]>>
    BY PlaceFacts
  <2>2. x[1] \in Nat /\ y[1] \in Nat
    BY <1>1, PlaceFacts
  <2>3. CASE x = <<c, 1, l + 1>> /\ old[x] = <<n, 1, 1>>
    <3>1. old[y] = <<n, 1, 1>>
      BY <1>7, <2>3
    <3>2. old[y][1] = n
      BY <3>1
    <3>3. ~(y[1] < n /\ old[y] = y)
      BY <1>1, <2>2, <3>2
    <3>4. ~(y[1] >= n /\ old[y] = <<y[1] + 1, y[2], y[3]>>)
      BY <1>1, <2>2, <3>2
    <3> QED
      BY <1>6, <2>3, <3>3, <3>4
  <2>4. CASE x[1] < n /\ old[x] = x
    <3>1. old[y][1] < n
      BY <1>7, <2>4
    <3>2. old[y] # <<n, 1, 1>>
      BY <1>1, <3>1
    <3>3. ~(y[1] >= n /\ old[y] = <<y[1] + 1, y[2], y[3]>>)
      BY <1>1, <2>2, <3>1
    <3> QED
      BY <1>6, <1>7, <2>4, <3>2, <3>3
  <2>5. CASE x[1] >= n /\ old[x] = <<x[1] + 1, x[2], x[3]>>
    <3>1. old[y][1] = x[1] + 1
      BY <1>7, <2>5
    <3>2. old[y] # <<n, 1, 1>>
      BY <1>1, <2>2, <2>5, <3>1
    <3>3. ~(y[1] < n /\ old[y] = y)
      BY <1>1, <2>2, <2>5, <3>1
    <3>4. old[y] = <<y[1] + 1, y[2], y[3]>>
      BY <1>6, <3>2, <3>3
    <3>5. <<x[1] + 1, x[2], x[3]>> = <<y[1] + 1, y[2], y[3]>>
      BY <1>7, <2>5, <3>4
    <3>6. x[1] + 1 = y[1] + 1 /\ x[2] = y[2] /\ x[3] = y[3]
      BY ONLY <3>5
    <3> QED
      BY <2>1, <2>2, <3>6
  <2> QED
    BY <1>6, <2>3, <2>4, <2>5
<1>8. ASSUME NEW y \in PlacesIn(s)
      PROVE  \E x \in PlacesIn(t) : old[x] = y
  <2>1. PICK i, p, k : y = <<i, p, k>>
    BY PlaceFacts
  <2>2. i \in DOMAIN s /\ p \in DOMAIN s[i] /\ k \in DOMAIN s[i][p]
    BY <2>1, PlaceFacts
  <2>3. i \in Nat /\ i >= 1 /\ i <= Len(s)
    BY <1>1, <2>2
  <2>4. CASE i = n
    <3>1. y = <<n, 1, 1>>
      BY <1>2, <2>1, <2>2, <2>4
    <3>2. <<c, 1, l + 1>> \in PlacesIn(t)
      <4>1. c \in DOMAIN t /\ 1 \in DOMAIN t[c] /\ l + 1 \in DOMAIN t[c][1]
        BY <1>1, <1>2
      <4> QED
        BY ONLY <4>1, PlaceFacts
    <3>3. <<c, 1, l + 1>>[1] = c /\ <<c, 1, l + 1>>[3] = l + 1
      OBVIOUS
    <3>4. old[<<c, 1, l + 1>>] = <<n, 1, 1>>
      BY <1>5, <3>2, <3>3
    <3> QED
      BY <3>1, <3>2, <3>4
  <2>5. CASE i < n
    <3>1. y \in PlacesIn(t)
      <4>1. CASE i = c
        BY <1>1, <1>2, <2>1, <2>2, <4>1, PlaceFacts
      <4>2. CASE i # c
        <5>1. i \in DOMAIN t
          BY <1>1, <1>4, <2>3, <2>5
        <5>2. t[i] = s[i]
          BY <1>3, <2>5, <4>2, <5>1
        <5> QED
          BY <2>1, <2>2, <5>1, <5>2, PlaceFacts
      <4> QED
        BY <4>1, <4>2
    <3>2. ~(y[1] = c /\ y[3] = l + 1)
      BY <1>1, <1>2, <2>1, <2>2
    <3>3. y[1] < n
      BY <2>1, <2>5
    <3> QED
      BY <1>5, <3>1, <3>2, <3>3
  <2>6. CASE i > n
    <3>1. i - 1 \in DOMAIN t /\ i - 1 # c /\ ~(i - 1 < n) /\ (i - 1) + 1 = i
      BY <1>0, <1>1, <2>3, <2>6
    <3>2. t[i - 1] = s[i]
      BY <1>3, <3>1
    <3>3. <<i - 1, p, k>> \in PlacesIn(t)
      BY <2>2, <3>1, <3>2, PlaceFacts
    <3>4. /\ <<i - 1, p, k>>[1] = i - 1 /\ <<i - 1, p, k>>[2] = p /\ <<i - 1, p, k>>[3] = k
      OBVIOUS
    <3>5. old[<<i - 1, p, k>>] = <<i, p, k>>
      BY <1>5, <3>1, <3>3, <3>4
    <3> QED
      BY <2>1, <3>3, <3>5
  <2> QED
    BY <1>1, <2>3, <2>4, <2>5, <2>6
<1> QED
  BY <1>6, <1>7, <1>8 DEF Rearranges, t, l, old

LEMMA CombinedOrdered ==
    ASSUME NEW s, NEW c, NEW n, CanCombine(s, c, n), PortsInv, DistinctIn(s), OrderedIn(s),
           Link(s[c][1][Len(s[c][1])], s[n][1][1])
    PROVE  OrderedIn(Combined(s, c, n))
<1> DEFINE t == Combined(s, c, n)
           l == Len(s[c][1])
           old == BeforeCombined(s, c, n)
<1>0. c < n
  BY DEF CanCombine
<1>1. /\ DOMAIN s = 1..Len(s) /\ DOMAIN t = 1..(Len(s) - 1) /\ Len(s) \in Nat
      /\ c \in Nat /\ n \in Nat /\ l \in Nat /\ l >= 1
      /\ DOMAIN s[c] = {1} /\ DOMAIN s[c][1] = 1..l
      /\ DOMAIN s[n] = {1} /\ DOMAIN s[n][1] = {1}
  BY CombinedShape
<1>2. Rearranges(old, s, t)
  BY CombinedPlaces
<1>3. \A x \in PlacesIn(t) :
         \/ x = <<c, 1, l + 1>> /\ old[x] = <<n, 1, 1>>
         \/ x[1] < n /\ old[x] = x /\ x # <<c, 1, l + 1>>
         \/ x[1] >= n /\ old[x] = <<x[1] + 1, x[2], x[3]>>
  BY CombinedPlaces
<1>4. Link(s[c][1][l], s[n][1][1])
  OBVIOUS
<1>5. c \in DOMAIN s /\ n \in DOMAIN s
  BY <1>1 DEF CanCombine
<1> HIDE DEF t, l, old
<1> SUFFICES ASSUME NEW x \in PlacesIn(t), NEW y \in PlacesIn(t),
                    <<BlockAt(t, x), BlockAt(t, y)>> \in connections
             PROVE  Precedes(x, y)
  BY DEF OrderedIn, t
<1>6. /\ old[x] \in PlacesIn(s) /\ BlockAt(t, x) = BlockAt(s, old[x])
      /\ old[y] \in PlacesIn(s) /\ BlockAt(t, y) = BlockAt(s, old[y])
  BY <1>2 DEF Rearranges
<1>7. Precedes(old[x], old[y])
  BY <1>6 DEF OrderedIn
<1>8. x[1] \in Nat /\ y[1] \in Nat
  BY <1>1, PlaceFacts
<1>9. CASE y = <<c, 1, l + 1>> /\ old[y] = <<n, 1, 1>>
  <2>1. BlockAt(t, y) = s[n][1][1]
    BY <1>6, <1>9, PlaceFacts
  <2>2. BlockAt(s, old[x]) = s[c][1][l]
    BY <1>4, <1>6, <2>1, LinkFacts
  <2>3. <<c, 1, l>> \in PlacesIn(s) /\ BlockAt(s, <<c, 1, l>>) = s[c][1][l]
    BY <1>1, <1>5, PlaceFacts
  <2>4. old[x] = <<c, 1, l>>
    BY <1>6, <2>2, <2>3 DEF DistinctIn
  <2>5. old[x][1] = c
    BY <2>4
  <2>6. old[x] = x
    <3>1. old[x] # <<n, 1, 1>>
      BY <1>0, <1>1, <2>5
    <3>2. ~(x[1] >= n /\ old[x] = <<x[1] + 1, x[2], x[3]>>)
      BY <1>0, <1>1, <1>8, <2>5
    <3> QED
      BY <1>3, <3>1, <3>2
  <2> QED
    BY <1>1, <1>9, <2>4, <2>6 DEF Precedes
<1>10. CASE x = <<c, 1, l + 1>> /\ old[x] = <<n, 1, 1>> /\ y # <<c, 1, l + 1>>
  <2>1. old[y][1] > n
    <3>1. n < old[y][1] \/ (n = old[y][1] /\ 1 = old[y][2] /\ 1 < old[y][3])
      BY <1>7, <1>10 DEF Precedes
    <3>2. ~(n = old[y][1] /\ 1 = old[y][2] /\ 1 < old[y][3])
      BY <1>1, <1>6, PlaceFacts
    <3> QED
      BY <1>1, <1>6, <3>1, <3>2, PlaceFacts
  <2>2. y[1] >= n
    BY <1>1, <1>3, <1>8, <1>10, <2>1
  <2>3. c < y[1]
    BY <1>0, <1>1, <1>8, <2>2
  <2> QED
    BY <1>10, <2>3 DEF Precedes
<1>11. CASE x # <<c, 1, l + 1>> /\ y # <<c, 1, l + 1>>
  <2>1. CASE x[1] < n /\ old[x] = x
    <3>1. CASE y[1] < n /\ old[y] = y
      BY <1>7, <2>1, <3>1
    <3>2. CASE y[1] >= n
      BY <1>1, <1>8, <2>1, <3>2 DEF Precedes
    <3> QED
      BY <1>3, <1>11, <3>1, <3>2
  <2>2. CASE x[1] >= n /\ old[x] = <<x[1] + 1, x[2], x[3]>>
    <3>1. CASE y[1] < n /\ old[y] = y
      <4>1. ~Precedes(old[x], old[y])
        BY <1>1, <1>8, <2>2, <3>1 DEF Precedes
      <4> QED
        BY <1>7, <4>1
    <3>2. CASE y[1] >= n /\ old[y] = <<y[1] + 1, y[2], y[3]>>
      BY <1>7, <1>8, <2>2, <3>2 DEF Precedes
    <3> QED
      BY <1>3, <1>11, <3>1, <3>2
  <2> QED
    BY <1>3, <1>11, <2>1, <2>2
<1>12. ASSUME NEW z \in PlacesIn(t), z = <<c, 1, l + 1>>
       PROVE  old[z] = <<n, 1, 1>>
  <2>1. z[1] = c
    BY <1>12
  <2>2. ~(z[1] >= n)
    BY <1>0, <1>1, <2>1
  <2> QED
    BY <1>3, <1>12, <2>2
<1> QED
  BY <1>9, <1>10, <1>11, <1>12

LEMMA CombinedChained ==
    ASSUME NEW s, NEW c, NEW n, CanCombine(s, c, n), ChainedIn(s),
           Link(s[c][1][Len(s[c][1])], s[n][1][1])
    PROVE  ChainedIn(Combined(s, c, n))
<1> DEFINE t == Combined(s, c, n)
           l == Len(s[c][1])
<1>0. c < n
  BY DEF CanCombine
<1>1. /\ DOMAIN s = 1..Len(s) /\ DOMAIN t = 1..(Len(s) - 1) /\ Len(s) \in Nat
      /\ c \in Nat /\ n \in Nat /\ l \in Nat /\ l >= 1
      /\ DOMAIN s[c] = {1}
      /\ DOMAIN t[c] = {1} /\ Len(t[c][1]) = l + 1
      /\ \A k \in 1..l : t[c][1][k] = s[c][1][k]
      /\ t[c][1][l + 1] = s[n][1][1]
  BY CombinedShape
<1>2. \A i \in DOMAIN t : i # c => t[i] = IF i < n THEN s[i] ELSE s[i + 1]
  BY CombinedShape
<1>3. c \in DOMAIN s
  BY <1>1 DEF CanCombine
<1>4. Link(s[c][1][l], s[n][1][1])
  OBVIOUS
<1>5. \A k \in 1..(l - 1) : Link(s[c][1][k], s[c][1][k + 1])
  BY <1>1, <1>3 DEF ChainedIn, l
<1> HIDE DEF t, l
<1> SUFFICES ASSUME NEW i \in DOMAIN t, NEW p \in DOMAIN t[i], NEW k \in 1..(Len(t[i][p]) - 1)
             PROVE  Link(t[i][p][k], t[i][p][k + 1])
  BY DEF ChainedIn, t
<1>6. CASE i = c
  <2>1. p = 1 /\ k \in 1..l
    BY <1>1, <1>6
  <2>2. CASE k = l
    BY <1>1, <1>4, <1>6, <2>1, <2>2
  <2>3. CASE k # l
    <3>1. k \in 1..(l - 1) /\ k + 1 \in 1..l
      BY <1>1, <2>1, <2>3
    <3> QED
      BY <1>1, <1>5, <1>6, <2>1, <3>1
  <2> QED
    BY <2>2, <2>3
<1>7. CASE i # c
  <2>1. PICK j \in DOMAIN s : t[i] = s[j]
    <3>1. CASE i < n
      BY <1>1, <1>2, <1>7, <3>1
    <3>2. CASE ~(i < n)
      BY <1>1, <1>2, <1>7, <3>2
    <3> QED
      BY <3>1, <3>2
  <2> QED
    BY <2>1 DEF ChainedIn
<1> QED
  BY <1>6, <1>7

\* parallelize: the only path of the stage behind stage c becomes a path of stage c.
Wider(s, c) == Append(s[c], s[c + 1][1])
Parallelized(s, c) == Gone(s, c, c + 1, Wider(s, c))
BeforeParallelized(s, c) ==
    [x \in PlacesIn(Parallelized(s, c)) |->
        IF x[1] = c /\ x[2] = Len(s[c]) + 1 THEN <<c + 1, 1, x[3]>>
        ELSE IF x[1] <= c THEN x
        ELSE <<x[1] + 1, x[2], x[3]>>]

CanParallelize(s, c) ==
    /\ s \in Matrix
    /\ c \in 1..Len(s)
    /\ c + 1 \in 1..Len(s)
    /\ Len(s[c + 1]) = 1

LEMMA ParallelizedShape ==
    ASSUME NEW s, NEW c, CanParallelize(s, c)
    PROVE  LET t == Parallelized(s, c)
               m == Len(s[c])
           IN /\ t \in Matrix /\ Len(s) \in Nat /\ Len(t) = Len(s) - 1
              /\ DOMAIN s = 1..Len(s) /\ DOMAIN t = 1..(Len(s) - 1)
              /\ c \in Nat /\ c >= 1 /\ m \in Nat /\ m >= 1
              /\ c \in DOMAIN s /\ c + 1 \in DOMAIN s /\ c \in DOMAIN t
              /\ DOMAIN s[c] = 1..m
              /\ DOMAIN s[c + 1] = {1}
              /\ Len(t[c]) = m + 1 /\ DOMAIN t[c] = 1..(m + 1)
              /\ \A k \in 1..m : t[c][k] = s[c][k]
              /\ t[c][m + 1] = s[c + 1][1]
              /\ \A i \in DOMAIN t : i # c => t[i] = IF i < c THEN s[i] ELSE s[i + 1]
<1> DEFINE t == Parallelized(s, c)
           m == Len(s[c])
<1>1. /\ s \in Matrix /\ c \in DOMAIN s /\ c + 1 \in DOMAIN s
      /\ Len(s) \in Nat /\ DOMAIN s = 1..Len(s)
      /\ c \in 1..Len(s) /\ c + 1 \in 1..Len(s) /\ c \in Nat /\ c >= 1 /\ c < c + 1
  BY LenProperties DEF CanParallelize, Matrix
<1>2. s[c] \in Seq(Path) /\ m \in Nat /\ m >= 1 /\ DOMAIN s[c] = 1..m
  BY <1>1, MatrixFacts
<1>3. DOMAIN s[c + 1] = 1..1 /\ s[c + 1][1] \in Path
  <2>1. DOMAIN s[c + 1] = 1..1
    BY <1>1, MatrixFacts DEF CanParallelize
  <2>2. 1 \in DOMAIN s[c + 1]
    BY <2>1
  <2> QED
    BY <1>1, <2>1, <2>2, MatrixFacts
<1> DEFINE q == Append(s[c], s[c + 1][1])
<1>4. /\ q \in Seq(Path) /\ Len(q) = m + 1
      /\ \A k \in 1..m : q[k] = s[c][k]
      /\ q[m + 1] = s[c + 1][1]
  BY <1>2, <1>3, AppendProperties
<1> HIDE DEF q
<1>5. q \in Stage /\ DOMAIN q = 1..(m + 1)
  <2>1. q # <<>>
    BY <1>2, <1>4
  <2> QED
    BY <1>4, <2>1, LenProperties DEF Stage
<1>6. t = Gone(s, c, c + 1, q)
  BY DEF Parallelized, Wider, q
<1> HIDE DEF t
<1>7. /\ t \in Matrix
      /\ Len(t) = Len(s) - 1
      /\ t[c] = q
      /\ \A i \in 1..(Len(s) - 1) : i # c => t[i] = IF i < c + 1 THEN s[i] ELSE s[i + 1]
  <2> DEFINE n == c + 1
  <2>1. /\ s \in Matrix /\ c \in 1..Len(s) /\ n \in 1..Len(s) /\ c < n /\ q \in Stage
        /\ t = Gone(s, c, n, q)
    BY <1>1, <1>5, <1>6
  <2> HIDE DEF n
  <2>2. IsGone(t, s, c, n, q)
    BY ONLY <2>1, GoneFacts
  <2> QED
    BY <2>2 DEF IsGone, n
<1>8. DOMAIN t = 1..(Len(s) - 1)
  BY <1>7, LenProperties DEF Matrix
<1>9. c \in DOMAIN t
  BY <1>1, <1>8
<1>10. \A i \in DOMAIN t : i # c => t[i] = IF i < c THEN s[i] ELSE s[i + 1]
  <2> SUFFICES ASSUME NEW i \in DOMAIN t, i # c
               PROVE  t[i] = IF i < c THEN s[i] ELSE s[i + 1]
    OBVIOUS
  <2>1. t[i] = IF i < c + 1 THEN s[i] ELSE s[i + 1]
    BY <1>7, <1>8
  <2>2. i < c + 1 <=> i < c
    BY <1>1, <1>8
  <2> QED
    BY <2>1, <2>2
<1>11. 1..1 = {1}
  OBVIOUS
<1> HIDE DEF m
<1>12. /\ t \in Matrix /\ Len(s) \in Nat /\ Len(t) = Len(s) - 1
       /\ DOMAIN s = 1..Len(s) /\ DOMAIN t = 1..(Len(s) - 1)
       /\ c \in Nat /\ c >= 1 /\ m \in Nat /\ m >= 1
       /\ c \in DOMAIN s /\ c + 1 \in DOMAIN s /\ c \in DOMAIN t
       /\ DOMAIN s[c] = 1..m
       /\ DOMAIN s[c + 1] = {1}
  BY <1>1, <1>2, <1>3, <1>7, <1>8, <1>9, <1>11
<1>13. /\ Len(t[c]) = m + 1 /\ DOMAIN t[c] = 1..(m + 1)
       /\ \A k \in 1..m : t[c][k] = s[c][k]
       /\ t[c][m + 1] = s[c + 1][1]
  BY <1>4, <1>5, <1>7
<1> QED
  BY <1>10, <1>12, <1>13 DEF t, m

LEMMA ParallelizedPlaces ==
    ASSUME NEW s, NEW c, CanParallelize(s, c)
    PROVE  LET t == Parallelized(s, c)
               m == Len(s[c])
               old == BeforeParallelized(s, c)
           IN /\ Rearranges(old, s, t)
              /\ \A x \in PlacesIn(t) :
                    \/ x = <<c, m + 1, x[3]>> /\ old[x] = <<c + 1, 1, x[3]>>
                    \/ x[1] = c /\ x[2] <= m /\ old[x] = x
                    \/ x[1] < c /\ old[x] = x
                    \/ x[1] > c /\ old[x] = <<x[1] + 1, x[2], x[3]>>
<1> DEFINE t == Parallelized(s, c)
           m == Len(s[c])
           old == BeforeParallelized(s, c)
<1>1. /\ Len(s) \in Nat
      /\ DOMAIN s = 1..Len(s) /\ DOMAIN t = 1..(Len(s) - 1)
      /\ c \in Nat /\ c >= 1 /\ m \in Nat /\ m >= 1
      /\ c \in DOMAIN s /\ c + 1 \in DOMAIN s /\ c \in DOMAIN t
  BY ParallelizedShape
<1>2. /\ DOMAIN s[c] = 1..m
      /\ DOMAIN s[c + 1] = {1}
      /\ DOMAIN t[c] = 1..(m + 1)
      /\ \A k \in 1..m : t[c][k] = s[c][k]
      /\ t[c][m + 1] = s[c + 1][1]
  BY ParallelizedShape
<1>3. \A i \in DOMAIN t : i # c => t[i] = IF i < c THEN s[i] ELSE s[i + 1]
  BY ParallelizedShape
<1>4. \A x \in PlacesIn(t) :
         old[x] = IF x[1] = c /\ x[2] = m + 1 THEN <<c + 1, 1, x[3]>>
                  ELSE IF x[1] <= c THEN x ELSE <<x[1] + 1, x[2], x[3]>>
  BY DEF BeforeParallelized
<1> HIDE DEF t, m, old
<1>5. ASSUME NEW x \in PlacesIn(t)
      PROVE  /\ old[x] \in PlacesIn(s) /\ BlockAt(t, x) = BlockAt(s, old[x])
             /\ \/ x = <<c, m + 1, x[3]>> /\ old[x] = <<c + 1, 1, x[3]>>
                \/ x[1] = c /\ x[2] <= m /\ old[x] = x
                \/ x[1] < c /\ old[x] = x
                \/ x[1] > c /\ old[x] = <<x[1] + 1, x[2], x[3]>>
  <2>1. PICK i, p, k : x = <<i, p, k>>
    BY PlaceFacts
  <2>2. i \in DOMAIN t /\ p \in DOMAIN t[i] /\ k \in DOMAIN t[i][p]
    BY <2>1, PlaceFacts
  <2>3. x[1] = i /\ x[2] = p /\ x[3] = k
    BY <2>1
  <2>4. BlockAt(t, x) = t[i][p][k]
    BY <2>1, PlaceFacts
  <2>5. i \in Nat
    BY <1>1, <2>2
  <2>6. CASE i = c
    <3>1. p \in 1..(m + 1)
      BY <1>2, <2>2, <2>6
    <3>2. CASE p = m + 1
      <4>1. old[x] = <<c + 1, 1, k>> /\ x = <<c, m + 1, k>>
        BY <1>4, <2>1, <2>3, <2>6, <3>2
      <4>2. k \in DOMAIN s[c + 1][1]
        BY <1>2, <2>2, <2>6, <3>2
      <4>3. <<c + 1, 1, k>> \in PlacesIn(s) /\ BlockAt(s, <<c + 1, 1, k>>) = s[c + 1][1][k]
        BY <1>1, <1>2, <4>2, PlaceFacts
      <4> QED
        BY <1>2, <2>3, <2>4, <2>6, <3>2, <4>1, <4>3
    <3>3. CASE p # m + 1
      <4>a. x[1] <= c /\ x[2] # m + 1
        BY <1>1, <2>3, <2>6, <3>3
      <4>1. old[x] = x
        BY <1>4, <4>a
      <4>2. p \in 1..m /\ p <= m
        BY <1>1, <3>1, <3>3
      <4>3. x \in PlacesIn(s) /\ BlockAt(s, x) = s[c][p][k]
        BY <1>1, <1>2, <2>1, <2>2, <2>6, <4>2, PlaceFacts
      <4> QED
        BY <1>2, <2>3, <2>4, <2>6, <4>1, <4>2, <4>3
    <3> QED
      BY <3>2, <3>3
  <2>7. CASE i < c
    <3>1. i # c /\ i <= c
      BY <1>1, <2>5, <2>7
    <3>2. t[i] = s[i] /\ old[x] = x
      BY <1>3, <1>4, <2>2, <2>3, <2>7, <3>1
    <3>3. i \in DOMAIN s
      BY <1>1, <2>2
    <3>4. x \in PlacesIn(s) /\ BlockAt(s, x) = s[i][p][k]
      BY <2>1, <2>2, <3>2, <3>3, PlaceFacts
    <3> QED
      BY <2>3, <2>4, <2>7, <3>2, <3>4
  <2>8. CASE i > c
    <3>1. i # c /\ ~(i < c) /\ ~(i <= c)
      BY <1>1, <2>5, <2>8
    <3>2. t[i] = s[i + 1] /\ old[x] = <<i + 1, p, k>>
      BY <1>3, <1>4, <2>2, <2>3, <3>1
    <3>3. i + 1 \in DOMAIN s
      BY <1>1, <2>2
    <3>4. <<i + 1, p, k>> \in PlacesIn(s) /\ BlockAt(s, <<i + 1, p, k>>) = s[i + 1][p][k]
      BY <2>2, <3>2, <3>3, PlaceFacts
    <3> QED
      BY <2>3, <2>4, <2>8, <3>2, <3>4
  <2> QED
    BY <1>1, <2>5, <2>6, <2>7, <2>8
<1>6. ASSUME NEW x \in PlacesIn(t), NEW y \in PlacesIn(t), old[x] = old[y]
      PROVE  x = y
  <2>1. x = <<x[1], x[2], x[3]>> /\ y = <<y[1], y[2], y[3]>>
    BY PlaceFacts
  <2>2. x[1] \in Nat /\ y[1] \in Nat
    BY <1>1, PlaceFacts
  <2>3. CASE x = <<c, m + 1, x[3]>> /\ old[x] = <<c + 1, 1, x[3]>>
    <3>1. old[y][1] = c + 1 /\ old[y][3] = x[3]
      BY <1>6, <2>3
    <3>2. ~(y[1] <= c /\ old[y] = y)
      BY <1>1, <2>2, <3>1
    <3>3. ~(y[1] > c /\ old[y] = <<y[1] + 1, y[2], y[3]>>)
      BY <1>1, <2>2, <3>1
    <3>4. y = <<c, m + 1, y[3]>> /\ old[y] = <<c + 1, 1, y[3]>>
      BY <1>1, <1>5, <2>2, <3>2, <3>3
    <3>5. y[3] = x[3]
      BY <3>1, <3>4
    <3> QED
      BY <2>3, <3>4, <3>5
  <2>4. CASE x[1] <= c /\ old[x] = x
    <3>1. old[y][1] <= c
      BY <1>6, <2>4
    <3>2. ~(old[y] = <<c + 1, 1, y[3]>>)
      BY <1>1, <3>1
    <3>3. ~(y[1] > c /\ old[y] = <<y[1] + 1, y[2], y[3]>>)
      BY <1>1, <2>2, <3>1
    <3> QED
      BY <1>5, <1>6, <2>4, <3>2, <3>3
  <2>5. CASE x[1] > c /\ old[x] = <<x[1] + 1, x[2], x[3]>>
    <3>1. old[y][1] = x[1] + 1
      BY <1>6, <2>5
    <3>2. old[y] # <<c + 1, 1, y[3]>>
      BY <1>1, <2>2, <2>5, <3>1
    <3>3. ~(y[1] <= c /\ old[y] = y)
      BY <1>1, <2>2, <2>5, <3>1
    <3>4. old[y] = <<y[1] + 1, y[2], y[3]>>
      BY <1>1, <1>5, <2>2, <3>2, <3>3
    <3>5. <<x[1] + 1, x[2], x[3]>> = <<y[1] + 1, y[2], y[3]>>
      BY <1>6, <2>5, <3>4
    <3>6. x[1] + 1 = y[1] + 1 /\ x[2] = y[2] /\ x[3] = y[3]
      BY ONLY <3>5
    <3> QED
      BY <2>1, <2>2, <3>6
  <2> QED
    BY <1>1, <1>5, <2>2, <2>3, <2>4, <2>5
<1>7. ASSUME NEW y \in PlacesIn(s)
      PROVE  \E x \in PlacesIn(t) : old[x] = y
  <2>1. PICK i, p, k : y = <<i, p, k>>
    BY PlaceFacts
  <2>2. i \in DOMAIN s /\ p \in DOMAIN s[i] /\ k \in DOMAIN s[i][p]
    BY <2>1, PlaceFacts
  <2>3. i \in Nat /\ i >= 1 /\ i <= Len(s)
    BY <1>1, <2>2
  <2>4. CASE i = c + 1
    <3>1. y = <<c + 1, 1, k>> /\ k \in DOMAIN s[c + 1][1]
      BY <1>2, <2>1, <2>2, <2>4
    <3> DEFINE x == <<c, m + 1, k>>
    <3>2. x \in PlacesIn(t)
      <4>1. m + 1 \in DOMAIN t[c] /\ k \in DOMAIN t[c][m + 1]
        BY <1>1, <1>2, <3>1
      <4> QED
        BY <1>1, <4>1, PlaceFacts
    <3>3. x[1] = c /\ x[2] = m + 1 /\ x[3] = k
      OBVIOUS
    <3> HIDE DEF x
    <3>4. old[x] = <<c + 1, 1, k>>
      BY <1>4, <3>2, <3>3
    <3> QED
      BY <3>1, <3>2, <3>4
  <2>5. CASE i <= c
    <3>1. y \in PlacesIn(t) /\ ~(y[1] = c /\ y[2] = m + 1)
      <4>1. CASE i = c
        <5>1. p \in 1..m /\ p \in 1..(m + 1) /\ p # m + 1
          BY <1>1, <1>2, <2>2, <4>1
        <5>2. t[c][p] = s[c][p] /\ p \in DOMAIN t[c]
          BY <1>2, <5>1
        <5> QED
          BY <1>1, <2>1, <2>2, <4>1, <5>1, <5>2, PlaceFacts
      <4>2. CASE i # c
        <5>1. i \in DOMAIN t /\ i < c
          BY <1>1, <2>3, <2>5, <4>2
        <5>2. t[i] = s[i]
          BY <1>3, <4>2, <5>1
        <5> QED
          BY <2>1, <2>2, <4>2, <5>1, <5>2, PlaceFacts
      <4> QED
        BY <4>1, <4>2
    <3>2. y[1] <= c
      BY <2>1, <2>5
    <3> QED
      BY <1>4, <3>1, <3>2
  <2>6. CASE i > c + 1
    <3>1. /\ i - 1 \in DOMAIN t /\ i - 1 # c /\ ~(i - 1 < c) /\ ~(i - 1 <= c)
          /\ (i - 1) + 1 = i
      BY <1>1, <2>3, <2>6
    <3>2. t[i - 1] = s[i]
      BY <1>3, <3>1
    <3> DEFINE x == <<i - 1, p, k>>
    <3>3. x \in PlacesIn(t)
      BY <2>2, <3>1, <3>2, PlaceFacts
    <3>4. x[1] = i - 1 /\ x[2] = p /\ x[3] = k
      OBVIOUS
    <3> HIDE DEF x
    <3>5. old[x] = <<i, p, k>>
      BY <1>4, <3>1, <3>3, <3>4
    <3> QED
      BY <2>1, <3>3, <3>5
  <2> QED
    BY <1>1, <2>3, <2>4, <2>5, <2>6
<1> QED
  BY <1>5, <1>6, <1>7 DEF Rearranges, t, m, old

LEMMA ParallelizedOrdered ==
    ASSUME NEW s, NEW c, CanParallelize(s, c), PortsInv,
           DistinctIn(s), OrderedIn(s), ChainedIn(s), ~Inhibits(s[c], s[c + 1][1][1])
    PROVE  OrderedIn(Parallelized(s, c))
<1> DEFINE t == Parallelized(s, c)
           m == Len(s[c])
           old == BeforeParallelized(s, c)
<1>1. /\ Len(s) \in Nat
      /\ DOMAIN s = 1..Len(s) /\ DOMAIN t = 1..(Len(s) - 1)
      /\ c \in Nat /\ c >= 1 /\ m \in Nat /\ m >= 1
      /\ c \in DOMAIN s /\ c + 1 \in DOMAIN s
      /\ DOMAIN s[c] = 1..m
      /\ DOMAIN s[c + 1] = {1}
  BY ParallelizedShape
<1>2. Rearranges(old, s, t)
  BY ParallelizedPlaces
<1>3. \A x \in PlacesIn(t) :
         \/ x = <<c, m + 1, x[3]>> /\ old[x] = <<c + 1, 1, x[3]>>
         \/ x[1] = c /\ x[2] <= m /\ old[x] = x
         \/ x[1] < c /\ old[x] = x
         \/ x[1] > c /\ old[x] = <<x[1] + 1, x[2], x[3]>>
  BY ParallelizedPlaces
<1>s. s \in Matrix
  BY DEF CanParallelize
<1>4. ~Inhibits(s[c], s[c + 1][1][1])
  OBVIOUS
<1> HIDE DEF t, m, old
<1>5. ASSUME NEW p \in DOMAIN s[c], NEW j \in DOMAIN s[c][p], NEW k \in DOMAIN s[c + 1][1],
             <<s[c][p][j], s[c + 1][1][k]>> \in connections
      PROVE  FALSE
  <2> DEFINE a == s[c][p][j]
             b == s[c + 1][1][k]
  <2>a. <<c, p, j>> \in PlacesIn(s) /\ BlockAt(s, <<c, p, j>>) = a
    BY <1>1, PlaceFacts
  <2>b. <<c + 1, 1, k>> \in PlacesIn(s) /\ BlockAt(s, <<c + 1, 1, k>>) = b
    <3> DEFINE n == c + 1
    <3>1. n \in DOMAIN s /\ 1 \in DOMAIN s[n] /\ k \in DOMAIN s[n][1] /\ b = s[n][1][k]
      BY <1>1
    <3> HIDE DEF n, b
    <3>2. <<n, 1, k>> \in PlacesIn(s) /\ BlockAt(s, <<n, 1, k>>) = b
      BY ONLY <3>1, PlaceFacts
    <3> QED
      BY <3>2 DEF n
  <2>1. /\ <<c, p, j>> \in PlacesIn(s) /\ BlockAt(s, <<c, p, j>>) = a
        /\ <<c + 1, 1, k>> \in PlacesIn(s) /\ BlockAt(s, <<c + 1, 1, k>>) = b
    BY <2>a, <2>b
  <2>2. /\ Len(s[c][p]) \in Nat /\ DOMAIN s[c][p] = 1..Len(s[c][p])
        /\ Last(s[c][p]) = s[c][p][Len(s[c][p])]
    BY <1>1, <1>s, MatrixFacts
  <2>3. /\ Len(s[c + 1][1]) \in Nat /\ DOMAIN s[c + 1][1] = 1..Len(s[c + 1][1])
        /\ b \in Block
    BY <1>1, <1>s, MatrixFacts
  <2>4. CASE k # 1
    <3>1. k - 1 \in DOMAIN s[c + 1][1] /\ k - 1 \in 1..(Len(s[c + 1][1]) - 1) /\ (k - 1) + 1 = k
      BY <2>3, <2>4
    <3>2. Link(s[c + 1][1][k - 1], b)
      <4>1. 1 \in DOMAIN s[c + 1]
        BY <1>1
      <4>2. Link(s[c + 1][1][k - 1], s[c + 1][1][(k - 1) + 1])
        BY <1>1, <3>1, <4>1 DEF ChainedIn
      <4> QED
        BY <3>1, <4>2
    <3>3. a = s[c + 1][1][k - 1]
      BY <1>5, <3>2, LinkFacts
    <3>4. /\ <<c + 1, 1, k - 1>> \in PlacesIn(s)
          /\ BlockAt(s, <<c + 1, 1, k - 1>>) = s[c + 1][1][k - 1]
      BY <1>1, <3>1, PlaceFacts
    <3>5. <<c, p, j>> = <<c + 1, 1, k - 1>>
      BY <2>1, <3>3, <3>4 DEF DistinctIn
    <3>6. c = c + 1
      BY ONLY <3>5
    <3> QED
      BY <1>1, <3>6
  <2>5. CASE k = 1 /\ j # Len(s[c][p])
    <3>1. j \in 1..(Len(s[c][p]) - 1) /\ j + 1 \in DOMAIN s[c][p]
      BY <2>2, <2>5
    <3>2. Link(a, s[c][p][j + 1])
      BY <1>1, <3>1 DEF ChainedIn
    <3>3. b = s[c][p][j + 1]
      BY <1>5, <3>2, LinkFacts
    <3>4. /\ <<c, p, j + 1>> \in PlacesIn(s)
          /\ BlockAt(s, <<c, p, j + 1>>) = s[c][p][j + 1]
      BY <1>1, <3>1, PlaceFacts
    <3>5. <<c + 1, 1, k>> = <<c, p, j + 1>>
      BY <2>1, <3>3, <3>4 DEF DistinctIn
    <3>6. c + 1 = c
      BY ONLY <3>5
    <3> QED
      BY <1>1, <3>6
  <2>6. CASE k = 1 /\ j = Len(s[c][p])
    <3>1. a = Last(s[c][p]) /\ b = s[c + 1][1][1]
      BY <2>2, <2>6
    <3>2. IsSource(a)
      <4>1. <<a, b>>[1] = a
        OBVIOUS
      <4> QED
        BY <1>5, <4>1 DEF PortsInv
    <3>3. b \in Connections(a)
      BY <1>5, <2>3 DEF Connections
    <3> QED
      BY <1>4, <3>1, <3>2, <3>3 DEF Inhibits
  <2> QED
    BY <2>4, <2>5, <2>6
<1> SUFFICES ASSUME NEW x \in PlacesIn(t), NEW y \in PlacesIn(t),
                    <<BlockAt(t, x), BlockAt(t, y)>> \in connections
             PROVE  Precedes(x, y)
  BY DEF OrderedIn, t
<1>6. /\ old[x] \in PlacesIn(s) /\ BlockAt(t, x) = BlockAt(s, old[x])
      /\ old[y] \in PlacesIn(s) /\ BlockAt(t, y) = BlockAt(s, old[y])
  BY <1>2 DEF Rearranges
<1>7. Precedes(old[x], old[y])
  BY <1>6 DEF OrderedIn
<1>8. x[1] \in Nat /\ y[1] \in Nat
  BY <1>1, PlaceFacts
<1>9. CASE x = <<c, m + 1, x[3]>> /\ old[x] = <<c + 1, 1, x[3]>>
  <2>1. x[1] = c /\ x[2] = m + 1
    BY <1>9
  <2>2. CASE y = <<c, m + 1, y[3]>> /\ old[y] = <<c + 1, 1, y[3]>>
    <3>1. y[1] = c /\ y[2] = m + 1
      BY <2>2
    <3>2. /\ old[x][1] = c + 1 /\ old[x][2] = 1 /\ old[x][3] = x[3]
          /\ old[y][1] = c + 1 /\ old[y][2] = 1 /\ old[y][3] = y[3]
      BY <1>9, <2>2
    <3>3. x[3] < y[3]
      BY <1>1, <1>7, <3>2 DEF Precedes
    <3> QED
      BY <2>1, <3>1, <3>3 DEF Precedes
  <2>3. CASE y[1] <= c /\ old[y] = y
    <3>1. old[x][1] = c + 1
      BY <1>9
    <3>2. ~Precedes(old[x], old[y])
      BY <1>1, <1>8, <2>3, <3>1 DEF Precedes
    <3> QED
      BY <1>7, <3>2
  <2>4. CASE y[1] > c
    BY <2>1, <2>4 DEF Precedes
  <2> QED
    BY <1>1, <1>3, <1>8, <2>2, <2>3, <2>4
<1>10. CASE x[1] = c /\ x[2] <= m /\ old[x] = x
  <2>1. CASE y = <<c, m + 1, y[3]>> /\ old[y] = <<c + 1, 1, y[3]>>
    <3>1. x = <<x[1], x[2], x[3]>>
      BY PlaceFacts
    <3>2. x = <<c, x[2], x[3]>> /\ x \in PlacesIn(s)
      BY <1>6, <1>10, <3>1
    <3>3. x[2] \in DOMAIN s[c] /\ x[3] \in DOMAIN s[c][x[2]] /\ BlockAt(s, x) = s[c][x[2]][x[3]]
      BY <3>2, PlaceFacts
    <3>4. <<c + 1, 1, y[3]>> \in PlacesIn(s) /\ BlockAt(t, y) = BlockAt(s, <<c + 1, 1, y[3]>>)
      BY <1>6, <2>1
    <3>5. y[3] \in DOMAIN s[c + 1][1] /\ BlockAt(t, y) = s[c + 1][1][y[3]]
      BY <3>4, PlaceFacts
    <3>6. <<s[c][x[2]][x[3]], s[c + 1][1][y[3]]>> \in connections
      BY <1>6, <1>10, <3>3, <3>5
    <3> QED
      BY <1>5, <3>3, <3>5, <3>6
  <2>2. CASE y[1] <= c /\ old[y] = y
    BY <1>7, <1>10, <2>2
  <2>3. CASE y[1] > c
    BY <1>10, <2>3 DEF Precedes
  <2> QED
    BY <1>1, <1>3, <1>8, <2>1, <2>2, <2>3
<1>11. CASE x[1] < c /\ old[x] = x
  <2>1. CASE y[1] >= c
    BY <1>1, <1>8, <1>11, <2>1 DEF Precedes
  <2>2. CASE y[1] < c /\ old[y] = y
    BY <1>7, <1>11, <2>2
  <2>3. ASSUME y = <<c, m + 1, y[3]>>
        PROVE  y[1] = c
    BY <2>3
  <2> QED
    BY <1>1, <1>3, <1>8, <2>1, <2>2, <2>3
<1>12. CASE x[1] > c /\ old[x] = <<x[1] + 1, x[2], x[3]>>
  <2>0. old[x][1] = x[1] + 1 /\ old[x][2] = x[2] /\ old[x][3] = x[3]
    BY <1>12
  <2>1. CASE y = <<c, m + 1, y[3]>> /\ old[y] = <<c + 1, 1, y[3]>>
    <3>1. old[y][1] = c + 1
      BY <2>1
    <3>2. ~Precedes(old[x], old[y])
      BY <1>1, <1>8, <1>12, <2>0, <3>1 DEF Precedes
    <3> QED
      BY <1>7, <3>2
  <2>2. CASE y[1] <= c /\ old[y] = y
    <3>1. ~Precedes(old[x], old[y])
      BY <1>1, <1>8, <1>12, <2>0, <2>2 DEF Precedes
    <3> QED
      BY <1>7, <3>1
  <2>3. CASE y[1] > c /\ old[y] = <<y[1] + 1, y[2], y[3]>>
    <3>1. old[y][1] = y[1] + 1 /\ old[y][2] = y[2] /\ old[y][3] = y[3]
      BY <2>3
    <3> QED
      BY <1>7, <1>8, <2>0, <3>1 DEF Precedes
  <2> QED
    BY <1>1, <1>3, <1>8, <2>1, <2>2, <2>3
<1> QED
  BY <1>3, <1>9, <1>10, <1>11, <1>12

LEMMA ParallelizedChained ==
    ASSUME NEW s, NEW c, CanParallelize(s, c), ChainedIn(s)
    PROVE  ChainedIn(Parallelized(s, c))
<1> DEFINE t == Parallelized(s, c)
           m == Len(s[c])
<1>1. /\ Len(s) \in Nat
      /\ DOMAIN s = 1..Len(s) /\ DOMAIN t = 1..(Len(s) - 1)
      /\ c \in Nat /\ c >= 1 /\ m \in Nat /\ m >= 1
      /\ c \in DOMAIN s /\ c + 1 \in DOMAIN s
      /\ DOMAIN s[c] = 1..m
      /\ DOMAIN s[c + 1] = {1}
      /\ DOMAIN t[c] = 1..(m + 1)
      /\ \A k \in 1..m : t[c][k] = s[c][k]
      /\ t[c][m + 1] = s[c + 1][1]
  BY ParallelizedShape
<1>2. \A i \in DOMAIN t : i # c => t[i] = IF i < c THEN s[i] ELSE s[i + 1]
  BY ParallelizedShape
<1> HIDE DEF t, m
<1> SUFFICES ASSUME NEW i \in DOMAIN t, NEW p \in DOMAIN t[i], NEW k \in 1..(Len(t[i][p]) - 1)
             PROVE  Link(t[i][p][k], t[i][p][k + 1])
  BY DEF ChainedIn, t
<1>3. \E j \in DOMAIN s : \E q \in DOMAIN s[j] : t[i][p] = s[j][q]
  <2>1. CASE i = c /\ p \in 1..m
    BY <1>1, <2>1
  <2>2. CASE i = c /\ p = m + 1
    BY <1>1, <2>2
  <2>3. CASE i # c
    <3>1. CASE i < c
      BY <1>1, <1>2, <2>3, <3>1
    <3>2. CASE ~(i < c)
      BY <1>1, <1>2, <2>3, <3>2
    <3> QED
      BY <3>1, <3>2
  <2>4. i = c => p \in 1..m \/ p = m + 1
    BY <1>1
  <2> QED
    BY <2>1, <2>2, <2>3, <2>4
<1> QED
  BY <1>3 DEF ChainedIn

-----------------------------------------------------------------------------
(* The invariant of the two passes *)

Reached(b) == IsSource(b) \/ b \in Successors(Block)
Unlinked(a) == \A b : ~Link(a, b)

\* Every block reached has one place, neighbours in a path are only connected to
\* each other, and connections lead forward.
Sound(s) ==
    /\ s \in Matrix
    /\ DistinctIn(s)
    /\ ChainedIn(s)
    /\ \A b \in Block : Has(s, b) <=> Reached(b)
    /\ Acyclic => OrderedIn(s)

\* combine_stages: what is behind stage_curr is still a stage per block; stage_curr
\* was compared with the stages up to stage_next, those before it with all.
CombineAt(s, c, n) ==
    /\ c \in Nat /\ n \in Nat /\ 1 <= c /\ c <= n
    /\ \A i \in DOMAIN s : Len(s[i]) = 1
    /\ \A i \in DOMAIN s : c < i => Len(s[i][1]) = 1
    /\ c < n => n <= Len(s) /\ ~RightTerminated(s[c][1])
    /\ \A j \in DOMAIN s : c < j /\ j <= n => ~Link(Last(s[c][1]), s[j][1][1])
    /\ Acyclic => \A i \in DOMAIN s : i < c => Unlinked(Last(s[i][1]))

\* parallelize: what is behind stage_curr is still a path per stage, and what is
\* before it cannot be put together.
ParallelAt(s, c, n) ==
    /\ c \in Nat /\ 1 <= c /\ n = c
    /\ \A i \in DOMAIN s : c < i => Len(s[i]) = 1
    /\ \A i \in DOMAIN s : i < c /\ i + 1 \in DOMAIN s => Inhibits(s[i], s[i + 1][1][1])

NeededIn(s) == \A i \in DOMAIN s : i + 1 \in DOMAIN s => Inhibits(s[i], s[i + 1][1][1])

\* No path could go on with another.
UnlinkedIn(s) == Acyclic => \A i \in DOMAIN s : \A p \in DOMAIN s[i] : Unlinked(Last(s[i][p]))

PassInv ==
    /\ pc \in {"combine", "parallelize", "ready"} => Sound(stages)
    /\ pc = "combine" => CombineAt(stages, curr, next)
    /\ pc = "parallelize" => ParallelAt(stages, curr, next)
    /\ pc = "ready" => NeededIn(stages)
    /\ pc \in {"parallelize", "ready"} => UnlinkedIn(stages)

\* What is said of a matrix depends on the ports and connections, which stay.
LEMMA PassNext ==
    ASSUME UNCHANGED <<numIn, numOut, connections>>,
           pc' \in {"combine", "parallelize", "ready"} => Sound(stages'),
           pc' = "combine" => CombineAt(stages', curr', next'),
           pc' = "parallelize" => ParallelAt(stages', curr', next'),
           pc' = "ready" => NeededIn(stages'),
           pc' \in {"parallelize", "ready"} => UnlinkedIn(stages')
    PROVE  PassInv'
<1>1. Sound(stages') <=> Sound(stages)'
  BY DEF Sound, ChainedIn, Link, Reached, IsSource, Successors, Connections, Acyclic, OrderedIn
<1>2. CombineAt(stages', curr', next') <=> CombineAt(stages, curr, next)'
  BY DEF CombineAt, Link, Unlinked, RightTerminated, Successors, Connections, Acyclic
<1>3. ParallelAt(stages', curr', next') <=> ParallelAt(stages, curr, next)'
  BY DEF ParallelAt, Inhibits, IsSource, Connections
<1>4. NeededIn(stages') <=> NeededIn(stages)'
  BY DEF NeededIn, Inhibits, IsSource, Connections
<1>5. UnlinkedIn(stages') <=> UnlinkedIn(stages)'
  BY DEF UnlinkedIn, Unlinked, Link, Successors, Connections, Acyclic
<1> QED
  BY <1>1, <1>2, <1>3, <1>4, <1>5 DEF PassInv

LEMMA CombineIs ==
    ASSUME NEW s, NEW c, NEW n, CanCombine(s, c, n)
    PROVE  RemoveAt([s EXCEPT ![c][1] = Append(@, Head(Head(s[n])))], n) = Combined(s, c, n)
<1>1. s \in Matrix /\ c \in DOMAIN s /\ n \in DOMAIN s
  BY LenProperties DEF CanCombine, Matrix
<1>2. /\ s[c] \in Seq(Path) /\ Len(s[c]) = 1 /\ DOMAIN s[c] = 1..1
      /\ s[c][1] \in Seq(Block)
  BY <1>1, MatrixFacts DEF CanCombine
<1>3. Head(Head(s[n])) = s[n][1][1] /\ s[n][1][1] \in Block
  <2>1. Head(s[n]) = s[n][1] /\ 1 \in DOMAIN s[n]
    BY <1>1, MatrixFacts
  <2>2. Head(s[n][1]) = s[n][1][1] /\ 1 \in DOMAIN s[n][1]
    BY <1>1, <2>1, MatrixFacts
  <2>3. s[n][1][1] \in Block
    BY <1>1, <2>1, <2>2, MatrixFacts
  <2> QED
    BY <2>1, <2>2, <2>3
<1> DEFINE q == Append(s[c][1], s[n][1][1])
<1>4. q \in Path
  <2>1. q \in Seq(Block) /\ Len(q) = Len(s[c][1]) + 1 /\ Len(s[c][1]) \in Nat
    BY <1>2, <1>3, AppendProperties, LenProperties
  <2>2. q # <<>>
    BY <2>1
  <2> QED
    BY <2>1, <2>2 DEF Path
<1> HIDE DEF q
<1>5. [s[c] EXCEPT ![1] = q] = <<q>>
  <2>1. 1 \in 1..Len(s[c])
    BY <1>2
  <2>2. /\ [s[c] EXCEPT ![1] = q] \in Seq(Path)
        /\ Len([s[c] EXCEPT ![1] = q]) = 1
        /\ [s[c] EXCEPT ![1] = q][1] = q
    BY <1>2, <1>4, <2>1, ExceptSeq
  <2>3. <<q>> \in Seq(Path) /\ Len(<<q>>) = 1 /\ <<q>>[1] = q
    BY <1>4
  <2>4. \A i \in 1..1 : i = 1
    OBVIOUS
  <2> QED
    BY <2>2, <2>3, <2>4, SeqEqual
<1>6. [s EXCEPT ![c][1] = Append(@, Head(Head(s[n])))] = [s EXCEPT ![c] = [s[c] EXCEPT ![1] = q]]
  BY <1>1, <1>2, <1>3 DEF q
<1>7. Longer(s, c, n) = <<q>>
  BY DEF Longer, q
<1> QED
  BY <1>5, <1>6, <1>7 DEF Combined, Gone

LEMMA ParallelizeIs ==
    ASSUME NEW s, NEW c, CanParallelize(s, c)
    PROVE  RemoveAt([s EXCEPT ![c] = Append(@, Head(s[c + 1]))], c + 1) = Parallelized(s, c)
<1>1. s \in Matrix /\ c \in DOMAIN s /\ c + 1 \in DOMAIN s
  BY LenProperties DEF CanParallelize, Matrix
<1>2. Head(s[c + 1]) = s[c + 1][1]
  BY <1>1, MatrixFacts
<1>3. [s EXCEPT ![c] = Append(@, Head(s[c + 1]))] = [s EXCEPT ![c] = Append(s[c], s[c + 1][1])]
  BY <1>1, <1>2
<1> QED
  BY <1>3 DEF Parallelized, Gone, Wider

LEMMA CombinedSound ==
    ASSUME NEW s, NEW c, NEW n, CanCombine(s, c, n), PortsInv, Sound(s),
           Link(s[c][1][Len(s[c][1])], s[n][1][1])
    PROVE  Sound(Combined(s, c, n))
<1>1. Combined(s, c, n) \in Matrix
  BY CombinedShape
<1>2. Rearranges(BeforeCombined(s, c, n), s, Combined(s, c, n))
  BY CombinedPlaces
<1>3. DistinctIn(Combined(s, c, n)) /\ \A b : Has(s, b) <=> Has(Combined(s, c, n), b)
  BY <1>2, Rearranged DEF Sound
<1>4. ChainedIn(Combined(s, c, n))
  BY CombinedChained DEF Sound
<1>5. Acyclic => OrderedIn(Combined(s, c, n))
  BY CombinedOrdered DEF Sound
<1> QED
  BY <1>1, <1>3, <1>4, <1>5 DEF Sound

LEMMA ParallelizedSound ==
    ASSUME NEW s, NEW c, CanParallelize(s, c), PortsInv, Sound(s),
           ~Inhibits(s[c], s[c + 1][1][1])
    PROVE  Sound(Parallelized(s, c))
<1>1. Parallelized(s, c) \in Matrix
  BY ParallelizedShape
<1>2. Rearranges(BeforeParallelized(s, c), s, Parallelized(s, c))
  BY ParallelizedPlaces
<1>3. DistinctIn(Parallelized(s, c)) /\ \A b : Has(s, b) <=> Has(Parallelized(s, c), b)
  BY <1>2, Rearranged DEF Sound
<1>4. ChainedIn(Parallelized(s, c))
  BY ParallelizedChained DEF Sound
<1>5. Acyclic => OrderedIn(Parallelized(s, c))
  BY ParallelizedOrdered DEF Sound
<1> QED
  BY <1>1, <1>3, <1>4, <1>5 DEF Sound

\* A path that was compared with all that come after it has no block to go on with.
LEMMA EndUnlinked ==
    ASSUME PortsInv, NEW s, NEW c, NEW n, Sound(s), CombineAt(s, c, n), Acyclic,
           c \in DOMAIN s, n >= Len(s)
    PROVE  Unlinked(Last(s[c][1]))
<1> DEFINE a == Last(s[c][1])
           l == Len(s[c][1])
<1>1. SUFFICES ASSUME NEW b, Link(a, b)
               PROVE  FALSE
  BY DEF Unlinked
<1>2. /\ s \in Matrix /\ DOMAIN s = 1..Len(s) /\ Len(s) \in Nat /\ c \in Nat /\ n \in Nat
      /\ DOMAIN s[c] = 1..1
  BY MatrixFacts DEF Sound, CombineAt
<1>3. l \in Nat /\ l >= 1 /\ DOMAIN s[c][1] = 1..l /\ a = s[c][1][l]
  <2>1. 1 \in DOMAIN s[c]
    BY <1>2
  <2> QED
    BY <1>2, <2>1, MatrixFacts
<1>4. a \in Block /\ b \in Block /\ <<a, b>> \in connections
  BY <1>1, LinkFacts DEF Link
<1>5. Has(s, b)
  <2>1. b \in Successors(Block)
    BY <1>4 DEF Successors, Connections
  <2> QED
    BY <1>4, <2>1 DEF Sound, Reached
<1>6. PICK y \in PlacesIn(s) : BlockAt(s, y) = b
  BY <1>5 DEF Has
<1>7. <<c, 1, l>> \in PlacesIn(s) /\ BlockAt(s, <<c, 1, l>>) = a
  BY <1>2, <1>3, PlaceFacts
<1>8. Precedes(<<c, 1, l>>, y)
  BY <1>4, <1>6, <1>7 DEF Sound, OrderedIn
<1>9. y[1] \in DOMAIN s /\ y[2] \in DOMAIN s[y[1]] /\ y[3] \in DOMAIN s[y[1]][y[2]]
  BY PlaceFacts
<1>10. c < y[1]
  <2>1. ~(c = y[1] /\ 1 = y[2] /\ l < y[3])
    BY <1>3, <1>9
  <2> QED
    BY <1>8, <2>1 DEF Precedes
<1>11. y[2] = 1 /\ y[3] = 1
  <2>1. DOMAIN s[y[1]] = 1..1
    BY <1>2, <1>9, MatrixFacts DEF CombineAt
  <2>2. y[2] = 1
    BY <1>9, <2>1
  <2>3. DOMAIN s[y[1]][1] = 1..Len(s[y[1]][1]) /\ Len(s[y[1]][1]) = 1
    BY <1>2, <1>9, <1>10, <2>2, MatrixFacts DEF CombineAt
  <2> QED
    BY <1>9, <2>2, <2>3
<1>12. b = s[y[1]][1][1]
  BY <1>6, <1>11 DEF BlockAt
<1>13. y[1] <= n
  BY <1>2, <1>9
<1> QED
  BY <1>1, <1>9, <1>10, <1>12, <1>13 DEF CombineAt

-----------------------------------------------------------------------------
(* The steps of the two passes *)

LEMMA CombineAdvanceStep ==
    ASSUME PortsInv, PassInv, CombineAdvance, UNCHANGED <<numIn, numOut, connections>>
    PROVE  PassInv' /\ pc' \in {"combine", "parallelize"}
<1>1. /\ pc = "combine" /\ next >= Len(stages) /\ stages' = stages
      /\ IF curr < Len(stages)
         THEN curr' = curr + 1 /\ next' = curr + 1 /\ pc' = "combine"
         ELSE pc' = "parallelize" /\ curr' = 1 /\ next' = 1
  BY DEF CombineAdvance
<1>2. Sound(stages) /\ CombineAt(stages, curr, next)
  BY <1>1 DEF PassInv
<1>3. Len(stages) \in Nat /\ DOMAIN stages = 1..Len(stages) /\ curr \in Nat /\ next \in Nat
  BY <1>2, LenProperties DEF Sound, CombineAt, Matrix
<1>4. Acyclic => \A i \in DOMAIN stages : i <= curr => Unlinked(Last(stages[i][1]))
  <2> SUFFICES ASSUME Acyclic, NEW i \in DOMAIN stages, i <= curr
               PROVE  Unlinked(Last(stages[i][1]))
    OBVIOUS
  <2>1. CASE i < curr
    BY <1>2, <2>1 DEF CombineAt
  <2>2. CASE i = curr
    BY <1>1, <1>2, <2>2, EndUnlinked
  <2> QED
    BY <1>3, <2>1, <2>2
<1>5. CASE curr < Len(stages)
  <2>1. CombineAt(stages, curr + 1, curr + 1)
    <3>1. curr + 1 \in Nat /\ 1 <= curr + 1 /\ curr + 1 <= curr + 1 /\ ~(curr + 1 < curr + 1)
      BY <1>3
    <3>2. \A i \in DOMAIN stages : curr + 1 < i => Len(stages[i][1]) = 1
      BY <1>2, <1>3 DEF CombineAt
    <3>3. \A i \in DOMAIN stages : ~(curr + 1 < i /\ i <= curr + 1)
      BY <1>3
    <3>4. \A i \in DOMAIN stages : i < curr + 1 => i <= curr
      BY <1>3
    <3> QED
      BY <1>2, <1>4, <3>1, <3>2, <3>3, <3>4 DEF CombineAt
  <2> QED
    BY <1>1, <1>2, <1>5, <2>1, PassNext
<1>6. CASE ~(curr < Len(stages))
  <2>1. ParallelAt(stages, 1, 1)
    <3>1. \A i \in DOMAIN stages : ~(i < 1)
      BY <1>3
    <3> QED
      BY <1>2, <3>1 DEF ParallelAt, CombineAt
  <2>2. UnlinkedIn(stages)
    <3> SUFFICES ASSUME Acyclic, NEW i \in DOMAIN stages, NEW p \in DOMAIN stages[i]
                 PROVE  Unlinked(Last(stages[i][p]))
      BY DEF UnlinkedIn
    <3>1. i <= curr
      BY <1>3, <1>6
    <3>2. DOMAIN stages[i] = 1..1
      BY <1>2, MatrixFacts DEF Sound, CombineAt
    <3>3. p = 1
      BY <3>2
    <3> QED
      BY <1>4, <3>1, <3>3
  <2> QED
    BY <1>1, <1>2, <1>6, <2>1, <2>2, PassNext
<1> QED
  BY <1>5, <1>6

LEMMA CombineStageStep ==
    ASSUME PortsInv, PassInv, CombineStage, UNCHANGED <<numIn, numOut, connections>>
    PROVE  PassInv' /\ pc' = "combine"
<1> DEFINE this == stages[curr]
           other == stages[next + 1]
           last == Last(this[1])
           first == other[1][1]
<1>1. pc = "combine" /\ next < Len(stages)
  BY DEF CombineStage
<1>2. Sound(stages) /\ CombineAt(stages, curr, next)
  BY <1>1 DEF PassInv
<1>3. /\ stages \in Matrix /\ Len(stages) \in Nat /\ DOMAIN stages = 1..Len(stages)
      /\ curr \in Nat /\ next \in Nat /\ 1 <= curr /\ curr <= next
  BY <1>2, LenProperties DEF Sound, CombineAt, Matrix
<1>4. curr \in DOMAIN stages /\ next + 1 \in DOMAIN stages /\ curr < next + 1
  BY <1>1, <1>3
<1>5. Len(this) = 1 /\ Len(other) = 1 /\ Len(other[1]) = 1
  BY <1>2, <1>4 DEF CombineAt
<1>6. /\ Last(this) = this[1] /\ Head(this) = this[1] /\ Head(other) = other[1]
      /\ Head(other[1]) = first /\ first \in Block
      /\ last = this[1][Len(this[1])]
      /\ DOMAIN this = 1..1 /\ DOMAIN other = 1..1
  <2>1. DOMAIN this = 1..1 /\ DOMAIN other = 1..1
    BY <1>3, <1>4, <1>5, MatrixFacts
  <2>2. 1 \in DOMAIN this /\ 1 \in DOMAIN other
    BY <2>1
  <2>3. 1 \in DOMAIN other[1]
    BY <1>3, <1>4, <2>2, MatrixFacts
  <2>4. first \in Block /\ Head(other[1]) = first
    BY <1>3, <1>4, <2>2, <2>3, MatrixFacts
  <2>5. Last(this) = this[1] /\ Head(this) = this[1] /\ Head(other) = other[1]
    BY <1>3, <1>4, <1>5, MatrixFacts
  <2>6. last = this[1][Len(this[1])]
    BY <1>3, <1>4, <2>2, MatrixFacts
  <2> QED
    BY <2>1, <2>4, <2>5, <2>6
<1>7. /\ RightTerminated(this[1]) <=> numOut[last] # 1
      /\ LeftTerminated(other[1]) <=> numIn[first] # 1
  BY <1>6 DEF RightTerminated, LeftTerminated
<1> HIDE DEF this, other, last, first
<1>8. \/ RightTerminated(this[1]) /\ ToNextStage
      \/ ~RightTerminated(this[1]) /\ LeftTerminated(other[1]) /\ SkipNextStage
      \/ /\ ~RightTerminated(this[1]) /\ ~LeftTerminated(other[1])
         /\ IF ~IsSource(last)
            THEN pc' = "crashed" /\ UNCHANGED <<stages, curr, next>>
            ELSE IF first \in Connections(last)
            THEN /\ stages' = RemoveAt([stages EXCEPT ![curr][1] =
                                           Append(@, Head(Head(stages[next + 1])))], next + 1)
                 /\ next' = curr
                 /\ UNCHANGED <<pc, curr>>
            ELSE SkipNextStage
  <2>1. Last(Head(stages[curr])) = last /\ Head(Head(stages[next + 1])) = first
    BY <1>6 DEF this, other, last
  <2>2. Last(stages[curr]) = this[1] /\ Head(stages[next + 1]) = other[1]
    BY <1>6 DEF this, other
  <2>3. CASE RightTerminated(this[1])
    BY <2>1, <2>2, <2>3 DEF CombineStage
  <2>4. CASE ~RightTerminated(this[1]) /\ LeftTerminated(other[1])
    BY <2>1, <2>2, <2>4 DEF CombineStage
  <2>5. CASE ~RightTerminated(this[1]) /\ ~LeftTerminated(other[1])
    BY <2>1, <2>2, <2>5 DEF CombineStage
  <2> QED
    BY <2>3, <2>4, <2>5
<1>9. ASSUME ~RightTerminated(this[1]), ~Link(last, first), SkipNextStage
      PROVE  PassInv' /\ pc' = "combine"
  <2>1. next' = next + 1 /\ pc' = pc /\ stages' = stages /\ curr' = curr
    BY <1>9 DEF SkipNextStage
  <2>2. CombineAt(stages, curr, next + 1)
    <3>1. next + 1 \in Nat /\ curr <= next + 1 /\ next + 1 <= Len(stages)
      BY <1>1, <1>3
    <3>2. ASSUME NEW j \in DOMAIN stages, curr < j, j <= next + 1
          PROVE  ~Link(Last(stages[curr][1]), stages[j][1][1])
      <4>1. CASE j <= next
        BY <1>2, <3>2, <4>1 DEF CombineAt
      <4>2. CASE j = next + 1
        BY <1>9, <4>2 DEF last, first, this, other
      <4> QED
        BY <1>3, <3>2, <4>1, <4>2
    <3> QED
      BY <1>2, <1>9, <3>1, <3>2 DEF CombineAt, this
  <2> QED
    BY <1>1, <1>2, <2>1, <2>2, PassNext
<1>10. CASE RightTerminated(this[1]) /\ ToNextStage
  <2>1. curr' = curr + 1 /\ next' = next + 1 /\ pc' = pc /\ stages' = stages
    BY <1>10 DEF ToNextStage
  <2>2. curr = next
    <3>1. ~(curr < next)
      BY <1>2, <1>10 DEF CombineAt, this
    <3> QED
      BY <1>3, <3>1
  <2>3. CombineAt(stages, curr + 1, next + 1)
    <3>1. /\ curr + 1 \in Nat /\ 1 <= curr + 1 /\ next + 1 = curr + 1
          /\ ~(curr + 1 < next + 1)
      BY <1>3, <2>2
    <3>2. \A i \in DOMAIN stages : curr + 1 < i => Len(stages[i][1]) = 1
      BY <1>2, <1>3 DEF CombineAt
    <3>3. \A i \in DOMAIN stages : ~(curr + 1 < i /\ i <= next + 1)
      BY <1>3, <2>2
    <3>4. Unlinked(Last(stages[curr][1]))
      BY <1>7, <1>10 DEF Unlinked, Link, last, this
    <3>5. Acyclic => \A i \in DOMAIN stages : i < curr + 1 => Unlinked(Last(stages[i][1]))
      <4>1. \A i \in DOMAIN stages : i < curr + 1 => i < curr \/ i = curr
        BY <1>3
      <4> QED
        BY <1>2, <3>4, <4>1 DEF CombineAt
    <3>6. curr + 1 <= next + 1
      BY <1>3
    <3> QED
      BY <1>2, <3>1, <3>2, <3>3, <3>5, <3>6 DEF CombineAt
  <2> QED
    BY <1>1, <1>2, <2>1, <2>3, PassNext
<1>11. CASE ~RightTerminated(this[1]) /\ LeftTerminated(other[1]) /\ SkipNextStage
  BY <1>7, <1>9, <1>11 DEF Link
<1>12. CASE /\ ~RightTerminated(this[1]) /\ ~LeftTerminated(other[1])
            /\ first \notin Connections(last) /\ SkipNextStage
  <2>1. <<last, first>> \notin connections
    BY <1>6, <1>12 DEF Connections
  <2> QED
    BY <1>9, <1>12, <2>1 DEF Link
<1>13. CASE /\ ~RightTerminated(this[1]) /\ ~LeftTerminated(other[1])
            /\ first \in Connections(last)
            /\ stages' = RemoveAt([stages EXCEPT ![curr][1] =
                                      Append(@, Head(Head(stages[next + 1])))], next + 1)
            /\ next' = curr
            /\ UNCHANGED <<pc, curr>>
  <2> DEFINE n == next + 1
             t == Combined(stages, curr, n)
  <2>1. CanCombine(stages, curr, n)
    BY <1>3, <1>4, <1>5 DEF CanCombine, this, other
  <2>2. stages' = t
    BY <1>13, <2>1, CombineIs
  <2>3. Link(stages[curr][1][Len(stages[curr][1])], stages[n][1][1])
    <3>1. numOut[last] = 1 /\ numIn[first] = 1 /\ <<last, first>> \in connections
      BY <1>7, <1>13 DEF Connections
    <3>2. last = stages[curr][1][Len(stages[curr][1])] /\ first = stages[n][1][1]
      BY <1>6 DEF this, other, first
    <3> QED
      BY <3>1, <3>2 DEF Link
  <2>4. n \in Nat /\ curr < n
    BY <1>3
  <2> HIDE DEF n
  <2>5. Sound(t)
    BY <1>2, <2>1, <2>3, CombinedSound
  <2>6. /\ t \in Matrix
        /\ DOMAIN t = 1..(Len(stages) - 1) /\ Len(t[curr]) = 1
        /\ \A i \in DOMAIN t : i # curr => t[i] = IF i < n THEN stages[i] ELSE stages[i + 1]
    BY <2>1, CombinedShape
  <2> HIDE DEF t
  <2>7. CombineAt(t, curr, curr)
    <3>1. ASSUME NEW i \in DOMAIN t, i # curr
          PROVE  \E j \in DOMAIN stages : /\ t[i] = stages[j] /\ (curr < i => curr < j)
                                          /\ (i < curr => j = i)
      <4>1. CASE i < n
        BY <1>3, <2>6, <3>1, <4>1
      <4>2. CASE ~(i < n)
        <5>1. i + 1 \in DOMAIN stages /\ t[i] = stages[i + 1]
          BY <1>3, <2>6, <3>1, <4>2
        <5>2. curr < i + 1 /\ ~(i < curr)
          BY <1>3, <2>4, <2>6, <4>2
        <5> QED
          BY <5>1, <5>2
      <4> QED
        BY <4>1, <4>2
    <3>2. \A i \in DOMAIN t : Len(t[i]) = 1
      BY <1>2, <2>6, <3>1 DEF CombineAt
    <3>3. \A i \in DOMAIN t : curr < i => Len(t[i][1]) = 1
      <4>1. \A i \in DOMAIN t : curr < i => i # curr
        BY <1>3, <2>6
      <4> QED
        BY <1>2, <3>1, <4>1 DEF CombineAt
    <3>4. Acyclic => \A i \in DOMAIN t : i < curr => Unlinked(Last(t[i][1]))
      <4>1. \A i \in DOMAIN t : i < curr => i # curr
        BY <1>3, <2>6
      <4> QED
        BY <1>2, <3>1, <4>1 DEF CombineAt
    <3>5. ~(curr < curr) /\ curr <= curr /\ \A j \in DOMAIN t : ~(curr < j /\ j <= curr)
      BY <1>3, <2>6
    <3> QED
      BY <1>3, <3>2, <3>3, <3>4, <3>5 DEF CombineAt
  <2> QED
    BY <1>1, <1>13, <2>2, <2>5, <2>7, PassNext
<1>14. ~RightTerminated(this[1]) => IsSource(last)
  BY <1>7 DEF IsSource
<1> QED
  BY <1>8, <1>10, <1>11, <1>12, <1>13, <1>14

LEMMA ParallelizeStageStep ==
    ASSUME PortsInv, PassInv, ParallelizeStage, UNCHANGED <<numIn, numOut, connections>>
    PROVE  PassInv' /\ pc' = "parallelize"
<1>1. /\ pc = "parallelize" /\ next < Len(stages)
      /\ LET moved == Head(stages[next + 1]) IN
            IF Inhibits(stages[curr], Head(moved))
            THEN ToNextStage
            ELSE /\ stages' = RemoveAt([stages EXCEPT ![curr] = Append(@, moved)], next + 1)
                 /\ next' = curr
                 /\ UNCHANGED <<pc, curr>>
  BY DEF ParallelizeStage
<1>2. Sound(stages) /\ ParallelAt(stages, curr, next) /\ UnlinkedIn(stages)
  BY <1>1 DEF PassInv
<1>3. /\ stages \in Matrix /\ Len(stages) \in Nat /\ DOMAIN stages = 1..Len(stages)
      /\ curr \in Nat /\ 1 <= curr /\ next = curr
  BY <1>2, LenProperties DEF Sound, ParallelAt, Matrix
<1>4. /\ curr \in DOMAIN stages /\ curr + 1 \in DOMAIN stages
      /\ curr \in 1..Len(stages) /\ curr + 1 \in 1..Len(stages) /\ curr < curr + 1
  BY <1>1, <1>3
<1>5. Len(stages[curr + 1]) = 1 /\ DOMAIN stages[curr + 1] = 1..1
  BY <1>2, <1>3, <1>4, MatrixFacts DEF ParallelAt
<1>6. /\ Head(stages[curr + 1]) = stages[curr + 1][1]
      /\ Head(stages[curr + 1][1]) = stages[curr + 1][1][1]
  <2>1. 1 \in DOMAIN stages[curr + 1]
    BY <1>5
  <2> QED
    BY <1>3, <1>4, <2>1, MatrixFacts
<1>7. CASE Inhibits(stages[curr], stages[curr + 1][1][1])
  <2>1. curr' = curr + 1 /\ next' = curr + 1 /\ pc' = pc /\ stages' = stages
    BY <1>1, <1>3, <1>6, <1>7 DEF ToNextStage
  <2>2. ParallelAt(stages, curr + 1, curr + 1)
    <3>1. curr + 1 \in Nat /\ 1 <= curr + 1
      BY <1>3
    <3>2. \A i \in DOMAIN stages : curr + 1 < i => Len(stages[i]) = 1
      BY <1>2, <1>3 DEF ParallelAt
    <3>3. \A i \in DOMAIN stages :
             i < curr + 1 /\ i + 1 \in DOMAIN stages => Inhibits(stages[i], stages[i + 1][1][1])
      <4>1. \A i \in DOMAIN stages : i < curr + 1 => i < curr \/ i = curr
        BY <1>3
      <4> QED
        BY <1>2, <1>7, <4>1 DEF ParallelAt
    <3> QED
      BY <3>1, <3>2, <3>3 DEF ParallelAt
  <2> QED
    BY <1>1, <1>2, <2>1, <2>2, PassNext
<1>8. CASE ~Inhibits(stages[curr], stages[curr + 1][1][1])
  <2> DEFINE t == Parallelized(stages, curr)
             m == Len(stages[curr])
  <2>1. CanParallelize(stages, curr)
    BY <1>3, <1>4, <1>5 DEF CanParallelize
  <2>2. stages' = t /\ next' = curr /\ curr' = curr /\ pc' = pc
    <3>1. /\ stages' = RemoveAt([stages EXCEPT ![curr] = Append(@, Head(stages[curr + 1]))],
                                curr + 1)
          /\ next' = curr /\ curr' = curr /\ pc' = pc
      BY <1>1, <1>3, <1>6, <1>8
    <3> QED
      BY <2>1, <3>1, ParallelizeIs
  <2>3. Sound(t)
    BY <1>2, <1>8, <2>1, ParallelizedSound
  <2>4. /\ DOMAIN t = 1..(Len(stages) - 1)
        /\ m \in Nat /\ m >= 1 /\ DOMAIN stages[curr] = 1..m
        /\ DOMAIN t[curr] = 1..(m + 1)
        /\ \A k \in 1..m : t[curr][k] = stages[curr][k]
        /\ t[curr][m + 1] = stages[curr + 1][1]
        /\ \A i \in DOMAIN t : i # curr => t[i] = IF i < curr THEN stages[i] ELSE stages[i + 1]
    BY <2>1, ParallelizedShape
  <2> HIDE DEF t, m
  <2>5. ASSUME NEW i \in DOMAIN t, curr < i
        PROVE  i + 1 \in DOMAIN stages /\ curr < i + 1 /\ t[i] = stages[i + 1]
    <3>1. i \in Nat /\ i >= 1 /\ i <= Len(stages) - 1
      BY <1>3, <2>4
    <3>2. i + 1 \in DOMAIN stages /\ curr < i + 1 /\ ~(i < curr) /\ i # curr
      BY <1>3, <2>5, <3>1
    <3> QED
      BY <2>4, <3>2
  <2>6. ASSUME NEW i \in DOMAIN t, i < curr
        PROVE  i \in DOMAIN stages /\ t[i] = stages[i] /\ i + 1 \in DOMAIN stages
               /\ t[i + 1][1] = stages[i + 1][1]
    <3>1. i \in DOMAIN stages /\ t[i] = stages[i] /\ i + 1 \in DOMAIN stages
      BY <1>3, <2>4, <2>6
    <3>2. CASE i + 1 < curr
      <4>1. i + 1 \in DOMAIN t /\ i + 1 # curr
        BY <1>3, <1>4, <2>4, <3>2
      <4>2. t[i + 1] = stages[i + 1]
        BY <2>4, <3>2, <4>1
      <4> QED
        BY <3>1, <4>2
    <3>3. CASE i + 1 = curr
      <4>1. 1 \in 1..m
        BY <2>4
      <4> QED
        BY <2>4, <3>1, <3>3, <4>1
    <3>4. i + 1 < curr \/ i + 1 = curr
      BY <1>3, <2>4, <2>6
    <3> QED
      BY <3>1, <3>2, <3>3, <3>4
  <2>7. ParallelAt(t, curr, curr)
    <3>1. \A i \in DOMAIN t : curr < i => Len(t[i]) = 1
      BY <1>2, <2>5 DEF ParallelAt
    <3>2. \A i \in DOMAIN t :
             i < curr /\ i + 1 \in DOMAIN t => Inhibits(t[i], t[i + 1][1][1])
      BY <1>2, <2>6 DEF ParallelAt
    <3> QED
      BY <1>3, <3>1, <3>2 DEF ParallelAt
  <2>8. UnlinkedIn(t)
    <3> SUFFICES ASSUME Acyclic, NEW i \in DOMAIN t, NEW p \in DOMAIN t[i]
                 PROVE  Unlinked(Last(t[i][p]))
      BY DEF UnlinkedIn
    <3>1. CASE i < curr
      BY <1>2, <2>6, <3>1 DEF UnlinkedIn
    <3>2. CASE curr < i
      BY <1>2, <2>5, <3>2 DEF UnlinkedIn
    <3>3. CASE i = curr /\ p \in 1..m
      BY <1>2, <1>4, <2>4, <3>3 DEF UnlinkedIn
    <3>4. CASE i = curr /\ p = m + 1
      <4>1. 1 \in DOMAIN stages[curr + 1]
        BY <1>5
      <4> QED
        BY <1>2, <1>4, <2>4, <3>4, <4>1 DEF UnlinkedIn
    <3>5. i < curr \/ curr < i \/ i = curr
      BY <1>3, <2>4
    <3>6. i = curr => p \in 1..m \/ p = m + 1
      BY <2>4
    <3> QED
      BY <3>1, <3>2, <3>3, <3>4, <3>5, <3>6
  <2> QED
    BY <1>1, <2>2, <2>3, <2>7, <2>8, PassNext
<1> QED
  BY <1>7, <1>8

LEMMA ParallelizeDoneStep ==
    ASSUME PortsInv, PassInv, ParallelizeDone, UNCHANGED <<numIn, numOut, connections>>
    PROVE  PassInv' /\ pc' = "ready"
<1>1. pc = "parallelize" /\ next >= Len(stages) /\ pc' = "ready" /\ stages' = stages
  BY DEF ParallelizeDone
<1>2. Sound(stages) /\ ParallelAt(stages, curr, next) /\ UnlinkedIn(stages)
  BY <1>1 DEF PassInv
<1>3. /\ Len(stages) \in Nat /\ DOMAIN stages = 1..Len(stages)
      /\ curr \in Nat /\ next = curr
  BY <1>2, LenProperties DEF Sound, ParallelAt, Matrix
<1>4. NeededIn(stages)
  <2>1. \A i \in DOMAIN stages : i + 1 \in DOMAIN stages => i < curr
    BY <1>1, <1>3
  <2> QED
    BY <1>2, <2>1 DEF NeededIn, ParallelAt
<1> QED
  BY <1>1, <1>2, <1>4, PassNext

-----------------------------------------------------------------------------
(* The invariant of linearize *)

Singles == {NewStage(b) : b \in Block}
Only(s, i) == s[i][1][1]
In(s, b) == \E i \in DOMAIN s : Only(s, i) = b

\* The matrix is a line of blocks.  Those being visited are the first of it, each
\* connected to the next; what the blocks of the line are connected to is in the
\* line or still to be visited, so that no connection leads back.
LineAt(s, f, st) ==
    /\ s \in Seq(Singles)
    /\ \A i, j \in DOMAIN s : Only(s, i) = Only(s, j) => i = j
    /\ f \in Seq(Frame) /\ Len(f) <= Len(s)
    /\ \A b \in st : b \in Block /\ IsSource(b)
    /\ \A j \in DOMAIN f :
          /\ f[j].block = Only(s, j)
          /\ \A c \in f[j].left : <<f[j].block, c>> \in connections
          /\ j + 1 \in DOMAIN f => <<f[j].block, f[j + 1].block>> \in connections
    /\ \A i \in DOMAIN s : Reached(Only(s, i))
    /\ \A b \in Block : IsSource(b) => b \in st \/ In(s, b)
    /\ \A i \in DOMAIN s : \A c :
          <<Only(s, i), c>> \in connections => In(s, c) \/ (i \in DOMAIN f /\ c \in f[i].left)
    /\ Acyclic => \A i, j \in DOMAIN s : <<Only(s, i), Only(s, j)>> \in connections => i < j

LineInv ==
    /\ pc \in {"start", "linearize"} => LineAt(stages, frames, starts)
    /\ pc = "start" => frames = <<>>
    /\ pc = "linearize" => frames # <<>>

LEMMA LineNext ==
    ASSUME UNCHANGED <<numIn, numOut, connections>>,
           LineAt(stages', frames', starts')
    PROVE  LineAt(stages, frames, starts)'
<1>1. Acyclic' <=> Acyclic
  BY DEF Acyclic, Successors, Connections
<1>2. \A b : (b \in Successors(Block))' <=> b \in Successors(Block)
  BY DEF Successors, Connections
<1>3. \A b : IsSource(b)' <=> IsSource(b)
  BY DEF IsSource
<1> QED
  BY <1>1, <1>2, <1>3 DEF LineAt, Reached, IsSource, Successors, Connections

LEMMA SingleFacts ==
    ASSUME NEW s \in Seq(Singles)
    PROVE  /\ Len(s) \in Nat /\ DOMAIN s = 1..Len(s)
           /\ s \in Matrix
           /\ \A i \in DOMAIN s :
                /\ s[i] = NewStage(Only(s, i)) /\ Only(s, i) \in Block
                /\ BlocksOf(s[i]) = {Only(s, i)}
                /\ Len(s[i]) = 1 /\ DOMAIN s[i] = {1}
                /\ Len(s[i][1]) = 1 /\ DOMAIN s[i][1] = {1}
<1>1. Len(s) \in Nat /\ DOMAIN s = 1..Len(s) /\ \A i \in 1..Len(s) : s[i] \in Singles
  BY LenProperties
<1>2. ASSUME NEW b \in Block
      PROVE  /\ NewStage(b) \in Stage /\ NewStage(b)[1][1] = b
             /\ Len(NewStage(b)) = 1 /\ DOMAIN NewStage(b) = {1}
             /\ Len(NewStage(b)[1]) = 1 /\ DOMAIN NewStage(b)[1] = {1}
             /\ BlocksOf(NewStage(b)) = {b}
  <2> DEFINE q == <<b>>
  <2>1. q \in Path /\ Len(q) = 1 /\ DOMAIN q = {1} /\ q[1] = b
    <3>1. q \in Seq(Block) /\ Len(q) = 1 /\ DOMAIN q = 1..1 /\ q[1] = b
      OBVIOUS
    <3>2. 1..1 = {1}
      OBVIOUS
    <3> QED
      BY <3>1, <3>2 DEF Path
  <2> HIDE DEF q
  <2>2. <<q>> \in Stage /\ Len(<<q>>) = 1 /\ DOMAIN <<q>> = {1} /\ <<q>>[1] = q
    <3>1. <<q>> \in Seq(Path) /\ Len(<<q>>) = 1 /\ DOMAIN <<q>> = 1..1 /\ <<q>>[1] = q
      BY <2>1
    <3>2. 1..1 = {1}
      OBVIOUS
    <3> QED
      BY <3>1, <3>2 DEF Stage
  <2>3. NewStage(b) = <<q>>
    BY DEF NewStage, q
  <2>4. BlocksOf(<<q>>) = {b}
    <3>1. ToSet(q) = {b}
      BY <2>1 DEF ToSet
    <3> QED
      BY <2>2, <3>1 DEF BlocksOf
  <2> QED
    BY <2>1, <2>2, <2>3, <2>4
<1>3. ASSUME NEW i \in DOMAIN s
      PROVE  /\ s[i] = NewStage(Only(s, i)) /\ Only(s, i) \in Block
             /\ BlocksOf(s[i]) = {Only(s, i)}
             /\ Len(s[i]) = 1 /\ DOMAIN s[i] = {1}
             /\ Len(s[i][1]) = 1 /\ DOMAIN s[i][1] = {1}
             /\ s[i] \in Stage
  <2>1. PICK b \in Block : s[i] = NewStage(b)
    BY <1>1 DEF Singles
  <2> QED
    BY <1>2, <2>1 DEF Only
<1>4. s \in Matrix
  BY <1>1, <1>3 DEF Matrix
<1> QED
  BY <1>1, <1>3, <1>4

LEMMA PlacedIsIn ==
    ASSUME stages \in Seq(Singles)
    PROVE  \A b : IsPlaced(b) <=> In(stages, b)
BY SingleFacts DEF IsPlaced, In

\* Line t is s with a stage for b at n.
Grown(s, t, n, b) ==
    /\ t \in Seq(Singles)
    /\ Len(t) = Len(s) + 1
    /\ \A i \in 1..Len(s) : i < n => Only(t, i) = Only(s, i)
    /\ \A i \in 1..Len(s) : i >= n => Only(t, i + 1) = Only(s, i)
    /\ Only(t, n) = b

LEMMA NewStageIsSingle ==
    ASSUME NEW b \in Block
    PROVE  NewStage(b) \in Singles /\ NewStage(b)[1][1] = b
BY DEF NewStage, Singles

LEMMA GrownInFront ==
    ASSUME NEW s \in Seq(Singles), NEW b \in Block
    PROVE  Grown(s, <<NewStage(b)>> \o s, 1, b)
<1> DEFINE e == NewStage(b)
<1>1. e \in Singles /\ e[1][1] = b
  BY NewStageIsSingle
<1>2. Len(s) \in Nat
  BY LenProperties
<1> HIDE DEF e
<1> DEFINE h == <<e>>
<1>3. h \in Seq(Singles) /\ Len(h) = 1 /\ h[1] = e
  BY <1>1
<1> HIDE DEF h
<1> DEFINE t == h \o s
<1>4. /\ t \in Seq(Singles)
      /\ Len(t) = Len(h) + Len(s)
      /\ \A i \in 1..(Len(h) + Len(s)) : t[i] = IF i <= Len(h) THEN h[i] ELSE s[i - Len(h)]
  BY <1>3, ConcatProperties
<1> HIDE DEF t
<1>5. t[1] = e
  BY <1>2, <1>3, <1>4
<1>6. ASSUME NEW i \in 1..Len(s)
      PROVE  t[i + 1] = s[i]
  <2>1. i + 1 \in 1..(1 + Len(s)) /\ ~(i + 1 <= 1) /\ (i + 1) - 1 = i
    BY <1>2
  <2> QED
    BY <1>3, <1>4, <2>1
<1>7. Len(t) = Len(s) + 1 /\ \A i \in 1..Len(s) : ~(i < 1)
  BY <1>2, <1>3, <1>4
<1> QED
  BY <1>1, <1>4, <1>5, <1>6, <1>7 DEF Grown, Only, t, h, e

LEMMA GrownBehind ==
    ASSUME NEW s \in Seq(Singles), NEW b \in Block, NEW n \in 1..(Len(s) + 1)
    PROVE  Grown(s, InsertAt(s, n, NewStage(b)), n, b)
<1> DEFINE e == NewStage(b)
           t == InsertAt(s, n, e)
<1>1. e \in Singles /\ e[1][1] = b
  BY NewStageIsSingle
<1>2. Len(s) \in Nat /\ n \in Nat
  BY LenProperties
<1> HIDE DEF e
<1>a. e \in Singles /\ s \in Seq(Singles) /\ n \in 1..(Len(s) + 1)
  BY <1>1
<1> HIDE DEF t
<1>b. /\ InsertAt(s, n, e) \in Seq(Singles)
      /\ Len(InsertAt(s, n, e)) = Len(s) + 1
      /\ \A i \in 1..(Len(s) + 1) : InsertAt(s, n, e)[i] =
            IF i < n THEN s[i] ELSE IF i = n THEN e ELSE s[i - 1]
  BY ONLY <1>a, Inserted
<1>3. /\ t \in Seq(Singles)
      /\ Len(t) = Len(s) + 1
      /\ \A i \in 1..(Len(s) + 1) : t[i] = IF i < n THEN s[i] ELSE IF i = n THEN e ELSE s[i - 1]
  BY <1>b DEF t
<1>4. ASSUME NEW i \in 1..Len(s), i < n
      PROVE  t[i] = s[i]
  BY <1>2, <1>3, <1>4
<1>5. ASSUME NEW i \in 1..Len(s), i >= n
      PROVE  t[i + 1] = s[i]
  <2>1. i + 1 \in 1..(Len(s) + 1) /\ ~(i + 1 < n) /\ i + 1 # n /\ (i + 1) - 1 = i
    BY <1>2, <1>5
  <2> QED
    BY <1>3, <2>1
<1>6. t[n] = e
  BY <1>2, <1>3
<1> QED
  BY <1>1, <1>3, <1>4, <1>5, <1>6 DEF Grown, Only, t, e

\* A block that the last of the blocks visited leads to leads to none of them.
LEMMA NoWayBack ==
    ASSUME PortsInv, Acyclic, NEW s, NEW f, NEW st, LineAt(s, f, st), NEW b \in Block,
           NEW j \in DOMAIN f, <<f[Len(f)].block, b>> \in connections
    PROVE  <<b, f[j].block>> \notin connections
<1> SUFFICES ASSUME <<b, f[j].block>> \in connections
             PROVE  FALSE
  OBVIOUS
<1>1. /\ f \in Seq(Frame) /\ Len(f) \in Nat /\ DOMAIN f = 1..Len(f)
      /\ \A k \in DOMAIN f : f[k] \in Frame
  BY LenProperties DEF LineAt
<1>2. \A k \in DOMAIN f : f[k].block \in Block
  BY <1>1 DEF Frame
<1> DEFINE S == {b} \cup {f[k].block : k \in j..Len(f)}
<1>3. S \in SUBSET Block /\ S # {}
  <2>1. \A k \in j..Len(f) : k \in DOMAIN f
    BY <1>1
  <2> QED
    BY <1>2, <2>1
<1>4. \A a, c : a \in S /\ <<a, c>> \in connections /\ c \in Block => c \in Successors(S)
  <2>1. \A T : \A a \in T : \A c \in Block : <<a, c>> \in connections => c \in Successors(T)
    BY DEF Successors, Connections
  <2> QED
    BY <2>1
<1>5. b \in Successors(S)
  <2>1. Len(f) \in j..Len(f)
    BY <1>1
  <2> QED
    BY <1>4, <2>1
<1>6. ASSUME NEW k \in j..Len(f)
      PROVE  f[k].block \in Successors(S)
  <2>0. k \in DOMAIN f
    BY <1>1
  <2>1. CASE k = j
    BY <1>2, <1>4, <2>0, <2>1
  <2>2. CASE k # j
    <3>1. k - 1 \in j..Len(f) /\ k - 1 \in DOMAIN f /\ (k - 1) + 1 = k
      BY <1>1, <2>2
    <3>2. <<f[k - 1].block, f[k].block>> \in connections
      BY <2>0, <3>1 DEF LineAt
    <3> QED
      BY <1>2, <1>4, <2>0, <3>1, <3>2
  <2> QED
    BY <2>1, <2>2
<1>7. S \subseteq Successors(S)
  BY <1>5, <1>6
<1> HIDE DEF S
<1> QED
  BY <1>3, <1>7 DEF Acyclic

LEMMA NewPlaced ==
    ASSUME PortsInv, NEW s, NEW f, NEW st, LineAt(s, f, st),
           NEW b \in Block, ~In(s, b), Reached(b),
           NEW g \in Seq(Frame), Len(g) = Len(f),
           \A j \in DOMAIN g :
              /\ g[j].block = f[j].block /\ g[j].left \subseteq f[j].left
              /\ \A c \in f[j].left : c = b \/ c \in g[j].left,
           Len(f) # 0 => <<f[Len(f)].block, b>> \in connections,
           NEW t, Grown(s, t, Len(f) + 1, b),
           NEW u, u \subseteq st, \A c \in st : c = b \/ c \in u
    PROVE  LineAt(t, Append(g, Visit(b)), u)
<1> DEFINE h == Append(g, Visit(b))
<1>1. PICK m \in Nat : Len(f) = m
  BY LenProperties DEF LineAt
<1>2. PICK l \in Nat : Len(s) = l
  BY LenProperties DEF LineAt
<1>3. /\ s \in Seq(Singles) /\ DOMAIN s = 1..l /\ m <= l
      /\ DOMAIN f = 1..m /\ DOMAIN g = 1..m /\ Len(g) = m
  BY <1>1, <1>2, LenProperties DEF LineAt
<1>4. /\ t \in Seq(Singles) /\ DOMAIN t = 1..(l + 1) /\ Len(t) = l + 1
      /\ \A i \in 1..l : i < m + 1 => Only(t, i) = Only(s, i)
      /\ \A i \in 1..l : i >= m + 1 => Only(t, i + 1) = Only(s, i)
      /\ Only(t, m + 1) = b
  BY <1>1, <1>2, LenProperties DEF Grown
<1>5. Visit(b) \in Frame /\ Visit(b).block = b
  BY DEF Visit, Frame, Connections
<1>6. \A c : c \in Visit(b).left <=> <<b, c>> \in connections
  <2>1. ASSUME NEW c, <<b, c>> \in connections
        PROVE  IsSource(b) /\ c \in Block
    <3>1. <<b, c>>[1] = b
      OBVIOUS
    <3> QED
      BY <2>1, <3>1 DEF PortsInv
  <2> QED
    BY <2>1 DEF Visit, Connections
<1>7. /\ h \in Seq(Frame) /\ Len(h) = m + 1 /\ DOMAIN h = 1..(m + 1)
      /\ \A j \in 1..m : h[j] = g[j]
      /\ h[m + 1] = Visit(b)
  BY <1>3, <1>5, AppendProperties, LenProperties
<1> HIDE DEF h
<1>8. ASSUME NEW i \in DOMAIN t
      PROVE  \/ i = m + 1 /\ Only(t, i) = b
             \/ \E k \in DOMAIN s : /\ Only(t, i) = Only(s, k)
                                    /\ (k < m + 1 /\ i = k) \/ (k >= m + 1 /\ i = k + 1)
  <2>1. CASE i = m + 1
    BY <1>4, <2>1
  <2>2. CASE i < m + 1
    <3>1. i \in 1..l
      BY <1>3, <1>4, <2>2
    <3> QED
      BY <1>3, <1>4, <2>2, <3>1
  <2>3. CASE i > m + 1
    <3>1. i - 1 \in 1..l /\ i - 1 >= m + 1 /\ (i - 1) + 1 = i
      BY <1>3, <1>4, <2>3
    <3> QED
      BY <1>3, <1>4, <3>1
  <2> QED
    BY <1>4, <2>1, <2>2, <2>3
<1>9. /\ In(t, b)
      /\ \A c : In(s, c) => In(t, c)
  <2>1. m + 1 \in DOMAIN t
    BY <1>3, <1>4
  <2>2. ASSUME NEW c, NEW k \in DOMAIN s, Only(s, k) = c
        PROVE  In(t, c)
    <3>1. CASE k < m + 1
      <4>1. k \in DOMAIN t
        BY <1>3, <1>4
      <4> QED
        BY <1>3, <1>4, <2>2, <3>1, <4>1 DEF In
    <3>2. CASE k >= m + 1
      <4>1. k + 1 \in DOMAIN t
        BY <1>3, <1>4
      <4> QED
        BY <1>3, <1>4, <2>2, <3>2, <4>1 DEF In
    <3> QED
      BY <1>3, <3>1, <3>2
  <2> QED
    BY <1>4, <2>1, <2>2 DEF In
<1>10. \A i, j \in DOMAIN t : Only(t, i) = Only(t, j) => i = j
  <2> SUFFICES ASSUME NEW i \in DOMAIN t, NEW j \in DOMAIN t, Only(t, i) = Only(t, j)
               PROVE  i = j
    OBVIOUS
  <2>1. \A k \in DOMAIN s : Only(s, k) # b
    BY DEF In
  <2>2. \A k, n \in DOMAIN s : Only(s, k) = Only(s, n) => k = n
    BY DEF LineAt
  <2> QED
    BY <1>3, <1>8, <2>1, <2>2
<1>11. h \in Seq(Frame) /\ Len(h) <= Len(t)
  BY <1>3, <1>4, <1>7
<1>12. \A c \in u : c \in Block /\ IsSource(c)
  BY DEF LineAt
<1>13. ASSUME NEW j \in DOMAIN h
       PROVE  /\ h[j].block = Only(t, j)
              /\ \A c \in h[j].left : <<h[j].block, c>> \in connections
              /\ j + 1 \in DOMAIN h => <<h[j].block, h[j + 1].block>> \in connections
  <2>1. CASE j = m + 1
    <3>1. j + 1 \notin DOMAIN h
      BY <1>7, <2>1
    <3> QED
      BY <1>4, <1>5, <1>6, <1>7, <2>1, <3>1
  <2>2. CASE j \in 1..m
    <3>1. h[j] = g[j] /\ g[j].block = f[j].block /\ g[j].left \subseteq f[j].left
      BY <1>3, <1>7, <2>2
    <3>2. f[j].block = Only(s, j) /\ \A c \in f[j].left : <<f[j].block, c>> \in connections
      BY <1>3, <2>2 DEF LineAt
    <3>3. Only(t, j) = Only(s, j)
      <4>1. j \in 1..l /\ j < m + 1
        BY <1>3, <2>2
      <4> QED
        BY <1>4, <4>1
    <3>4. CASE j = m
      BY <1>1, <1>5, <1>7, <2>2, <3>1, <3>2, <3>3, <3>4
    <3>5. CASE j # m
      <4>1. j + 1 \in 1..m
        BY <2>2, <3>5
      <4>2. h[j + 1] = g[j + 1] /\ g[j + 1].block = f[j + 1].block
        BY <1>3, <1>7, <4>1
      <4>3. <<f[j].block, f[j + 1].block>> \in connections
        BY <1>3, <2>2, <4>1 DEF LineAt
      <4> QED
        BY <3>1, <3>2, <3>3, <4>2, <4>3
    <3> QED
      BY <3>4, <3>5
  <2> QED
    BY <1>7, <2>1, <2>2
<1>14. \A i \in DOMAIN t : Reached(Only(t, i))
  BY <1>8 DEF LineAt
<1>15. \A c \in Block : IsSource(c) => c \in u \/ In(t, c)
  BY <1>9 DEF LineAt
<1>16. ASSUME NEW i \in DOMAIN t, NEW c, <<Only(t, i), c>> \in connections
       PROVE  In(t, c) \/ (i \in DOMAIN h /\ c \in h[i].left)
  <2>1. CASE i = m + 1 /\ Only(t, i) = b
    <3>1. m + 1 \in DOMAIN h
      BY <1>7
    <3> QED
      BY <1>6, <1>7, <1>16, <2>1, <3>1
  <2>2. ASSUME NEW k \in DOMAIN s, Only(t, i) = Only(s, k),
               (k < m + 1 /\ i = k) \/ (k >= m + 1 /\ i = k + 1)
        PROVE  In(t, c) \/ (i \in DOMAIN h /\ c \in h[i].left)
    <3>1. In(s, c) \/ (k \in DOMAIN f /\ c \in f[k].left)
      BY <1>16, <2>2 DEF LineAt
    <3>2. CASE k \in DOMAIN f /\ c \in f[k].left
      <4>1. k \in 1..m /\ i = k
        BY <1>3, <2>2, <3>2
      <4>2. c = b \/ c \in g[k].left
        BY <1>3, <3>2
      <4>3. k \in DOMAIN h /\ h[k] = g[k]
        BY <1>7, <4>1
      <4> QED
        BY <1>9, <4>1, <4>2, <4>3
    <3> QED
      BY <1>9, <3>1, <3>2
  <2> QED
    BY <1>8, <2>1, <2>2
<1>17. ASSUME Acyclic, NEW i \in DOMAIN t, NEW j \in DOMAIN t,
              <<Only(t, i), Only(t, j)>> \in connections
       PROVE  i < j
  <2>1. CASE i = m + 1 /\ Only(t, i) = b /\ j = m + 1 /\ Only(t, j) = b
    <3>1. b \in Successors({b}) /\ {b} # {} /\ {b} \in SUBSET Block
      BY <1>17, <2>1 DEF Successors, Connections
    <3>2. {b} \subseteq Successors({b})
      BY <3>1
    <3> QED
      BY <1>17, <3>1, <3>2 DEF Acyclic
  <2>2. ASSUME i = m + 1, Only(t, i) = b, NEW k \in DOMAIN s, Only(t, j) = Only(s, k),
               (k < m + 1 /\ j = k) \/ (k >= m + 1 /\ j = k + 1)
        PROVE  i < j
    <3>1. CASE k < m + 1
      <4>1. k \in DOMAIN f /\ Len(f) # 0
        BY <1>1, <1>3, <3>1
      <4>2. f[k].block = Only(s, k)
        BY <4>1 DEF LineAt
      <4>3. <<b, f[k].block>> \notin connections
        BY <1>17, <4>1, NoWayBack
      <4> QED
        BY <1>17, <2>2, <4>2, <4>3
    <3>2. CASE k >= m + 1
      BY <1>3, <2>2, <3>2
    <3> QED
      BY <1>3, <3>1, <3>2
  <2>3. ASSUME j = m + 1, Only(t, j) = b, NEW k \in DOMAIN s, Only(t, i) = Only(s, k),
               (k < m + 1 /\ i = k) \/ (k >= m + 1 /\ i = k + 1)
        PROVE  i < j
    <3>1. k \in DOMAIN f
      BY <1>17, <2>3 DEF LineAt
    <3> QED
      BY <1>3, <2>3, <3>1
  <2>4. ASSUME NEW k \in DOMAIN s, Only(t, i) = Only(s, k),
               (k < m + 1 /\ i = k) \/ (k >= m + 1 /\ i = k + 1),
               NEW n \in DOMAIN s, Only(t, j) = Only(s, n),
               (n < m + 1 /\ j = n) \/ (n >= m + 1 /\ j = n + 1)
        PROVE  i < j
    <3>1. k < n
      BY <1>17, <2>4 DEF LineAt
    <3> QED
      BY <1>3, <2>4, <3>1
  <2> QED
    BY <1>8, <2>1, <2>2, <2>3, <2>4
<1> QED
  BY <1>4, <1>10, <1>11, <1>12, <1>13, <1>14, <1>15, <1>16, <1>17 DEF LineAt, h

-----------------------------------------------------------------------------
(* The steps of linearize *)

LEMMA StartBlockStep ==
    ASSUME PortsInv, LineInv, NEW b \in Block, StartBlock(b)
    PROVE  LineInv' /\ pc' \in {"start", "linearize"}
<1>1. /\ pc = "start" /\ b \in starts /\ starts' = starts \ {b}
      /\ IF IsPlaced(b)
         THEN UNCHANGED <<stages, frames, pc>>
         ELSE AddBlock(b) /\ frames' = <<Visit(b)>> /\ pc' = "linearize"
      /\ UNCHANGED <<numIn, numOut, connections>>
  BY DEF StartBlock, IsNextStart
<1>2. LineAt(stages, frames, starts) /\ frames = <<>>
  BY <1>1 DEF LineInv
<1>3. /\ stages \in Seq(Singles) /\ IsSource(b)
      /\ IsPlaced(b) <=> In(stages, b)
  BY <1>1, <1>2, PlacedIsIn DEF LineAt
<1>4. CASE IsPlaced(b)
  <2>1. LineAt(stages, frames, starts \ {b})
    BY <1>2, <1>3, <1>4 DEF LineAt
  <2>2. LineAt(stages, frames, starts)'
    BY <1>1, <1>4, <2>1, LineNext
  <2> QED
    BY <1>1, <1>2, <1>4, <2>2 DEF LineInv
<1>5. CASE ~IsPlaced(b)
  <2>1. stages' = <<NewStage(b)>> \o stages /\ frames' = <<Visit(b)>> /\ pc' = "linearize"
    BY <1>1, <1>3, <1>5 DEF AddBlock
  <2>2. Len(frames) = 0 /\ frames \in Seq(Frame) /\ \A j \in DOMAIN frames : FALSE
    BY <1>2
  <2>3. Append(frames, Visit(b)) = <<Visit(b)>>
    BY <1>2
  <2>4. Grown(stages, stages', Len(frames) + 1, b)
    <3>1. Len(frames) + 1 = 1
      BY <2>2
    <3> QED
      BY <1>3, <2>1, <3>1, GrownInFront
  <2>5. ~In(stages, b) /\ Reached(b)
    BY <1>3, <1>5 DEF Reached
  <2>6. LineAt(stages', Append(frames, Visit(b)), starts \ {b})
    <3>1. starts \ {b} \subseteq starts /\ \A c \in starts : c = b \/ c \in starts \ {b}
      OBVIOUS
    <3>2. ~(Len(frames) # 0)
      BY <2>2
    <3>3. \A j \in DOMAIN frames :
             /\ frames[j].block = frames[j].block /\ frames[j].left \subseteq frames[j].left
             /\ \A c \in frames[j].left : c = b \/ c \in frames[j].left
      OBVIOUS
    <3> QED
      BY <1>2, <2>2, <2>4, <2>5, <3>1, <3>2, <3>3, NewPlaced
  <2>7. LineAt(stages, frames, starts)'
    BY <1>1, <2>1, <2>3, <2>6, LineNext
  <2>8. frames' # <<>>
    BY <2>1
  <2> QED
    BY <2>1, <2>7, <2>8 DEF LineInv
<1> QED
  BY <1>4, <1>5

\* The top of the recursion, and what becomes of it when a connection is taken off.
LEMMA TopFacts ==
    ASSUME NEW f \in Seq(Frame), f # <<>>, NEW b
    PROVE  LET top == Last(f)
               g == Append(Front(f), [top EXCEPT !.left = @ \ {b}])
           IN /\ Len(f) \in Nat /\ Len(f) >= 1 /\ DOMAIN f = 1..Len(f)
              /\ top = f[Len(f)] /\ top \in Frame
              /\ g \in Seq(Frame) /\ Len(g) = Len(f) /\ DOMAIN g = 1..Len(f)
              /\ \A j \in 1..(Len(f) - 1) : g[j] = f[j]
              /\ g[Len(f)].block = top.block /\ g[Len(f)].left = top.left \ {b}
<1>1. PICK m \in Nat : Len(f) = m /\ m >= 1
  BY EndOf
<1>2. DOMAIN f = 1..m /\ Last(f) = f[m] /\ f[m] \in Frame
  BY <1>1, EndOf
<1>3. /\ Front(f) \in Seq(Frame) /\ Len(Front(f)) = m - 1
      /\ \A i \in 1..(m - 1) : Front(f)[i] = f[i]
  BY <1>1, FrontOf
<1> DEFINE e == [f[m] EXCEPT !.left = @ \ {b}]
<1>4. e \in Frame /\ e.block = f[m].block /\ e.left = f[m].left \ {b}
  BY <1>2 DEF Frame
<1> HIDE DEF e
<1> DEFINE r == Front(f)
<1> HIDE DEF r
<1>5. r \in Seq(Frame) /\ Len(r) = m - 1 /\ \A i \in 1..(m - 1) : r[i] = f[i]
  BY <1>3 DEF r
<1>6. /\ Append(r, e) \in Seq(Frame)
      /\ Len(Append(r, e)) = Len(r) + 1
      /\ \A i \in 1..Len(r) : Append(r, e)[i] = r[i]
      /\ Append(r, e)[Len(r) + 1] = e
  BY <1>4, <1>5, AppendProperties
<1> DEFINE g == Append(r, e)
<1> HIDE DEF g
<1>7. /\ g \in Seq(Frame) /\ Len(g) = m
      /\ \A i \in 1..(m - 1) : g[i] = f[i]
      /\ g[m] = e
  BY <1>5, <1>6 DEF g
<1>8. DOMAIN g = 1..m
  BY <1>7, LenProperties
<1> QED
  BY <1>1, <1>2, <1>4, <1>7, <1>8 DEF g, r, e

LEMMA LinearizeNextStep ==
    ASSUME PortsInv, LineInv, LinearizeNext
    PROVE  LineInv' /\ pc' \in {"start", "linearize"}
<1> DEFINE top == Last(frames)
<1>1. pc = "linearize" /\ pc' = pc /\ starts' = starts /\ UNCHANGED <<numIn, numOut, connections>>
  BY DEF LinearizeNext
<1>2. PICK b \in top.left :
         LET rest == Append(Front(frames), [top EXCEPT !.left = @ \ {b}]) IN
         IF IsPlaced(b)
         THEN frames' = rest /\ UNCHANGED stages
         ELSE frames' = Append(rest, Visit(b)) /\ PlaceBlock(b, top.block)
  BY DEF LinearizeNext
<1>3. /\ LineAt(stages, frames, starts) /\ frames # <<>>
      /\ frames \in Seq(Frame) /\ stages \in Seq(Singles)
  BY <1>1 DEF LineInv, LineAt
<1> DEFINE g == Append(Front(frames), [top EXCEPT !.left = @ \ {b}])
<1>4. PICK m \in Nat : Len(frames) = m /\ m >= 1
  BY <1>3, EndOf
<1>5. /\ DOMAIN frames = 1..m /\ top = frames[m] /\ top \in Frame
      /\ g \in Seq(Frame) /\ Len(g) = m /\ DOMAIN g = 1..m
      /\ \A j \in 1..(m - 1) : g[j] = frames[j]
      /\ g[m].block = top.block /\ g[m].left = top.left \ {b}
  BY <1>3, <1>4, TopFacts
<1>6. b \in Block
  BY <1>2, <1>5 DEF Frame
<1>7. \/ IsPlaced(b) /\ frames' = g /\ stages' = stages
      \/ ~IsPlaced(b) /\ frames' = Append(g, Visit(b)) /\ PlaceBlock(b, top.block)
  BY <1>2
<1>8. IsPlaced(b) <=> In(stages, b)
  BY <1>3, PlacedIsIn
<1> HIDE DEF g, top
<1>9. \A j \in DOMAIN g :
         /\ g[j].block = frames[j].block /\ g[j].left \subseteq frames[j].left
         /\ \A c \in frames[j].left : c = b \/ c \in g[j].left
  <2> SUFFICES ASSUME NEW j \in 1..m
               PROVE  /\ g[j].block = frames[j].block /\ g[j].left \subseteq frames[j].left
                      /\ \A c \in frames[j].left : c = b \/ c \in g[j].left
    BY <1>5
  <2>1. CASE j = m
    BY <1>5, <2>1
  <2>2. CASE j # m
    <3>1. j \in 1..(m - 1)
      BY <2>2
    <3> QED
      BY <1>5, <3>1
  <2> QED
    BY <2>1, <2>2
<1>10. <<frames[m].block, b>> \in connections
  <2>1. m \in DOMAIN frames /\ b \in frames[m].left
    BY <1>2, <1>4, <1>5 DEF top
  <2> QED
    BY <1>3, <2>1 DEF LineAt
<1>11. CASE IsPlaced(b) /\ frames' = g /\ stages' = stages
  <2>1. LineAt(stages, g, starts)
    <3>1. Len(g) <= Len(stages)
      BY <1>3, <1>4, <1>5 DEF LineAt
    <3>2. ASSUME NEW j \in DOMAIN g
          PROVE  /\ g[j].block = Only(stages, j)
                 /\ \A c \in g[j].left : <<g[j].block, c>> \in connections
                 /\ j + 1 \in DOMAIN g => <<g[j].block, g[j + 1].block>> \in connections
      <4>1. j \in DOMAIN frames
        BY <1>5
      <4>2. /\ frames[j].block = Only(stages, j)
            /\ \A c \in frames[j].left : <<frames[j].block, c>> \in connections
            /\ j + 1 \in DOMAIN frames => <<frames[j].block, frames[j + 1].block>> \in connections
        BY <1>3, <4>1 DEF LineAt
      <4> QED
        BY <1>5, <1>9, <4>2
    <3>3. ASSUME NEW i \in DOMAIN stages, NEW c, <<Only(stages, i), c>> \in connections
          PROVE  In(stages, c) \/ (i \in DOMAIN g /\ c \in g[i].left)
      <4>1. In(stages, c) \/ (i \in DOMAIN frames /\ c \in frames[i].left)
        BY <1>3, <3>3 DEF LineAt
      <4> QED
        BY <1>5, <1>8, <1>9, <1>11, <4>1
    <3> QED
      BY <1>3, <1>5, <3>1, <3>2, <3>3 DEF LineAt
  <2>2. LineAt(stages, frames, starts)'
    BY <1>1, <1>11, <2>1, LineNext
  <2>3. frames' # <<>>
    BY <1>4, <1>5, <1>11
  <2> QED
    BY <1>1, <2>2, <2>3 DEF LineInv
<1>12. CASE ~IsPlaced(b) /\ frames' = Append(g, Visit(b)) /\ PlaceBlock(b, top.block)
  <2>1. /\ Len(stages) \in Nat /\ DOMAIN stages = 1..Len(stages)
        /\ m \in DOMAIN stages /\ m + 1 \in 1..(Len(stages) + 1)
        /\ top.block = Only(stages, m)
    <3>1. Len(stages) \in Nat /\ DOMAIN stages = 1..Len(stages) /\ m <= Len(stages)
      BY <1>3, <1>4, LenProperties DEF LineAt
    <3>2. frames[m].block = Only(stages, m)
      <4>1. m \in DOMAIN frames
        BY <1>4, <1>5
      <4> QED
        BY <1>3, <4>1 DEF LineAt
    <3>3. m \in 1..Len(stages) /\ m + 1 \in 1..(Len(stages) + 1)
      BY <1>4, <3>1
    <3> QED
      BY <1>5, <3>1, <3>2, <3>3
  <2>2. stages' = InsertAt(stages, m + 1, NewStage(b))
    <3>1. \A i \in DOMAIN stages : top.block \in BlocksOf(stages[i]) <=> i = m
      BY <1>3, <2>1, SingleFacts DEF LineAt
    <3>2. {i \in DOMAIN stages : top.block \in BlocksOf(stages[i])} = {m}
      BY <2>1, <3>1
    <3> QED
      BY <1>12, <3>2 DEF PlaceBlock
  <2>3. Grown(stages, stages', Len(frames) + 1, b)
    BY <1>3, <1>4, <1>6, <2>1, <2>2, GrownBehind
  <2>4. ~In(stages, b)
    BY <1>8, <1>12
  <2>5. Reached(b)
    <3>1. frames[m].block \in Block
      BY <1>5 DEF Frame
    <3> QED
      BY <1>6, <1>10, <3>1 DEF Reached, Successors, Connections
  <2>6. LineAt(stages', Append(g, Visit(b)), starts)
    <3>1. starts \subseteq starts /\ \A c \in starts : c = b \/ c \in starts
      OBVIOUS
    <3>2. Len(g) = Len(frames) /\ g \in Seq(Frame)
      BY <1>4, <1>5
    <3>3. <<frames[Len(frames)].block, b>> \in connections
      BY <1>4, <1>10
    <3> QED
      BY <1>3, <1>6, <1>9, <2>3, <2>4, <2>5, <3>1, <3>2, <3>3, NewPlaced
  <2>7. LineAt(stages, frames, starts)'
    BY <1>1, <1>12, <2>6, LineNext
  <2>8. frames' # <<>>
    <3>1. Visit(b) \in Frame
      BY <1>6 DEF Visit, Frame, Connections
    <3>2. Len(Append(g, Visit(b))) = m + 1
      BY <1>5, <3>1, AppendProperties
    <3> QED
      BY <1>12, <3>2
  <2> QED
    BY <1>1, <2>7, <2>8 DEF LineInv
<1> QED
  BY <1>7, <1>11, <1>12

LEMMA LinearizeReturnStep ==
    ASSUME PortsInv, LineInv, LinearizeReturn
    PROVE  LineInv' /\ pc' \in {"start", "linearize"}
<1>1. /\ pc = "linearize" /\ Last(frames).left = {} /\ frames' = Front(frames)
      /\ pc' = IF Len(frames) = 1 THEN "start" ELSE pc
      /\ starts' = starts /\ stages' = stages /\ UNCHANGED <<numIn, numOut, connections>>
  BY DEF LinearizeReturn, matrixVars
<1>2. /\ LineAt(stages, frames, starts) /\ frames # <<>>
      /\ frames \in Seq(Frame) /\ stages \in Seq(Singles)
  BY <1>1 DEF LineInv, LineAt
<1>3. PICK m \in Nat : Len(frames) = m /\ m >= 1
  BY <1>2, EndOf
<1>4. DOMAIN frames = 1..m /\ frames[m].left = {}
  BY <1>1, <1>2, <1>3, EndOf
<1> DEFINE g == Front(frames)
<1>5. g \in Seq(Frame) /\ Len(g) = m - 1 /\ \A i \in 1..(m - 1) : g[i] = frames[i]
  BY <1>2, <1>3, FrontOf
<1> HIDE DEF g
<1>6. DOMAIN g = 1..(m - 1)
  BY <1>5, LenProperties
<1>7. LineAt(stages, g, starts)
  <2>1. Len(g) <= Len(stages)
    <3>1. Len(stages) \in Nat /\ m <= Len(stages)
      BY <1>2, <1>3, LenProperties DEF LineAt
    <3> QED
      BY <1>5, <3>1
  <2>2. ASSUME NEW j \in DOMAIN g
        PROVE  /\ g[j].block = Only(stages, j)
               /\ \A c \in g[j].left : <<g[j].block, c>> \in connections
               /\ j + 1 \in DOMAIN g => <<g[j].block, g[j + 1].block>> \in connections
    <3>1. j \in DOMAIN frames /\ g[j] = frames[j]
      BY <1>4, <1>5, <1>6
    <3>2. j + 1 \in DOMAIN g => j + 1 \in DOMAIN frames /\ g[j + 1] = frames[j + 1]
      BY <1>4, <1>5, <1>6
    <3> QED
      BY <1>2, <3>1, <3>2 DEF LineAt
  <2>3. ASSUME NEW i \in DOMAIN stages, NEW c, <<Only(stages, i), c>> \in connections
        PROVE  In(stages, c) \/ (i \in DOMAIN g /\ c \in g[i].left)
    <3>1. In(stages, c) \/ (i \in DOMAIN frames /\ c \in frames[i].left)
      BY <1>2, <2>3 DEF LineAt
    <3>2. CASE i \in DOMAIN frames /\ c \in frames[i].left
      <4>1. i # m
        BY <1>4, <3>2
      <4>2. i \in 1..(m - 1)
        BY <1>4, <3>2, <4>1
      <4> QED
        BY <1>5, <1>6, <3>2, <4>2
    <3> QED
      BY <3>1, <3>2
  <2> QED
    BY <1>2, <1>5, <2>1, <2>2, <2>3 DEF LineAt
<1>8. LineAt(stages, frames, starts)'
  BY <1>1, <1>7, LineNext DEF g
<1>9. pc' = "start" => frames' = <<>>
  <2>1. m = 1 => g = <<>>
    BY <1>5
  <2> QED
    BY <1>1, <1>3, <2>1 DEF g
<1>10. pc' = "linearize" => frames' # <<>>
  <2>1. m # 1 => g # <<>>
    BY <1>3, <1>5
  <2> QED
    BY <1>1, <1>3, <2>1 DEF g
<1> QED
  BY <1>1, <1>8, <1>9, <1>10 DEF LineInv

\* When linearize is done, the line is a matrix to begin combine_stages with.
LEMMA LineSound ==
    ASSUME PortsInv, NEW s, LineAt(s, <<>>, {})
    PROVE  Sound(s) /\ CombineAt(s, 1, 1)
<1>1. /\ s \in Seq(Singles) /\ s \in Matrix /\ Len(s) \in Nat /\ DOMAIN s = 1..Len(s)
      /\ \A i \in DOMAIN s : /\ Len(s[i]) = 1 /\ DOMAIN s[i] = {1}
                             /\ Len(s[i][1]) = 1 /\ DOMAIN s[i][1] = {1}
                             /\ Only(s, i) \in Block
  BY SingleFacts DEF LineAt
<1>2. ASSUME NEW x \in PlacesIn(s)
      PROVE  /\ x[1] \in DOMAIN s /\ x = <<x[1], 1, 1>> /\ BlockAt(s, x) = Only(s, x[1])
  <2>1. /\ x = <<x[1], x[2], x[3]>> /\ x[1] \in DOMAIN s
        /\ x[2] \in DOMAIN s[x[1]] /\ x[3] \in DOMAIN s[x[1]][x[2]]
    BY PlaceFacts
  <2>2. x[2] = 1 /\ x[3] = 1
    BY <1>1, <2>1
  <2> QED
    BY <2>1, <2>2 DEF BlockAt, Only
<1>3. ASSUME NEW i \in DOMAIN s
      PROVE  <<i, 1, 1>> \in PlacesIn(s) /\ BlockAt(s, <<i, 1, 1>>) = Only(s, i)
  BY <1>1, PlaceFacts DEF Only
<1>4. DistinctIn(s)
  <2> SUFFICES ASSUME NEW x \in PlacesIn(s), NEW y \in PlacesIn(s),
                      BlockAt(s, x) = BlockAt(s, y)
               PROVE  x = y
    BY DEF DistinctIn
  <2>1. x[1] = y[1]
    BY <1>2 DEF LineAt
  <2> QED
    BY <1>2, <2>1
<1>5. ChainedIn(s)
  <2>1. \A i \in DOMAIN s : \A p \in DOMAIN s[i] : p = 1
    BY <1>1
  <2>2. ASSUME NEW i \in DOMAIN s, NEW k \in 1..(Len(s[i][1]) - 1)
        PROVE  FALSE
    <3>1. Len(s[i][1]) = 1
      BY <1>1
    <3>2. k \in 1..(1 - 1)
      BY <3>1
    <3> QED
      BY <3>2
  <2> QED
    BY <2>1, <2>2 DEF ChainedIn
<1>6. \A b : Has(s, b) <=> In(s, b)
  BY <1>2, <1>3 DEF Has, In
<1>7. ASSUME NEW b \in Block
      PROVE  In(s, b) <=> Reached(b)
  <2>1. In(s, b) => Reached(b)
    BY DEF In, LineAt
  <2>2. IsSource(b) => In(s, b)
    BY DEF LineAt
  <2>3. ASSUME b \in Successors(Block)
        PROVE  In(s, b)
    <3>1. PICK a \in Block : <<a, b>> \in connections
      BY <2>3 DEF Successors, Connections
    <3>2. IsSource(a)
      <4>1. <<a, b>>[1] = a
        OBVIOUS
      <4> QED
        BY <3>1, <4>1 DEF PortsInv
    <3>3. PICK i \in DOMAIN s : Only(s, i) = a
      BY <3>2 DEF LineAt, In
    <3> QED
      BY <3>1, <3>3 DEF LineAt
  <2> QED
    BY <2>1, <2>2, <2>3 DEF Reached
<1>8. Acyclic => OrderedIn(s)
  <2> SUFFICES ASSUME Acyclic, NEW x \in PlacesIn(s), NEW y \in PlacesIn(s),
                      <<BlockAt(s, x), BlockAt(s, y)>> \in connections
               PROVE  Precedes(x, y)
    BY DEF OrderedIn
  <2>1. x[1] < y[1]
    BY <1>2 DEF LineAt
  <2> QED
    BY <2>1 DEF Precedes
<1>9. CombineAt(s, 1, 1)
  <2>1. \A i \in DOMAIN s : ~(i < 1) /\ ~(1 < i /\ i <= 1)
    BY <1>1
  <2> QED
    BY <1>1, <2>1 DEF CombineAt
<1> QED
  BY <1>1, <1>4, <1>5, <1>6, <1>7, <1>8, <1>9 DEF Sound
=============================================================================
