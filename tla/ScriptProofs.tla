---------------------------- MODULE ScriptProofs ----------------------------
(***************************************************************************)
(* Proofs about programs that use PlugBoard: for every script, whatever    *)
(* expressions are nested in it, every array of a Python program, and      *)
(* every declaration of parameters.                                        *)
(***************************************************************************)
EXTENDS Script, SequenceTheorems, FiniteSetTheorems, TLAPS

-----------------------------------------------------------------------------
(* Induction over the natural numbers, from least elements *)

\* Every set of natural numbers that is not empty has a least element.
LEMMA LeastElement ==
    ASSUME NEW T \in SUBSET Nat, T # {}
    PROVE  \E x \in T : \A y \in T : x <= y
  <1> DEFINE UpTo(n) == 1..n
             U == {UpTo(n) : n \in T}
             R == StrictSubsetOrdering(Nat)
             F == FiniteSubsetsOf(Nat)
  <1>1. IsWellFoundedOn(R, F)
    BY FS_StrictSubsetOrderingWellFounded
  <1>2. U \subseteq F
    BY FS_Interval DEF FiniteSubsetsOf
  <1>3. U # {}
    OBVIOUS
  <1>4. \E a \in U : \A b \in U : <<b, a>> \notin R
    <2> HIDE DEF U, R, F
    <2> QED BY <1>1, <1>2, <1>3, WFMin
  <1>5. PICK x \in T : \A y \in T : <<UpTo(y), UpTo(x)>> \notin R
    BY <1>4
  <1>6. \A y \in T : y < x => <<UpTo(y), UpTo(x)>> \in R
    <2> SUFFICES ASSUME NEW y \in T, y < x PROVE <<UpTo(y), UpTo(x)>> \in R
      OBVIOUS
    <2>1. UpTo(y) \subseteq UpTo(x) /\ x \in UpTo(x) /\ x \notin UpTo(y)
      OBVIOUS
    <2>2. UpTo(y) \in SUBSET Nat /\ UpTo(x) \in SUBSET Nat
      OBVIOUS
    <2> QED BY <2>1, <2>2 DEF StrictSubsetOrdering
  <1>7. \A y \in T : ~(y < x)
    BY <1>5, <1>6
  <1> HIDE DEF R, U, F, UpTo
  <1> QED BY <1>7

\* Induction, with a set for the predicate.
LEMMA InductionOnSet ==
    ASSUME NEW S \in SUBSET Nat, 0 \in S, \A n \in S : n + 1 \in S
    PROVE  S = Nat
  <1> SUFFICES ASSUME Nat \ S # {} PROVE FALSE
    OBVIOUS
  <1>1. PICK x \in Nat \ S : \A y \in Nat \ S : x <= y
    BY LeastElement
  <1>2. x - 1 \in Nat /\ x - 1 \notin Nat \ S
    BY <1>1
  <1> QED BY <1>1, <1>2

\* The greatest of some numbers up to m + 1, with m + 1.
LEMMA MaxOfInitial ==
    ASSUME NEW m \in Nat, NEW s \in SUBSET (1..(m + 1)), m + 1 \in s
    PROVE  Max(s) = m + 1
  <1>1. \A y \in s : m + 1 >= y
    OBVIOUS
  <1>2. Max(s) \in s /\ \A y \in s : Max(s) >= y
    BY <1>1 DEF Max
  <1> DEFINE x == Max(s)
  <1>3. x \in 1..(m + 1) /\ x >= m + 1
    <2>1. x \in s /\ \A y \in s : x >= y
      BY <1>2
    <2> HIDE DEF x
    <2> QED BY <2>1
  <1> HIDE DEF x
  <1>4. x = m + 1
    BY <1>3
  <1> QED BY <1>4 DEF x

\* What becomes of v element by element.
Unfolds(f, v, t, elements, n) ==
    /\ DOMAIN f = 0..n
    /\ f[0] = v
    /\ \A k \in 1..n : f[k] = PushBack(f[k - 1], t, elements[k])
    /\ PushAll(v, t, elements) = f[n]

\* PushAll is a fold over a set of indices: the function it is defined by exists, and takes
\* the elements in their order.
LEMMA PushAllUnfolds ==
    ASSUME NEW v, NEW t, NEW elements, NEW n \in Nat, DOMAIN elements = 1..n
    PROVE  \E f : Unfolds(f, v, t, elements, n)
  <1> DEFINE G(u, k) == PushBack(u, t, elements[k])
             Iter(m, it) == it = [s \in SUBSET (1..m) |->
                                     IF s = {} THEN v ELSE G(it[s \ {Max(s)}], Max(s))]
             S == {m \in Nat : \E it : Iter(m, it)}
  <1>1. S = Nat
    <2> HIDE DEF G
    <2>1. 0 \in S
      <3> DEFINE it == [s \in SUBSET (1..0) |-> v]
      <3>1. 1..0 = {}
        OBVIOUS
      <3>2. Iter(0, it)
        BY <3>1
      <3> QED BY <3>2
    <2>2. ASSUME NEW m \in S PROVE m + 1 \in S
      <3>1. PICK it : Iter(m, it)
        OBVIOUS
      <3> DEFINE more == [s \in SUBSET (1..(m + 1)) |->
                             IF s \in SUBSET (1..m) THEN it[s] ELSE G(it[s \ {m + 1}], m + 1)]
      <3>2. ASSUME NEW s \in SUBSET (1..(m + 1)), s \in SUBSET (1..m)
            PROVE  more[s] = IF s = {} THEN v ELSE G(more[s \ {Max(s)}], Max(s))
        BY <3>1, <3>2
      <3>3. ASSUME NEW s \in SUBSET (1..(m + 1)), s \notin SUBSET (1..m)
            PROVE  more[s] = IF s = {} THEN v ELSE G(more[s \ {Max(s)}], Max(s))
        <4>1. m + 1 \in s /\ s # {}
          BY <3>3
        <4>2. Max(s) = m + 1
          BY <4>1, MaxOfInitial
        <4>3. s \ {m + 1} \in SUBSET (1..m)
          OBVIOUS
        <4>4. more[s \ {m + 1}] = it[s \ {m + 1}]
          BY <4>3
        <4> QED BY <4>1, <4>2, <4>4, <3>3
      <3>4. Iter(m + 1, more)
        BY <3>2, <3>3
      <3> HIDE DEF Iter, more
      <3> QED BY <3>4
    <2> HIDE DEF S
    <2> QED BY <2>1, <2>2, InductionOnSet DEF S
  <1> DEFINE it == CHOOSE it : Iter(n, it)
  <1>2. Iter(n, it)
    <2>1. \E i : Iter(n, i)
      BY <1>1
    <2> HIDE DEF Iter
    <2> QED BY <2>1
  <1>3. PushAll(v, t, elements) = it[1..n]
    BY DEF PushAll, FoldLeft, MapThenFoldSet
  <1> HIDE DEF it
  <1> DEFINE f == [k \in 0..n |-> it[1..k]]
  <1>4. f[0] = v
    <2>1. 1..0 = {} /\ 0 \in 0..n
      OBVIOUS
    <2> QED BY <2>1, <1>2
  <1>5. ASSUME NEW k \in 1..n PROVE f[k] = G(f[k - 1], k)
    <2>1. k - 1 \in Nat /\ k \in 0..n /\ k - 1 \in 0..n
      OBVIOUS
    <2>2. 1..k \in SUBSET (1..n) /\ 1..k # {} /\ k \in 1..k
      <3>1. k \in 1..k
        BY <2>1
      <3>2. 1..k \subseteq 1..n
        BY <2>1
      <3> QED BY <3>1, <3>2
    <2>3. Max(1..k) = k
      <3>1. (k - 1) + 1 = k
        BY <2>1
      <3>2. 1..k \in SUBSET (1..((k - 1) + 1)) /\ (k - 1) + 1 \in 1..k
        BY <3>1, <2>2
      <3> QED BY <3>1, <3>2, <2>1, MaxOfInitial
    <2>4. (1..k) \ {k} = 1..(k - 1)
      OBVIOUS
    <2>5. it[1..k] = G(it[1..(k - 1)], k)
      BY <1>2, <2>2, <2>3, <2>4
    <2> QED BY <2>1, <2>5
  <1>6. PushAll(v, t, elements) = f[n]
    BY <1>3
  <1> QED
    <2> HIDE DEF f
    <2>1. DOMAIN f = 0..n
      BY DEF f
    <2> QED BY <1>4, <1>5, <1>6, <2>1 DEF Unfolds

-----------------------------------------------------------------------------
(* The buffers of variables *)

\* The types of value_types.h by name.
LEMMA TypesNamed ==
    /\ Type = {"empty", "logical", "uint8", "uint16", "uint32", "uint64",
               "int8", "int16", "int32", "int64", "real", "complex", "string"}
    /\ Fundamental = {"uint8", "uint16", "uint32", "uint64",
                      "int8", "int16", "int32", "int64", "real"}
  <1>1. Type = {"empty", "logical", "uint8", "uint16", "uint32", "uint64",
               "int8", "int16", "int32", "int64", "real", "complex", "string"}
    <2>1. DOMAIN TypeOrder = 1..13
      BY DEF TypeOrder
    <2>2. 1..13 = {1, 2, 3, 4, 5, 6, 7, 8, 9, 10, 11, 12, 13}
      OBVIOUS
    <2>3. Type = {TypeOrder[i] : i \in {1, 2, 3, 4, 5, 6, 7, 8, 9, 10, 11, 12, 13}}
      BY <2>1, <2>2 DEF Type, ToSet
    <2> QED BY <2>3 DEF TypeOrder
  <1> QED BY <1>1 DEF Fundamental

\* Their sizes.
LEMMA SizesOfTypes ==
    /\ \A t \in Fundamental : t \in Type /\ SizeOf[t] \in {1, 2, 4, 8}
    /\ SizeOf["complex"] = 16 /\ SizeOf["string"] = 8 /\ SizeOf["logical"] = 1
    /\ SizeOf["int32"] = 4 /\ SizeOf["real"] = 8
    /\ \A t \in Type : SizeOf[t] \in {1, 2, 4, 8, 16}
  BY TypesNamed DEF SizeOf

\* Variables with elements of any kind.
VariableOf(V) ==
    [type : Type, elements : Seq(V), boxed : BOOLEAN,
     allocated : Nat, size : Nat, room : Nat, intact : BOOLEAN]

\* The variable u has these elements, of type t, one after the other or as pointers.
Laid(u, V, t, k, elements) ==
    /\ u \in VariableOf(V)
    /\ Len(u.elements) = k
    /\ \A i \in 1..k : u.elements[i] = elements[i]
    /\ u.type = IF k = 0 THEN "empty" ELSE t
    /\ u.boxed = (k > 0 /\ t \notin Fundamental)
    /\ u.size = k * SizeOf[t]
    /\ u.type # "logical" => u.intact /\ u.size <= u.room

\* So far as allocated tells how much room there is.
Reckoned(u, t, k, n) ==
    t \in Fundamental =>
        \/ u.allocated = k
        \/ u.room = n * SizeOf[t] /\ u.allocated = u.room

\* A sequence with one element more.
LEMMA AppendIs ==
    ASSUME NEW V, NEW s \in Seq(V), NEW e \in V
    PROVE  /\ Append(s, e) \in Seq(V)
           /\ Len(Append(s, e)) = Len(s) + 1
           /\ \A i \in 1..Len(s) : Append(s, e)[i] = s[i]
           /\ Append(s, e)[Len(s) + 1] = e
  OBVIOUS

\* push_back of an element that lies in the buffer itself.
LEMMA PushedFundamental ==
    ASSUME NEW V, NEW u \in VariableOf(V), NEW t \in Type, u.type \in {"empty", t}, NEW e \in V,
           SizeOf[t] \in Nat, NEW k \in Nat, Numel(u) + 1 = k
    PROVE  LET w == PushBackFundamental(u, t, e)
               full == u.allocated = k - 1
               room == IF full THEN k * SizeOf[t] ELSE u.room
           IN  /\ w \in VariableOf(V)
               /\ w.type = t
               /\ w.elements = Append(u.elements, e)
               /\ w.boxed = u.boxed
               /\ w.allocated = IF full THEN k ELSE u.allocated
               /\ w.size = u.size + SizeOf[t]
               /\ w.room = room
               /\ w.intact = (u.intact /\ k * SizeOf[t] <= room)
  <1> DEFINE n == Numel(u) + 1
             full == u.allocated = Numel(u)
             room == IF full THEN n * SizeOf[t] ELSE u.room
             type == IF u.type = "empty" THEN t ELSE u.type
             s == Append(u.elements, e)
             a == IF full THEN n ELSE u.allocated
             z == u.size + SizeOf[t]
             b == u.intact /\ n * SizeOf[t] <= room
  <1>1. PushBackFundamental(u, t, e) =
            [u EXCEPT !.type = type, !.elements = s, !.allocated = a, !.size = z,
                      !.room = room, !.intact = b]
    BY DEF PushBackFundamental
  <1>2. u.elements \in Seq(V) /\ Numel(u) \in Nat /\ n \in Nat /\ n * SizeOf[t] \in Nat
    BY DEF VariableOf, Numel
  <1>3. /\ type \in Type /\ s \in Seq(V) /\ a \in Nat /\ z \in Nat /\ room \in Nat /\ b \in BOOLEAN
    BY <1>2 DEF VariableOf
  <1> HIDE DEF type, s, a, z, room, b
  <1> DEFINE w == [u EXCEPT !.type = type, !.elements = s, !.allocated = a, !.size = z,
                            !.room = room, !.intact = b]
  <1>4. /\ w \in VariableOf(V)
        /\ w.type = type /\ w.elements = s /\ w.boxed = u.boxed /\ w.allocated = a /\ w.size = z
        /\ w.room = room /\ w.intact = b
    BY <1>3 DEF VariableOf
  <1> HIDE DEF w
  <1>5. type = t
    BY DEF type
  <1>6. Numel(u) = k - 1
    BY <1>2
  <1> QED BY <1>1, <1>4, <1>5, <1>6 DEF w, s, a, z, room, b
\* push_back: if there were k - 1 elements there are k, and the buffer holds them.
LEMMA PushBackLays ==
    ASSUME NEW V, NEW t \in Type \ {"empty"}, NEW n \in Nat, NEW k \in 1..n,
           NEW elements \in Seq(V), Len(elements) = n,
           NEW u, Laid(u, V, t, k - 1, elements), Reckoned(u, t, k - 1, n)
    PROVE  LET w == PushBack(u, t, elements[k])
           IN  Laid(w, V, t, k, elements) /\ Reckoned(w, t, k, n)
  <1> DEFINE e == elements[k]
             w == PushBack(u, t, e)
             s == Append(u.elements, e)
             z == SizeOf[t]
  <1>1. e \in V /\ k \in Nat /\ k - 1 \in Nat
    OBVIOUS
  <1>2. u \in VariableOf(V)
    BY DEF Laid
  <1>3. u.elements \in Seq(V) /\ Len(u.elements) = k - 1
    BY <1>2 DEF Laid, VariableOf
  <1>10. Numel(u) = k - 1 /\ Numel(u) + 1 = k
    BY <1>1, <1>3 DEF Numel
  <1>4. /\ s \in Seq(V) /\ Len(s) = k
        /\ \A i \in 1..k : s[i] = elements[i]
    <2>1. /\ s \in Seq(V) /\ Len(s) = (k - 1) + 1
          /\ \A i \in 1..(k - 1) : s[i] = u.elements[i]
          /\ s[(k - 1) + 1] = e
      BY <1>1, <1>3, AppendIs
    <2>2. \A i \in 1..(k - 1) : u.elements[i] = elements[i]
      BY DEF Laid
    <2> HIDE DEF s
    <2> QED BY <2>1, <2>2
  <1>5. z \in {1, 2, 4, 8, 16} /\ z \in Nat /\ (k - 1) * z + z = k * z /\ k * z \in Nat
    <2>1. z \in {1, 2, 4, 8, 16}
      BY SizesOfTypes
    <2> HIDE DEF z
    <2> QED BY <2>1
  <1>6. u.size + z = k * z
    BY <1>5 DEF Laid
  <1>7. u.type = "empty" \/ u.type = t
    BY DEF Laid
  <1>8. CASE t \in Fundamental
    <2> DEFINE full == u.allocated = k - 1
               room == IF full THEN k * z ELSE u.room
    <2>1. /\ w \in VariableOf(V)
          /\ w.type = t /\ w.elements = s /\ w.boxed = u.boxed
          /\ w.allocated = IF full THEN k ELSE u.allocated
          /\ w.size = k * z /\ w.room = room
          /\ w.intact = (u.intact /\ k * z <= room)
      <3>1. w = PushBackFundamental(u, t, e)
        BY <1>8 DEF PushBack
      <3>2. /\ t \in Type /\ u.type \in {"empty", t} /\ e \in V
            /\ SizeOf[t] \in Nat /\ k \in Nat /\ Numel(u) + 1 = k
        BY <1>1, <1>5, <1>7, <1>10
      <3> HIDE DEF w, e
      <3> QED BY <3>1, <3>2, <1>2, <1>6, PushedFundamental
    <2>2. k * z <= room /\ room \in Nat
      <3>1. CASE full
        BY <3>1, <1>5
      <3>2. CASE ~full
        <4>1. u.room = n * z
          BY <3>2, <1>8 DEF Reckoned
        <4>2. k * z <= n * z
          <5>1. k <= n
            OBVIOUS
          <5> HIDE DEF z
          <5> QED BY <5>1, <1>5
        <4>3. u.room \in Nat
          BY <1>2 DEF VariableOf
        <4> QED BY <3>2, <4>1, <4>2, <4>3
      <3> QED BY <3>1, <3>2
    <2>3. Reckoned(w, t, k, n)
      <3> HIDE DEF w, s, z
      <3>1. CASE full
        BY <3>1, <2>1 DEF Reckoned
      <3>2. CASE ~full
        BY <3>2, <2>1, <1>8 DEF Reckoned, z
      <3> QED BY <3>1, <3>2
    <2>5. u.boxed = FALSE
      BY <1>8 DEF Laid
    <2>6. t # "logical" => u.intact
      BY DEF Laid
    <2>7. Laid(w, V, t, k, elements)
      <3> HIDE DEF s, w, room
      <3>1. k > 0 /\ k # 0
        BY <1>1
      <3> QED BY <2>1, <2>5, <2>6, <2>2, <3>1, <1>4, <1>5, <1>8 DEF Laid
    <2> QED BY <2>3, <2>7
  <1>9. CASE t \notin Fundamental
    <2> DEFINE type == IF u.type = "empty" THEN t ELSE u.type
               size == u.size + z
               room == k * z
               b == u.intact /\ k * 8 <= room
    <2>0. w = [u EXCEPT !.type = type, !.elements = s, !.boxed = TRUE, !.size = size,
                        !.room = room, !.intact = b]
      BY <1>9, <1>10 DEF PushBack, PushBackComposite, PointerSize
    <2>1. /\ w \in VariableOf(V)
          /\ w.type = t /\ w.elements = s /\ w.boxed = TRUE
          /\ w.size = k * z /\ w.room = k * z
          /\ u.intact /\ z >= 8 => w.intact
      <3>1. type = t /\ type \in Type /\ size = k * z /\ room = k * z /\ b \in BOOLEAN
        BY <1>6, <1>7
      <3>2. u.intact /\ z >= 8 => b
        BY <1>1, <1>5
      <3> HIDE DEF type, s, size, room, b, w, z
      <3>3. size \in Nat /\ room \in Nat
        BY <3>1, <1>5
      <3>4. /\ w \in VariableOf(V)
            /\ w.type = type /\ w.elements = s /\ w.boxed = TRUE /\ w.size = size
            /\ w.room = room /\ w.intact = b
        BY <1>2, <1>4, <2>0, <3>1, <3>3 DEF VariableOf
      <3> QED BY <3>1, <3>2, <3>4
    <2>2. t # "logical" => z >= 8
      <3>1. t # "logical" => z \in {8, 16}
        BY <1>9, TypesNamed, SizesOfTypes
      <3> HIDE DEF z
      <3> QED BY <3>1
    <2>4. t # "logical" => u.intact
      BY DEF Laid
    <2>5. Laid(w, V, t, k, elements)
      <3> HIDE DEF s, w
      <3>1. k > 0 /\ k # 0
        BY <1>1
      <3>2. w.boxed = (k > 0 /\ t \notin Fundamental)
        BY <2>1, <3>1, <1>9
      <3>3. w.type # "logical" => w.intact /\ w.size <= w.room
        <4>1. k * z <= k * z
          BY <1>5
        <4> QED BY <2>1, <2>2, <2>4, <4>1
      <3> QED BY <2>1, <3>1, <3>2, <3>3, <1>4 DEF Laid
    <2> QED BY <2>5, <1>9 DEF Reckoned
  <1> QED BY <1>8, <1>9

\* No elements yet, whether room was made for them or not.
LEMMA EmptyLaid ==
    ASSUME NEW V, NEW t \in Type \ {"empty"}, NEW elements \in Seq(V),
           NEW v \in {NewVariable, Prealloc(NewVariable, SizeOf[t] * Len(elements))}
    PROVE  Laid(v, V, t, 0, elements) /\ Reckoned(v, t, 0, Len(elements))
  <1> DEFINE n == Len(elements)
             bytes == SizeOf[t] * n
  <1>1. n \in Nat /\ SizeOf[t] \in {1, 2, 4, 8, 16} /\ bytes \in Nat /\ n * SizeOf[t] = bytes
    <2>1. SizeOf[t] \in {1, 2, 4, 8, 16}
      BY SizesOfTypes
    <2>2. n \in Nat
      OBVIOUS
    <2> HIDE DEF n
    <2> QED BY <2>1, <2>2
  <1>2. "empty" \in Type
    BY TypesNamed
  <1>3. /\ NewVariable \in VariableOf(V) /\ Len(NewVariable.elements) = 0
        /\ NewVariable.type = "empty" /\ NewVariable.boxed = FALSE
        /\ NewVariable.size = 0 /\ NewVariable.allocated = 0 /\ NewVariable.room = 0
        /\ NewVariable.intact = TRUE
    BY <1>2 DEF NewVariable, VariableOf
  <1> DEFINE p == [NewVariable EXCEPT !.room = bytes, !.allocated = bytes]
  <1>4. v = NewVariable \/ v = p
    BY DEF Prealloc
  <1>5. /\ p \in VariableOf(V) /\ Len(p.elements) = 0
        /\ p.type = "empty" /\ p.boxed = FALSE
        /\ p.size = 0 /\ p.allocated = bytes /\ p.room = bytes
        /\ p.intact = TRUE
    <2> HIDE DEF bytes
    <2> QED BY <1>1, <1>3 DEF VariableOf
  <1> HIDE DEF p
  <1>6. /\ v \in VariableOf(V) /\ Len(v.elements) = 0
        /\ v.type = "empty" /\ v.boxed = FALSE /\ v.size = 0 /\ v.intact = TRUE
        /\ v.room \in Nat
        /\ v.allocated = 0 \/ (v.room = bytes /\ v.allocated = bytes)
    BY <1>1, <1>3, <1>4, <1>5
  <1>7. 0 * SizeOf[t] = 0
    BY <1>1
  <1>8. Laid(v, V, t, 0, elements)
    <2>1. v.boxed = (0 > 0 /\ t \notin Fundamental)
      <3>1. ~(0 > 0)
        OBVIOUS
      <3>2. v.boxed = FALSE
        BY <1>6
      <3> QED BY <3>1, <3>2
    <2>2. v.intact /\ v.size <= v.room
      BY <1>6
    <2> QED BY <1>6, <1>7, <2>1, <2>2 DEF Laid
  <1>9. Reckoned(v, t, 0, n)
    <2> HIDE DEF bytes, n
    <2> QED BY <1>1, <1>6 DEF Reckoned
  <1> QED BY <1>8, <1>9

\* What comes of pushing one element after the other.
LEMMA PushAllLays ==
    ASSUME NEW V, NEW t \in Type \ {"empty"}, NEW elements \in Seq(V),
           NEW v \in {NewVariable, Prealloc(NewVariable, SizeOf[t] * Len(elements))}
    PROVE  Laid(PushAll(v, t, elements), V, t, Len(elements), elements)
  <1> DEFINE n == Len(elements)
  <1>1. n \in Nat /\ DOMAIN elements = 1..n
    OBVIOUS
  <1>2. PICK f : Unfolds(f, v, t, elements, n)
    <2> HIDE DEF n
    <2> QED BY <1>1, PushAllUnfolds
  <1> DEFINE S == {k \in Nat : k <= n => Laid(f[k], V, t, k, elements) /\ Reckoned(f[k], t, k, n)}
  <1>3. 0 \in S
    BY <1>2, EmptyLaid DEF Unfolds
  <1>4. ASSUME NEW k \in S PROVE k + 1 \in S
    <2> SUFFICES ASSUME k + 1 <= n
                 PROVE  Laid(f[k + 1], V, t, k + 1, elements) /\ Reckoned(f[k + 1], t, k + 1, n)
      BY <1>4
    <2>1. k \in Nat /\ k + 1 \in 1..n /\ (k + 1) - 1 = k /\ k <= n
      BY <1>1
    <2>2. Laid(f[k], V, t, k, elements) /\ Reckoned(f[k], t, k, n)
      BY <1>4, <2>1
    <2>3. f[k + 1] = PushBack(f[k], t, elements[k + 1])
      BY <1>2, <2>1 DEF Unfolds
    <2> HIDE DEF S, n
    <2>4. LET w == PushBack(f[k], t, elements[k + 1])
          IN  Laid(w, V, t, k + 1, elements) /\ Reckoned(w, t, k + 1, n)
      BY <1>1, <2>1, <2>2, PushBackLays DEF n
    <2> QED BY <2>3, <2>4
  <1>5. S = Nat
    <2>1. S \in SUBSET Nat
      OBVIOUS
    <2> HIDE DEF S
    <2> QED BY <1>3, <1>4, <2>1, InductionOnSet
  <1>6. n \in S
    BY <1>1, <1>5
  <1> QED BY <1>1, <1>2, <1>6 DEF Unfolds

\* A variable whose buffer is what its type says.  Buffers of bits are too small for pointers.
Proper(v) ==
    /\ v \in Variable
    /\ v.type = "empty" <=> v.elements = <<>>
    /\ v.boxed => v.type \notin Fundamental /\ v.elements # <<>>
    /\ v.type \in Pointed => v.boxed
    /\ v.type # "logical" => v.intact /\ v.size <= v.room

\* A variable that elements were pushed on is a proper one.
LEMMA LaidProper ==
    ASSUME NEW t \in Type \ {"empty"}, NEW elements \in Seq(Int), NEW u,
           Laid(u, Int, t, Len(elements), elements)
    PROVE  /\ Proper(u)
           /\ u.elements = elements
           /\ u.type = IF elements = <<>> THEN "empty" ELSE t
  <1> DEFINE n == Len(elements)
  <1>1. /\ u \in Variable /\ Len(u.elements) = n
        /\ \A i \in 1..n : u.elements[i] = elements[i]
        /\ u.type = IF n = 0 THEN "empty" ELSE t
        /\ u.boxed = (n > 0 /\ t \notin Fundamental)
    BY DEF Laid, VariableOf, Variable
  <1>2. u.elements \in Seq(Int) /\ u.boxed \in BOOLEAN
    BY <1>1 DEF Variable
  <1>3. u.elements = elements
    BY <1>1, <1>2
  <1>4. n = 0 <=> elements = <<>>
    OBVIOUS
  <1>5. n \in Nat
    OBVIOUS
  <1>6. "empty" \notin Pointed /\ Pointed \cap Fundamental = {}
    BY TypesNamed DEF Pointed
  <1> HIDE DEF n
  <1>7. u.boxed => n > 0 /\ t \notin Fundamental
    BY <1>1
  <1>8. u.type \in Pointed => u.boxed
    <2> SUFFICES ASSUME u.type \in Pointed PROVE u.boxed
      OBVIOUS
    <2>1. n > 0 /\ t \notin Fundamental
      BY <1>1, <1>5, <1>6
    <2> QED BY <1>1, <2>1
  <1>9. u.type # "logical" => u.intact /\ u.size <= u.room
    BY DEF Laid
  <1>10. u.type = "empty" <=> u.elements = <<>>
    BY <1>1, <1>3, <1>4
  <1>11. u.boxed => t \notin Fundamental /\ u.type = t /\ u.elements # <<>>
    BY <1>1, <1>3, <1>4, <1>5, <1>7
  <1> QED BY <1>1, <1>3, <1>4, <1>8, <1>9, <1>10, <1>11 DEF Proper

-----------------------------------------------------------------------------
(* What comes of expressions *)

\* What an expression comes to: a way to end, and a variable a script can have.
Sound(r) ==
    /\ r.end \in {"value", "undefined", "aborted", "crashed"}
    /\ Proper(r.variable)
    /\ r.variable.type # "logical"

\* A variable that holds nothing, and what has no value.
LEMMA NewVariableSound ==
    /\ Proper(NewVariable)
    /\ \A how \in {"undefined", "aborted", "crashed"} : Sound(Stopped(how))
    /\ Sound(Result(NewVariable))
    /\ Sound(Refused)
  <1>1. Proper(NewVariable)
    <2>1. "empty" \in Type /\ "empty" \notin Pointed
      BY TypesNamed DEF Pointed
    <2>2. NewVariable \in Variable
      BY <2>1 DEF NewVariable, Variable
    <2> QED BY <2>1, <2>2 DEF Proper, NewVariable
  <1>2. NewVariable.type # "logical"
    BY DEF NewVariable
  <1>3. \A how \in {"undefined", "aborted", "crashed"} : Sound(Stopped(how))
    BY <1>1, <1>2 DEF Sound, Stopped
  <1>4. Sound(Result(NewVariable))
    BY <1>1, <1>2 DEF Sound, Result
  <1> QED BY <1>1, <1>3, <1>4 DEF Refused

\* A value.
LEMMA ResultSound ==
    ASSUME NEW v, Proper(v), v.type # "logical"
    PROVE  Sound(Result(v))
  BY DEF Sound, Result

\* The copy constructor keeps the type and the elements of a variable.
LEMMA CopyProper ==
    ASSUME NEW v, Proper(v)
    PROVE  /\ Proper(Copy(v))
           /\ Copy(v).type = v.type /\ Copy(v).elements = v.elements
           /\ Copy(v).boxed = v.boxed
  <1> DEFINE b == v.intact /\ Usable(v) /\ v.size <= v.room
             w == [v EXCEPT !.room = v.size, !.intact = b]
  <1>1. Copy(v) = w
    BY DEF Copy
  <1>2. v \in Variable /\ b \in BOOLEAN /\ v.size \in Nat
    BY DEF Proper, Variable, Usable
  <1>3. v.type # "logical" => b
    BY DEF Proper, Usable
  <1> HIDE DEF b
  <1>4. /\ w \in Variable /\ w.type = v.type /\ w.elements = v.elements /\ w.boxed = v.boxed
        /\ w.size = v.size /\ w.room = v.size /\ w.intact = b
    BY <1>2 DEF Variable
  <1> HIDE DEF w
  <1>5. w.type # "logical" => w.intact /\ w.size <= w.room
    BY <1>2, <1>3, <1>4
  <1>6. Proper(w)
    BY <1>4, <1>5 DEF Proper
  <1> QED BY <1>1, <1>4, <1>6

\* The destructor of a proper variable reads nothing outside of its buffer.
LEMMA DestroyedIntact ==
    ASSUME NEW v, Proper(v), v.type # "logical"
    PROVE  v.intact /\ Destroyed(v).intact
  <1>1. v.intact /\ Usable(v)
    BY DEF Proper, Usable
  <1> QED BY <1>1 DEF Destroyed, Proper, Variable

\* What comes of pushing elements on a new variable.
LEMMA PushedProper ==
    ASSUME NEW t \in Type \ {"empty"}, NEW elements \in Seq(Int),
           NEW v \in {NewVariable, Prealloc(NewVariable, SizeOf[t] * Len(elements))}
    PROVE  /\ Proper(PushAll(v, t, elements))
           /\ PushAll(v, t, elements).elements = elements
           /\ PushAll(v, t, elements).type = IF elements = <<>> THEN "empty" ELSE t
  <1>1. Laid(PushAll(v, t, elements), Int, t, Len(elements), elements)
    BY PushAllLays
  <1> QED BY <1>1, LaidProper

\* Pushing a single element.
LEMMA PushedOnce ==
    ASSUME NEW t \in Type \ {"empty"}, NEW e \in Int
    PROVE  /\ Proper(PushBack(NewVariable, t, e))
           /\ PushBack(NewVariable, t, e).elements = <<e>>
           /\ PushBack(NewVariable, t, e).type = t
  <1> DEFINE elements == <<e>>
             w == PushBack(NewVariable, t, elements[1])
  <1>1. elements \in Seq(Int) /\ Len(elements) = 1 /\ elements[1] = e /\ elements # <<>>
    OBVIOUS
  <1> HIDE DEF elements
  <1>2. Laid(NewVariable, Int, t, 0, elements) /\ Reckoned(NewVariable, t, 0, 1)
    BY <1>1, EmptyLaid
  <1>3. 1 \in Nat /\ 1 \in 1..1 /\ 1 - 1 = 0
    OBVIOUS
  <1>4. Laid(w, Int, t, 1, elements)
    <2>1. Laid(NewVariable, Int, t, 1 - 1, elements) /\ Reckoned(NewVariable, t, 1 - 1, 1)
      BY <1>2, <1>3
    <2>2. LET p == PushBack(NewVariable, t, elements[1])
          IN  Laid(p, Int, t, 1, elements) /\ Reckoned(p, t, 1, 1)
      BY <1>1, <1>3, <2>1, PushBackLays
    <2> QED BY <2>2
  <1> HIDE DEF w
  <1>5. Proper(w) /\ w.elements = elements /\ w.type = t
    <2>1. Laid(w, Int, t, Len(elements), elements)
      BY <1>1, <1>4
    <2>2. elements \in Seq(Int)
      BY <1>1
    <2>3. /\ Proper(w) /\ w.elements = elements
          /\ w.type = IF elements = <<>> THEN "empty" ELSE t
      BY <2>1, <2>2, LaidProper, Zenon
    <2> QED BY <1>1, <2>3
  <1> QED BY <1>1, <1>5 DEF w, elements

\* The types numbers are reckoned in.
NumberType == {"int32", "real", "complex"}

\* If no division by zero is a signal, what is reckoned is a number.
LEMMA NumbersReckoned ==
    ASSUME NEW i \in Trees, NEW type \in NumberType, SubtreeType(i) = type,
           NEW n \in {i} \cup Children(i), ~DividesByZero(type, n)
    PROVE  Number(type, n) \in Int
  <1>1. \E m \in Terminals[i] : TerminalType(m) = type
    BY DEF SubtreeType, Widest, NumberType
  <1>2. \E m \in Terminals[i] : m.id = "identifier" \/ LeafType[m.id] = type
    BY <1>1 DEF TerminalType
  <1> QED BY <1>2, NumbersAssumption DEF NumberType

\* What comes of numbers: v, unless they cannot be reckoned.
LEMMA ScalarsEnd ==
    ASSUME NEW type, NEW nodes, NEW v,
           (\A n \in nodes : ~DividesByZero(type, n)) => Proper(v) /\ v.type # "logical"
    PROVE  /\ Sound(Scalars(type, nodes, v))
           /\ Scalars(type, nodes, v).end = "value" =>
                 /\ Scalars(type, nodes, v) = Result(v)
                 /\ \A n \in nodes : ~DividesByZero(type, n)
  <1>1. CASE \E n \in nodes : AssertsIn(n)
    BY <1>1, NewVariableSound DEF Scalars, Stopped
  <1>2. CASE ~(\E n \in nodes : AssertsIn(n)) /\ \E n \in nodes : DividesByZero(type, n)
    BY <1>2, NewVariableSound DEF Scalars, Stopped
  <1>3. CASE ~(\E n \in nodes : AssertsIn(n)) /\ ~(\E n \in nodes : DividesByZero(type, n))
    BY <1>3, ResultSound DEF Scalars
  <1> QED BY <1>1, <1>2, <1>3

\* The members of a row and the three numbers of a range.
LEMMA ChildrenAre ==
    ASSUME NEW i \in Trees, i.id \in {"rowvec", "range"}
    PROVE  /\ i.children \in Seq(Trees)
           /\ \A k \in 1..Len(i.children) : i.children[k] \in Children(i) /\ i.children[k] \in Trees
           /\ i.id = "range" => Len(i.children) = 3
  <1>1. i.id \notin Leaves \cup {"identifier"}
    BY DEF Leaves
  <1>2. i.children \in Seq(Trees) /\ (i.id = "range" => Len(i.children) = 3)
    BY <1>1, TreesAssumption
  <1>3. \A k \in 1..Len(i.children) : i.children[k] \in Children(i) /\ i.children[k] \in Trees
    BY <1>1, <1>2 DEF Children, ToSet
  <1> QED BY <1>2, <1>3

\* Numbers and strings make variables that are not empty and no bits.
LEMMA NumberTypes ==
    /\ NumberType \subseteq Type \ {"empty"}
    /\ "string" \in Type \ {"empty"}
    /\ "logical" \notin NumberType
  BY TypesNamed DEF NumberType

\* A single number comes to something sound.
LEMMA ScalarSound ==
    ASSUME NEW i \in Trees
    PROVE  Sound(EvalScalar(i))
  <1> DEFINE type == SubtreeType(i)
  <1>1. CASE type \notin NumberType
    BY <1>1, NewVariableSound DEF EvalScalar, NumberType
  <1>2. CASE type \in NumberType
    <2> DEFINE e == Number(type, i)
               v == PushBack(NewVariable, type, e)
    <2>1. ASSUME \A n \in {i} : ~DividesByZero(type, n)
          PROVE  Proper(v) /\ v.type # "logical"
      <3>1. e \in Int
        BY <1>2, <2>1, NumbersReckoned
      <3> HIDE DEF e, type
      <3> QED BY <3>1, <1>2, PushedOnce, NumberTypes
    <2>2. EvalScalar(i) = Scalars(type, {i}, v)
      BY <1>2 DEF EvalScalar, NumberType
    <2> HIDE DEF v, type
    <2>3. Sound(Scalars(type, {i}, v))
      BY <2>1, ScalarsEnd
    <2> QED BY <2>2, <2>3
  <1> QED BY <1>1, <1>2

\* So does a row,
LEMMA RowSound ==
    ASSUME NEW i \in Trees, i.id = "rowvec"
    PROVE  Sound(EvalRow(i))
  <1> DEFINE type == SubtreeType(i)
             n == Len(i.children)
             elements == [k \in 1..n |-> Number(type, i.children[k])]
             v == PushAll(Prealloc(NewVariable, SizeOf[type] * n), type, elements)
  <1>1. CASE type \notin NumberType
    BY <1>1, NewVariableSound DEF EvalRow, NumberType
  <1>2. CASE type \in NumberType
    <2>1. ASSUME \A m \in Children(i) : ~DividesByZero(type, m)
          PROVE  Proper(v) /\ v.type # "logical"
      <3>1. n \in Nat /\ \A k \in 1..n : i.children[k] \in Children(i)
        BY ChildrenAre
      <3>2. \A k \in 1..n : Number(type, i.children[k]) \in Int
        BY <1>2, <2>1, <3>1, NumbersReckoned
      <3> HIDE DEF type, n
      <3>3. elements \in Seq(Int) /\ Len(elements) = n
        BY <3>1, <3>2
      <3> HIDE DEF elements
      <3>4. type \in Type \ {"empty"} /\ type # "logical"
        BY <1>2, NumberTypes
      <3>5. Proper(v) /\ v.type \in {"empty", type}
        BY <3>3, <3>4, PushedProper
      <3> QED BY <3>4, <3>5
    <2>2. EvalRow(i) = Scalars(type, Children(i), v)
      BY <1>2 DEF EvalRow, NumberType
    <2> HIDE DEF v, type
    <2>3. Sound(Scalars(type, Children(i), v))
      BY <2>1, ScalarsEnd
    <2> QED BY <2>2, <2>3
  <1> QED BY <1>1, <1>2

\* The children of an expression are expressions.
LEMMA ChildrenInTrees ==
    ASSUME NEW i \in Trees
    PROVE  Children(i) \subseteq Trees
  BY TreesAssumption DEF Children, ToSet

\* The terminals of the trees are what their definition says: the recursion has a solution,
\* the least function closed under it.
LEMMA TerminalsUnfold ==
    ASSUME NEW i \in Trees
    PROVE  Terminals[i] = IF i.id \in Leaves \cup {"identifier"} THEN {i}
                          ELSE UNION {Terminals[c] : c \in Children(i)}
  <1> DEFINE F(g, j) == IF j.id \in Leaves \cup {"identifier"} THEN {j}
                        ELSE UNION {g[c] : c \in Children(j)}
             Closed == {g \in [Trees -> SUBSET Trees] : \A j \in Trees : F(g, j) \subseteq g[j]}
             least == [j \in Trees |-> {n \in Trees : \A g \in Closed : n \in g[j]}]
             once == [j \in Trees |-> F(least, j)]
  <1>1. \A g \in Closed, j \in Trees : least[j] \subseteq g[j]
    OBVIOUS
  <1>2. ASSUME NEW g, NEW h, \A j \in Trees : g[j] \subseteq h[j], NEW j \in Trees
        PROVE  F(g, j) \subseteq F(h, j)
    BY <1>2, ChildrenInTrees
  <1>3. ASSUME NEW g \in [Trees -> SUBSET Trees], NEW j \in Trees
        PROVE  F(g, j) \subseteq Trees
    BY ChildrenInTrees
  <1>4. least \in [Trees -> SUBSET Trees]
    OBVIOUS
  <1>5. ASSUME NEW j \in Trees PROVE F(least, j) \subseteq least[j]
    <2>1. F(least, j) \subseteq Trees
      <3> HIDE DEF F, least
      <3> QED BY <1>3, <1>4
    <2>2. ASSUME NEW g \in Closed PROVE F(least, j) \subseteq g[j]
      <3>1. \A l \in Trees : least[l] \subseteq g[l]
        BY <1>1
      <3>2. F(least, j) \subseteq F(g, j)
        <4> HIDE DEF F, least, Closed
        <4> QED BY <3>1, <1>2
      <3>3. F(g, j) \subseteq g[j]
        OBVIOUS
      <3> HIDE DEF F, least, Closed
      <3> QED BY <3>2, <3>3
    <2>3. least[j] = {n \in Trees : \A g \in Closed : n \in g[j]}
      OBVIOUS
    <2> HIDE DEF F, least, Closed
    <2> QED BY <2>1, <2>2, <2>3
  <1>6. once \in Closed
    <2>1. \A j \in Trees : once[j] = F(least, j)
      OBVIOUS
    <2>2. \A j \in Trees : once[j] \subseteq least[j]
      <3> HIDE DEF F, least, once
      <3> QED BY <2>1, <1>5
    <2>3. \A j \in Trees : F(once, j) \subseteq F(least, j)
      <3> HIDE DEF F, least, once
      <3> QED BY <2>2, <1>2
    <2>4. once \in [Trees -> SUBSET Trees]
      <3>1. \A j \in Trees : F(least, j) \subseteq Trees
        <4> HIDE DEF F, least
        <4> QED BY <1>3, <1>4
      <3> HIDE DEF F, least
      <3> QED BY <3>1
    <2> HIDE DEF F, least, once
    <2> QED BY <2>1, <2>3, <2>4
  <1>7. \A j \in Trees : least[j] = F(least, j)
    <2>1. \A j \in Trees : least[j] \subseteq once[j]
      <3> HIDE DEF least, once, Closed
      <3> QED BY <1>1, <1>6
    <2>2. \A j \in Trees : once[j] = F(least, j)
      OBVIOUS
    <2> HIDE DEF F, least, once
    <2> QED BY <2>1, <2>2, <1>5
  <1>8. least = [j \in Trees |-> F(least, j)]
    <2>1. DOMAIN least = Trees
      OBVIOUS
    <2>2. least = [j \in Trees |-> least[j]]
      OBVIOUS
    <2> HIDE DEF F, least
    <2> QED BY <1>7, <2>1, <2>2
  <1>9. Terminals = [j \in Trees |-> F(Terminals, j)]
    <2>1. Terminals = CHOOSE g : g = [j \in Trees |-> F(g, j)]
      BY DEF Terminals
    <2> HIDE DEF F, least
    <2> QED BY <1>8, <2>1
  <1> QED BY <1>9

\* Truncation and rounding down make integers.
LEMMA Divided ==
    ASSUME NEW a \in Int, NEW b \in Int, b # 0
    PROVE  Truncated(Fraction(a, b)) \in Int /\ Floor(Fraction(a, b)) \in Int
  <1>1. CASE b > 0
    BY <1>1 DEF Truncated, Fraction, Floor
  <1>2. CASE ~(b > 0)
    <2>1. -b \in Int /\ -b > 0 /\ -a \in Int
      BY <1>2
    <2>2. Fraction(a, b) = <<-a, -b>>
      BY <1>2 DEF Fraction
    <2>3. (-a) \div (-b) \in Int /\ (-(-a)) \div (-b) \in Int
      BY <2>1
    <2> QED BY <2>1, <2>2, <2>3 DEF Truncated, Floor
  <1> QED BY <1>1, <1>2

\* Any range comes to something sound,
LEMMA MadeRangeSound ==
    ASSUME NEW type \in NumberType, NEW start \in Int, NEW end \in Int, NEW inc \in Int
    PROVE  Sound(MakeRange(type, start, end, inc))
  <1> DEFINE n == Elements(type, start, end, inc)
             elements == [k \in 1..n |-> start + (k - 1) * inc]
             v == PushAll(Prealloc(NewVariable, SizeOf[type] * n), type, elements)
  <1>1. CASE RangeAsserts(start, end, inc)
    BY <1>1, NewVariableSound DEF MakeRange
  <1>2. CASE ~RangeAsserts(start, end, inc) /\ (inc = 0 \/ n < 0)
    BY <1>2, NewVariableSound DEF MakeRange
  <1>3. CASE ~RangeAsserts(start, end, inc) /\ ~(inc = 0 \/ n < 0)
    <2>1. n \in Int
      <3>1. end - start \in Int
        OBVIOUS
      <3>2. /\ Truncated(Fraction(end - start, inc)) \in Int
             /\ Floor(Fraction(end - start, inc)) \in Int
        BY <1>3, <3>1, Divided
      <3> QED BY <3>2 DEF Elements
    <2>2. n \in Nat
      BY <1>3, <2>1
    <2>3. MakeRange(type, start, end, inc) = Result(v)
      BY <1>3 DEF MakeRange
    <2> HIDE DEF n
    <2>4. elements \in Seq(Int) /\ Len(elements) = n
      BY <2>2
    <2> HIDE DEF elements
    <2>5. type \in Type \ {"empty"} /\ type # "logical"
      BY NumberTypes
    <2>6. Proper(v) /\ v.type \in {"empty", type}
      BY <2>4, <2>5, PushedProper
    <2> HIDE DEF v
    <2>7. v.type # "logical"
      BY <2>5, <2>6
    <2> QED BY <2>3, <2>6, <2>7, ResultSound
  <1> QED BY <1>1, <1>2, <1>3

\* and so does the expression that denotes it.
LEMMA RangeSound ==
    ASSUME NEW i \in Trees, i.id = "range"
    PROVE  Sound(EvalRange(i))
  <1> DEFINE type == SubtreeType(i)
             N(k) == Number(type, i.children[k])
             scalars == Scalars(type, Children(i), NewVariable)
  <1>1. CASE type \notin {"int32", "real"}
    BY <1>1, NewVariableSound DEF EvalRange
  <1>2. CASE type \in {"int32", "real"}
    <2>1. type \in NumberType
      BY <1>2 DEF NumberType
    <2>2. /\ Sound(scalars)
          /\ scalars.end = "value" => \A n \in Children(i) : ~DividesByZero(type, n)
      <3> HIDE DEF type
      <3>1. Proper(NewVariable) /\ NewVariable.type # "logical"
        BY NewVariableSound DEF NewVariable
      <3> QED BY <3>1, ScalarsEnd
    <2>3. EvalRange(i) =
              IF scalars.end = "value" THEN MakeRange(type, N(1), N(3), N(2)) ELSE scalars
      BY <1>2 DEF EvalRange
    <2>4. ASSUME scalars.end = "value" PROVE Sound(MakeRange(type, N(1), N(3), N(2)))
      <3>1. \A k \in 1..3 : i.children[k] \in Children(i)
        BY ChildrenAre
      <3>2. ASSUME NEW k \in 1..3 PROVE N(k) \in Int
        BY <2>1, <2>2, <2>4, <3>1, NumbersReckoned
      <3>3. N(1) \in Int /\ N(2) \in Int /\ N(3) \in Int
        BY <3>2
      <3> HIDE DEF N, type
      <3> QED BY <2>1, <3>3, MadeRangeSound
    <2> HIDE DEF type, N, scalars
    <2> QED BY <2>2, <2>3, <2>4
  <1> QED BY <1>1, <1>2

\* The variables a script has.
VariablesProper ==
    \A name \in DOMAIN symtab : Proper(symtab[name]) /\ symtab[name].type # "logical"

\* eval_expression comes to something sound.
LEMMA EvalSound ==
    ASSUME NEW i \in Trees, VariablesProper
    PROVE  Sound(EvalExpression(i))
  <1>1. CASE \/ i.id = "array"
             \/ i.id \notin Arithmetic \cup {"identifier", "rowvec", "string", "range"}
    BY <1>1, NewVariableSound DEF EvalExpression
  <1>2. CASE ~Defined(i)
    BY <1>2, NewVariableSound DEF EvalExpression
  <1>3. CASE Defined(i) /\ i.id = "identifier"
    <2>1. i.name \in DOMAIN symtab
      <3>1. Terminals[i] = {i}
        BY <1>3, TerminalsUnfold
      <3> QED BY <1>3, <3>1 DEF Defined
    <2>2. EvalExpression(i) = Result(Copy(symtab[i.name]))
      BY <1>3 DEF EvalExpression, Arithmetic
    <2>3. Proper(symtab[i.name]) /\ symtab[i.name].type # "logical"
      BY <2>1 DEF VariablesProper
    <2> QED BY <2>2, <2>3, CopyProper, ResultSound
  <1>4. CASE Defined(i) /\ i.id \in Arithmetic
    <2>1. EvalExpression(i) = EvalScalar(i)
      BY <1>4 DEF EvalExpression, Arithmetic
    <2> QED BY <2>1, ScalarSound
  <1>5. CASE Defined(i) /\ i.id = "rowvec"
    <2>1. EvalExpression(i) = EvalRow(i)
      BY <1>5 DEF EvalExpression, Arithmetic
    <2> QED BY <2>1, <1>5, RowSound
  <1>6. CASE Defined(i) /\ i.id = "range"
    <2>1. EvalExpression(i) = EvalRange(i)
      BY <1>6 DEF EvalExpression, Arithmetic
    <2> QED BY <2>1, <1>6, RangeSound
  <1>7. CASE Defined(i) /\ i.id = "string"
    <2>1. EvalExpression(i) = Result(PushBack(NewVariable, "string", i.value))
      BY <1>7 DEF EvalExpression, Arithmetic
    <2>2. i.value \in Int
      BY <1>7, TreesAssumption DEF Leaves
    <2> DEFINE v == PushBack(NewVariable, "string", i.value)
    <2>3. Proper(v) /\ v.type = "string"
      BY <2>2, PushedOnce, NumberTypes
    <2> HIDE DEF v
    <2>4. Sound(Result(v))
      BY <2>3, ResultSound
    <2> QED BY <2>1, <2>4 DEF v
  <1> QED BY <1>1, <1>2, <1>3, <1>4, <1>5, <1>6, <1>7

-----------------------------------------------------------------------------
(* What comes of the arrays of a Python program *)

\* How many elements of an array are taken, one dimension after the other.
LEMMA TakenUnfolds ==
    ASSUME NEW a \in Arrays, a.type # "string",
           NEW s \in Seq(Nat), s = a.dimensions, NEW n \in Nat, n = Len(s)
    PROVE  \E f : /\ DOMAIN f = 0..n /\ f[0] = 0
                  /\ \A k \in 1..n : f[k] = f[k - 1] + s[k]
                  /\ Taken(a) = f[n]
  <1> DEFINE G(u, k) == u + s[k]
             Iter(m, it) == it = [r \in SUBSET (1..m) |->
                                     IF r = {} THEN 0 ELSE G(it[r \ {Max(r)}], Max(r))]
             S == {m \in Nat : \E it : Iter(m, it)}
  <1>1. S = Nat
    <2> HIDE DEF G
    <2>1. 0 \in S
      <3> DEFINE it == [r \in SUBSET (1..0) |-> 0]
      <3>1. 1..0 = {}
        OBVIOUS
      <3>2. Iter(0, it)
        BY <3>1
      <3> QED BY <3>2
    <2>2. ASSUME NEW m \in S PROVE m + 1 \in S
      <3>1. PICK it : Iter(m, it)
        OBVIOUS
      <3> DEFINE more == [r \in SUBSET (1..(m + 1)) |->
                             IF r \in SUBSET (1..m) THEN it[r] ELSE G(it[r \ {m + 1}], m + 1)]
      <3>2. ASSUME NEW r \in SUBSET (1..(m + 1)), r \in SUBSET (1..m)
            PROVE  more[r] = IF r = {} THEN 0 ELSE G(more[r \ {Max(r)}], Max(r))
        BY <3>1, <3>2
      <3>3. ASSUME NEW r \in SUBSET (1..(m + 1)), r \notin SUBSET (1..m)
            PROVE  more[r] = IF r = {} THEN 0 ELSE G(more[r \ {Max(r)}], Max(r))
        <4>1. m + 1 \in r /\ r # {}
          BY <3>3
        <4>2. Max(r) = m + 1
          BY <4>1, MaxOfInitial
        <4>3. r \ {m + 1} \in SUBSET (1..m)
          OBVIOUS
        <4>4. more[r \ {m + 1}] = it[r \ {m + 1}]
          BY <4>3
        <4> QED BY <4>1, <4>2, <4>4, <3>3
      <3>4. Iter(m + 1, more)
        BY <3>2, <3>3
      <3> HIDE DEF Iter, more
      <3> QED BY <3>4
    <2> HIDE DEF S
    <2> QED BY <2>1, <2>2, InductionOnSet DEF S
  <1> DEFINE it == CHOOSE it : Iter(n, it)
  <1>2. Iter(n, it)
    <2>1. \E i : Iter(n, i)
      BY <1>1
    <2> HIDE DEF Iter
    <2> QED BY <2>1
  <1>3. Taken(a) = it[1..n]
    <2>1. DOMAIN s = 1..n
      OBVIOUS
    <2> QED BY <2>1 DEF Taken, FoldLeft, MapThenFoldSet
  <1> HIDE DEF it
  <1> DEFINE f == [k \in 0..n |-> it[1..k]]
  <1>4. f[0] = 0
    <2>1. 1..0 = {} /\ 0 \in 0..n
      OBVIOUS
    <2> QED BY <2>1, <1>2
  <1>5. ASSUME NEW k \in 1..n PROVE f[k] = G(f[k - 1], k)
    <2>1. k - 1 \in Nat /\ k \in 0..n /\ k - 1 \in 0..n
      OBVIOUS
    <2>2. 1..k \in SUBSET (1..n) /\ 1..k # {} /\ k \in 1..k
      <3>1. k \in 1..k
        BY <2>1
      <3>2. 1..k \subseteq 1..n
        BY <2>1
      <3> QED BY <3>1, <3>2
    <2>3. Max(1..k) = k
      <3>1. (k - 1) + 1 = k
        BY <2>1
      <3>2. 1..k \in SUBSET (1..((k - 1) + 1)) /\ (k - 1) + 1 \in 1..k
        BY <3>1, <2>2
      <3> QED BY <3>1, <3>2, <2>1, MaxOfInitial
    <2>4. (1..k) \ {k} = 1..(k - 1)
      OBVIOUS
    <2>5. it[1..k] = G(it[1..(k - 1)], k)
      BY <1>2, <2>2, <2>3, <2>4
    <2> QED BY <2>1, <2>5
  <1>6. Taken(a) = f[n]
    <2>1. n \in 0..n
      OBVIOUS
    <2> QED BY <1>3, <2>1
  <1> QED
    <2> HIDE DEF f
    <2>1. DOMAIN f = 0..n
      BY DEF f
    <2> QED BY <1>4, <1>5, <1>6, <2>1

\* As many elements of an array are taken as the numbers of its dimensions add up to.
LEMMA TakenIs ==
    ASSUME NEW a \in Arrays
    PROVE  /\ Taken(a) \in Nat
           /\ a.type # "string" /\ Len(a.dimensions) = 1 => Taken(a) = Len(a.elements)
  <1> DEFINE s == a.dimensions
             n == Len(s)
  <1>1. s \in Seq(Nat) /\ n \in Nat /\ (n = 1 => Len(a.elements) = s[1])
    BY ScriptAssumption
  <1>2. CASE a.type # "string"
    <2>1. PICK f : /\ DOMAIN f = 0..n /\ f[0] = 0
                   /\ \A k \in 1..n : f[k] = f[k - 1] + s[k]
                   /\ Taken(a) = f[n]
      BY <1>1, <1>2, TakenUnfolds
    <2>2. \A k \in 1..n : s[k] \in Nat
      BY <1>1
    <2> DEFINE S == {k \in Nat : k <= n => f[k] \in Nat}
    <2> HIDE DEF s, n
    <2>3. 0 \in S
      BY <2>1
    <2>4. ASSUME NEW k \in S PROVE k + 1 \in S
      <3> SUFFICES ASSUME k + 1 <= n PROVE f[k + 1] \in Nat
        OBVIOUS
      <3>1. k \in Nat /\ k <= n /\ k + 1 \in 1..n /\ (k + 1) - 1 = k
        BY <1>1
      <3>2. f[k + 1] = f[k] + s[k + 1]
        BY <2>1, <3>1
      <3>3. f[k] \in Nat /\ s[k + 1] \in Nat
        BY <3>1, <2>2
      <3> QED BY <3>2, <3>3
    <2>5. S = Nat
      <3>1. S \in SUBSET Nat
        OBVIOUS
      <3> HIDE DEF S
      <3> QED BY <2>3, <2>4, <3>1, InductionOnSet
    <2>6. f[n] \in Nat
      BY <1>1, <2>5
    <2>7. n = 1 => f[n] = s[1]
      <3> SUFFICES ASSUME n = 1 PROVE f[1] = s[1]
        OBVIOUS
      <3>1. 1 \in 1..n /\ 1 - 1 = 0
        OBVIOUS
      <3>2. f[1] = f[0] + s[1] /\ s[1] \in Nat
        BY <2>1, <2>2, <3>1
      <3> QED BY <2>1, <3>2
    <2> QED BY <1>1, <2>1, <2>6, <2>7 DEF s, n
  <1>3. CASE a.type = "string"
    BY <1>3 DEF Taken
  <1> QED BY <1>2, <1>3

\* What may come of an array.
LEMMA ArrayProper ==
    ASSUME NEW a \in Arrays, NEW v \in FromArray(a)
    PROVE  /\ Proper(v)
           /\ v.type \in {"empty", a.type}
           /\ ArrayMeaning(a).supported => v.type = a.type /\ v.elements = a.elements
  <1> DEFINE n == Taken(a)
             W == ToSet(a.elements) \cup Garbage
  <1>1. PICK e \in [1..n -> W] :
            /\ \A k \in 1..n : k <= Len(a.elements) => e[k] = a.elements[k]
            /\ v = PushAll(NewVariable, a.type, e)
    BY DEF FromArray
  <1>2. n \in Nat
    BY TakenIs
  <1>3. a.type \in Type \ {"empty"} /\ a.elements \in Seq(Int)
    BY ScriptAssumption
  <1>4. W \subseteq Int
    BY <1>3 DEF ToSet, Garbage
  <1> HIDE DEF n, W
  <1>5. e \in Seq(Int) /\ Len(e) = n
    <2>1. \A k \in 1..n : e[k] \in Int
      BY <1>1, <1>4
    <2>2. DOMAIN e = 1..n
      BY <1>1
    <2>3. e \in [1..n -> Int]
      BY <1>1, <2>1, <2>2
    <2> QED BY <1>2, <2>3
  <1>6. Proper(v) /\ v.elements = e /\ v.type = IF e = <<>> THEN "empty" ELSE a.type
    BY <1>1, <1>3, <1>5, PushedProper
  <1>7. ASSUME ArrayMeaning(a).supported PROVE v.type = a.type /\ v.elements = a.elements
    <2>1. a.elements # <<>> /\ Len(a.dimensions) = 1 /\ (a.type = "string" => Len(a.elements) = 1)
      BY <1>7 DEF ArrayMeaning
    <2>2. n = Len(a.elements)
      BY <2>1, TakenIs DEF n, Taken
    <2>3. e = a.elements
      BY <1>1, <1>3, <1>5, <2>2
    <2> QED BY <1>6, <2>1, <2>3
  <1> QED BY <1>6, <1>7

-----------------------------------------------------------------------------
(* What a parameter accepts *)

\* The elements of a variable obey the constraints of a parameter.
Accepts(param, found) ==
    /\ SizeFits(param, found)
    /\ \A k \in DOMAIN found.elements : ValueFits(param, found.type, found.elements[k])

\* All elements are copied just if all of them obey the constraints.
LEMMA CopiedIs ==
    ASSUME NEW param, NEW found \in Variable
    PROVE  /\ Copied(param, found) \in 0..Numel(found)
           /\ Numel(found) \in Nat
           /\ SizeFits(param, found) /\ Copied(param, found) = Numel(found)
                 <=> Accepts(param, found)
  <1> DEFINE n == Numel(found)
             fits(j) == ValueFits(param, found.type, found.elements[j])
             s == {k \in 1..n : \A j \in 1..k : fits(j)}
  <1>1. found.elements \in Seq(Int) /\ n \in Nat /\ DOMAIN found.elements = 1..n
    BY DEF Variable, Numel
  <1>2. IsFiniteSet(1..n) /\ Cardinality(1..n) = n
    BY <1>1, FS_Interval
  <1>3. s \subseteq 1..n
    OBVIOUS
  <1>4. Copied(param, found) = IF SizeFits(param, found) THEN Cardinality(s) ELSE 0
    BY <1>1 DEF Copied
  <1>5. s = 1..n <=> \A k \in 1..n : fits(k)
    <2>1. ASSUME \A k \in 1..n : fits(k), NEW k \in 1..n PROVE \A j \in 1..k : fits(j)
      <3>1. \A j \in 1..k : j \in 1..n
        BY <1>1
      <3> HIDE DEF fits, n
      <3> QED BY <2>1, <3>1
    <2>2. ASSUME s = 1..n, NEW k \in 1..n PROVE fits(k)
      <3>1. k \in s /\ k \in 1..k
        BY <2>2
      <3> HIDE DEF fits, n
      <3> QED BY <3>1
    <2> HIDE DEF fits, n
    <2> QED BY <2>1, <2>2
  <1> HIDE DEF s, fits, n
  <1>6. IsFiniteSet(s) /\ Cardinality(s) \in Nat /\ Cardinality(s) <= n
    BY <1>1, <1>2, <1>3, FS_Subset, FS_CardinalityType
  <1>7. Cardinality(s) = n <=> s = 1..n
    BY <1>2, <1>3, FS_Subset
  <1>8. Accepts(param, found) <=> SizeFits(param, found) /\ \A k \in 1..n : fits(k)
    BY <1>1 DEF Accepts, fits
  <1> QED BY <1>1, <1>4, <1>5, <1>6, <1>7, <1>8 DEF n

\* Elements with the type they have.
LEMMA TypedIs ==
    ASSUME NEW v, v.elements \in Seq(Int), v.type \in Type
    PROVE  /\ Typed(v) \in Seq(Type \X Int)
           /\ Len(Typed(v)) = Len(v.elements)
           /\ DOMAIN Typed(v) = 1..Len(v.elements)
           /\ DOMAIN v.elements = 1..Len(v.elements)
           /\ \A k \in 1..Len(v.elements) :
                 Typed(v)[k][1] = v.type /\ Typed(v)[k][2] = v.elements[k]
  <1> DEFINE n == Len(v.elements)
  <1>1. n \in Nat /\ DOMAIN v.elements = 1..n /\ \A k \in 1..n : v.elements[k] \in Int
    OBVIOUS
  <1>2. Typed(v) = [k \in 1..n |-> <<v.type, v.elements[k]>>]
    BY <1>1 DEF Typed
  <1> HIDE DEF n
  <1>3. Typed(v) \in Seq(Type \X Int) /\ Len(Typed(v)) = n
    BY <1>1, <1>2
  <1> QED BY <1>1, <1>2, <1>3 DEF n

\* What is stored of an argument, and what becomes of the block.
LEMMA FillEffect ==
    ASSUME NEW param, NEW found \in Variable, Fill(param, found),
           data \in [DOMAIN params -> Seq(Type \X Int)], param_curr \in DOMAIN params
    PROVE  /\ data' \in [DOMAIN params -> Seq(Type \X Int)]
           /\ \A i \in DOMAIN params : i # param_curr => data'[i] = data[i]
           /\ \/ /\ Accepts(param, found)
                 /\ param_curr' = param_curr + 1 /\ configured' = IsLast(param_curr)
                 /\ status' = status
                 /\ data'[param_curr] = data[param_curr] \o Typed(found)
              \/ /\ ~Accepts(param, found)
                 /\ param_curr' = param_curr /\ configured' = configured
                 /\ status' = "rejected"
  <1> DEFINE c == Copied(param, found)
             n == Numel(found)
             s == Typed(found)
             more == SubSeq(s, 1, c)
  <1>1. c \in 0..n /\ n \in Nat /\ (SizeFits(param, found) /\ c = n <=> Accepts(param, found))
    BY CopiedIs
  <1>2. s \in Seq(Type \X Int) /\ Len(s) = n
    BY TypedIs DEF Variable, Numel
  <1> HIDE DEF c, n, s
  <1>3. more \in Seq(Type \X Int)
    BY <1>1, <1>2
  <1>4. c = n => more = s
    BY <1>1, <1>2
  <1>5. data' = [data EXCEPT ![param_curr] = data[param_curr] \o more]
    BY DEF Fill, c, s
  <1> HIDE DEF more
  <1>6. data[param_curr] \o more \in Seq(Type \X Int)
    BY <1>3
  <1>7. /\ data' \in [DOMAIN params -> Seq(Type \X Int)]
        /\ \A i \in DOMAIN params : i # param_curr => data'[i] = data[i]
        /\ data'[param_curr] = data[param_curr] \o more
    BY <1>5, <1>6
  <1>8. CASE Accepts(param, found)
    BY <1>1, <1>4, <1>7, <1>8 DEF Fill, c, n, s
  <1>9. CASE ~Accepts(param, found)
    BY <1>1, <1>7, <1>9 DEF Fill, c, n
  <1> QED BY <1>8, <1>9

\* Remainders say which numbers are multiples.
LEMMA MultiplesAre ==
    ASSUME NEW e \in Int, NEW c \in Nat \ {0}
    PROVE  LET size == IF e < 0 THEN -e ELSE e
           IN  (e % c = 0) <=> \E n \in -size..size : e = n * c
  <1> DEFINE size == IF e < 0 THEN -e ELSE e
  <1>1. e \div c \in Int /\ e % c \in 0..(c - 1) /\ e = c * (e \div c) + (e % c)
    OBVIOUS
  <1>2. ASSUME e % c = 0 PROVE \E n \in -size..size : e = n * c
    <2> DEFINE q == e \div c
    <2>1. q \in Int /\ e = c * q
      BY <1>1, <1>2
    <2> HIDE DEF q
    <2>2. q >= 0 => c * q >= q /\ c * q >= 0
      BY <2>1
    <2>3. q <= 0 => c * q <= q /\ c * q <= 0
      BY <2>1
    <2>4. q \in -size..size
      BY <2>1, <2>2, <2>3
    <2>5. e = q * c
      BY <2>1
    <2> QED BY <2>4, <2>5
  <1>3. ASSUME NEW n \in -size..size, e = n * c PROVE e % c = 0
    <2>1. n \in Int
      OBVIOUS
    <2> DEFINE q == e \div c
               r == e % c
    <2>2. q \in Int /\ r \in 0..(c - 1) /\ n * c = c * q + r
      BY <1>1, <1>3
    <2> HIDE DEF q, r
    <2>3. r = c * (n - q)
      BY <2>1, <2>2
    <2>4. n - q <= 0
      <3> SUFFICES ASSUME n - q >= 1 PROVE FALSE
        BY <2>1, <2>2
      <3>1. c * (n - q) >= c
        BY <2>1, <2>2
      <3> QED BY <2>2, <2>3, <3>1
    <2>5. n - q >= 0
      <3> SUFFICES ASSUME n - q <= -1 PROVE FALSE
        BY <2>1, <2>2
      <3>1. c * (n - q) <= -c
        BY <2>1, <2>2
      <3> QED BY <2>2, <2>3, <3>1
    <2>6. n - q = 0
      BY <2>1, <2>2, <2>4, <2>5
    <2> QED BY <2>3, <2>6 DEF r
  <1> QED BY <1>2, <1>3

\* Variables of the type of a parameter are stored if they obey its constraints.
LEMMA AcceptsIs ==
    ASSUME NEW param \in Parameter, NEW found \in Variable, found.type = param.type,
           \A i \in DOMAIN param.constraints :
               param.constraints[i].check = "modulo" => param.constraints[i].arg > 0
    PROVE  Accepts(param, found) <=> Honours(param, Typed(found))
  <1> DEFINE C == param.constraints
             D == DOMAIN C
             s == found.elements
             n == Len(s)
             v == Typed(found)
             A(c) == /\ c.check = "size" => Satisfied(c, n, 0)
                     /\ c.check # "size" => \A k \in 1..n : Satisfied(c, 0, s[k])
             M(e, arg) == LET size == IF e < 0 THEN -e ELSE e
                          IN  \E m \in -size..size : e = m * arg
             H(c) == /\ c.check = "size" => (n = c.arg <=> ~c.negative)
                     /\ c.check # "size" => \A k \in 1..n :
                            /\ c.check = "less" => (s[k] < c.arg <=> ~c.negative)
                            /\ c.check = "greater" => (s[k] > c.arg <=> ~c.negative)
                            /\ c.check = "modulo" => (M(s[k], c.arg) <=> ~c.negative)
  <1>1. C \in Seq(Constraint) /\ \A i \in D : C[i] \in Constraint
    BY DEF Parameter
  <1>2. s \in Seq(Int) /\ n \in Nat /\ DOMAIN s = 1..n /\ \A k \in 1..n : s[k] \in Int
    BY DEF Variable
  <1>3. /\ Len(v) = n /\ DOMAIN v = 1..n
        /\ \A k \in 1..n : v[k][1] = param.type /\ v[k][2] = s[k]
    BY <1>2, TypedIs DEF Variable
  <1>4. ASSUME NEW i \in D PROVE A(C[i]) <=> H(C[i])
    <2> DEFINE c == C[i]
    <2>1. /\ c.check \in {"size", "less", "greater", "modulo"} /\ c.arg \in Int
          /\ c.negative \in BOOLEAN /\ (c.check = "modulo" => c.arg > 0)
      BY <1>1, <1>4 DEF Constraint
    <2> SUFFICES A(c) <=> H(c)
      OBVIOUS
    <2> HIDE DEF c, n, s, M
    <2>2. CASE c.check = "size"
      BY <2>2 DEF Satisfied, Passes
    <2>3. CASE c.check = "less"
      BY <2>3 DEF Satisfied, Passes
    <2>4. CASE c.check = "greater"
      BY <2>4 DEF Satisfied, Passes
    <2>5. CASE c.check = "modulo"
      <3>1. \A k \in 1..n : (s[k] % c.arg = 0) <=> M(s[k], c.arg)
        <4>1. c.arg \in Nat \ {0}
          BY <2>1, <2>5
        <4> QED BY <4>1, <1>2, MultiplesAre DEF M
      <3> QED BY <2>5, <3>1 DEF Satisfied, Passes
    <2> QED BY <2>1, <2>2, <2>3, <2>4, <2>5
  <1>5. Accepts(param, found) <=> \A i \in D : A(C[i])
    <2>1. SizeFits(param, found) <=> \A i \in D : C[i].check = "size" => Satisfied(C[i], n, 0)
      BY DEF SizeFits
    <2>2. \A k \in 1..n : ValueFits(param, found.type, s[k]) <=>
              \A i \in D : C[i].check # "size" => Satisfied(C[i], 0, s[k])
      BY DEF ValueFits
    <2>3. Accepts(param, found) <=>
              SizeFits(param, found) /\ \A k \in 1..n : ValueFits(param, found.type, s[k])
      BY <1>2 DEF Accepts
    <2> HIDE DEF D, C, n, s
    <2> QED BY <2>1, <2>2, <2>3
  <1>6. Honours(param, v) <=> \A i \in D : H(C[i])
    <2>1. \A k \in 1..n : v[k][1] = param.type /\ v[k][2] = s[k]
      BY <1>3
    <2>2. Len(v) = n /\ DOMAIN v = 1..n
      BY <1>3
    <2> HIDE DEF v, n, s
    <2> QED BY <2>1, <2>2 DEF Honours
  <1> HIDE DEF D, C, A, H
  <1> QED BY <1>4, <1>5, <1>6

\* What save_type_change makes of a copy, and what may be read of it.
Converted(param, var) ==
    IF var.type = param.type THEN Copy(var) ELSE SaveTypeChange(Copy(var), param.type)

\* Conversions keep the elements; what they do to the buffer depends on the types.
LEMMA ConvertedIs ==
    ASSUME NEW param \in Parameter, NEW var, Proper(var), NEW w, w = Converted(param, var)
    PROVE  /\ w \in Variable /\ w.elements = var.elements
           /\ \/ w.type = var.type /\ w.boxed = var.boxed
              \/ <<var.type, param.type>> \in Conversions /\ w.type = param.type /\ w.boxed = FALSE
           /\ Supported(var.type, param.type) => w.type = param.type
           /\ var.type = param.type => w.boxed = var.boxed
  <1> DEFINE c == Copy(var)
             t == param.type
             n == Len(c.elements) * SizeOf[t]
  <1>1. Proper(c) /\ c.type = var.type /\ c.elements = var.elements /\ c.boxed = var.boxed
    BY CopyProper
  <1>2. c \in Variable /\ t \in Type /\ c.elements \in Seq(Int)
    BY <1>1 DEF Proper, Variable, Parameter
  <1>3. n \in Nat
    <2>1. SizeOf[t] \in {1, 2, 4, 8, 16}
      BY <1>2, SizesOfTypes
    <2>2. Len(c.elements) \in Nat
      BY <1>2
    <2> QED BY <2>1, <2>2
  <1> HIDE DEF c, n
  <1>4. CASE var.type # t /\ <<var.type, t>> \in Conversions
    <2>1. w = [c EXCEPT !.type = t, !.boxed = FALSE, !.size = n, !.room = n]
      BY <1>1, <1>4 DEF Converted, SaveTypeChange, Cast, Numel, c, n
    <2>2. w \in Variable /\ w.elements = c.elements /\ w.type = t /\ w.boxed = FALSE
      BY <2>1, <1>2, <1>3 DEF Variable
    <2> QED BY <2>2, <1>1, <1>4
  <1>5. CASE ~(var.type # t /\ <<var.type, t>> \in Conversions)
    <2>1. w = c
      BY <1>1, <1>5 DEF Converted, SaveTypeChange, c
    <2>2. Supported(var.type, t) => var.type = t
      BY <1>5 DEF Supported, Conversions
    <2> QED BY <1>1, <1>2, <2>1, <2>2
  <1> QED BY <1>4, <1>5

\* What may be read of a variable: its elements, unless they are pointers without an owner.
LEMMA ReadingsAre ==
    ASSUME NEW w \in Variable, NEW elements \in Readings(w), NEW found,
           found = [w EXCEPT !.elements = elements]
    PROVE  /\ found \in Variable /\ found.type = w.type /\ found.elements = elements
           /\ (w.boxed => w.type \in Pointed) => elements = w.elements
  <1>1. w.elements \in Seq(Int)
    BY DEF Variable
  <1>2. elements \in Seq(Int)
    <2>1. CASE w.boxed /\ w.type \notin Pointed
      <3>1. elements \in [DOMAIN w.elements -> Garbage]
        BY <2>1 DEF Readings
      <3>2. /\ DOMAIN w.elements = 1..Len(w.elements) /\ Len(w.elements) \in Nat
            /\ Garbage \subseteq Int
        BY <1>1 DEF Garbage
      <3>3. \A k \in 1..Len(w.elements) : elements[k] \in Int
        BY <3>1, <3>2
      <3>4. elements \in [1..Len(w.elements) -> Int]
        BY <3>1, <3>2, <3>3
      <3> QED BY <3>2, <3>4
    <2>2. CASE ~(w.boxed /\ w.type \notin Pointed)
      BY <1>1, <2>2 DEF Readings
    <2> QED BY <2>1, <2>2
  <1>3. (w.boxed => w.type \in Pointed) => elements = w.elements
    BY DEF Readings
  <1> QED BY <1>2, <1>3 DEF Variable

\* A parameter a block of the library may have: no bits, and sensible remainders.
OrdinaryParameter(param) ==
    /\ param.type # "logical"
    /\ \A j \in DOMAIN param.constraints :
           param.constraints[j].check = "modulo" => param.constraints[j].arg > 0

\* Types of which save_type_change knows what to do.
SettledType(given, target) == Supported(given, target) \/ given \in {"complex", "string"}

\* Of an argument of a settled type there is no doubt what is read.
LEMMA SettledReading ==
    ASSUME NEW param \in Parameter, OrdinaryParameter(param), NEW var, Proper(var),
           SettledType(var.type, param.type), IsConvertibleTo(var.type, param.type),
           NEW w, w = Converted(param, var), NEW elements \in Readings(w), NEW found,
           found = [w EXCEPT !.elements = elements]
    PROVE  /\ Supported(var.type, param.type)
           /\ found \in Variable
           /\ found.type = param.type
           /\ Typed(found) = Typed([var EXCEPT !.type = param.type])
           /\ Accepts(param, found) <=> Acceptable(param, var)
  <1>1. Supported(var.type, param.type)
    BY DEF SettledType, IsConvertibleTo, Supported
  <1>2. /\ w \in Variable /\ w.elements = var.elements /\ w.type = param.type
        /\ w.boxed => w.type \in Pointed
    <2>1. /\ w \in Variable /\ w.elements = var.elements /\ w.type = param.type
          /\ \/ w.type = var.type /\ w.boxed = var.boxed
             \/ w.boxed = FALSE
      <3> DEFINE c == Converted(param, var)
      <3>1. /\ c \in Variable /\ c.elements = var.elements
            /\ \/ c.type = var.type /\ c.boxed = var.boxed
               \/ <<var.type, param.type>> \in Conversions /\ c.type = param.type /\ c.boxed = FALSE
            /\ Supported(var.type, param.type) => c.type = param.type
            /\ var.type = param.type => c.boxed = var.boxed
        BY ConvertedIs, Zenon
      <3> HIDE DEF c
      <3>2. w = c
        BY DEF c
      <3> QED BY <1>1, <3>1, <3>2
    <2>2. ASSUME w.boxed PROVE w.type \in Pointed
      <3>1. w.type = var.type /\ var.boxed
        BY <2>1, <2>2
      <3>2. var.type \notin Fundamental /\ var.type # "empty" /\ var.type \in Type
        BY <3>1 DEF Proper, Variable
      <3>3. var.type # "logical"
        BY <2>1, <3>1 DEF OrdinaryParameter
      <3> QED BY <3>1, <3>2, <3>3 DEF Fundamental, Pointed
    <2> QED BY <2>1, <2>2
  <1>3. found \in Variable /\ found.type = param.type /\ found.elements = var.elements
    <2>1. w \in Variable
      BY <1>2
    <2>2. /\ found \in Variable /\ found.type = w.type /\ found.elements = elements
          /\ (w.boxed => w.type \in Pointed) => elements = w.elements
      BY <2>1, ReadingsAre
    <2> QED BY <1>2, <2>2
  <1>4. Typed(found) = Typed([var EXCEPT !.type = param.type])
    <2> DEFINE u == [var EXCEPT !.type = param.type]
    <2>1. u.type = param.type /\ u.elements = var.elements
      BY DEF Proper, Variable
    <2> HIDE DEF u
    <2>2. Typed(found) = Typed(u)
      BY <1>3, <2>1 DEF Typed
    <2> QED BY <2>2 DEF u
  <1>5. Accepts(param, found) <=> Honours(param, Typed(found))
    BY <1>3, AcceptsIs DEF OrdinaryParameter
  <1> QED BY <1>1, <1>3, <1>4, <1>5 DEF Acceptable

-----------------------------------------------------------------------------
(* Blocks and their arguments *)

\* The block between two arguments.
BlockTyped ==
    /\ params \in Seq(Parameter)
    /\ data \in [DOMAIN params -> Seq(Type \X Int)]
    /\ param_curr \in 1..(Len(params) + 1)
    /\ configured = (param_curr > Len(params))

\* What an argument does to a block that is configured already.
LEMMA SurplusArgument ==
    ASSUME BlockTyped, NEW var, SetParameter(var), configured
    PROVE  UNCHANGED <<data, param_curr, configured, status, params, num_args>>
  BY DEF SetParameter

\* The next argument of a block that waits for one.
NextParameter == params[param_curr]

\* It took the argument,
ArgumentStored(var) ==
    /\ status' = "configuring" /\ param_curr' = param_curr + 1 /\ configured' = IsLast(param_curr)
    /\ OrdinaryParameter(NextParameter) /\ SettledType(var.type, NextParameter.type) =>
          /\ Acceptable(NextParameter, var)
          /\ data'[param_curr] = data[param_curr] \o Typed([var EXCEPT !.type = NextParameter.type])

\* or not.
ArgumentRefused(var) ==
    /\ status' \in {"rejected", "crashed"} /\ param_curr' = param_curr /\ configured' = configured
    /\ status' = "crashed" => NextParameter.type = "complex" /\ var.type \in {"int32", "real"}
    /\ status' = "rejected" /\ OrdinaryParameter(NextParameter)
          /\ SettledType(var.type, NextParameter.type) => ~Acceptable(NextParameter, var)

\* What one does to a block that waits for it.
LEMMA NextArgument ==
    ASSUME BlockTyped, NEW var, Proper(var), SetParameter(var), ~configured
    PROVE  /\ param_curr \in DOMAIN params
           /\ data' \in [DOMAIN params -> Seq(Type \X Int)]
           /\ \A i \in DOMAIN params : i # param_curr => data'[i] = data[i]
           /\ ArgumentStored(var) \/ ArgumentRefused(var)
  <1> DEFINE param == params[param_curr]
             w == Converted(param, var)
  <1>1. /\ param_curr \in DOMAIN params /\ param \in Parameter
        /\ data \in [DOMAIN params -> Seq(Type \X Int)]
    <2>1. ~(param_curr > Len(params))
      BY Zenon DEF BlockTyped
    <2>2. Len(params) \in Nat /\ param_curr \in 1..(Len(params) + 1)
      BY DEF BlockTyped
    <2>3. param_curr \in 1..Len(params)
      BY <2>1, <2>2
    <2> QED BY <2>3 DEF BlockTyped
  <1>2. status = "configuring"
    BY DEF SetParameter
  <1>3. /\ w \in Variable /\ w.elements = var.elements
        /\ \/ w.type = var.type /\ w.boxed = var.boxed
           \/ <<var.type, param.type>> \in Conversions /\ w.type = param.type /\ w.boxed = FALSE
        /\ Supported(var.type, param.type) => w.type = param.type
        /\ var.type = param.type => w.boxed = var.boxed
    <2> HIDE DEF param
    <2> QED BY <1>1, ConvertedIs, Zenon
  <1>4. CASE ~IsConvertibleTo(var.type, param.type)
    <2>1. /\ data' = data /\ status' = "rejected" /\ param_curr' = param_curr
          /\ configured' = configured
      BY <1>4 DEF SetParameter
    <2>2. ~Acceptable(param, var)
      BY <1>4 DEF IsConvertibleTo, Acceptable, Supported
    <2>3. ArgumentRefused(var)
      BY <2>1, <2>2 DEF ArgumentRefused, NextParameter
    <2> QED BY <1>1, <2>1, <2>3
  <1>5. CASE IsConvertibleTo(var.type, param.type) /\ ~Usable(w)
    <2>1. /\ data' = data /\ status' = "crashed" /\ param_curr' = param_curr
          /\ configured' = configured
      BY <1>5 DEF SetParameter, Converted
    <2>2. w.type \in Pointed /\ ~w.boxed
      BY <1>5 DEF Usable
    <2>3. <<var.type, param.type>> \in Conversions /\ w.type = param.type
      <3>1. \/ w.type = var.type /\ w.boxed = var.boxed
            \/ <<var.type, param.type>> \in Conversions /\ w.type = param.type
        <4> HIDE DEF param, w
        <4> QED BY <1>3
      <3>2. ~(w.type = var.type /\ w.boxed = var.boxed)
        BY <2>2 DEF Proper
      <3> QED BY <3>1, <3>2
    <2>4. param.type = "complex" /\ var.type \in {"int32", "real"}
      BY <2>2, <2>3 DEF Conversions, Pointed
    <2>5. ArgumentRefused(var)
      BY <2>1, <2>4 DEF ArgumentRefused, NextParameter
    <2> QED BY <1>1, <2>1, <2>5
  <1>6. CASE IsConvertibleTo(var.type, param.type) /\ Usable(w)
    <2>1. \E elements \in Readings(w) : Fill(param, [w EXCEPT !.elements = elements])
      BY <1>6 DEF SetParameter, Converted
    <2>2. PICK elements \in Readings(w) : Fill(param, [w EXCEPT !.elements = elements])
      BY <2>1
    <2> DEFINE found == [w EXCEPT !.elements = elements]
    <2>3. w \in Variable
      BY <1>3
    <2>4. found \in Variable
      <3> HIDE DEF w
      <3> QED BY <2>3, ReadingsAre
    <2>5. OrdinaryParameter(param) /\ SettledType(var.type, param.type) =>
              /\ Typed(found) = Typed([var EXCEPT !.type = param.type])
              /\ Accepts(param, found) <=> Acceptable(param, var)
      <3> SUFFICES ASSUME OrdinaryParameter(param), SettledType(var.type, param.type)
                   PROVE  /\ Typed(found) = Typed([var EXCEPT !.type = param.type])
                          /\ Accepts(param, found) <=> Acceptable(param, var)
        OBVIOUS
      <3> HIDE DEF param
      <3> QED BY <1>1, <1>6, SettledReading
    <2> HIDE DEF w, found
    <2>6. /\ data' \in [DOMAIN params -> Seq(Type \X Int)]
          /\ \A i \in DOMAIN params : i # param_curr => data'[i] = data[i]
          /\ \/ /\ Accepts(param, found)
                /\ param_curr' = param_curr + 1 /\ configured' = IsLast(param_curr)
                /\ status' = status
                /\ data'[param_curr] = data[param_curr] \o Typed(found)
             \/ /\ ~Accepts(param, found)
                /\ param_curr' = param_curr /\ configured' = configured
                /\ status' = "rejected"
      <3>1. Fill(param, found)
        BY <2>2 DEF found
      <3> HIDE DEF param
      <3> QED BY <1>1, <2>4, <3>1, FillEffect
    <2>7. CASE Accepts(param, found)
      <3>1. ArgumentStored(var)
        BY <1>2, <2>5, <2>6, <2>7 DEF ArgumentStored, NextParameter
      <3> QED BY <1>1, <2>6, <3>1
    <2>8. CASE ~Accepts(param, found)
      <3>1. ArgumentRefused(var)
        BY <1>2, <2>5, <2>6, <2>8 DEF ArgumentRefused, NextParameter
      <3> QED BY <1>1, <2>6, <3>1
    <2> QED BY <2>7, <2>8
  <1> QED BY <1>4, <1>5, <1>6

\* An argument that has been stored, if there was no doubt about it.
StoredAs(i) ==
    OrdinaryParameter(params[i]) /\ SettledType(args[i].type, params[i].type) =>
        /\ Acceptable(params[i], args[i])
        /\ data[i] = Typed([args[i] EXCEPT !.type = params[i].type])

\* The block, the arguments it was given, and how far it has come with them.
BlockInv ==
    /\ params \in Declarations /\ num_args \in 0..MaxArgs
    /\ BlockTyped
    /\ args \in Seq(Variable) /\ \A i \in DOMAIN args : Proper(args[i])
    /\ Len(args) <= num_args
    /\ status \in {"new", "configuring", "rejected", "added", "undefined", "aborted", "crashed"}
    /\ status = "new" => args = <<>> /\ param_curr = 1
    /\ status \in {"configuring", "added"} => num_args = Len(params) /\ param_curr = Len(args) + 1
    /\ status = "added" => Len(args) = num_args
    /\ param_curr - 1 <= Len(args)
    /\ status \in {"new", "configuring"} =>
          \A i \in DOMAIN params : i >= param_curr => data[i] = <<>>
    /\ \A i \in 1..(param_curr - 1) : StoredAs(i)
    /\ status = "rejected" /\ num_args = Len(params) =>
          LET n == Len(args) IN
          /\ n \in DOMAIN params
          /\ OrdinaryParameter(params[n]) /\ SettledType(args[n].type, params[n].type) =>
                ~Acceptable(params[n], args[n])

\* Initially.
LEMMA BlockBegins == Init => BlockInv
  <1> SUFFICES ASSUME Init PROVE BlockInv
    OBVIOUS
  <1>1. params \in Declarations /\ params \in Seq(Parameter) /\ Len(params) \in Nat
    BY ParametersAssumption DEF Init
  <1>2. args = <<>> /\ args \in Seq(Variable) /\ Len(args) = 0 /\ DOMAIN args = {}
    BY DEF Init
  <1>3. data \in [DOMAIN params -> Seq(Type \X Int)] /\ \A i \in DOMAIN params : data[i] = <<>>
    <2>1. <<>> \in Seq(Type \X Int)
      OBVIOUS
    <2> QED BY <2>1 DEF Init
  <1>4. configured = (param_curr > Len(params))
    <2>1. params = <<>> <=> 1 > Len(params)
      BY <1>1
    <2> QED BY <2>1 DEF Init
  <1>5. param_curr = 1 /\ num_args \in 0..MaxArgs /\ num_args >= 0 /\ status = "new"
    BY ParametersAssumption DEF Init
  <1>6. param_curr \in 1..(Len(params) + 1)
    BY <1>1, <1>5
  <1>7. BlockTyped
    BY <1>1, <1>3, <1>4, <1>6 DEF BlockTyped
  <1>8. 1..(param_curr - 1) = {} /\ param_curr - 1 <= 0
    BY <1>5
  <1> QED BY <1>1, <1>2, <1>3, <1>5, <1>7, <1>8 DEF BlockInv

\* eval_add_block checks the number of arguments.
LEMMA CountKeeps == BlockInv /\ CheckCount => BlockInv'
  <1> SUFFICES ASSUME BlockInv, CheckCount PROVE BlockInv'
    OBVIOUS
  <1>1. /\ params' = params /\ num_args' = num_args /\ args' = args /\ data' = data
        /\ param_curr' = param_curr /\ configured' = configured
        /\ status = "new"
        /\ \/ status' = "rejected" /\ num_args # Len(params)
           \/ status' = "configuring" /\ num_args = Len(params)
    BY DEF CheckCount
  <1>2. args = <<>> /\ param_curr = Len(args) + 1
    BY <1>1 DEF BlockInv
  <1>3. BlockTyped' /\ \A i : StoredAs(i)' <=> StoredAs(i)
    BY <1>1 DEF BlockInv, BlockTyped, StoredAs
  <1> QED BY <1>1, <1>2, <1>3 DEF BlockInv

\* A block that got as many arguments as it has parameters is added.
LEMMA AddKeeps == BlockInv /\ AddBlock => BlockInv' /\ status' = "added"
  <1> SUFFICES ASSUME BlockInv, AddBlock PROVE BlockInv' /\ status' = "added"
    OBVIOUS
  <1>1. /\ params' = params /\ num_args' = num_args /\ args' = args /\ data' = data
        /\ param_curr' = param_curr /\ configured' = configured
        /\ status = "configuring" /\ Len(args) = num_args
        /\ status' = IF configured THEN "added" ELSE "unconfigured"
    BY DEF AddBlock
  <1>2. num_args = Len(params) /\ param_curr = Len(args) + 1
    BY <1>1 DEF BlockInv
  <1>3. configured
    <2>1. Len(params) \in Nat /\ param_curr > Len(params)
      BY <1>1, <1>2 DEF BlockInv, BlockTyped
    <2> QED BY <2>1 DEF BlockInv, BlockTyped
  <1>4. BlockTyped' /\ \A i : StoredAs(i)' <=> StoredAs(i)
    BY <1>1 DEF BlockInv, BlockTyped, StoredAs
  <1> QED BY <1>1, <1>2, <1>3, <1>4 DEF BlockInv

\* A program that ends.
LEMMA EndKeeps ==
    ASSUME NEW how \in {"undefined", "aborted", "crashed"}, BlockInv, Ends(how)
    PROVE  BlockInv'
  <1>1. /\ params' = params /\ num_args' = num_args /\ args' = args /\ data' = data
        /\ param_curr' = param_curr /\ configured' = configured /\ status' = how
    BY DEF Ends
  <1>2. BlockTyped' /\ \A i : StoredAs(i)' <=> StoredAs(i)
    BY <1>1 DEF BlockInv, BlockTyped, StoredAs
  <1> QED BY <1>1, <1>2 DEF BlockInv

\* A step that leaves the block as it is.
LEMMA StutterKeeps ==
    ASSUME BlockInv, UNCHANGED vars
    PROVE  BlockInv'
  <1>1. /\ params' = params /\ num_args' = num_args /\ args' = args /\ data' = data
        /\ param_curr' = param_curr /\ configured' = configured /\ status' = status
    BY DEF vars
  <1>2. BlockTyped' /\ \A i : StoredAs(i)' <=> StoredAs(i)
    BY <1>1 DEF BlockInv, BlockTyped, StoredAs
  <1> QED BY <1>1, <1>2 DEF BlockInv

\* What a block is given by arguments, whether they are stored or not.
LEMMA ArgumentKeeps ==
    ASSUME NEW var, Proper(var), BlockInv, SetParameter(var)
    PROVE  BlockInv'
  <1>0. PICK n \in Nat : n = Len(args)
    <2>1. Len(args) \in Nat
      BY DEF BlockInv
    <2> QED BY <2>1
  <1>1. /\ params' = params /\ num_args' = num_args
        /\ status = "configuring" /\ n < num_args
        /\ args' = Append(args, var)
    BY <1>0 DEF SetParameter
  <1>2. /\ args \in Seq(Variable) /\ n \in Nat /\ DOMAIN args = 1..n /\ var \in Variable
        /\ num_args \in Nat /\ num_args = Len(params) /\ param_curr = n + 1
        /\ params \in Seq(Parameter) /\ DOMAIN params = 1..Len(params)
    BY <1>0, <1>1 DEF BlockInv, BlockTyped, Proper
  <1>3. /\ args' \in Seq(Variable) /\ Len(args') = n + 1 /\ DOMAIN args' = 1..(n + 1)
        /\ \A i \in 1..n : args'[i] = args[i]
        /\ args'[n + 1] = var
    BY <1>0, <1>1, <1>2
  <1>4. param_curr \in DOMAIN params /\ ~configured
    <2>1. param_curr \in 1..Len(params) /\ ~(param_curr > Len(params))
      BY <1>1, <1>2
    <2>2. configured = (param_curr > Len(params))
      BY DEF BlockInv, BlockTyped
    <2>3. ~configured
      BY <2>1, <2>2, Zenon
    <2> QED BY <1>2, <2>1, <2>3
  <1>5. /\ data' \in [DOMAIN params -> Seq(Type \X Int)]
        /\ \A i \in DOMAIN params : i # param_curr => data'[i] = data[i]
        /\ ArgumentStored(var) \/ ArgumentRefused(var)
    BY <1>4, NextArgument DEF BlockInv
  <1>6. \A i \in DOMAIN args' : Proper(args'[i])
    BY <1>1, <1>2, <1>3 DEF BlockInv
  <1>7. \A i \in 1..n : StoredAs(i)'
    <2> SUFFICES ASSUME NEW i \in 1..n PROVE StoredAs(i)'
      OBVIOUS
    <2>1. i \in 1..(param_curr - 1) /\ i \in DOMAIN params /\ i # param_curr
      BY <1>1, <1>2
    <2>2. StoredAs(i)
      BY <2>1 DEF BlockInv
    <2>3. args'[i] = args[i] /\ data'[i] = data[i]
      BY <1>3, <1>5, <2>1
    <2> QED BY <1>1, <2>2, <2>3 DEF StoredAs
  <1>8. CASE ArgumentStored(var)
    <2>1. /\ status' = "configuring"
          /\ param_curr' = param_curr + 1 /\ configured' = IsLast(param_curr)
      BY <1>8 DEF ArgumentStored
    <2>2. StoredAs(n + 1)'
      <3>1. data[param_curr] = <<>>
        <4>1. param_curr >= param_curr
          BY <1>2
        <4> QED BY <1>1, <1>4, <4>1 DEF BlockInv
      <3>2. SUFFICES ASSUME OrdinaryParameter(NextParameter),
                            SettledType(var.type, NextParameter.type)
            PROVE  /\ Acceptable(NextParameter, var)
                   /\ data'[param_curr] = Typed([var EXCEPT !.type = NextParameter.type])
        <4>1. params'[n + 1] = NextParameter /\ args'[n + 1] = var /\ n + 1 = param_curr
          BY <1>1, <1>2, <1>3 DEF NextParameter
        <4> QED BY <4>1 DEF StoredAs
      <3> DEFINE t == Typed([var EXCEPT !.type = NextParameter.type])
      <3>3. Acceptable(NextParameter, var) /\ data'[param_curr] = data[param_curr] \o t
        BY <1>8, <3>2 DEF ArgumentStored
      <3>4. t \in Seq(Type \X Int)
        <4> DEFINE u == [var EXCEPT !.type = NextParameter.type]
        <4>1. NextParameter.type \in Type
          <5>1. NextParameter \in Parameter
            BY <1>2, <1>4 DEF NextParameter
          <5> QED BY <5>1 DEF Parameter
        <4>2. u.elements \in Seq(Int) /\ u.type \in Type
          BY <1>2, <4>1 DEF Variable
        <4> HIDE DEF u
        <4>3. Typed(u) \in Seq(Type \X Int)
          BY <4>2, TypedIs
        <4> QED BY <4>3 DEF u
      <3> HIDE DEF t
      <3>5. <<>> \o t = t
        BY <3>4
      <3> QED BY <3>1, <3>3, <3>5 DEF t
    <2>3. BlockTyped'
      <3>1. param_curr' \in 1..(Len(params) + 1)
        BY <1>2, <1>4, <2>1
      <3>2. IsLast(param_curr) <=> param_curr + 1 > Len(params)
        BY <1>2, <1>4 DEF IsLast
      <3>3. configured' = (param_curr' > Len(params))
        BY <2>1, <3>2 DEF IsLast
      <3> QED BY <1>1, <1>2, <1>5, <3>1, <3>3 DEF BlockTyped
    <2>4. \A i \in 1..(param_curr' - 1) : StoredAs(i)'
      <3> SUFFICES ASSUME NEW i \in 1..(param_curr' - 1) PROVE StoredAs(i)'
        OBVIOUS
      <3>1. i \in 1..n \/ i = n + 1
        BY <1>2, <2>1
      <3>2. CASE i = n + 1
        BY <2>2, <3>2
      <3> QED BY <1>7, <3>1, <3>2
    <2>5. \A i \in DOMAIN params : i >= param_curr' => data'[i] = <<>>
      <3> SUFFICES ASSUME NEW i \in DOMAIN params, i >= param_curr + 1 PROVE data'[i] = <<>>
        BY <2>1
      <3>1. i # param_curr /\ i >= param_curr
        BY <1>2
      <3> QED BY <1>1, <1>5, <3>1 DEF BlockInv
    <2>6. Len(args') <= num_args /\ param_curr' = Len(args') + 1 /\ param_curr' - 1 <= Len(args')
      BY <1>1, <1>2, <1>3, <2>1
    <2>7. params \in Declarations /\ num_args \in 0..MaxArgs
      BY DEF BlockInv
    <2> QED BY <1>1, <1>2, <1>3, <1>6, <2>1, <2>3, <2>4, <2>5, <2>6, <2>7 DEF BlockInv
  <1>9. CASE ArgumentRefused(var)
    <2>1. /\ status' \in {"rejected", "crashed"}
          /\ param_curr' = param_curr /\ configured' = configured
      BY <1>9 DEF ArgumentRefused
    <2>2. BlockTyped'
      BY <1>1, <1>5, <2>1 DEF BlockInv, BlockTyped
    <2>3. \A i \in 1..(param_curr' - 1) : StoredAs(i)'
      <3>1. \A i \in 1..(param_curr' - 1) : i \in 1..n
        BY <1>2, <2>1
      <3> QED BY <1>7, <3>1
    <2>4. Len(args') <= num_args /\ param_curr' - 1 <= Len(args')
      BY <1>1, <1>2, <1>3, <2>1
    <2>5. params \in Declarations /\ num_args \in 0..MaxArgs
      BY DEF BlockInv
    <2>6. status' = "rejected" => LET m == Len(args') IN
              /\ m \in DOMAIN params
              /\ OrdinaryParameter(params[m]) /\ SettledType(args'[m].type, params[m].type) =>
                    ~Acceptable(params[m], args'[m])
      BY <1>2, <1>3, <1>4, <1>9 DEF ArgumentRefused, NextParameter
    <2> QED BY <1>1, <1>3, <1>6, <2>1, <2>2, <2>3, <2>4, <2>5, <2>6 DEF BlockInv
  <1> QED BY <1>5, <1>8, <1>9

\* No block declares anything else.
Ordinary == \A p \in Declarations : \A i \in DOMAIN p : OrdinaryParameter(p[i])

\* A block is added just if all of its arguments obey the constraints.
LEMMA BlockInvImplies ==
    ASSUME Ordinary, BlockInv
    PROVE  AddedIfAcceptable
  <1> SUFFICES ASSUME Settled PROVE
        /\ status = "rejected" =>
              num_args # Len(params) \/ ~Acceptable(params[Len(args)], Last(args))
        /\ status # "unconfigured"
        /\ status = "added" => num_args = Len(params) /\ \A i \in DOMAIN params :
              /\ Acceptable(params[i], args[i])
              /\ data[i] = Typed([args[i] EXCEPT !.type = params[i].type])
    BY DEF AddedIfAcceptable
  <1>1. \A i \in DOMAIN args : SettledType(args[i].type, params[i].type)
    BY DEF Settled, SettledType
  <1>2. \A i \in DOMAIN params : OrdinaryParameter(params[i])
    BY DEF Ordinary, BlockInv
  <1>3. /\ args \in Seq(Variable) /\ Len(args) \in Nat /\ DOMAIN args = 1..Len(args)
        /\ params \in Seq(Parameter) /\ DOMAIN params = 1..Len(params) /\ Len(params) \in Nat
    BY DEF BlockInv, BlockTyped
  <1>4. ASSUME status = "rejected", num_args = Len(params)
        PROVE  ~Acceptable(params[Len(args)], Last(args))
    <2>1. Len(args) \in DOMAIN params
      BY <1>4 DEF BlockInv
    <2>2. Len(args) \in DOMAIN args
      BY <1>3, <2>1
    <2>3. SettledType(args[Len(args)].type, params[Len(args)].type)
      BY <1>1, <2>2
    <2>4. OrdinaryParameter(params[Len(args)])
      BY <1>2, <2>1
    <2> QED BY <1>4, <2>3, <2>4 DEF BlockInv, Last
  <1>5. ASSUME status = "added", NEW i \in DOMAIN params
        PROVE  /\ Acceptable(params[i], args[i])
               /\ data[i] = Typed([args[i] EXCEPT !.type = params[i].type])
    <2>1. num_args = Len(params) /\ param_curr = Len(args) + 1 /\ Len(args) = num_args
      BY <1>5 DEF BlockInv
    <2>2. i \in 1..(param_curr - 1) /\ i \in DOMAIN args
      BY <1>3, <2>1
    <2>3. StoredAs(i)
      BY <2>2 DEF BlockInv
    <2> QED BY <1>1, <1>2, <2>2, <2>3 DEF StoredAs
  <1> QED BY <1>4, <1>5 DEF BlockInv

-----------------------------------------------------------------------------
(* The program, whatever its expressions mean *)

\* What an author may mean.
Meanings == [type : Type, elements : Seq(Int), supported : BOOLEAN]

\* The inductive invariant: the block, the variables, and what was meant by them.
ScriptInv ==
    /\ BlockInv
    /\ VariablesProper
    /\ DOMAIN symtab \subseteq Names /\ DOMAIN meant = DOMAIN symtab
    /\ \A name \in DOMAIN meant : meant[name] \in Meanings
    /\ written \in Seq(Meanings) /\ Len(written) = Len(args)
    /\ assignments \in 0..MaxAssignments
    /\ last.supported \in BOOLEAN
    /\ \A i \in DOMAIN runs : runs[i].times \in 0..(Word - 1)

\* What an expression means.
LEMMA MeaningIs ==
    ASSUME NEW x \in Expressed, \A name \in DOMAIN meant : meant[name] \in Meanings
    PROVE  Meaning(x) \in Meanings
  BY ScriptAssumption DEF Meaning, Meanings

\* What an array means.
LEMMA ArrayMeaningIs ==
    ASSUME NEW a \in Arrays
    PROVE  ArrayMeaning(a) \in Meanings
  <1>1. a.type \in Type /\ a.elements \in Seq(Int)
    BY ScriptAssumption
  <1>2. ArrayMeaning(a).supported \in BOOLEAN
    BY DEF ArrayMeaning
  <1> QED BY <1>1, <1>2 DEF ArrayMeaning, Meanings

\* What is told of the expression evaluated last.
LEMMA EvaluatedIs ==
    ASSUME NEW x, NEW taken, x.supported \in BOOLEAN
    PROVE  /\ Evaluated(x, taken).supported = x.supported
           /\ Evaluated(x, taken).id = x.tree.id
           /\ Evaluated(x, taken).taken = taken
  BY DEF Evaluated

\* Times an integer says the system shall run.
LEMMA TimesIs ==
    ASSUME NEW v, Proper(v)
    PROVE  Times(v) \in 0..(Word - 1)
  <1>1. Word \in Nat /\ Word > 1
    BY ScriptAssumption
  <1>2. CASE v.type = "int32"
    <2>1. v.elements \in Seq(Int) /\ v.elements # <<>>
      BY <1>2 DEF Proper, Variable
    <2>2. Head(v.elements) \in Int
      BY <2>1
    <2> DEFINE h == Head(v.elements)
    <2> HIDE DEF h
    <2>3. h % Word \in 0..(Word - 1)
      BY <1>1, <2>2 DEF h
    <2> QED BY <1>2, <2>3 DEF Times, h
  <1>3. CASE v.type # "int32"
    BY <1>1, <1>3 DEF Times
  <1> QED BY <1>2, <1>3

\* Initially.
LEMMA ScriptBegins == ScriptInit => ScriptInv
  <1> SUFFICES ASSUME ScriptInit PROVE ScriptInv
    OBVIOUS
  <1>1. BlockInv
    BY BlockBegins DEF ScriptInit
  <1>2. args = <<>>
    BY DEF ScriptInit, Init
  <1>3. DOMAIN symtab = {} /\ DOMAIN meant = {} /\ DOMAIN runs = {}
    BY DEF ScriptInit
  <1>4. written \in Seq(Meanings) /\ Len(written) = Len(args)
    BY <1>2 DEF ScriptInit
  <1>5. assignments \in 0..MaxAssignments
    BY ScriptAssumption DEF ScriptInit
  <1>6. last.supported \in BOOLEAN
    BY DEF ScriptInit, Evaluated, Unwritten
  <1> QED BY <1>1, <1>3, <1>4, <1>5, <1>6 DEF ScriptInv, VariablesProper

\* An assignment.
LEMMA AssignKeeps ==
    ASSUME ScriptInv, NEW name \in Names, NEW x \in Expressed, Assign(name, x)
    PROVE  ScriptInv'
  <1> DEFINE result == EvalExpression(x.tree)
  <1>1. /\ assignments' = assignments + 1 /\ assignments < MaxAssignments
        /\ last' = Evaluated(x, name \in DOMAIN symtab)
        /\ written' = written /\ runs' = runs
    BY DEF Assign
  <1>2. assignments' \in 0..MaxAssignments
    BY <1>1, ScriptAssumption DEF ScriptInv
  <1>3. last'.supported \in BOOLEAN
    BY <1>1, ScriptAssumption, EvaluatedIs
  <1>4. Sound(result)
    <2>1. x.tree \in Trees
      BY ScriptAssumption
    <2> QED BY <2>1, EvalSound DEF ScriptInv
  <1>5. Meaning(x) \in Meanings
    BY MeaningIs DEF ScriptInv
  <1>6. CASE \E how \in {"undefined", "aborted", "crashed"} :
                 Ends(how) /\ UNCHANGED <<symtab, meant>>
    <2>1. PICK how \in {"undefined", "aborted", "crashed"} : Ends(how)
      BY <1>6
    <2>2. BlockInv' /\ args' = args
      BY <2>1, EndKeeps DEF ScriptInv, Ends
    <2>3. symtab' = symtab /\ meant' = meant
      BY <1>6
    <2> QED BY <1>1, <1>2, <1>3, <2>2, <2>3 DEF ScriptInv, VariablesProper
  <1>7. CASE /\ symtab' = Added(symtab, name, result.variable)
             /\ meant' = IF name \in DOMAIN meant THEN meant ELSE With(meant, name, Meaning(x))
             /\ UNCHANGED vars
    <2>1. BlockInv' /\ args' = args
      BY <1>7, StutterKeeps DEF ScriptInv, vars
    <2>2. CASE name \in DOMAIN symtab
      <3>1. symtab' = symtab /\ meant' = meant
        BY <1>7, <2>2 DEF Added, ScriptInv
      <3> QED BY <1>1, <1>2, <1>3, <2>1, <3>1 DEF ScriptInv, VariablesProper
    <2>3. CASE name \notin DOMAIN symtab
      <3> DEFINE v == Copy(result.variable)
      <3>1. symtab' = With(symtab, name, v) /\ meant' = With(meant, name, Meaning(x))
        BY <1>7, <2>3 DEF Added, ScriptInv
      <3>2. Proper(v) /\ v.type # "logical"
        BY <1>4, CopyProper DEF Sound
      <3> HIDE DEF v
      <3>3. /\ DOMAIN symtab' = DOMAIN symtab \cup {name}
            /\ symtab'[name] = v
            /\ \A n \in DOMAIN symtab : n # name => symtab'[n] = symtab[n]
        BY <3>1 DEF With
      <3>4. /\ DOMAIN meant' = DOMAIN meant \cup {name}
            /\ meant'[name] = Meaning(x)
            /\ \A n \in DOMAIN meant : n # name => meant'[n] = meant[n]
        BY <3>1 DEF With
      <3>5. VariablesProper'
        BY <3>2, <3>3 DEF ScriptInv, VariablesProper
      <3>6. \A n \in DOMAIN meant' : meant'[n] \in Meanings
        BY <1>5, <3>4 DEF ScriptInv
      <3>7. DOMAIN symtab' \subseteq Names /\ DOMAIN meant' = DOMAIN symtab'
        BY <3>3, <3>4 DEF ScriptInv
      <3> QED BY <1>1, <1>2, <1>3, <2>1, <3>5, <3>6, <3>7 DEF ScriptInv
    <2> QED BY <2>2, <2>3
  <1> QED
    <2>1. result.end # "value" => result.end \in {"undefined", "aborted", "crashed"}
      BY <1>4 DEF Sound
    <2> HIDE DEF result
    <2>2. \/ \E how \in {"undefined", "aborted", "crashed"} :
                Ends(how) /\ UNCHANGED <<symtab, meant>>
          \/ /\ symtab' = Added(symtab, name, result.variable)
             /\ meant' = IF name \in DOMAIN meant THEN meant ELSE With(meant, name, Meaning(x))
             /\ UNCHANGED vars
      BY <2>1 DEF Assign, result
    <2> QED BY <2>2, <1>6, <1>7 DEF result

\* An argument: the block is given a variable, or the program ends.
LEMMA ArgumentGiven ==
    ASSUME ScriptInv, UNCHANGED <<symtab, assignments, meant, runs>>, last'.supported \in BOOLEAN,
           \/ \E how \in {"undefined", "aborted", "crashed"} : Ends(how) /\ UNCHANGED written
           \/ \E v : \E m \in Meanings : /\ Proper(v)
                                           /\ SetParameter(v) /\ written' = Append(written, m)
    PROVE  ScriptInv'
  <1>1. CASE \E how \in {"undefined", "aborted", "crashed"} : Ends(how) /\ UNCHANGED written
    <2>1. PICK how \in {"undefined", "aborted", "crashed"} : Ends(how) /\ UNCHANGED written
      BY <1>1
    <2>2. BlockInv' /\ args' = args
      BY <2>1, EndKeeps DEF ScriptInv, Ends
    <2> QED BY <2>1, <2>2 DEF ScriptInv, VariablesProper
  <1>2. CASE \E v : \E m \in Meanings : /\ Proper(v)
                                          /\ SetParameter(v) /\ written' = Append(written, m)
    <2>0. PICK v : \E m \in Meanings : /\ Proper(v)
                                       /\ SetParameter(v) /\ written' = Append(written, m)
      BY <1>2
    <2>1. PICK m \in Meanings : Proper(v) /\ SetParameter(v) /\ written' = Append(written, m)
      BY <2>0
    <2>2. BlockInv'
      BY <2>1, ArgumentKeeps DEF ScriptInv
    <2>3. written' \in Seq(Meanings) /\ Len(written') = Len(args')
      <3>1. args' = Append(args, v) /\ args \in Seq(Variable)
        BY <2>1 DEF SetParameter, ScriptInv, BlockInv
      <3>2. written \in Seq(Meanings) /\ Len(written) = Len(args)
        BY DEF ScriptInv
      <3>3. Len(args') = Len(args) + 1
        BY <3>1, <2>1 DEF Proper
      <3> QED BY <2>1, <3>2, <3>3
    <2> QED BY <2>2, <2>3 DEF ScriptInv, VariablesProper
  <1> QED BY <1>1, <1>2

\* Every expression of a script comes to something sound.
LEMMA ExpressionSound ==
    ASSUME ScriptInv, NEW x \in Expressed
    PROVE  Sound(EvalExpression(x.tree))
  <1>1. x.tree \in Trees
    BY ScriptAssumption
  <1> QED BY <1>1, EvalSound DEF ScriptInv

\* An argument of eval_add_block.
LEMMA ArgumentStepKeeps ==
    ASSUME ScriptInv, NEW x \in Expressed, Argument(x)
    PROVE  ScriptInv'
  <1> DEFINE result == EvalExpression(x.tree)
  <1>1. /\ UNCHANGED <<symtab, assignments, meant, runs>>
        /\ last' = Evaluated(x, FALSE)
    BY DEF Argument
  <1>2. last'.supported \in BOOLEAN
    BY <1>1, ScriptAssumption, EvaluatedIs
  <1>3. Sound(result)
    BY ExpressionSound
  <1>4. Meaning(x) \in Meanings
    BY MeaningIs DEF ScriptInv
  <1>5. result.end # "value" => result.end \in {"undefined", "aborted", "crashed"}
    BY <1>3 DEF Sound
  <1> HIDE DEF result
  <1>6. \/ \E how \in {"undefined", "aborted", "crashed"} : Ends(how) /\ UNCHANGED written
        \/ SetParameter(result.variable) /\ written' = Append(written, Meaning(x))
    BY <1>5 DEF Argument, result
  <1>7. Proper(result.variable)
    BY <1>3 DEF Sound
  <1>8. \/ \E how \in {"undefined", "aborted", "crashed"} : Ends(how) /\ UNCHANGED written
        \/ \E v : \E m \in Meanings : /\ Proper(v)
                                      /\ SetParameter(v) /\ written' = Append(written, m)
    BY <1>4, <1>6, <1>7
  <1> QED BY <1>1, <1>2, <1>8, ArgumentGiven

\* An argument of __add_block.
LEMMA PassArrayKeeps ==
    ASSUME ScriptInv, NEW a \in Arrays, PassArray(a)
    PROVE  ScriptInv'
  <1> DEFINE x == [tree |-> [id |-> "array"], supported |-> ArrayMeaning(a).supported]
  <1>1. /\ UNCHANGED <<symtab, assignments, meant, runs>>
        /\ last' = Evaluated(x, FALSE)
    BY DEF PassArray
  <1>2. ArrayMeaning(a) \in Meanings
    BY ArrayMeaningIs
  <1>3. last'.supported \in BOOLEAN
    <2>1. x.supported \in BOOLEAN
      BY <1>2 DEF Meanings
    <2> HIDE DEF x
    <2> QED BY <1>1, <2>1, EvaluatedIs
  <1>4. PICK var \in FromArray(a) :
            \/ Ends("aborted") /\ UNCHANGED written
            \/ SetParameter(var) /\ written' = Append(written, ArrayMeaning(a))
    BY DEF PassArray
  <1>5. Proper(var)
    BY ArrayProper
  <1>6. \/ \E how \in {"undefined", "aborted", "crashed"} : Ends(how) /\ UNCHANGED written
        \/ \E v : \E m \in Meanings : /\ Proper(v)
                                      /\ SetParameter(v) /\ written' = Append(written, m)
    BY <1>2, <1>4, <1>5
  <1> QED BY <1>1, <1>3, <1>6, ArgumentGiven

\* run.
LEMMA RunKeeps ==
    ASSUME ScriptInv, NEW x \in Expressed \cup {Unwritten}, Run(x)
    PROVE  ScriptInv'
  <1> DEFINE result == IF x = Unwritten THEN Result(NewVariable) ELSE EvalExpression(x.tree)
  <1>1. /\ UNCHANGED <<symtab, assignments, meant, written>>
        /\ last' = Evaluated(x, FALSE)
    BY DEF Run
  <1>2. last'.supported \in BOOLEAN
    <2>1. CASE x \in Expressed
      BY <1>1, <2>1, ScriptAssumption, EvaluatedIs
    <2>2. CASE x = Unwritten
      BY <1>1, <2>2 DEF Evaluated, Unwritten
    <2> QED BY <2>1, <2>2
  <1>3. Sound(result)
    <2>1. CASE x = Unwritten
      BY <2>1, NewVariableSound
    <2>2. CASE x # Unwritten
      <3>1. x \in Expressed
        BY <2>2
      <3>2. Sound(EvalExpression(x.tree))
        BY <3>1, ExpressionSound
      <3> QED BY <2>2, <3>2
    <2> QED BY <2>1, <2>2
  <1>4. result.end # "value" => result.end \in {"undefined", "aborted", "crashed"}
    BY <1>3 DEF Sound
  <1>5. Times(result.variable) \in 0..(Word - 1)
    BY <1>3, TimesIs DEF Sound
  <1>6. \/ \E how \in {"undefined", "aborted", "crashed"} : Ends(how) /\ UNCHANGED runs
        \/ /\ runs' = <<[times |-> Times(result.variable), asked |-> Meaning(x)]>>
           /\ UNCHANGED vars
    <2> HIDE DEF result
    <2> QED BY <1>4 DEF Run, result
  <1> HIDE DEF result
  <1>7. BlockInv' /\ args' = args
    <2>1. CASE \E how \in {"undefined", "aborted", "crashed"} : Ends(how)
      BY <2>1, EndKeeps DEF ScriptInv, Ends
    <2>2. CASE UNCHANGED vars
      BY <2>2, StutterKeeps DEF ScriptInv, vars
    <2> QED BY <1>6, <2>1, <2>2
  <1>8. \A i \in DOMAIN runs' : runs'[i].times \in 0..(Word - 1)
    <2>1. CASE runs' = <<[times |-> Times(result.variable), asked |-> Meaning(x)]>>
      BY <1>5, <2>1
    <2>2. CASE runs' = runs
      BY <2>2 DEF ScriptInv
    <2> QED BY <1>6, <2>1, <2>2
  <1> QED BY <1>1, <1>2, <1>7, <1>8 DEF ScriptInv, VariablesProper

\* Every step keeps the invariant.
LEMMA ScriptInvKept == ScriptInv /\ [ScriptNext]_allVars => ScriptInv'
  <1> SUFFICES ASSUME ScriptInv, [ScriptNext]_allVars PROVE ScriptInv'
    OBVIOUS
  <1>1. ASSUME NEW name \in Names, NEW x \in Expressed, Assign(name, x) PROVE ScriptInv'
    BY <1>1, AssignKeeps
  <1>2. CASE BeginAdd
    <2>1. BlockInv' /\ args' = args
      BY <1>2, CountKeeps DEF ScriptInv, BeginAdd, CheckCount
    <2> QED BY <1>2, <2>1 DEF ScriptInv, VariablesProper, BeginAdd, scriptVars
  <1>3. ASSUME NEW x \in Expressed, Argument(x) PROVE ScriptInv'
    BY <1>3, ArgumentStepKeeps
  <1>4. ASSUME NEW a \in Arrays, PassArray(a) PROVE ScriptInv'
    BY <1>4, PassArrayKeeps
  <1>5. CASE EndAdd
    <2>1. BlockInv' /\ args' = args
      BY <1>5, AddKeeps DEF ScriptInv, EndAdd, AddBlock
    <2> QED BY <1>5, <2>1 DEF ScriptInv, VariablesProper, EndAdd, scriptVars
  <1>6. ASSUME NEW x \in Expressed \cup {Unwritten}, Run(x) PROVE ScriptInv'
    BY <1>6, RunKeeps
  <1>7. CASE Finished \/ UNCHANGED allVars
    <2>1. UNCHANGED vars /\ UNCHANGED scriptVars
      BY <1>7 DEF Finished, Done, allVars
    <2>2. BlockInv' /\ args' = args
      BY <2>1, StutterKeeps DEF ScriptInv, vars
    <2> QED BY <2>1, <2>2 DEF ScriptInv, VariablesProper, scriptVars
  <1> QED BY <1>1, <1>2, <1>3, <1>4, <1>5, <1>6, <1>7 DEF ScriptNext

\* It always holds.
LEMMA ScriptInvAlways == ScriptSpec => []ScriptInv
  <1> QED BY ScriptBegins, ScriptInvKept, PTL DEF ScriptSpec

\* A program that uses PlugBoard, a script (actions.cpp) or in Python (plugboard.i): a block
\* keeps its declaration and its data their shape, status is one of those named, variables are
\* variables, and a system is run an uint32_t of times.
THEOREM ScriptTypeCorrect == ScriptSpec => []ScriptTypeOK
  <1>1. ScriptInv => ScriptTypeOK
    <2> SUFFICES ASSUME ScriptInv PROVE ScriptTypeOK
      OBVIOUS
    <2>1. \A name \in DOMAIN symtab : symtab[name] \in Variable
      BY DEF ScriptInv, VariablesProper, Proper
    <2> QED BY <2>1 DEF ScriptInv, BlockInv, BlockTyped, ScriptTypeOK
  <1> QED BY <1>1, ScriptInvAlways, PTL

\* variable.cpp: no buffer of a variable of a script, and none of an argument but one of bits,
\* is written or read beyond its end, copied, converted and destroyed as they are, although
\* allocated counts elements at times and bytes at others.
THEOREM BuffersHold == ScriptSpec => []MemoryIntact
  <1>1. ScriptInv => MemoryIntact
    BY DestroyedIntact DEF ScriptInv, BlockInv, VariablesProper, MemoryIntact
  <1> QED BY <1>1, ScriptInvAlways, PTL

\* parameter.h, block.cpp: a block whose arguments are of settled types is added just if it got
\* as many as it has parameters and all of them obey the constraints, which are declared in any
\* number and order; and its data are the elements of the arguments, in their order.
THEOREM ConstraintsDecide ==
    ASSUME Ordinary
    PROVE  ScriptSpec => []AddedIfAcceptable
  <1>1. ScriptInv => AddedIfAcceptable
    BY BlockInvImplies DEF ScriptInv
  <1> QED BY <1>1, ScriptInvAlways, PTL

-----------------------------------------------------------------------------
(* Expressions come to what they stand for *)

\* An expression that stands for something has its type, and no variables in it.
LEMMA StandsTypes ==
    ASSUME NEW i \in Trees, NEW type, NEW elements, StandsFor(i, type, elements)
    PROVE  /\ SubtreeType(i) = type
           /\ Defined(i)
  <1>1. /\ \A n \in Terminals[i] : n.id \in Leaves
        /\ type = Widest({LeafType[n.id] : n \in Terminals[i]})
    BY DEF StandsFor
  <1>2. \A n \in Terminals[i] : n.id # "identifier"
    BY <1>1 DEF Leaves
  <1>3. {TerminalType(n) : n \in Terminals[i]} = {LeafType[n.id] : n \in Terminals[i]}
    BY <1>2 DEF TerminalType
  <1>4. SubtreeType(i) = type
    BY <1>1, <1>3 DEF SubtreeType
  <1>5. Defined(i)
    BY <1>2 DEF Defined
  <1> QED BY <1>4, <1>5

\* What is meant comes of an expression.
Delivers(r, type, elements) ==
    /\ r.end = "value" /\ Proper(r.variable)
    /\ r.variable.type = type /\ r.variable.elements = elements

\* Numbers that can be reckoned are no reason to end.
LEMMA CalculableScalars ==
    ASSUME NEW type, NEW nodes, NEW v, \A n \in nodes : Calculable(type, n)
    PROVE  Scalars(type, nodes, v) = Result(v)
  <1>1. \A n \in nodes : ~AssertsIn(n) /\ ~DividesByZero(type, n)
    BY DEF Calculable, AssertsIn
  <1> QED BY <1>1 DEF Scalars

\* A string comes to the string that was written,
LEMMA StringDelivers ==
    ASSUME NEW i \in Trees, NEW type, NEW elements, StandsFor(i, type, elements), i.id = "string"
    PROVE  Delivers(EvalExpression(i), type, elements)
  <1>1. type = "string" /\ elements = <<i.value>>
    BY DEF StandsFor, Arithmetic
  <1>2. EvalExpression(i) = Result(PushBack(NewVariable, "string", i.value))
    BY StandsTypes DEF EvalExpression, Arithmetic
  <1>3. i.value \in Int
    BY TreesAssumption DEF Leaves
  <1> DEFINE v == PushBack(NewVariable, "string", i.value)
  <1>4. Proper(v) /\ v.type = "string" /\ v.elements = <<i.value>>
    BY <1>3, PushedOnce, NumberTypes
  <1> HIDE DEF v
  <1>5. EvalExpression(i) = Result(v)
    BY <1>2 DEF v
  <1> QED BY <1>1, <1>4, <1>5 DEF Delivers, Result

\* a number to the number,
LEMMA ScalarDelivers ==
    ASSUME NEW i \in Trees, NEW type, NEW elements, StandsFor(i, type, elements),
           i.id \in Arithmetic
    PROVE  Delivers(EvalExpression(i), type, elements)
  <1> DEFINE e == Number(type, i)
             v == PushBack(NewVariable, type, e)
  <1>1. type \in NumberType /\ Calculable(type, i) /\ elements = <<e>>
    BY DEF StandsFor, Arithmetic, NumberType
  <1>2. SubtreeType(i) = type /\ Defined(i)
    BY StandsTypes
  <1>3. EvalExpression(i) = Scalars(type, {i}, v)
    BY <1>1, <1>2 DEF EvalExpression, EvalScalar, Arithmetic, NumberType
  <1>4. e \in Int
    BY <1>1, <1>2, NumbersReckoned DEF Calculable
  <1> HIDE DEF e
  <1>5. Proper(v) /\ v.type = type /\ v.elements = <<e>>
    BY <1>1, <1>4, PushedOnce, NumberTypes
  <1> HIDE DEF v
  <1>6. Scalars(type, {i}, v) = Result(v)
    BY <1>1, CalculableScalars
  <1> QED BY <1>1, <1>3, <1>5, <1>6 DEF Delivers, Result

\* a row to the numbers in it,
LEMMA RowDelivers ==
    ASSUME NEW i \in Trees, NEW type, NEW elements, StandsFor(i, type, elements),
           i.id = "rowvec"
    PROVE  Delivers(EvalExpression(i), type, elements)
  <1> DEFINE n == Len(i.children)
             numbers == [k \in 1..n |-> Number(type, i.children[k])]
             v == PushAll(Prealloc(NewVariable, SizeOf[type] * n), type, numbers)
  <1>1. /\ type \in NumberType /\ \A c \in Children(i) : Calculable(type, c)
        /\ elements = [k \in DOMAIN i.children |-> Number(type, i.children[k])]
        /\ elements # <<>>
    BY DEF StandsFor, Arithmetic, NumberType
  <1>2. SubtreeType(i) = type /\ Defined(i)
    BY StandsTypes
  <1>3. i.children \in Seq(Trees) /\ n \in Nat /\ DOMAIN i.children = 1..n
        /\ \A k \in 1..n : i.children[k] \in Children(i)
    BY ChildrenAre
  <1>4. EvalExpression(i) = Scalars(type, Children(i), v)
    BY <1>1, <1>2 DEF EvalExpression, EvalRow, Arithmetic, NumberType
  <1>5. \A k \in 1..n : Number(type, i.children[k]) \in Int
    BY <1>1, <1>2, <1>3, NumbersReckoned DEF Calculable
  <1>6. elements = numbers
    BY <1>1, <1>3
  <1> HIDE DEF n
  <1>7. numbers \in Seq(Int) /\ Len(numbers) = n
    BY <1>3, <1>5
  <1> HIDE DEF numbers
  <1>8. Proper(v) /\ v.type = type /\ v.elements = numbers
    BY <1>1, <1>6, <1>7, PushedProper, NumberTypes
  <1> HIDE DEF v
  <1>9. Scalars(type, Children(i), v) = Result(v)
    BY <1>1, CalculableScalars
  <1> QED BY <1>4, <1>6, <1>8, <1>9 DEF Delivers, Result

\* The quotient of an integer.
LEMMA QuotientIs ==
    ASSUME NEW a \in Int, NEW c \in Nat \ {0}, NEW q \in Int, q * c <= a, a < (q + 1) * c
    PROVE  a \div c = q
  <1> DEFINE d == a \div c
             r == a % c
  <1>1. d \in Int /\ r \in 0..(c - 1) /\ a = c * d + r
    OBVIOUS
  <1> HIDE DEF d, r
  <1>2. ASSUME d < q PROVE FALSE
    <2>1. d + 1 <= q
      BY <1>1, <1>2
    <2>2. (d + 1) * c <= q * c
      BY <1>1, <2>1
    <2>3. (d + 1) * c = c * d + c
      BY <1>1
    <2> QED BY <1>1, <2>2, <2>3
  <1>3. ASSUME d > q PROVE FALSE
    <2>1. d >= q + 1
      BY <1>1, <1>3
    <2>2. d * c >= (q + 1) * c
      BY <1>1, <2>1
    <2>3. d * c = c * d
      BY <1>1
    <2> QED BY <1>1, <2>2, <2>3
  <1>4. d = q
    BY <1>1, <1>2, <1>3
  <1> QED BY <1>4 DEF d

\* make_range makes as many elements as there are up to the end.
LEMMA ElementsCounted ==
    ASSUME NEW type \in {"int32", "real"}, NEW start \in Int, NEW inc \in Int, NEW end \in Int,
           NEW elements \in Seq(Int), elements # <<>>, Ranges(start, inc, end, elements)
    PROVE  Elements(type, start, end, inc) = Len(elements) /\ inc # 0
  <1> DEFINE n == Len(elements)
             next == start + n * inc
             q == n - 1
  <1>1. n \in Nat /\ n > 0 /\ q \in Int /\ q >= 0 /\ q + 1 = n
    OBVIOUS
  <1>2. \/ inc > 0 /\ next - inc <= end /\ next > end
        \/ inc < 0 /\ next - inc >= end /\ next < end
    BY DEF Ranges
  <1> HIDE DEF n, q
  <1>3. next - inc = start + q * inc /\ next = start + (q + 1) * inc /\ q * inc \in Int
    BY <1>1
  <1> HIDE DEF next
  <1>4. CASE inc > 0
    <2> DEFINE a == end - start
    <2>1. a \in Int /\ q * inc <= a /\ a < (q + 1) * inc
      BY <1>1, <1>2, <1>3, <1>4
    <2>2. q * inc >= 0
      BY <1>1, <1>4
    <2> HIDE DEF a
    <2>3. a \div inc = q
      <3>1. inc \in Nat \ {0}
        BY <1>4
      <3> QED BY <1>1, <2>1, <3>1, QuotientIs
    <2>4. a >= 0
      BY <2>1, <2>2, <1>3
    <2>5. Fraction(a, inc) = <<a, inc>>
      BY <1>4 DEF Fraction
    <2>6. Truncated(Fraction(a, inc)) = q /\ Floor(Fraction(a, inc)) = q
      BY <2>3, <2>4, <2>5 DEF Truncated, Floor
    <2> QED BY <1>1, <1>4, <2>6 DEF Elements, a, n
  <1>5. CASE inc < 0
    <2> DEFINE a == end - start
               b == -a
               c == -inc
    <2>1. /\ a \in Int /\ b \in Int /\ c \in Nat \ {0}
          /\ q * c = -(q * inc) /\ (q + 1) * c = -((q + 1) * inc)
      BY <1>1, <1>5
    <2>2. q * c <= b /\ b < (q + 1) * c
      BY <1>1, <1>2, <1>3, <1>5, <2>1
    <2>3. Fraction(a, inc) = <<b, c>>
      BY <1>5 DEF Fraction
    <2> HIDE DEF a, b, c
    <2>4. q * c >= 0
      BY <1>1, <2>1
    <2>5. b \div c = q
      BY <1>1, <2>1, <2>2, QuotientIs
    <2>6. b >= 0
      BY <1>1, <2>1, <2>2, <2>4
    <2>7. Truncated(Fraction(a, inc)) = q /\ Floor(Fraction(a, inc)) = q
      BY <2>3, <2>5, <2>6 DEF Truncated, Floor
    <2> QED BY <1>1, <1>5, <2>7 DEF Elements, a, n
  <1> QED BY <1>2, <1>4, <1>5

\* a range to the numbers from its start to its end.
LEMMA RangeDelivers ==
    ASSUME NEW i \in Trees, NEW type, NEW elements \in Seq(Int), StandsFor(i, type, elements),
           i.id = "range"
    PROVE  Delivers(EvalExpression(i), type, elements)
  <1> DEFINE N(k) == Number(type, i.children[k])
             start == N(1)
             inc == N(2)
             end == N(3)
             n == Elements(type, start, end, inc)
             numbers == [k \in 1..n |-> start + (k - 1) * inc]
             v == PushAll(Prealloc(NewVariable, SizeOf[type] * n), type, numbers)
  <1>1. /\ type \in {"int32", "real"} /\ type \in NumberType
        /\ \A c \in Children(i) : Calculable(type, c)
        /\ start * inc < end /\ Ranges(start, inc, end, elements)
        /\ elements # <<>>
    BY DEF StandsFor, Arithmetic, NumberType
  <1>2. SubtreeType(i) = type /\ Defined(i)
    BY StandsTypes
  <1>3. start \in Int /\ inc \in Int /\ end \in Int
    <2>1. \A k \in 1..3 : i.children[k] \in Children(i)
      BY ChildrenAre
    <2>2. ASSUME NEW k \in 1..3 PROVE N(k) \in Int
      BY <1>1, <1>2, <2>1, NumbersReckoned DEF Calculable
    <2> QED BY <2>2
  <1>4. Scalars(type, Children(i), NewVariable) = Result(NewVariable)
    BY <1>1, CalculableScalars
  <1>5. EvalExpression(i) = MakeRange(type, start, end, inc)
    BY <1>1, <1>2, <1>4 DEF EvalExpression, EvalRange, Arithmetic, Result
  <1> HIDE DEF N, start, inc, end
  <1>6. n = Len(elements) /\ inc # 0
    BY <1>1, <1>3, ElementsCounted
  <1>7. n \in Nat
    BY <1>6
  <1>8. MakeRange(type, start, end, inc) = Result(v)
    <2>1. ~(start * inc >= end)
      BY <1>1, <1>3
    <2>2. ~RangeAsserts(start, end, inc)
      BY <2>1 DEF RangeAsserts
    <2>3. ~(inc = 0 \/ n < 0)
      BY <1>6, <1>7
    <2> QED BY <2>2, <2>3 DEF MakeRange
  <1>9. elements = numbers
    BY <1>1, <1>6 DEF Ranges
  <1> HIDE DEF n
  <1>10. numbers \in Seq(Int) /\ Len(numbers) = n
    BY <1>3, <1>7
  <1> HIDE DEF numbers
  <1>11. Proper(v) /\ v.type = type /\ v.elements = numbers
    BY <1>1, <1>9, <1>10, PushedProper, NumberTypes
  <1> HIDE DEF v
  <1> QED BY <1>5, <1>8, <1>9, <1>11 DEF Delivers, Result

\* eval_expression yields what the expression stands for.
LEMMA EvalDelivers ==
    ASSUME NEW i \in Trees, NEW type, NEW elements \in Seq(Int), StandsFor(i, type, elements)
    PROVE  Delivers(EvalExpression(i), type, elements)
  <1>1. i.id \in Arithmetic \cup {"string", "rowvec", "range"}
    BY DEF StandsFor
  <1> QED BY <1>1, StringDelivers, ScalarDelivers, RowDelivers, RangeDelivers

-----------------------------------------------------------------------------
(* The program does what was meant *)

\* A variable is what was meant.
Is(v, m) == Plain(v) = [type |-> m.type, elements |-> m.elements]

\* Integers that are meant are int32_t.
Int32s(m) == m.type = "int32" => \A k \in DOMAIN m.elements : m.elements[k] < Word

\* Variables and arguments are what was meant, and in a debug build no variable is empty.
MeaningInv ==
    /\ \A name \in DOMAIN symtab : meant[name].supported => Is(symtab[name], meant[name])
    /\ \A name \in DOMAIN meant : Int32s(meant[name])
    /\ \A i \in DOMAIN args : written[i].supported => Is(args[i], written[i])
    /\ debug => \A name \in DOMAIN symtab : symtab[name].type # "empty"

\* What an expression ends with, and why.
Explained(x, r) ==
    /\ r.end = "undefined" => x.tree.id = "identifier" \/ ~x.supported
    /\ r.end \in {"aborted", "crashed"} => ~x.supported
    /\ r.end = "aborted" => debug
    /\ r.end = "value" /\ Meaning(x).supported => Is(r.variable, Meaning(x))
    /\ r.end = "value" /\ debug /\ r.variable.type = "empty" => ~x.supported

\* Assertions fail in debug builds only.
LEMMA AbortsInDebug ==
    ASSUME NEW i \in Trees, EvalExpression(i).end = "aborted"
    PROVE  debug
  <1> SUFFICES ASSUME ~debug PROVE FALSE
    OBVIOUS
  <1>1. \A type, nodes, v : Scalars(type, nodes, v).end # "aborted"
    BY DEF Scalars, AssertsIn, Stopped, Result
  <1>2. Refused.end = "value"
    BY DEF Refused, Result
  <1>3. \A type, start, end, inc : MakeRange(type, start, end, inc).end # "aborted"
    BY DEF MakeRange, RangeAsserts, Stopped, Result
  <1>4. EvalScalar(i).end # "aborted"
    BY <1>1, <1>2 DEF EvalScalar
  <1>5. EvalRow(i).end # "aborted"
    BY <1>1, <1>2 DEF EvalRow
  <1>6. EvalRange(i).end # "aborted"
    BY <1>1, <1>3 DEF EvalRange, Result
  <1>7. \A v : Result(v).end # "aborted"
    BY DEF Result
  <1>8. Stopped("undefined").end # "aborted"
    BY DEF Stopped
  <1> QED BY <1>2, <1>4, <1>5, <1>6, <1>7, <1>8 DEF EvalExpression

\* Every expression ends in a way that can be explained.
LEMMA ExpressionExplained ==
    ASSUME ScriptInv, MeaningInv, NEW x \in Expressed
    PROVE  Explained(x, EvalExpression(x.tree)) /\ Int32s(Meaning(x))
  <1> DEFINE i == x.tree
             r == EvalExpression(i)
  <1>1. /\ i \in Trees /\ x.type \in Type /\ x.elements \in Seq(Int) /\ Int32s(x)
        /\ x.supported \in BOOLEAN
        /\ x.supported /\ i.id # "identifier" => StandsFor(i, x.type, x.elements)
    BY ScriptAssumption DEF Int32s
  <1>2. r.end = "aborted" => debug
    BY <1>1, AbortsInDebug
  <1>3. CASE i.id = "identifier"
    <2>1. Terminals[i] = {i}
      BY <1>1, <1>3, TerminalsUnfold
    <2>2. r = IF i.name \in DOMAIN symtab THEN Result(Copy(symtab[i.name]))
             ELSE Stopped("undefined")
      BY <1>3, <2>1 DEF EvalExpression, Defined, Arithmetic
    <2>3. CASE i.name \in DOMAIN symtab
      <3> DEFINE v == symtab[i.name]
      <3>1. Proper(v) /\ DOMAIN meant = DOMAIN symtab
        BY <2>3 DEF ScriptInv, VariablesProper
      <3>2. /\ Copy(v).type = v.type /\ Copy(v).elements = v.elements
        BY <3>1, CopyProper
      <3>3. r.end = "value" /\ r.variable = Copy(v)
        BY <2>2, <2>3 DEF Result
      <3>4. Meaning(x) = meant[i.name]
        BY <1>3, <2>3, <3>1 DEF Meaning
      <3>5. Meaning(x).supported => Is(v, Meaning(x))
        BY <2>3, <3>4 DEF MeaningInv
      <3>6. debug => v.type # "empty"
        BY <2>3 DEF MeaningInv
      <3> HIDE DEF v
      <3>7. Meaning(x).supported => Is(r.variable, Meaning(x))
        BY <3>2, <3>3, <3>5 DEF Is, Plain
      <3>8. Int32s(Meaning(x))
        BY <2>3, <3>1, <3>4 DEF MeaningInv
      <3> QED BY <3>2, <3>3, <3>6, <3>7, <3>8 DEF Explained
    <2>4. CASE i.name \notin DOMAIN symtab
      <3>1. r.end = "undefined"
        BY <2>2, <2>4 DEF Stopped
      <3>2. Meaning(x) = [type |-> x.type, elements |-> x.elements, supported |-> x.supported]
        BY <2>4 DEF Meaning, ScriptInv
      <3>3. Int32s(Meaning(x))
        BY <1>1, <3>2 DEF Int32s
      <3> QED BY <1>3, <3>1, <3>3 DEF Explained
    <2> QED BY <2>3, <2>4
  <1>4. CASE i.id # "identifier"
    <2>1. Meaning(x) = [type |-> x.type, elements |-> x.elements, supported |-> x.supported]
      BY <1>4 DEF Meaning
    <2>2. Int32s(Meaning(x))
      BY <1>1, <2>1 DEF Int32s
    <2>3. CASE x.supported
      <3>1. Delivers(r, x.type, x.elements)
        BY <1>1, <1>4, <2>3, EvalDelivers
      <3>2. r.end = "value" /\ r.variable.type = x.type /\ r.variable.elements = x.elements
            /\ Proper(r.variable)
        BY <3>1 DEF Delivers
      <3>3. Is(r.variable, Meaning(x))
        BY <2>1, <3>2 DEF Is, Plain
      <3>4. r.variable.type # "empty"
        <4>1. x.elements # <<>>
          BY <1>1, <1>4, <2>3 DEF StandsFor
        <4> QED BY <3>2, <4>1 DEF Proper
      <3> HIDE DEF r
      <3> QED BY <2>2, <3>2, <3>3, <3>4 DEF Explained, r
    <2>4. CASE ~x.supported
      BY <1>2, <2>1, <2>2, <2>4 DEF Explained
    <2> QED BY <1>1, <2>3, <2>4
  <1> QED BY <1>3, <1>4

\* What an argument does to the arguments and to the status of a block.
LEMMA GivenParameter ==
    ASSUME BlockInv, NEW var, Proper(var), SetParameter(var)
    PROVE  /\ args' = Append(args, var)
           /\ \A i \in DOMAIN args : args'[i] = args[i]
           /\ DOMAIN args' = DOMAIN args \cup {Len(args) + 1} /\ args'[Len(args) + 1] = var
           /\ \/ status' \in {"configuring", "rejected"}
              \/ /\ status' = "crashed"
                 /\ args' # <<>> /\ params'[Len(args')].type = "complex"
                 /\ Last(args').type \in {"int32", "real"}
  <1>1. PICK n \in Nat : n = Len(args)
    <2>1. Len(args) \in Nat
      BY DEF BlockInv
    <2> QED BY <2>1
  <1>2. args' = Append(args, var) /\ args \in Seq(Variable) /\ var \in Variable
    BY DEF SetParameter, BlockInv, Proper
  <1>3. /\ \A i \in DOMAIN args : args'[i] = args[i]
        /\ DOMAIN args' = DOMAIN args \cup {n + 1} /\ args'[n + 1] = var
        /\ Len(args') = n + 1 /\ args' # <<>> /\ Last(args') = var
    BY <1>1, <1>2 DEF Last
  <1>4. CASE configured
    <2>1. status' = status /\ status = "configuring"
      BY <1>4, SurplusArgument DEF BlockInv, SetParameter
    <2> QED BY <1>1, <1>2, <1>3, <2>1
  <1>5. CASE ~configured
    <2>1. ArgumentStored(var) \/ ArgumentRefused(var)
      BY <1>5, NextArgument DEF BlockInv
    <2>2. params' = params /\ param_curr = n + 1
      BY <1>1 DEF SetParameter, BlockInv
    <2>3. CASE ArgumentStored(var)
      BY <1>1, <1>2, <1>3, <2>3 DEF ArgumentStored
    <2>4. CASE ArgumentRefused(var)
      BY <1>1, <1>2, <1>3, <2>2, <2>4 DEF ArgumentRefused, NextParameter
    <2> QED BY <2>1, <2>3, <2>4
  <1> QED BY <1>4, <1>5

\* A step that leaves variables and arguments as they are.
LEMMA MeantVariables ==
    ASSUME UNCHANGED <<symtab, meant, debug, args, written>>, MeaningInv
    PROVE  MeaningInv'
  BY DEF MeaningInv

\* Initially.
LEMMA MeaningBegins == ScriptInit => MeaningInv /\ StopsForAReason /\ RunsAsWritten
  <1> SUFFICES ASSUME ScriptInit PROVE MeaningInv /\ StopsForAReason /\ RunsAsWritten
    OBVIOUS
  <1>1. args = <<>> /\ status = "new" /\ symtab = <<>> /\ meant = <<>> /\ runs = <<>>
    BY DEF ScriptInit, Init
  <1> QED BY <1>1 DEF MeaningInv, StopsForAReason, RunsAsWritten

\* An assignment: the variable is what was meant.
LEMMA AssignMeans ==
    ASSUME ScriptInv, MeaningInv, NEW name \in Names, NEW x \in Expressed, Assign(name, x)
    PROVE  MeaningInv' /\ StopsForAReason' /\ runs' = runs
  <1> DEFINE r == EvalExpression(x.tree)
             taken == name \in DOMAIN symtab
  <1>1. /\ status = "new" /\ last' = Evaluated(x, taken)
        /\ debug' = debug /\ written' = written /\ runs' = runs
    BY DEF Assign
  <1>2. last'.supported = x.supported /\ last'.id = x.tree.id /\ last'.taken = taken
    BY <1>1, EvaluatedIs, ScriptAssumption
  <1>3. Explained(x, r) /\ Int32s(Meaning(x))
    BY ExpressionExplained
  <1>4. Sound(r)
    BY ExpressionSound
  <1>5. CASE r.end # "value"
    <2>1. status' = r.end /\ UNCHANGED <<symtab, meant, args>>
      BY <1>5 DEF Assign, Ends
    <2> HIDE DEF r, taken
    <2>2. StopsForAReason'
      BY <1>1, <1>2, <1>3, <2>1 DEF StopsForAReason, Explained
    <2> QED BY <1>1, <2>1, <2>2, MeantVariables
  <1>6. CASE r.end = "value" /\ debug /\ (r.variable.type = "empty" \/ taken)
    <2>1. status' = "aborted" /\ UNCHANGED <<symtab, meant, args>>
      BY <1>6 DEF Assign, Ends
    <2> HIDE DEF r, taken
    <2>2. StopsForAReason'
      BY <1>1, <1>2, <1>3, <1>6, <2>1 DEF StopsForAReason, Explained
    <2> QED BY <1>1, <2>1, <2>2, MeantVariables
  <1>7. CASE r.end = "value" /\ ~(debug /\ (r.variable.type = "empty" \/ taken))
    <2>1. /\ symtab' = Added(symtab, name, r.variable)
          /\ meant' = IF name \in DOMAIN meant THEN meant ELSE With(meant, name, Meaning(x))
          /\ UNCHANGED vars
      BY <1>7 DEF Assign
    <2>2. status' = "new" /\ args' = args
      BY <1>1, <2>1 DEF vars
    <2>3. StopsForAReason'
      BY <2>2 DEF StopsForAReason
    <2>4. DOMAIN meant = DOMAIN symtab
      BY DEF ScriptInv
    <2>5. CASE taken
      <3>1. symtab' = symtab /\ meant' = meant
        BY <2>1, <2>4, <2>5 DEF Added
      <3> QED BY <1>1, <2>2, <2>3, <3>1, MeantVariables
    <2>6. CASE ~taken
      <3> DEFINE v == Copy(r.variable)
                 m == Meaning(x)
      <3>1. symtab' = With(symtab, name, v) /\ meant' = With(meant, name, m)
        BY <2>1, <2>4, <2>6 DEF Added
      <3>2. v.type = r.variable.type /\ v.elements = r.variable.elements
        BY <1>4, CopyProper DEF Sound
      <3>3. m.supported => Is(v, m)
        BY <1>3, <1>7, <3>2 DEF Explained, Is, Plain
      <3>4. debug => v.type # "empty"
        BY <1>7, <3>2
      <3> HIDE DEF v, m
      <3>5. /\ DOMAIN symtab' = DOMAIN symtab \cup {name}
            /\ symtab'[name] = v
            /\ \A n \in DOMAIN symtab : symtab'[n] = symtab[n]
        BY <3>1, <2>6 DEF With
      <3>6. /\ DOMAIN meant' = DOMAIN meant \cup {name}
            /\ meant'[name] = m
            /\ \A n \in DOMAIN meant : meant'[n] = meant[n]
        BY <3>1, <2>4, <2>6 DEF With
      <3>7. \A n \in DOMAIN symtab' : meant'[n].supported => Is(symtab'[n], meant'[n])
        BY <2>4, <3>3, <3>5, <3>6 DEF MeaningInv
      <3>8. \A n \in DOMAIN meant' : Int32s(meant'[n])
        BY <1>3, <3>6 DEF MeaningInv, m
      <3>9. debug => \A n \in DOMAIN symtab' : symtab'[n].type # "empty"
        BY <3>4, <3>5 DEF MeaningInv
      <3>10. \A i \in DOMAIN args' : written'[i].supported => Is(args'[i], written'[i])
        BY <1>1, <2>2 DEF MeaningInv
      <3>11. MeaningInv'
        BY <1>1, <3>7, <3>8, <3>9, <3>10 DEF MeaningInv
      <3> QED BY <1>1, <2>3, <3>11
    <2> QED BY <2>5, <2>6
  <1> QED BY <1>5, <1>6, <1>7

\* An argument, however it came: it is what was meant.
LEMMA GivenMeans ==
    ASSUME ScriptInv, MeaningInv, UNCHANGED <<symtab, meant, debug>>,
           NEW var, Proper(var), NEW m, m.supported => Is(var, m),
           SetParameter(var), written' = Append(written, m), m \in Meanings
    PROVE  MeaningInv' /\ StopsForAReason'
  <1>1. PICK n \in Nat : n = Len(args)
    <2>1. Len(args) \in Nat
      BY DEF ScriptInv, BlockInv
    <2> QED BY <2>1
  <1>2. /\ \A i \in DOMAIN args : args'[i] = args[i]
        /\ DOMAIN args' = DOMAIN args \cup {n + 1} /\ args'[n + 1] = var
        /\ \/ status' \in {"configuring", "rejected"}
           \/ /\ status' = "crashed"
              /\ args' # <<>> /\ params'[Len(args')].type = "complex"
              /\ Last(args').type \in {"int32", "real"}
    BY <1>1, GivenParameter DEF ScriptInv
  <1>3. StopsForAReason'
    BY <1>2 DEF StopsForAReason
  <1>4. /\ written \in Seq(Meanings) /\ Len(written) = n /\ DOMAIN args = 1..n
    BY <1>1 DEF ScriptInv, BlockInv
  <1>5. /\ \A i \in DOMAIN args : written'[i] = written[i]
        /\ written'[n + 1] = m
    BY <1>4
  <1>6. \A i \in DOMAIN args' : written'[i].supported => Is(args'[i], written'[i])
    BY <1>2, <1>5 DEF MeaningInv
  <1> QED BY <1>3, <1>6 DEF MeaningInv

\* An argument of eval_add_block.
LEMMA ArgumentMeans ==
    ASSUME ScriptInv, MeaningInv, NEW x \in Expressed, Argument(x)
    PROVE  MeaningInv' /\ StopsForAReason' /\ runs' = runs
  <1> DEFINE r == EvalExpression(x.tree)
  <1>1. /\ status = "configuring" /\ last' = Evaluated(x, FALSE)
        /\ UNCHANGED <<debug, symtab, meant, runs>>
    BY DEF Argument
  <1>2. last'.supported = x.supported /\ last'.id = x.tree.id
    BY <1>1, EvaluatedIs, ScriptAssumption
  <1>3. Explained(x, r) /\ Int32s(Meaning(x))
    BY ExpressionExplained
  <1>4. Sound(r) /\ Meaning(x) \in Meanings
    BY ExpressionSound, MeaningIs DEF ScriptInv
  <1>5. CASE r.end # "value"
    <2>1. status' = r.end /\ UNCHANGED <<written, args>>
      BY <1>5 DEF Argument, Ends
    <2> HIDE DEF r
    <2>2. StopsForAReason'
      BY <1>1, <1>2, <1>3, <2>1 DEF StopsForAReason, Explained
    <2> QED BY <1>1, <2>1, <2>2, MeantVariables
  <1>6. CASE r.end = "value" /\ debug /\ r.variable.type = "empty"
    <2>1. status' = "aborted" /\ UNCHANGED <<written, args>>
      BY <1>6 DEF Argument, Ends
    <2> HIDE DEF r
    <2>2. StopsForAReason'
      BY <1>1, <1>2, <1>3, <1>6, <2>1 DEF StopsForAReason, Explained
    <2> QED BY <1>1, <2>1, <2>2, MeantVariables
  <1>7. CASE r.end = "value" /\ ~(debug /\ r.variable.type = "empty")
    <2> DEFINE v == r.variable
               m == Meaning(x)
    <2>1. SetParameter(v) /\ written' = Append(written, m)
      BY <1>7 DEF Argument
    <2>2. Proper(v) /\ (m.supported => Is(v, m))
      BY <1>3, <1>4, <1>7 DEF Sound, Explained
    <2> HIDE DEF v, m
    <2>3. m \in Meanings
      BY <1>4 DEF m
    <2> QED BY <1>1, <2>1, <2>2, <2>3, GivenMeans
  <1> QED BY <1>5, <1>6, <1>7

\* An argument of __add_block.
LEMMA PassArrayMeans ==
    ASSUME ScriptInv, MeaningInv, NEW a \in Arrays, PassArray(a)
    PROVE  MeaningInv' /\ StopsForAReason' /\ runs' = runs
  <1> DEFINE x == [tree |-> [id |-> "array"], supported |-> ArrayMeaning(a).supported]
             m == ArrayMeaning(a)
  <1>1. /\ status = "configuring" /\ last' = Evaluated(x, FALSE)
        /\ UNCHANGED <<debug, symtab, meant, runs>>
    BY DEF PassArray
  <1>2. m \in Meanings
    BY ArrayMeaningIs
  <1>3. last'.supported = m.supported
    BY <1>1 DEF Evaluated
  <1>4. PICK var \in FromArray(a) :
            IF debug /\ var.type = "empty"
            THEN Ends("aborted") /\ UNCHANGED written
            ELSE SetParameter(var) /\ written' = Append(written, m)
    BY DEF PassArray
  <1>5. Proper(var) /\ (m.supported => var.type = a.type /\ var.elements = a.elements)
    BY ArrayProper
  <1>6. a.type # "empty" /\ m.type = a.type /\ m.elements = a.elements
    BY ScriptAssumption DEF ArrayMeaning
  <1>7. CASE debug /\ var.type = "empty"
    <2>1. status' = "aborted" /\ UNCHANGED <<written, args>>
      BY <1>4, <1>7 DEF Ends
    <2>2. ~m.supported
      BY <1>5, <1>6, <1>7
    <2> HIDE DEF x, m
    <2>3. StopsForAReason'
      BY <1>1, <1>3, <1>7, <2>1, <2>2 DEF StopsForAReason
    <2> QED BY <1>1, <2>1, <2>3, MeantVariables
  <1>8. CASE ~(debug /\ var.type = "empty")
    <2>1. SetParameter(var) /\ written' = Append(written, m)
      BY <1>4, <1>8
    <2> HIDE DEF m
    <2>2. m.supported => Is(var, m)
      BY <1>5, <1>6 DEF Is, Plain
    <2> QED BY <1>1, <1>2, <1>5, <2>1, <2>2, GivenMeans
  <1> QED BY <1>7, <1>8

\* Integers say how often, unless they are negative; nothing else does.
LEMMA TimesMeant ==
    ASSUME NEW v, Proper(v), NEW m, Int32s(m), Is(v, m)
    PROVE  IF m.type # "int32" THEN Times(v) = 1
           ELSE Head(m.elements) >= 0 => Times(v) = Head(m.elements)
  <1>1. v.type = m.type /\ v.elements = m.elements
    BY DEF Is, Plain
  <1>2. CASE m.type = "int32"
    <2>1. v.elements \in Seq(Int) /\ v.elements # <<>>
      BY <1>1, <1>2 DEF Proper, Variable
    <2>2. PICK h \in Int : h = Head(v.elements) /\ h < Word
      <3>1. Head(v.elements) \in Int /\ Head(v.elements) = v.elements[1] /\ 1 \in DOMAIN v.elements
        BY <2>1
      <3>2. v.elements[1] < Word
        BY <1>1, <1>2, <3>1 DEF Int32s
      <3> QED BY <3>1, <3>2
    <2>3. Word \in Nat /\ Word > 1
      BY ScriptAssumption
    <2>4. h >= 0 => h % Word = h
      BY <2>2, <2>3
    <2> QED BY <1>1, <1>2, <2>2, <2>4 DEF Times
  <1>3. CASE m.type # "int32"
    BY <1>1, <1>3 DEF Times
  <1> QED BY <1>2, <1>3

\* run.
LEMMA RunMeans ==
    ASSUME ScriptInv, MeaningInv, NEW x \in Expressed \cup {Unwritten}, Run(x)
    PROVE  MeaningInv' /\ StopsForAReason' /\ RunsAsWritten'
  <1> DEFINE r == IF x = Unwritten THEN Result(NewVariable) ELSE EvalExpression(x.tree)
  <1>1. /\ status \in {"new", "added"} /\ last' = Evaluated(x, FALSE) /\ runs = <<>>
        /\ UNCHANGED <<debug, symtab, meant, written>>
    BY DEF Run
  <1>2. /\ r.end = "value" \/ r.end \in {"undefined", "aborted", "crashed"}
        /\ r.end # "value" => Explained(x, r) /\ last'.supported = x.supported
                              /\ last'.id = x.tree.id
        /\ r.end = "value" => LET m == Meaning(x) IN
              m.supported => Proper(r.variable) /\ Int32s(m) /\ Is(r.variable, m)
    <2>1. CASE x = Unwritten
      <3>1. r = Result(NewVariable) /\ r.end = "value" /\ r.variable = NewVariable
        BY <2>1 DEF Result
      <3>2. Meaning(x) = [type |-> "empty", elements |-> <<>>, supported |-> TRUE]
        BY <2>1 DEF Meaning, Unwritten
      <3>3. Proper(NewVariable) /\ Int32s(Meaning(x)) /\ Is(NewVariable, Meaning(x))
        BY <3>2, NewVariableSound DEF Int32s, Is, Plain, NewVariable
      <3> QED BY <3>1, <3>3
    <2>2. CASE x # Unwritten
      <3>1. x \in Expressed /\ r = EvalExpression(x.tree)
        BY <2>2
      <3>2. Explained(x, r) /\ Int32s(Meaning(x)) /\ Sound(r)
        BY <3>1, ExpressionExplained, ExpressionSound
      <3>3. last'.supported = x.supported /\ last'.id = x.tree.id
        BY <1>1, <3>1, EvaluatedIs, ScriptAssumption
      <3> HIDE DEF r
      <3> QED BY <3>2, <3>3 DEF Explained, Sound
    <2> QED BY <2>1, <2>2
  <1>3. CASE r.end # "value"
    <2>1. status' = r.end /\ UNCHANGED <<runs, args>>
      BY <1>3 DEF Run, Ends
    <2> HIDE DEF r
    <2>2. StopsForAReason'
      BY <1>1, <1>2, <1>3, <2>1 DEF StopsForAReason, Explained
    <2>3. RunsAsWritten'
      BY <1>1, <2>1 DEF RunsAsWritten
    <2> QED BY <1>1, <2>1, <2>2, <2>3, MeantVariables
  <1>4. CASE r.end = "value"
    <2> DEFINE v == r.variable
               m == Meaning(x)
    <2>1. runs' = <<[times |-> Times(v), asked |-> m]>> /\ UNCHANGED vars
      BY <1>4 DEF Run
    <2>2. m.supported => Proper(v) /\ Int32s(m) /\ Is(v, m)
      BY <1>2, <1>4
    <2> HIDE DEF v, m
    <2>3. status' = status /\ args' = args
      BY <2>1 DEF vars
    <2>4. StopsForAReason'
      BY <1>1, <2>3 DEF StopsForAReason
    <2>5. m.supported => IF m.type # "int32" THEN Times(v) = 1
                         ELSE Head(m.elements) >= 0 => Times(v) = Head(m.elements)
      BY <2>2, TimesMeant
    <2>6. RunsAsWritten'
      <3>1. DOMAIN runs' = {1} /\ runs'[1].times = Times(v) /\ runs'[1].asked = m
        BY <2>1
      <3> QED BY <2>5, <3>1 DEF RunsAsWritten
    <2> QED BY <1>1, <2>3, <2>4, <2>6, MeantVariables
  <1> QED BY <1>3, <1>4

\* Everything that is known of a program.
WholeInv == ScriptInv /\ MeaningInv /\ StopsForAReason /\ RunsAsWritten

\* Every step keeps all of it.
LEMMA WholeInvKept == WholeInv /\ [ScriptNext]_allVars => WholeInv'
  <1> SUFFICES ASSUME WholeInv, [ScriptNext]_allVars PROVE WholeInv'
    OBVIOUS
  <1>0. ScriptInv /\ MeaningInv /\ StopsForAReason /\ RunsAsWritten
    BY DEF WholeInv
  <1>1. ScriptInv'
    BY <1>0, ScriptInvKept
  <1>2. runs' = runs => RunsAsWritten'
    BY <1>0 DEF RunsAsWritten
  <1>3. ASSUME NEW name \in Names, NEW x \in Expressed, Assign(name, x) PROVE WholeInv'
    BY <1>0, <1>1, <1>2, <1>3, AssignMeans DEF WholeInv
  <1>4. CASE BeginAdd
    <2>1. /\ UNCHANGED <<symtab, meant, debug, args, written, runs>>
          /\ status' \in {"rejected", "configuring"}
      BY <1>4 DEF BeginAdd, CheckCount, scriptVars
    <2>2. StopsForAReason'
      BY <2>1 DEF StopsForAReason
    <2> QED BY <1>0, <1>1, <1>2, <2>1, <2>2, MeantVariables DEF WholeInv
  <1>5. ASSUME NEW x \in Expressed, Argument(x) PROVE WholeInv'
    BY <1>0, <1>1, <1>2, <1>5, ArgumentMeans DEF WholeInv
  <1>6. ASSUME NEW a \in Arrays, PassArray(a) PROVE WholeInv'
    BY <1>0, <1>1, <1>2, <1>6, PassArrayMeans DEF WholeInv
  <1>7. CASE EndAdd
    <2>1. status' = "added"
      BY <1>0, <1>7, AddKeeps DEF ScriptInv, EndAdd
    <2>2. UNCHANGED <<symtab, meant, debug, args, written, runs>>
      BY <1>7 DEF EndAdd, AddBlock, scriptVars
    <2>3. StopsForAReason'
      BY <2>1 DEF StopsForAReason
    <2> QED BY <1>0, <1>1, <1>2, <2>2, <2>3, MeantVariables DEF WholeInv
  <1>8. ASSUME NEW x \in Expressed \cup {Unwritten}, Run(x) PROVE WholeInv'
    BY <1>0, <1>1, <1>8, RunMeans DEF WholeInv
  <1>9. CASE Finished \/ UNCHANGED allVars
    <2>1. UNCHANGED vars /\ UNCHANGED scriptVars
      BY <1>9 DEF Finished, Done, allVars
    <2>2. UNCHANGED <<symtab, meant, debug, args, written, runs, status, last, params>>
      BY <2>1 DEF vars, scriptVars
    <2>3. StopsForAReason'
      BY <1>0, <2>2 DEF StopsForAReason
    <2> QED BY <1>0, <1>1, <1>2, <2>2, <2>3, MeantVariables DEF WholeInv
  <1> QED BY <1>3, <1>4, <1>5, <1>6, <1>7, <1>8, <1>9 DEF ScriptNext

\* It always holds.
LEMMA WholeInvAlways == ScriptSpec => []WholeInv
  <1>1. ScriptInit => WholeInv
    BY ScriptBegins, MeaningBegins DEF WholeInv
  <1> QED BY <1>1, WholeInvKept, PTL DEF ScriptSpec

\* actions.cpp, plugboard.i: the variables of a script and the arguments of a block are what
\* their author meant, for all expressions, nested as they may be, and arrays of any length.
THEOREM MeantIsHeld == ScriptSpec => []AsWritten
  <1>1. WholeInv => AsWritten
    BY DEF WholeInv, ScriptInv, MeaningInv, Is, AsWritten
  <1> QED BY <1>1, WholeInvAlways, PTL

\* actions.cpp, variable.cpp: a program ends before its last statement only for one of the
\* reasons that StopsForAReason lists.
THEOREM EndsAreReasoned == ScriptSpec => []StopsForAReason
  <1>1. WholeInv => StopsForAReason
    BY DEF WholeInv
  <1> QED BY <1>1, WholeInvAlways, PTL

\* eval_run: the system is run as often as was written, and once if that is no integer.
THEOREM RunAsOften == ScriptSpec => []RunsAsWritten
  <1>1. WholeInv => RunsAsWritten
    BY DEF WholeInv
  <1> QED BY <1>1, WholeInvAlways, PTL
=============================================================================
