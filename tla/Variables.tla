----------------------------- MODULE Variables ------------------------------
(***************************************************************************)
(* Variable: a value of the languages PlugBoard is programmed in, as it is *)
(* laid out in memory (variable.cpp, variable_iterator.hpp).  Elements of  *)
(* fundamental types lie in the buffer one after the other, of others the  *)
(* buffer has pointers to copies, but not after a cast.                    *)
(*                                                                         *)
(* A variable has one owner at a time: it is a value here, and its buffer  *)
(* the number of bytes malloc or realloc gave.                             *)
(***************************************************************************)
EXTENDS Integers, Sequences, FiniteSets, SequencesExt

\* type_t, in its order, and sizeof.
TypeOrder ==
    <<"empty", "logical", "uint8", "uint16", "uint32", "uint64",
      "int8", "int16", "int32", "int64", "real", "complex", "string">>
Type == ToSet(TypeOrder)
Rank(t) == CHOOSE i \in DOMAIN TypeOrder : TypeOrder[i] = t

SizeOf == [t \in Type |->
    CASE t \in {"logical", "uint8", "int8"} -> 1
      [] t \in {"uint16", "int16"} -> 2
      [] t \in {"uint32", "int32"} -> 4
      [] t = "complex" -> 16
      [] OTHER -> 8]

PointerSize == 8

\* is_fundamental
Fundamental == Type \ {"empty", "logical", "complex", "string"}

\* intact: nothing was written or read outside of the buffer, or as what it is not.
Variable ==
    [type : Type, elements : Seq(Int), boxed : BOOLEAN,
     allocated : Nat, size : Nat, room : Nat, intact : BOOLEAN]

NewVariable ==
    [type |-> "empty", elements |-> <<>>, boxed |-> FALSE,
     allocated |-> 0, size |-> 0, room |-> 0, intact |-> TRUE]

Numel(v) == Len(v.elements)

-----------------------------------------------------------------------------
(* Building *)

\* MUTANT of PushBackFundamental: allocated is not brought up to date.
PushBackForgets(v, t, e) ==
    LET n == Numel(v) + 1
        room == IF v.allocated = Numel(v) THEN n * SizeOf[t] ELSE v.room
    IN  [v EXCEPT !.type = t, !.elements = Append(@, e), !.size = @ + SizeOf[t],
                  !.room = room, !.intact = @ /\ n * SizeOf[t] <= room]

\* The buffer grows by one element, unless allocated says otherwise.
PushBackFundamental(v, t, e) ==
    LET n == Numel(v) + 1
        full == v.allocated = Numel(v)
        room == IF full THEN n * SizeOf[t] ELSE v.room
    IN  [v EXCEPT !.type = IF @ = "empty" THEN t ELSE @,
                  !.elements = Append(@, e),
                  !.allocated = IF full THEN n ELSE @,
                  !.size = @ + SizeOf[t],
                  !.room = room,
                  !.intact = @ /\ n * SizeOf[t] <= room]

\* Room for elements, filled with pointers.
PushBackComposite(v, t, e) ==
    LET n == Numel(v) + 1
        room == n * SizeOf[t]
    IN  [v EXCEPT !.type = IF @ = "empty" THEN t ELSE @,
                  !.elements = Append(@, e),
                  !.boxed = TRUE,
                  !.size = @ + SizeOf[t],
                  !.room = room,
                  !.intact = @ /\ n * PointerSize <= room]

PushBack(v, t, e) ==
    IF t \in Fundamental THEN PushBackFundamental(v, t, e) ELSE PushBackComposite(v, t, e)

\* push_back of one element after the other.
PushAll(v, t, elements) == FoldLeft(LAMBDA u, e : PushBack(u, t, e), v, elements)

\* prealloc: the argument is a number of bytes, and so is allocated from now on.
Prealloc(v, bytes) ==
    IF bytes > v.allocated THEN [v EXCEPT !.room = bytes, !.allocated = bytes] ELSE v

-----------------------------------------------------------------------------
(* Copying, converting, reading *)

\* The copy constructor, the destructor and variable_iterator take elements of these
\* types for pointers.
Pointed == {"complex", "string"}
Usable(v) == v.type \in Pointed /\ v.elements # <<>> => v.boxed

\* The copy constructor, also used by assignment.
Copy(v) == [v EXCEPT !.room = v.size, !.intact = @ /\ Usable(v) /\ v.size <= v.room]

\* ~implementation, of a variable nobody uses any more.
Destroyed(v) == [v EXCEPT !.intact = @ /\ Usable(v)]

\* cast: a new buffer with the elements themselves.  No int32 or real is beyond the
\* largest real: it never throws.
Cast(v, t) ==
    [v EXCEPT !.type = t, !.boxed = FALSE,
              !.size = Numel(v) * SizeOf[t], !.room = Numel(v) * SizeOf[t]]

\* save_type_change.  It tells whether it worked, which nobody asks, and says so also
\* of most conversions it does not make.
Conversions == {<<"int32", "real">>, <<"int32", "complex">>, <<"real", "complex">>}
SaveTypeChange(v, t) == IF <<v.type, t>> \in Conversions THEN Cast(v, t) ELSE v

\* What variable_iterator may find: the elements, or the bytes of pointers.
Garbage == {0, 1}
Readings(v) ==
    IF v.boxed /\ v.type \notin Pointed THEN [DOMAIN v.elements -> Garbage] ELSE {v.elements}

\* What a variable is taken for by those who do not know of buffers.
Plain(v) == [type |-> v.type, elements |-> v.elements]
=============================================================================
