------------------------------- MODULE Loader -------------------------------
(***************************************************************************)
(* The block loader and its factory (block_loader.cpp, factory.hpp): a     *)
(* directory and the directories in it are searched for plugins, and each  *)
(* plugin's function create is registered under an identifier cut out of   *)
(* the path of its file.  The directory iterator hands out entries in any  *)
(* order; libltdl opens the files that are modules.                        *)
(*                                                                         *)
(* A path is a sequence of pieces, the prefix and the extension of plugins *)
(* being pieces of their own.                                              *)
(***************************************************************************)
EXTENDS SequencesExt

CONSTANTS
    Files          \* the entries of the file system

Prefix == "libblock_"
Ext == ".so"

\* dir: the path of the directory an entry is in.  Only a module can be opened, and
\* only a plugin has the function create, which makes blocks of a class.
Entry == [dir : Seq(STRING), name : Seq(STRING), kind : {"directory", "module", "other"},
          create : BOOLEAN, class : STRING]

ASSUME LoaderAssumption ==
    /\ Files \subseteq Entry
    /\ IsFiniteSet(Files)

VARIABLES
    searching,   \* the calls of load_dir that have not returned, the innermost first
    factory,     \* the registered creators, by identifier
    available,   \* available_blocks
    counted,     \* what the calls from outside have returned, added up
    asked        \* the directories these were for

loaderVars == <<searching, factory, available, counted, asked>>

Path(f) == f.dir \o <<"/">> \o f.name
EntriesOf(dir) == {f \in Files : f.dir = dir}

HasExt(f) == Contains(Path(f), Ext)

\* What follows the first prefix in the path.  A path without one is cut in its midst,
\* 8 characters on: npos wraps around.
AfterPrefix(path) ==
    IF Contains(path, Prefix)
    THEN SubSeq(path, SelectInSeq(path, LAMBDA piece : piece = Prefix) + 1, Len(path))
    ELSE <<"8..">> \o path

\* Without the last 3 characters, whatever they are.
WithoutEnd(id) == IF id # <<>> /\ Last(id) = Ext THEN Front(id) ELSE Append(id, "..-3")

Id(f) == WithoutEnd(AfterPrefix(Path(f)))

\* A plugin load_dir registers, if its identifier is new.
IsPlugin(f) == HasExt(f) /\ f.kind = "module" /\ f.create

\* The map of creators with f for id.
Extended(id, f) == [i \in DOMAIN factory \cup {id} |-> IF i = id THEN f ELSE factory[i]]

\* MUTANT of Register: assigns to the map, and has the identifier in the list once.
RegisterOver(id, f) ==
    /\ factory' = Extended(id, f)
    /\ available' = IF id \in DOMAIN factory THEN available ELSE Append(available, id)

\* MUTANT of Register: assigns to the map instead of inserting.
RegisterAnew(id, f) ==
    /\ factory' = Extended(id, f)
    /\ available' = Append(available, id)

\* Factory::Register, where it does not find the identifier.
Register(id, f) ==
    /\ id \notin DOMAIN factory
    /\ factory' = Extended(id, f)
    /\ available' = Append(available, id)

\* A call of load_dir: what the iterator has still to come to, and block_count.
CallState == [left : SUBSET Files, recursive : BOOLEAN, count : Nat]

Call(dir, recursive) == [left |-> EntriesOf(dir), recursive |-> recursive, count |-> 0]

\* main and the Python module call load_dir with recursive.
LoadDir(dir) ==
    /\ searching = <<>>
    /\ searching' = <<Call(dir, TRUE)>>
    /\ asked' = Append(asked, dir)
    /\ UNCHANGED <<factory, available, counted>>

\* The innermost call takes an entry that it passes over: a directory where it is not to
\* search directories, a file without the extension, one that cannot be opened, has no
\* create, or has an identifier that is taken.
PassOver(f) ==
    \/ f.kind = "directory" /\ ~Head(searching).recursive
    \/ f.kind # "directory" /\ ~IsPlugin(f)
    \/ IsPlugin(f) /\ Id(f) \in DOMAIN factory

Skip(f) ==
    /\ PassOver(f)
    /\ searching' = [searching EXCEPT ![1].left = @ \ {f}]
    /\ UNCHANGED <<factory, available>>

Load(f) ==
    /\ IsPlugin(f)
    /\ Register(Id(f), f)
    /\ searching' = [searching EXCEPT ![1].left = @ \ {f}, ![1].count = @ + 1]

\* MUTANT of Nested: hands recursive on.
NestedRecursive(f) == Call(Path(f), Head(searching).recursive)

\* The call for a directory: recursive is left to its default.
Nested(f) == Call(Path(f), FALSE)

\* Once that call has returned the directory itself is taken for a file: it may have the
\* extension, but cannot be opened.
Descend(f) ==
    /\ f.kind = "directory"
    /\ Head(searching).recursive
    /\ searching' = <<Nested(f)>> \o [searching EXCEPT ![1].left = @ \ {f}]
    /\ UNCHANGED <<factory, available>>

TakeEntry ==
    /\ searching # <<>>
    /\ \E f \in Head(searching).left : Skip(f) \/ Load(f) \/ Descend(f)
    /\ UNCHANGED <<counted, asked>>

LoadDirReturns ==
    /\ searching # <<>>
    /\ Head(searching).left = {}
    /\ LET count == Head(searching).count
       IN IF Len(searching) = 1
          THEN searching' = <<>> /\ counted' = counted + count
          ELSE /\ searching' = [Tail(searching) EXCEPT ![1].count = @ + count]
               /\ UNCHANGED counted
    /\ UNCHANGED <<factory, available, asked>>

LoaderInit ==
    /\ searching = <<>>
    /\ factory = <<>>
    /\ available = <<>>
    /\ counted = 0
    /\ asked = <<>>

-----------------------------------------------------------------------------
(* What makes it correct *)

\* The list of available blocks names each registered creator once, and the numbers
\* load_dir returned, those of nested calls included, add up to its length.
RegisteredOnce ==
    /\ IsInjective(available)
    /\ Range(available) = DOMAIN factory
    /\ searching = <<>> => counted = Len(available)

\* The directory a file is in was asked for, or is in one that was.
WithinReach(f) ==
    \/ f.dir \in Range(asked)
    \/ \E d \in Files : d.kind = "directory" /\ Path(d) = f.dir /\ d.dir \in Range(asked)

\* What can be made is what lies in the directories asked for and one level below, in
\* whatever order the entries come: every plugin there is known by its identifier, unless
\* another one there goes by it, and nothing else is.
TwoLevels ==
    searching = <<>> =>
        /\ \A f \in Files : IsPlugin(f) /\ WithinReach(f) => Id(f) \in DOMAIN factory
        /\ \A id \in DOMAIN factory :
               LET f == factory[id] IN IsPlugin(f) /\ WithinReach(f) /\ Id(f) = id
=============================================================================
