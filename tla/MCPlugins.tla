------------------------------ MODULE MCPlugins -----------------------------
(* Instances of Plugins for TLC. *)
EXTENDS Plugins

Dir(dir, name) ==
    [dir |-> dir, name |-> name, kind |-> "directory", create |-> FALSE, class |-> ""]
File(dir, name, kind, create, class) ==
    [dir |-> dir, name |-> name, kind |-> kind, create |-> create, class |-> class]
Plugin(dir, id, class) ==
    File(dir, <<"libblock_", id, ".so">>, "module", TRUE, class)

Blocks == <<"/", "blocks">>
More == Blocks \o <<"/", "more">>
Deep == More \o <<"/", "libblock_", "deep">>

Single(id) == <<"/", id>>

\* Directories three levels deep, the last with the prefix in its name, two plugins of one
\* name, an old version of a plugin, a module without create and a file that is no module;
\* directories with two plugins, with one, and with one for each class, with a name without
\* prefix once.
ManyFiles ==
    {Plugin(Blocks, "Fork", "Fork"),
     File(Blocks, <<"libblock_", "none", ".so">>, "module", FALSE, ""),
     Dir(Blocks, <<"more">>),
     Plugin(More, "Fork", "StdoutSink"),
     Plugin(More, "Arithmetic", "Arithmetic"),
     File(More, <<"libblock_", "Arithmetic", ".so", ".1">>, "module", TRUE, "ComposeComplex"),
     File(More, <<"text">>, "other", FALSE, ""),
     Dir(More, <<"libblock_", "deep">>),
     Plugin(Deep, "Fork", "BlockInterleaver"),
     Plugin(<<"/", "two">>, "Fork", "Fork"),
     Plugin(<<"/", "two">>, "Arithmetic", "Arithmetic"),
     Plugin(<<"/", "old">>, "Fork", "StdoutSink")}
    \cup {Plugin(Single(class), class, class) : class \in Classes \ {"StdoutSink"}}
    \cup {File(Single("StdoutSink"), <<"own", ".so">>, "module", TRUE, "StdoutSink")}

\* One user loads a directory and the one within it, and makes blocks in between; one loads
\* two versions of a plugin; one runs a block of any class again and again; one makes two
\* blocks and runs them.
Installer == [roots |-> {Blocks, More}, loads |-> 2, blocks |-> {1, 2}, runs |-> 0]
Updater == [roots |-> {<<"/", "old">>, Single("Fork")}, loads |-> 2, blocks |-> {1, 2}, runs |-> 0]
Programmer == [roots |-> {Single(class) : class \in Classes}, loads |-> 1, blocks |-> {1}, runs |-> 3]
Beginner == [roots |-> {<<"/", "two">>}, loads |-> 1, blocks |-> {1, 2}, runs |-> 1]

AllUsers == {Installer, Updater, Programmer, Beginner}
=============================================================================
