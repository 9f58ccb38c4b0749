---------------------------- MODULE MCSystemInit ----------------------------
(* Instances of SystemInit for TLC: the systems to be tried. *)
EXTENDS SystemInit

\* Up to three blocks, with ports left open, connected in every way, feedback and
\* self-loops included.
Few == 1..3
SmallSystems == [wiring : SUBSET (Few \X Few), spare : {Few}]

\* All blocks, connected without a circle in every way: the connections go up in
\* some order of the blocks, which need not be that of their names.
Upward == {c \in SUBSET {e \in Block \X Block : e[1] < e[2]} :
              \A b \in Block : /\ Cardinality({e \in c : e[1] = b}) <= MaxPorts
                               /\ Cardinality({e \in c : e[2] = b}) <= MaxPorts}
Orders ==
    {[b \in Block |-> ((b + k) % NumBlocks) + 1] : k \in Block}
        \cup {[b \in Block |-> NumBlocks + 1 - b]}
Dags == UNION {{{<<p[e[1]], p[e[2]]>> : e \in c} : c \in Upward} : p \in Orders}

AllSystems == SmallSystems \cup [wiring : Dags, spare : {{}}]
=============================================================================
