------------------------------ MODULE MCFat32 -------------------------------
(* An instance of Fat32 for TLC: a root directory and one below it, each with *)
(* room for one more entry before it has to grow, and two clusters to share. *)
EXTENDS Fat32

A == <<"a", 0>>
D == <<"d", 0>>

\* A name in the root and the same name in its directory.
SomePaths == {<<A>>, <<D, A>>}

\* The file moves from either directory to the other, and the directory, with
\* what is in it, to the other name in the root or (Cycles) below itself.
SomeMoves == {<<p, q>> : p, q \in SomePaths} \cup {<< <<D>>, q >> : q \in SomePaths}

\* The name takes two long slots.
SomeParts(name) == IF name = A THEN 2 ELSE 1
SomeStem(name) == IF name = A THEN "A" ELSE "D"

\* Every alias with the same number has the same checksum.
SomeChecksum(alias) == alias[2]

ExactInfo == [valid |-> TRUE, free |-> ClusterCount - 2, next |-> 4]

=============================================================================
