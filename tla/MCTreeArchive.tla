----------------------------- MODULE MCTreeArchive -----------------------------
(* TreeArchive on a root, a directory with a file in it, and one more path. *)
EXTENDS TreeArchive, TLC

CONSTANTS r, d, f, g

Paths4  == {r, d, f, g}
Parent4 == d :> r @@ f :> d @@ g :> r
Above4  == r :> {r} @@ d :> {r, d} @@ f :> {r, d, f} @@ g :> {r, g}
Order4  == r :> 0 @@ d :> 1 @@ f :> 2 @@ g :> 3

\* Whole contents are interchangeable, and so are real targets.
Symmetry == Permutations(Contents \ {Torn}) \cup Permutations(Targets \ {Broken})

=============================================================================
