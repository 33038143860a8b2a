----------------------------- MODULE MCFileArchive -----------------------------
(* FileArchive on small instances. *)
EXTENDS FileArchive, TLC

\* Processes, uuids, inodes and whole contents are interchangeable.
Symmetry ==
    Permutations(Procs) \cup Permutations(Uuids) \cup Permutations(Inodes)
        \cup Permutations(Contents \ {Torn})

=============================================================================
