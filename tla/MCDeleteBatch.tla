----------------------------- MODULE MCDeleteBatch -----------------------------
(* DeleteBatch on a file, and on a directory with a file in it. *)
EXTENDS DeleteBatch, TLC

CONSTANTS a, d, f

InsideD == d :> {f}

\* A path twice, a directory before and after what is in it, three in a row.
Batches4 == {<<a, a>>, <<d, f>>, <<f, d>>, <<a, d, a>>}

=============================================================================
