------------------------------- MODULE MCSelection -------------------------------
(* Selection on small instances. *)
EXTENDS Selection

\* London with its clocks put back at 3, a zone ahead of it and one behind.
Clocks(z, t) ==
    CASE z = "home" -> IF t < 3 THEN 1 ELSE 0
      [] z = "east" -> 2
      [] z = "west" -> -1

ShortUnits == [h |-> 1, d |-> 3]
ShortSuffixes == [B |-> 1, KB |-> 4]

=============================================================================
