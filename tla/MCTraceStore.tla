------------------------------ MODULE MCTraceStore ------------------------------
(* TraceStore on small instances. *)
EXTENDS TraceStore

=============================================================================
