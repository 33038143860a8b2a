------------------------------- MODULE MCDatabase -------------------------------
(* Database with the ladder of internal/db. *)
EXTENDS Database, TLC

Ladder3 == <<  <<"symlink_target">>, <<"purged_at">>, <<"origin_name", "origin_version", "group_id">> >>

=============================================================================
