---------------------------- MODULE ArchiveRecord ----------------------------
(***************************************************************************)
(* What saferm promises of every archive record, with no files, processes  *)
(* or failures in sight: the archive takes custody of a content under a    *)
(* row, gives custody up once and for good, and stamps the row only with   *)
(* what has really happened to the content by then.                        *)
(***************************************************************************)
CONSTANT Uuids

VARIABLES
    recorded,  \* records the database has
    held,      \* records whose content is in the archive
    given,     \* records whose content an undelete has given back
    restored,  \* records stamped restored_at
    purged     \* records stamped purged_at

vars == <<recorded, held, given, restored, purged>>

TypeOK ==
    /\ recorded \subseteq Uuids
    /\ held \subseteq recorded
    /\ given \subseteq recorded
    /\ restored \subseteq recorded
    /\ purged \subseteq recorded

Init ==
    /\ recorded = {}
    /\ held = {}
    /\ given = {}
    /\ restored = {}
    /\ purged = {}

\* A row is born naming content the archive holds.
Record(u) ==
    /\ u \notin recorded
    /\ recorded' = recorded \cup {u}
    /\ held' = held \cup {u}
    /\ UNCHANGED <<given, restored, purged>>

\* An undelete hands the content out.  When the destination already is the same
\* file the archive's name for it stays behind.
GiveBack(u) ==
    /\ u \in held
    /\ held' \in {held, held \ {u}}
    /\ given' = given \cup {u}
    /\ UNCHANGED <<recorded, restored, purged>>

\* A purge destroys the content, or a delete that met a changed source discards
\* its archived copy.
Drop(u) ==
    /\ u \in held
    /\ held' = held \ {u}
    /\ UNCHANGED <<recorded, given, restored, purged>>

\* Only content that was given back is reported as restored.
StampRestored(u) ==
    /\ u \in given
    /\ restored' = restored \cup {u}
    /\ UNCHANGED <<recorded, held, given, purged>>

\* Only content that is no longer in the archive is reported as purged.
StampPurged(u) ==
    /\ u \in recorded \ held
    /\ purged' = purged \cup {u}
    /\ UNCHANGED <<recorded, held, given, restored>>

Next ==
    \E u \in Uuids : \/ Record(u) \/ GiveBack(u) \/ Drop(u)
                     \/ StampRestored(u) \/ StampPurged(u)

Spec == Init /\ [][Next]_vars

\* Stamps tell the truth.
Truthful == restored \subseteq given /\ purged \cap held = {}

=============================================================================
