------------------------------ MODULE FileArchive ------------------------------
(***************************************************************************)
(* The life of archived regular files in saferm: concurrent `delete`,      *)
(* `undelete` and `purge` processes over one filesystem, one archive       *)
(* directory and one database, while users keep editing the paths.         *)
(*                                                                         *)
(* A file is an inode.  Paths and archive entries are names of inodes, so  *)
(* the hard link `delete` puts in the archive and the source path are      *)
(* literally the same content.  An inode no name leads to is free, and the *)
(* filesystem may hand it out again.  A hash is identified with the        *)
(* content it is the hash of.                                              *)
(***************************************************************************)
EXTENDS Naturals

CONSTANTS
    Procs,       \* saferm processes
    Paths,       \* paths of regular files, outside the archive directory
    Uuids,       \* uuids NewUUID may mint; each names one archive entry
    Inodes,
    Contents,
    Torn,        \* the content of a copy that stopped partway
    None,        \* no inode, no row, no uuid, ...
    Linkable,    \* paths the kernel will hard-link into the archive
    SameDevice,  \* paths an archive entry can be renamed to
    Faults,      \* which calls may fail: a subset of FaultKinds
    Edits,       \* what users may do to the paths: a subset of EditKinds
    MaxEdits,    \* bound on the number of user edits
    Shut         \* program points taken to be instantaneous (see Clear)

FaultKinds == {"crash", "copy", "insert", "discard", "unlink", "clear",
               "rename", "consume", "remove", "mark"}

EditKinds == {"write", "create", "unlink", "rename"}

DeletePoints   == {"hash", "stat", "link", "compare", "insert", "discard",
                   "verify", "rehash", "unlink"}
UndeletePoints == {"entry", "check", "clear", "move", "consume", "mark"}
PurgePoints    == {"remove", "stamp"}
Points         == {"idle"} \cup DeletePoints \cup UndeletePoints \cup PurgePoints

ASSUME NoneIsNothing ==
    None \notin Procs \cup Paths \cup Uuids \cup Inodes \cup Contents
ASSUME TornIsContent == Torn \in Contents
ASSUME DevicesAssumption == Linkable \subseteq SameDevice /\ SameDevice \subseteq Paths
ASSUME EnvironmentAssumption ==
    /\ Faults \subseteq FaultKinds
    /\ Edits \subseteq EditKinds
    /\ MaxEdits \in Nat
    /\ Shut \subseteq Points \ {"idle"}

VARIABLES
    \* the filesystem
    name,      \* path -> inode it names
    entry,     \* uuid -> inode its archive entry names
    data,      \* inode -> content
    \* the database
    row,       \* uuid -> content hash its row records
    restored,  \* uuids whose row has restored_at
    purged,    \* uuids whose row has purged_at
    \* the processes
    pc,        \* process -> the call it makes next
    job,       \* process -> what it carries between calls
    touched,   \* processes whose remembered size and mtime no longer match
    \* bookkeeping of the model
    edits,     \* number of user edits so far
    fate       \* uuid -> what has become of its archived content (history)

fs    == <<name, entry, data>>
db    == <<row, restored, purged>>
procs == <<pc, job, touched>>
vars  == <<name, entry, data, row, restored, purged, pc, job, touched, edits, fate>>

OrNone(S) == S \cup {None}

\* What archive.Plan, archive.RestorePlan and purge's record list carry.
Job == [uuid: OrNone(Uuids), path: OrNone(Paths), ident: OrNone(Inodes),
        hash: OrNone(Contents), linked: BOOLEAN, todo: SUBSET Uuids]

NoJob == [uuid |-> None, path |-> None, ident |-> None,
          hash |-> None, linked |-> FALSE, todo |-> {}]

Fates == {"given back", "destroyed", "discarded"}

TypeOK ==
    /\ name \in [Paths -> OrNone(Inodes)]
    /\ entry \in [Uuids -> OrNone(Inodes)]
    /\ data \in [Inodes -> Contents]
    /\ row \in [Uuids -> OrNone(Contents)]
    /\ restored \in SUBSET Uuids
    /\ purged \in SUBSET Uuids
    /\ pc \in [Procs -> Points]
    /\ job \in [Procs -> Job]
    /\ touched \in SUBSET Procs
    /\ edits \in Nat
    /\ fate \in [Uuids -> SUBSET Fates]

-----------------------------------------------------------------------------
(* Helpers. *)

Uuid(p) == job[p].uuid
Path(p) == job[p].path
Source(p) == name[job[p].path]     \* the inode the source or destination names
Entry(p) == entry[job[p].uuid]

FreeInodes == {i \in Inodes : /\ \A a \in Paths : name[a] # i
                              /\ \A u \in Uuids : entry[u] # i}

\* A write to an inode, or its reuse for a new file, moves its size or mtime
\* away from what any process remembers of it.
TouchedBy(i) == touched \cup {p \in Procs : job[p].ident = i}

Goto(p, point) == pc' = [pc EXCEPT ![p] = point] /\ UNCHANGED <<job, touched>>

End(p) ==
    /\ pc' = [pc EXCEPT ![p] = "idle"]
    /\ job' = [job EXCEPT ![p] = NoJob]
    /\ touched' = touched \ {p}

\* What becomes of u's content, as long as the archive holds any.
Became(u, what) ==
    IF entry[u] = None THEN fate ELSE [fate EXCEPT ![u] = @ \cup {what}]

Fault(kind) == kind \in Faults

\* Nobody but p acts while another process is at a program point in Shut.
Clear(p) == \A q \in Procs \ {p} : pc[q] \notin Shut

Quiet == \A q \in Procs : pc[q] \notin Shut

\* Nothing is archived yet and every path holds a file of its own.
Init ==
    /\ name \in [Paths -> Inodes]
    /\ \A a, b \in Paths : name[a] = name[b] => a = b
    /\ entry = [u \in Uuids |-> None]
    /\ data \in [Inodes -> Contents]
    /\ \A i \in Inodes : data[i] = Torn <=> i \in FreeInodes
    /\ row = [u \in Uuids |-> None]
    /\ restored = {}
    /\ purged = {}
    /\ pc = [p \in Procs |-> "idle"]
    /\ job = [p \in Procs |-> NoJob]
    /\ touched = {}
    /\ edits = 0
    /\ fate = [u \in Uuids |-> {}]

-----------------------------------------------------------------------------
(* delete: archiveOne, once per path. *)

\* archive.NewPlan: the path is there, and the archive entry gets its name.
PlanDelete(p, a, u) ==
    /\ pc[p] = "idle"
    /\ name[a] # None
    /\ row[u] = None /\ entry[u] = None /\ \A q \in Procs : Uuid(q) # u
    /\ pc' = [pc EXCEPT ![p] = "hash"]
    /\ job' = [job EXCEPT ![p] = [NoJob EXCEPT !.uuid = u, !.path = a]]
    /\ UNCHANGED <<fs, db, touched, edits, fate>>

\* The source went before archiveFile could hash, stat, link or copy it.
SourceVanished(p) ==
    /\ pc[p] \in {"hash", "stat", "link"}
    /\ Source(p) = None
    /\ End(p)
    /\ UNCHANGED <<fs, db, edits, fate>>

HashSource(p) ==
    /\ pc[p] = "hash"
    /\ Source(p) # None
    /\ pc' = [pc EXCEPT ![p] = "stat"]
    /\ job' = [job EXCEPT ![p].hash = data[Source(p)]]
    /\ UNCHANGED <<fs, db, touched, edits, fate>>

\* Lstat after the hash: inode, size and mtime.
StatSource(p) ==
    /\ pc[p] = "stat"
    /\ Source(p) # None
    /\ pc' = [pc EXCEPT ![p] = "link"]
    /\ job' = [job EXCEPT ![p].ident = Source(p)]
    /\ touched' = touched \ {p}
    /\ UNCHANGED <<fs, db, edits, fate>>

LinkEntry(p) ==
    /\ pc[p] = "link"
    /\ Path(p) \in Linkable
    /\ Source(p) # None
    /\ entry' = [entry EXCEPT ![Uuid(p)] = Source(p)]
    /\ pc' = [pc EXCEPT ![p] = "insert"]
    /\ job' = [job EXCEPT ![p].linked = TRUE]
    /\ UNCHANGED <<name, data, db, touched, edits, fate>>

\* linkRefused: copyAndVerify's copyFile into a new file.
CopyEntry(p) ==
    /\ pc[p] = "link"
    /\ Path(p) \notin Linkable
    /\ Source(p) # None
    /\ \E i \in FreeInodes :
        /\ entry' = [entry EXCEPT ![Uuid(p)] = i]
        /\ data' = [data EXCEPT ![i] = data[Source(p)]]
        /\ touched' = TouchedBy(i)
    /\ pc' = [pc EXCEPT ![p] = "compare"]
    /\ UNCHANGED <<name, db, job, edits, fate>>

\* copyFile fails with the destination open: copyAndVerify returns the error
\* and the partial entry stays.
CopyEntryFails(p) ==
    /\ pc[p] = "link"
    /\ Fault("copy")
    /\ Path(p) \notin Linkable
    /\ Source(p) # None
    /\ \E i \in FreeInodes :
        /\ entry' = [entry EXCEPT ![Uuid(p)] = i]
        /\ data' = [data EXCEPT ![i] = Torn]
        /\ touched' = TouchedBy(i) \ {p}
    /\ pc' = [pc EXCEPT ![p] = "idle"]
    /\ job' = [job EXCEPT ![p] = NoJob]
    /\ UNCHANGED <<name, db, edits, fate>>

\* copyAndVerify's comparison of the copy with the hash of the source.
CopyMatches(p) ==
    /\ pc[p] = "compare"
    /\ data[Entry(p)] = job[p].hash
    /\ Goto(p, "insert")
    /\ UNCHANGED <<fs, db, edits, fate>>

CopyDiffers(p) ==
    /\ pc[p] = "compare"
    /\ data[Entry(p)] # job[p].hash
    /\ entry' = [entry EXCEPT ![Uuid(p)] = None]
    /\ End(p)
    /\ UNCHANGED <<name, data, db, edits, fate>>

InsertRow(p) ==
    /\ pc[p] = "insert"
    /\ row' = [row EXCEPT ![Uuid(p)] = job[p].hash]
    /\ Goto(p, "verify")
    /\ UNCHANGED <<fs, restored, purged, edits, fate>>

\* Mutant: the entry of a failed insert is not taken back.
InsertFailsKeepingEntry(p) ==
    /\ pc[p] = "insert"
    /\ Fault("insert")
    /\ End(p)
    /\ UNCHANGED <<fs, db, edits, fate>>

\* Insert gave up (contention exhausted, or any other database error).
InsertFails(p) ==
    /\ pc[p] = "insert"
    /\ Fault("insert")
    /\ Goto(p, "discard")
    /\ UNCHANGED <<fs, db, edits, fate>>

\* archive.DiscardBlob, of an entry without a row and of one that no longer
\* matches its row alike.  An entry already gone makes it fail, changing nothing.
DiscardEntry(p) ==
    /\ pc[p] = "discard"
    /\ entry' = [entry EXCEPT ![Uuid(p)] = None]
    /\ fate' = Became(Uuid(p), "discarded")
    /\ End(p)
    /\ UNCHANGED <<name, data, db, edits>>

DiscardFails(p) ==
    /\ pc[p] = "discard"
    /\ Fault("discard")
    /\ End(p)
    /\ UNCHANGED <<fs, db, edits, fate>>

\* Mutant: only the source is checked.
EntryUnchecked(p) == TRUE

\* verifySource's checks that read no content: both names, then the stat.
SameFile(p) == Source(p) # None /\ Source(p) = job[p].ident
EntryStands(p) == Entry(p) # None /\ (job[p].linked => Entry(p) = Source(p))

\* ErrSourceReplaced, ErrArchiveEntryMissing, ErrArchiveEntryReplaced, or a
\* source that cannot be found: nothing is removed.
RefuseRemoval(p) ==
    /\ pc[p] = "verify"
    /\ ~(SameFile(p) /\ EntryStands(p))
    /\ End(p)
    /\ UNCHANGED <<fs, db, edits, fate>>

VerifyByStat(p) ==
    /\ pc[p] = "verify"
    /\ SameFile(p) /\ EntryStands(p)
    /\ Goto(p, IF p \in touched THEN "rehash" ELSE "unlink")
    /\ UNCHANGED <<fs, db, edits, fate>>

\* The re-hash of a source whose size or mtime moved finds the same bytes.
RehashAgrees(p) ==
    /\ pc[p] = "rehash"
    /\ Source(p) # None
    /\ data[Source(p)] = job[p].hash
    /\ Goto(p, "unlink")
    /\ UNCHANGED <<fs, db, edits, fate>>

\* ErrArchivedContentChanged: a hard link was written through, so the entry no
\* longer is what the row says and describeUnremovedSource discards it.
RehashDiscards(p) ==
    /\ pc[p] = "rehash"
    /\ Source(p) # None
    /\ data[Source(p)] # job[p].hash
    /\ job[p].linked
    /\ Goto(p, "discard")
    /\ UNCHANGED <<fs, db, edits, fate>>

\* ErrSourceDiverged from an independent copy, or a source that went.
RehashRefuses(p) ==
    /\ pc[p] = "rehash"
    /\ Source(p) # None => data[Source(p)] # job[p].hash /\ ~job[p].linked
    /\ End(p)
    /\ UNCHANGED <<fs, db, edits, fate>>

\* os.Remove of the source; an error leaves everything as it is.
UnlinkSource(p) ==
    /\ pc[p] = "unlink"
    /\ name' = [name EXCEPT ![Path(p)] = None]
    /\ End(p)
    /\ UNCHANGED <<entry, data, db, edits, fate>>

UnlinkFails(p) ==
    /\ pc[p] = "unlink"
    /\ Fault("unlink")
    /\ End(p)
    /\ UNCHANGED <<fs, db, edits, fate>>

-----------------------------------------------------------------------------
(* undelete, to the original path or to --destination. *)

\* resolveRecord and the two guards on the row's stamps.
ResolveRecord(p, u, a) ==
    /\ pc[p] = "idle"
    /\ row[u] # None
    /\ u \notin restored \cup purged
    /\ pc' = [pc EXCEPT ![p] = "entry"]
    /\ job' = [job EXCEPT ![p] = [NoJob EXCEPT !.uuid = u, !.path = a]]
    /\ UNCHANGED <<fs, db, touched, edits, fate>>

\* EntryPresent refuses, or --on-conflict abort (or no answer) meets an
\* occupied destination.
RefuseRestore(p) ==
    /\ pc[p] = "entry"
    /\ Entry(p) = None \/ Source(p) # None
    /\ End(p)
    /\ UNCHANGED <<fs, db, edits, fate>>

DestinationFree(p) ==
    /\ pc[p] = "entry"
    /\ Entry(p) # None /\ Source(p) = None
    /\ Goto(p, "move")
    /\ UNCHANGED <<fs, db, edits, fate>>

DestinationOccupied(p) ==
    /\ pc[p] = "entry"
    /\ Entry(p) # None /\ Source(p) # None
    /\ Goto(p, "check")
    /\ UNCHANGED <<fs, db, edits, fate>>

\* VerifyEntry, before an overwrite and only then: the entry hashes to what the
\* row says, or the destination is not touched.
EntryVerified(p) ==
    /\ pc[p] = "check"
    /\ Entry(p) # None /\ data[Entry(p)] = row[Uuid(p)]
    /\ Goto(p, "clear")
    /\ UNCHANGED <<fs, db, edits, fate>>

EntryUnfit(p) ==
    /\ pc[p] = "check"
    /\ Entry(p) # None => data[Entry(p)] # row[Uuid(p)]
    /\ End(p)
    /\ UNCHANGED <<fs, db, edits, fate>>

ClearDestination(p) ==
    /\ pc[p] = "clear"
    /\ name' = [name EXCEPT ![Path(p)] = None]
    /\ Goto(p, "move")
    /\ UNCHANGED <<entry, data, db, edits, fate>>

\* fx.Remove fails; whether a destination that is already gone is an error to
\* it is not this repository's to say, so both are allowed.
ClearFails(p) ==
    /\ pc[p] = "clear"
    /\ Fault("clear") \/ Source(p) = None
    /\ End(p)
    /\ UNCHANGED <<fs, db, edits, fate>>

\* fx.Rename: rename(2) replaces whatever the destination names by now, and
\* does nothing when both names already are the same file.
MoveOut(p) ==
    /\ pc[p] = "move"
    /\ Path(p) \in SameDevice
    /\ Entry(p) # None
    /\ name' = [name EXCEPT ![Path(p)] = Entry(p)]
    /\ entry' = IF Source(p) = Entry(p) THEN entry
                ELSE [entry EXCEPT ![Uuid(p)] = None]
    /\ fate' = Became(Uuid(p), "given back")
    /\ Goto(p, "mark")
    /\ UNCHANGED <<data, db, edits>>

\* Mutant: the error of the rename is dropped.
MoveFailsUnnoticed(p) ==
    /\ pc[p] = "move"
    /\ Entry(p) = None \/ Fault("rename")
    /\ Goto(p, "mark")
    /\ UNCHANGED <<fs, db, edits, fate>>

MoveFails(p) ==
    /\ pc[p] = "move"
    /\ Entry(p) = None \/ Fault("rename")
    /\ End(p)
    /\ UNCHANGED <<fs, db, edits, fate>>

\* CopyOut's copyFile: O_TRUNC of a file that is there, or a new one.
CopyOut(p) ==
    /\ pc[p] = "move"
    /\ Path(p) \notin SameDevice
    /\ Entry(p) # None
    /\ \E i \in IF Source(p) # None THEN {Source(p)} ELSE FreeInodes :
        /\ name' = [name EXCEPT ![Path(p)] = i]
        /\ data' = [data EXCEPT ![i] = data[Entry(p)]]
        /\ touched' = TouchedBy(i)
    /\ pc' = [pc EXCEPT ![p] = "consume"]
    /\ UNCHANGED <<entry, db, job, edits, fate>>

\* Mutant: the entry is dropped before the copy is known to be complete.
CopyOutFailsConsuming(p) ==
    /\ pc[p] = "move"
    /\ Fault("copy")
    /\ Path(p) \notin SameDevice
    /\ Entry(p) # None
    /\ name' = [name EXCEPT ![Path(p)] = None]
    /\ entry' = [entry EXCEPT ![Uuid(p)] = None]
    /\ End(p)
    /\ UNCHANGED <<data, db, edits, fate>>

\* A copy that fails takes its partial destination back -- or whatever is there
\* when the entry cannot even be opened: rename(2) may say EXDEV of an entry that
\* is gone as well.
CopyOutFails(p) ==
    /\ pc[p] = "move"
    /\ Entry(p) = None \/ Fault("copy")
    /\ Path(p) \notin SameDevice
    /\ name' = [name EXCEPT ![Path(p)] = None]
    /\ End(p)
    /\ UNCHANGED <<entry, data, db, edits, fate>>

ConsumeEntry(p) ==
    /\ pc[p] = "consume"
    /\ Entry(p) # None
    /\ entry' = [entry EXCEPT ![Uuid(p)] = None]
    /\ fate' = Became(Uuid(p), "given back")
    /\ Goto(p, "mark")
    /\ UNCHANGED <<name, data, db, edits>>

ConsumeFails(p) ==
    /\ pc[p] = "consume"
    /\ Entry(p) = None \/ Fault("consume")
    /\ End(p)
    /\ UNCHANGED <<fs, db, edits, fate>>

\* Mutant: the UPDATE's arguments are swapped.
MarkRestoredByPath(p) ==
    /\ pc[p] = "mark"
    /\ restored' = restored \cup {Path(p)}
    /\ End(p)
    /\ UNCHANGED <<fs, row, purged, edits, fate>>

\* The UPDATE is unconditional: it does not look at the stamps already there.
MarkRestored(p) ==
    /\ pc[p] = "mark"
    /\ restored' = restored \cup {Uuid(p)}
    /\ End(p)
    /\ UNCHANGED <<fs, row, purged, edits, fate>>

\* The content is restored and the row does not say so.
MarkRestoredFails(p) ==
    /\ pc[p] = "mark"
    /\ Fault("mark")
    /\ End(p)
    /\ UNCHANGED <<fs, db, edits, fate>>

-----------------------------------------------------------------------------
(* purge. *)

\* The records the targets, --all, --older-than or --larger-than select, as one
\* snapshot; the ones the snapshot shows purged are skipped.
SelectPurge(p, selected) ==
    /\ pc[p] = "idle"
    /\ selected # {}
    /\ \A u \in selected : row[u] # None /\ u \notin purged
    /\ pc' = [pc EXCEPT ![p] = "remove"]
    /\ job' = [job EXCEPT ![p] = [NoJob EXCEPT !.todo = selected]]
    /\ UNCHANGED <<fs, db, touched, edits, fate>>

\* Mutant: the row is stamped and its entry left alone.
PurgeEntryKept(p, u) ==
    /\ pc[p] = "remove"
    /\ u \in job[p].todo
    /\ pc' = [pc EXCEPT ![p] = "stamp"]
    /\ job' = [job EXCEPT ![p].uuid = u, ![p].todo = @ \ {u}]
    /\ UNCHANGED <<fs, db, touched, edits, fate>>

\* Mutant: the loop does not advance.
PurgeEntryAgain(p, u) ==
    /\ pc[p] = "remove"
    /\ u \in job[p].todo
    /\ entry' = [entry EXCEPT ![u] = None]
    /\ fate' = Became(u, "destroyed")
    /\ pc' = [pc EXCEPT ![p] = "stamp"]
    /\ job' = [job EXCEPT ![p].uuid = u]
    /\ UNCHANGED <<name, data, db, touched, edits>>

\* fx.Remove of the next entry.  A failure is only warned about.
PurgeEntry(p, u) ==
    /\ pc[p] = "remove"
    /\ u \in job[p].todo
    /\ \/ /\ entry' = [entry EXCEPT ![u] = None]
          /\ fate' = Became(u, "destroyed")
       \/ Fault("remove") /\ UNCHANGED <<entry, fate>>
    /\ pc' = [pc EXCEPT ![p] = "stamp"]
    /\ job' = [job EXCEPT ![p].uuid = u, ![p].todo = @ \ {u}]
    /\ UNCHANGED <<name, data, db, touched, edits>>

\* Mutant: the row is not stamped.
MarkPurgedSkipped(p) ==
    /\ pc[p] = "stamp"
    /\ Goto(p, "remove")
    /\ UNCHANGED <<fs, db, edits, fate>>

\* As unconditional as MarkRestored.
MarkPurged(p) ==
    /\ pc[p] = "stamp"
    /\ purged' = purged \cup {Uuid(p)}
    /\ Goto(p, "remove")
    /\ UNCHANGED <<fs, row, restored, edits, fate>>

\* The loop goes on with the next record.
MarkPurgedFails(p) ==
    /\ pc[p] = "stamp"
    /\ Fault("mark")
    /\ Goto(p, "remove")
    /\ UNCHANGED <<fs, db, edits, fate>>

FinishPurge(p) ==
    /\ pc[p] = "remove"
    /\ job[p].todo = {}
    /\ End(p)
    /\ UNCHANGED <<fs, db, edits, fate>>

-----------------------------------------------------------------------------
(* Crashes and users. *)

Crash(p) ==
    /\ Fault("crash")
    /\ pc[p] # "idle"
    /\ End(p)
    /\ UNCHANGED <<fs, db, edits, fate>>

CanEdit(kind) == kind \in Edits /\ edits < MaxEdits /\ edits' = edits + 1

\* A write through the name, which also reaches every other name of the file.
WriteThrough(a, c) ==
    /\ CanEdit("write")
    /\ name[a] # None
    /\ data' = [data EXCEPT ![name[a]] = c]
    /\ touched' = TouchedBy(name[a])
    /\ UNCHANGED <<name, entry, db, pc, job, fate>>

\* A new file under the name: created, renamed over, or removed and created
\* again -- in which case the inode may be the one the removal freed.
CreateFile(a, c) ==
    /\ CanEdit("create")
    /\ \E i \in Inodes :
        /\ \A b \in Paths \ {a} : name[b] # i
        /\ \A u \in Uuids : entry[u] # i
        /\ name' = [name EXCEPT ![a] = i]
        /\ data' = [data EXCEPT ![i] = c]
        /\ touched' = TouchedBy(i)
    /\ UNCHANGED <<entry, db, pc, job, fate>>

RemoveFile(a) ==
    /\ CanEdit("unlink")
    /\ name[a] # None
    /\ name' = [name EXCEPT ![a] = None]
    /\ UNCHANGED <<entry, data, db, procs, fate>>

RenameFile(a, b) ==
    /\ CanEdit("rename")
    /\ a \in SameDevice <=> b \in SameDevice
    /\ name[a] # None /\ name[a] # name[b]
    /\ name' = [name EXCEPT ![a] = None, ![b] = name[a]]
    /\ UNCHANGED <<entry, data, db, procs, fate>>

User ==
    /\ Quiet
    /\ \E a \in Paths :
        \/ \E c \in Contents \ {Torn} : WriteThrough(a, c) \/ CreateFile(a, c)
        \/ RemoveFile(a)
        \/ \E b \in Paths : RenameFile(a, b)

-----------------------------------------------------------------------------

Delete(p) ==
    \/ SourceVanished(p) \/ HashSource(p) \/ StatSource(p)
    \/ LinkEntry(p) \/ CopyEntry(p) \/ CopyEntryFails(p)
    \/ CopyMatches(p) \/ CopyDiffers(p)
    \/ InsertRow(p) \/ InsertFails(p)
    \/ DiscardEntry(p) \/ DiscardFails(p)
    \/ RefuseRemoval(p) \/ VerifyByStat(p)
    \/ RehashAgrees(p) \/ RehashDiscards(p) \/ RehashRefuses(p)
    \/ UnlinkSource(p) \/ UnlinkFails(p)

Undelete(p) ==
    \/ RefuseRestore(p) \/ DestinationFree(p) \/ DestinationOccupied(p)
    \/ EntryVerified(p) \/ EntryUnfit(p) \/ ClearDestination(p) \/ ClearFails(p)
    \/ MoveOut(p) \/ MoveFails(p) \/ CopyOut(p) \/ CopyOutFails(p)
    \/ ConsumeEntry(p) \/ ConsumeFails(p)
    \/ MarkRestored(p) \/ MarkRestoredFails(p)

Purge(p) ==
    \/ \E u \in Uuids : PurgeEntry(p, u)
    \/ MarkPurged(p) \/ MarkPurgedFails(p) \/ FinishPurge(p)

\* A command under way goes on.
Continue(p) == Clear(p) /\ (Delete(p) \/ Undelete(p) \/ Purge(p))

\* A caller starts a command.
Start(p) ==
    /\ Clear(p)
    /\ \/ \E a \in Paths, u \in Uuids : PlanDelete(p, a, u) \/ ResolveRecord(p, u, a)
       \/ \E selected \in SUBSET Uuids : SelectPurge(p, selected)

Next ==
    \/ \E p \in Procs : Start(p) \/ Continue(p) \/ (Clear(p) /\ Crash(p))
    \/ User

Spec == Init /\ [][Next]_vars

\* A process that is running keeps running: nothing in these commands waits for
\* another process.
FairSpec == Spec /\ \A p \in Procs : WF_vars(Continue(p))

-----------------------------------------------------------------------------
(* What the commands promise. *)

\* A delete removes a source only while its archive entry holds the very
\* content the removal destroys, and its row the hash of that content.
RemovalCovered ==
    \A p \in Procs : pc[p] = "unlink" =>
        /\ SameFile(p)
        /\ Entry(p) # None
        /\ data[Entry(p)] = data[Source(p)]
        /\ data[Entry(p)] = row[Uuid(p)]

\* An archive entry without a row is one a delete is still working on: the
\* order Execute, Insert, RemoveSource leaves no blob nobody can name.
NoOrphanEntry ==
    \A u \in Uuids : entry[u] # None /\ row[u] = None =>
        \E p \in Procs : Uuid(p) = u /\ pc[p] \in {"compare", "insert", "discard"}

\* A row stamped purged_at has no content left in the archive: the entry goes
\* before the stamp, and no other command brings it back.
PurgedIsGone == \A u \in purged : entry[u] = None

\* A row stamped restored_at had its content moved out by an undelete, whatever
\* other undeletes and purges of the record were under way.
RestoredWasGivenBack == \A u \in restored : "given back" \in fate[u]

\* What info says of a record: the two stamps, and without them one stat of the
\* archive entry.
Status(u) ==
    CASE u \in restored \cap purged -> "restored-then-purged"
      [] u \in restored \ purged    -> "restored"
      [] u \in purged \ restored    -> "purged"
      [] OTHER -> IF entry[u] = None THEN "entry-missing" ELSE "restorable"

\* info says that an entry is missing, "though nothing restored or purged it",
\* only of a row whose delete discarded the entry, or while a command is about to
\* stamp the row.
GoneIsHonest ==
    \A u \in Uuids : row[u] # None /\ Status(u) = "entry-missing" =>
        \/ "discarded" \in fate[u]
        \/ \E p \in Procs : Uuid(p) = u /\ pc[p] \in {"mark", "stamp"}

\* The hash a row records is the hash of the entry it names, as long as there
\* is one.  It holds of entries that are copies; an entry that is a hard link
\* shares its file with whatever other names the file has.
RecordedHashHolds ==
    \A u \in Uuids : row[u] # None /\ entry[u] # None => data[entry[u]] = row[u]

Reachable == {data[i] : i \in Inodes \ FreeInodes}

\* A command makes the last copy of a content unreachable only where its caller
\* asked for that, a purge removing an entry, an overwrite clearing a destination,
\* or where a delete that failed takes back a copy no record names.
LossIsAskedFor ==
    [][\A p \in Procs : pc'[p] # pc[p] /\ ~(Reachable \subseteq Reachable' \cup {Torn})
            => pc[p] \in {"remove", "clear", "compare"}]_vars

\* A restore that fails after the record was found restorable leaves the entry
\* where it was, the archived copy being consumed last, unless another command has
\* taken it meanwhile.
FailedRestoreKeepsEntry ==
    [][\A p \in Procs : pc[p] \in {"check", "clear", "move", "consume"} /\ pc'[p] = "idle"
            => entry'[Uuid(p)] # None \/ fate[Uuid(p)] # {}]_vars

\* Every command ends, whatever the others do.
CommandsEnd == \A p \in Procs : pc[p] # "idle" ~> pc[p] = "idle"

\* An entry gets its row or is taken back.
EntriesAreSettled ==
    \A u \in Uuids : entry[u] # None /\ row[u] = None ~> (entry[u] = None \/ row[u] # None)

\* The commands implement the abstract record, as info and list read it off the
\* database and the archive directory.
Recorded == {u \in Uuids : row[u] # None}
Held     == {u \in Uuids : row[u] # None /\ entry[u] # None}
Given    == {u \in Uuids : "given back" \in fate[u]}

Record == INSTANCE ArchiveRecord WITH recorded <- Recorded, held <- Held, given <- Given

KeepsRecords == Record!Spec

=============================================================================
