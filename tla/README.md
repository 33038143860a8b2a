# saferm in TLA+

saferm archives what it is asked to delete. `delete` puts a path's content into
an archive directory and a row into a SQLite database and then removes the
path; `undelete` moves the content back out; `purge` destroys it; `list` and
`info` report. There is no daemon: every command is a process of its own, and
any number of them share the archive directory, the database and the user's
files, with no lock over the three together. What keeps content safe is the
*order* in which each command does its few system calls and what it re-checks
between them. That order is what this project models, checks with TLC and
proves with TLAPS.

Paths below are relative to the repository root.

## 1. Inventory

| Component | Code | State it keeps | Operations |
|---|---|---|---|
| Archival of a file | `delete.go` (`archiveOne`, `describeUnremovedSource`), `internal/archive/archive.go` (`NewPlan`, `archiveFile`, `verifySource`, `RemoveSource`, `DiscardBlob`) | the `Plan`: uuid, remembered inode, size and mtime, hash, whether linked | hash, Lstat, link or copy, insert, re-check, remove or discard |
| Restore of a file | `undelete.go`, `archive.go` (`NewRestorePlan`, `EntryPresent`, `VerifyEntry`, `CopyOut`) | the `RestorePlan` | guards, occupancy, verify, clear, rename or copy and consume, stamp |
| Purge | `purge.go` | a list of records read once | remove entry, stamp, for each |
| Archive directory | `archive.go`, `helpers.go` (`archiveEntryPath`) | one entry per uuid | written by delete, moved by undelete, removed by purge |
| Database | `internal/db` | the table, its columns, `user_version` | open and migrate, insert, two unconditional UPDATEs, queries |
| Contention retry | `internal/db/contention.go` | an attempt counter | five attempts, then `ContentionError` |
| Status | `info.go`, `list.go` | none | two stamps, and a stat of the entry |
| Trees | `archive.go` (`createTarZst`, `verifyTreeUnchanged`, `extractTarZst`, `mkdirTracked`, `RollbackExtraction`) | member list, created list | archive, verify, remove; extract, roll back |
| Symlinks | `archive.go` (`archiveSymlink`, `verifySymlinkUnchanged`, `RestoreSymlink`) | recorded target | archive, verify, recreate |
| Batches | `delete.go` (`handleDelete`) | `written`, `failures`, first failure | loop under `--on-error`, exit code |
| Trace reader | `internal/trace` | the listing, the parsed partitions, the chain, the anomalies | search partitions backwards, walk parents, cap what is noted |
| Selection | `helpers.go`, `identifiers.go`, `purge.go`, `db.go` (the queries) | none of its own: the rows, the clock, the zone | parse sizes and durations, compare timestamps, resolve identifiers |
| Metadata, git helpers, CLI, wrappers | `internal/meta`, `internal/git`, `main.go`, `capabilities.go`, `npm/`, `pypi/` | none that decides anything | read the environment, run git, register flags |

How they interact. A delete talks to the filesystem (source path and entry), to
the database (one INSERT, which under contention can take tens of seconds) and
again to the filesystem. The row makes the entry findable *before* the source is
removed, so from that moment other processes may purge or restore the record the
delete is not done with. A hard-linked entry is the source's own inode, so users
who write to the source write to the archive. Undelete and purge check a row's
stamps when they start and never again. Before its insert a delete also reads the
trace store, which other programs append to while it does, and embeds in the row what
it found of the invocations it descends from.

What is hard here, and where each line of `PROJECT.json`'s hazards comes from:
stale checks (inode, size and mtime, entry, occupancy, snapshot of rows),
partial failures between two of the three stores, crashes, inode reuse, the
migration ladder climbed by several processes, retries, a store read while others
write and prune it, arithmetic that wraps, and timestamps that are compared as text.

What makes each component correct:

- archival: a source goes only while the archive holds the content that goes
  with it, and the row has its hash; no entry without a row once the command is
  over;
- restore: content is given back before anybody says so; a restore that fails
  keeps the entry;
- purge: a row says *purged* only of content that is gone;
- all commands: the last copy of a content is destroyed only on request; every
  command ends;
- database: a version never promises a column that is missing; an open database
  fits the statements; Insert's answer is true;
- trace reader: an entry that is there is found; the chain is the ancestry; a chain
  that stops early says why; reading it never holds a deletion up;
- selection: a purge takes nothing younger or smaller than its caller wrote.

## 2. Plan

1. `FileArchive` (with the abstract `ArchiveRecord`): the core. **Done.**
2. `Database`: opening, ladder, insert and retry. **Done.**
3. `TreeArchive`: trees and symlinks, archived, verified, removed, extracted and
   rolled back, with users editing in between. **Done.**
4. `DeleteBatch`: the loop of `handleDelete` and the ways out of `archiveOne`.
   **Done.**
5. `TraceStore`: the walk of a capture through the partitions while writers, pruning
   and hands change them. **Done.**
6. `Selection`: sizes and durations in wrapping arithmetic, timestamps as text,
   identifiers, and the purge that selects by them. **Done.**
7. Proofs. FileArchive (types, stamps, refinement, orphans, removal, hashes of
   copies, missing entries), TreeArchive, Database, DeleteBatch, TraceStore and
   Selection: **done**, for TreeArchive every property of its run and for the other
   four every invariant of theirs. Left: `LossIsAskedFor` and `FailedRestoreKeepsEntry`
   of FileArchive.

Modules to be proved about declare no RECURSIVE operator; Database's ladder is a
constant sequence walked by index for that reason.

## 3. Modules

| Module | What it is |
|---|---|
| `FileArchive.tla` | concurrent delete, undelete and purge of regular files, users and faults |
| `ArchiveRecord.tla` | the abstract life of a record: taken, given back or dropped, stamped |
| `MCFileArchive.tla` | symmetry for TLC |
| `FileArchiveProofs.tla` | theorems about the records: types, stamps, refinement, orphans |
| `FileStampProofs.tla` | theorems about what the rows and `info` say |
| `FileContentProofs.tla` | theorems about the bytes: the removal, the hashes of copies |
| `TreeArchive.tla` | one tree or symlink: delete, undelete, purge, users |
| `MCTreeArchive.tla` | a tree of four paths, symmetry |
| `TreeArchiveProofs.tla` | its theorems |
| `DeleteBatch.tla` | one `delete` over several paths |
| `MCDeleteBatch.tla` | the lists of paths it is called with |
| `DeleteBatchProofs.tla` | its theorems |
| `Database.tla` | `internal/db`: open, migrate, insert, retry |
| `MCDatabase.tla` | the real three-step ladder |
| `DatabaseProofs.tla` | its theorems |
| `TraceStore.tla` | one capture reading the trace store, its writers, pruning and hands |
| `MCTraceStore.tla` | its instance for TLC |
| `TraceStoreProofs.tla` | its theorems |
| `Selection.tla` | clock, zone and rows; what `purge` and `undelete` select |
| `MCSelection.tla` | zones, a change of offset, short units |
| `SelectionProofs.tla` | its theorems |

### FileArchive

State and code:

| Variable | Code |
|---|---|
| `name` | the user's paths, as names of inodes |
| `entry` | the files of the archive directory, named by uuid |
| `data` | an inode's content; a hash is identified with the content it is of |
| `row`, `restored`, `purged` | the table: `hash`, `restored_at`, `purged_at` |
| `pc` | the call a process makes next (`"hash"` ... `"stamp"`) |
| `job` | `Plan`, `RestorePlan` and purge's list of records |
| `touched` | processes whose remembered size or mtime no longer is the file's |
| `edits`, `fate` | a bound, and a history variable of the properties |

One action is one system call or statement with the checks that follow it up to
the next call. `verifySource`'s Lstat of the source and Lstat of the entry are
one action (`VerifyByStat`): they are adjacent calls and the gap between them is
of the kind the code's comments accept. `CopyEntry` reads and writes a file at
once, `CopyEntryFails` leaves `Torn` content. An inode no name leads to is free and
may come back with other content: that is what makes an identity check by inode
weak, and the code's comments say so. A user's `CreateFile` may take the very
inode its own removal frees.

Uses of `--destination` are covered by letting `ResolveRecord` choose any path.
The choice between refusing and overwriting an occupied destination
(`--on-conflict`) is the caller's, so both actions are enabled. Of two
possibilities a dependency decides (whether `fx.Remove` of an absent file is an
error; whether rename(2) reports a missing entry or the other device first) both
are in the model.

Constants choose the instance: `Linkable` are the paths the kernel hard-links
(the others are copied), `SameDevice` those a rename can reach. `Faults` lists
the calls that may fail, `Edits` what users may do, `MaxEdits` how often.

`Shut` lists program points at which nobody else acts, that is, calls taken to
follow their predecessor at once. It exists because the code leaves windows open
and says so: a property that does not hold in a window is checked outside it,
and the run `hash_window` opens one. The windows of the
removal are `stat` (hash to Lstat), `rehash` and `unlink` (verification to
removal), all closed in `removal`; `loss` closes them too, with the delete's `discard` and the
restore's `move` and `consume`. `records` closes none.

### ArchiveRecord

`recorded`, `held`, `given`, `restored`, `purged` are sets of uuids. Read off
FileArchive they are: the uuids with a row; those whose entry is also there;
those whose content an undelete has moved or copied out (from `fate`); and the two
stamps. The refinement says that a row is born over an entry, that custody once
given up does not come back, that *restored* is said only of content that was
given back, and *purged* only of content that is no longer held.

### TreeArchive

| Variable | Code |
|---|---|
| `node` | what is at each path: nothing, a directory, a file with its content, a link with its target |
| `entry`, `held` | the `.tar.zst` or `.symlink` entry, and what it has for each path |
| `row`, `stamps` | the record and its two stamps |
| `pc`, `job` | the next call of the delete or undelete; `Plan` with its member list (`members`), what a walk has listed or an extraction has still to do (`todo`), the directories `mkdirTracked` has still to make (`pending`), the created list |
| `job.stale` | the regular members whose size or mtime is no longer the recorded one |
| `purger` | the next call of a purge in another process |
| `given`, `late`, `found`, `edits` | history: entry consumed; what others changed since the check in hand looked at it; the root before an extraction; the bound |

A tree is archived by a walk that visits one path per step, in the order of
`filepath.WalkDir`: a directory is listed after its visit, and a listing says what
kind of thing each child was, which need not be true any more at its visit. A
regular file takes two steps, the record of its size and mtime and then its copy; a
file rewritten between the two may be copied torn, or stop the walk because its size
moved. The verification is the same walk against `members`. For a header the
extraction looks for the directories that are missing (`NextHeader`, the way up of
`mkdirTracked`), makes them one by one (`MakeDir`, the way down), and then writes the
member; a user may come in before each. The rollback takes one step per created path.
A failing step leaves what the code leaves: none, some or all of the directories, or
a file in part.

Targets of links lead to nothing, so no path is walked or written through a link. A
root that is a regular file belongs to FileArchive. One tree has one record here,
and delete and undelete follow one another: what several of them do to one record is
FileArchive's matter, and a purge beside them is what trees add to it.

### DeleteBatch

`there` are the paths that exist, `request` the paths and switches of the
invocation; `pc` and `at` are where it is in the loop and in `archiveOne`. `written`,
`failures`, `firstFailure` and `exit` are the variables of the same names in
`handleDelete` and `deleteRun` (the exit code with whether a payload was supplied),
`rows` the records of its group. `skipped` and `took` are history. One action is one
way on, or one way out, of `archiveOne`; the calls that have modules of their own
(`Execute`, `Insert`, `RemoveSource`) succeed or fail here. A `Skip` is any
return without a failure and without a record: a declined or ignored path, a
preview. A path can be named twice, and a directory beside what is in it.

### Database

`table`, `columns`, `version`, `rows` are the file; `pc`, `rung`, `step` and
`attempt` are where a process is in `open`, `migrate` and `retryBusy`. Each
statement is a transaction of its own. Under a lock (`locked`, flipped at will by
the outside) a write cannot proceed and any statement may return SQLITE_BUSY:
`Retry` begins the operation again (opening from the schema, as the closure given to
`retryBusy` does), `OpenGivesUp` and `InsertGivesUp` return ContentionError after
the last attempt. The columns are those the migrations add: a table made by
today's `SchemaSQL` has them all at version 0.

### TraceStore

| Variable | Code |
|---|---|
| `part` | the files of the store, one per UTC hour: the last line of each identifier, how many lines are torn, how many have a field to truncate |
| `blocked` | partitions `read` refuses: a FIFO, a directory, past `maxPartitionBytes`, unreadable |
| `stamp`, `parent`, `writer`, `choice` | strictcli's side: the hour in an identifier, the entry its own one names, how far its write is, the partition it chose |
| `pc`, `at`, `seen` | where `collectFrom` is, the identifier in hand, its `seen` map |
| `listed`, `labels`, `todo`, `loaded`, `index` | `reader`: the one listing, what `lookup` has still to look into, the parsed partitions and what they had |
| `chain`, `anomalies`, `dropped`, `cut` | `Capture`, and which return ended the walk |
| `known`, `lost`, `torn`, `forged`, `edits` | history of the properties, and the bound |

`Collect` takes the environment variable, `Visit` begins a `lookup` (the first one
lists the directory), `Load`/`LoadFails` read one partition, `Miss` goes one back,
`Hit` appends to the chain and goes on with the parent, `Dangling`, `Revisit` and the
two bad identifiers end it. The stat and the read of one partition are one step: what is
swapped in between the two, a FIFO for one, is out of the model. The writers are not in this
repository; the model has what the comment of `lookup` says of them: a writer picks
the newest partition or rolls to a new one, mints an identifier that is not earlier
than its partition, appends one line, and only then is its child spawned. Between
picking and appending somebody else may roll, which strands the entry in an older
partition: the case the backward walk is there for. A line being appended may be read in
part. Of an identifier nobody minted the hour is anything. In `File` only the *number* of
complaints matters, since the cap counts them.

### Selection

`now` and `zone` are the machine, `row`, `restored` and `purged` the table, `born` the
true instant of each deletion, which no column has. `Stamp` is
`Format(time.RFC3339)`: the wall clock and the offset it is ahead by; `Before` is how
SQLite compares two of them as text, wall clock first and then the suffix, where `+`
comes before `-` and both before `Z`. The queries, `resolveRecord`, `parseSize` and
`parseDuration` are operators on these; `Purge(ask)` is `handlePurge` from its targets
and flags to its stamps, a purge here being one step, since FileArchive has its
interleavings. The machine word holds `-Half .. Half - 1`, and a tick of the clock is
also one unit of it: with 64 bits a unit would be a nanosecond, with the scaled word
both overflow within reach of TLC. A suffix's factor divides the number of words, as
powers of 1024 do.

## 4. Runs

| Run | Shows | Instance |
|---|---|---|
| `removal` | TypeOK; RemovalCovered: at the removal the entry has the content of the source and the row its hash | 2 processes, 2 records, a linkable and a cross-device path, 3 inodes, failing discard and removal, 2 edits of every kind |
| `records` | NoOrphanEntry, PurgedIsGone, GoneIsHonest, refinement of ArchiveRecord; CommandsEnd and EntriesAreSettled under fairness | 2 processes, 1 record, failing inserts, 1 write, no window closed |
| `loss` | RestoredWasGivenBack, LossIsAskedFor, FailedRestoreKeepsEntry, refinement of ArchiveRecord | 2 processes, 2 records, 3 inodes, 1 write, crashes and every failing call but the insert and purge's removal |
| `hash_window` | violation of RemovalCovered | 1 process, the window `stat` open |
| `tree` | TypeOK, FilesCovered, RestoredIsWhole, RollbackIsExact, ForeignSurvives, refinement of ArchiveRecord | every tree on 4 paths (a file below a directory) and every link, 2 edits, every fault but a failing purge |
| `tree_kinds` | violation of TreeCovered | the same paths without files, 1 edit |
| `batch` | TypeOK, ExitIsFirstFailure, EveryPathIsAnswered, TakenIsRecorded, PreviewTouchesNothing, AbortStops | 4 lists of up to 3 paths, all switches, every fault, 1 change by others |
| `database` | TypeOK, VersionKeepsItsWord, OpenedIsMigrated, InsertTellsTheTruth, OperationsEnd | 2 processes, 2 inserts, 3 attempts, every starting version |
| `migration_race` | violation of RacingMigrationsSucceed | 2 processes |
| `trace` | TypeOK, NoFalseDangling, ChainIsAncestry, CutIsExplained; CaptureEnds under fairness | 2 identifiers, 3 hours, a cap of 1 anomaly, 1 prune, block, forgery or torn line |
| `selection` | TypeOK, StampsOrderInstants, AgeIsKeptTo, SizeIsKeptTo | 2 records, 2 zones one of which puts its clocks back, words of 8 values, counts on both sides of the overflow |
| `purge_age` | violation of YoungerIsSpared | 2 records, 1 zone, an age that does not fit |

Why these bounds are enough to be worth something. The properties speak of one
record and at most two commands on it at a time: two processes give every pair
of commands every interleaving, and two uuids let two records share a path and an
inode (both deleted from it, or one restored over the other). `records` gives up
the second record for liveness, all points open and no symmetry; what two records
share is in `removal` and `loss`. Three
inodes suffice for two paths and a copy, and leave one to be reused. Two whole
contents tell "the same" from "another"; `Torn` is a third. One write is enough to
make a hash stale, and two edits to replace a file and undo it. The ladder
is the real one; with three attempts the budget is met before, at and after its
end, and the theorem removes that bound.

For trees, four paths give a directory inside the root, a member inside it and one
beside it; two edits let a user undo with the second what the first did, which is
what it takes to get past one check and fail another. A batch needs three paths for
an answer before, at and after a failure. `tree` leaves the failing purge out, as
`records` does: with it a row is stamped purged over an entry that is still there.

For the trace reader two identifiers are a child and its parent, or an invocation and a
forgery of it, and make a cycle; three hours let a roll be lost with a partition still older to
walk past; a cap of one is met before, at and after its end (the theorem has any cap). A
change of offset by one tick and an age of two put a record on either side of the limit
and inside the change.

Deadlock is not checked for FileArchive, TreeArchive, DeleteBatch, TraceStore and
Selection: with all uuids used, all records stamped and no edits left, or the command or
the capture over, the system rightly stops. Database never stops and is checked.

Symmetry (processes, uuids, inodes, whole contents, link targets) is used for safety
only; `records`, `batch`, `database`, `trace` and `selection` run without it.

### What the violations show

- `hash_window`: the comment in `archiveFile` says that the Lstat goes with the
  bytes that were hashed. A write between the two makes it go with other bytes,
  the re-check then sees nothing move, and the source is removed under a row
  whose hash matches nothing.
- `tree_kinds`: the verification walk compares regular files only. A link below the
  root that was given another target since it was archived goes with the tree, and
  the tar does not have the new target. At the root the target is compared.
- `migration_race`: the column check does not prevent the error it is said to
  prevent, since the check and the ALTER TABLE are separate statements.
- `purge_age`: an age whose product does not fit the word wraps (4000m, as months of
  30 days in nanoseconds, is past 2^63): the limit is then in the future and a purge
  of what is older takes everything live. `parseSize` divides back and refuses.

### What the model shows without a run of its own

These follow from steps the model has; the properties' runs leave the fault or the second
process that triggers them out, and no document of the repository claims more
than noted.

- The re-hash of `verifySource` lasts as long as reading the file, and the entry is
  checked before it and not after: a purge of the new row in it makes the removal
  destroy the last copy. The architecture document lists two windows left open, both
  microseconds wide; this is neither. `removal` takes the re-hash as an instant.
- `copyAndVerify` does not take back the destination of a copy that failed, so a
  failed discard is not "the one remaining way to leave a blob with no row", as
  `delete.go` has it; a failing `os.WriteFile` leaves a `.symlink` entry likewise.
- With failing UPDATEs an entry can be gone and the row unstamped after an
  undelete that worked: `info` then says nothing restored it.
- With failing removals `purge` stamps a row whose entry is still there.
- With failing inserts a delete may discard the last copy, if its source has
  been removed meanwhile by somebody else (`delete.go:442`): `loss` leaves the
  failing insert out. The same of a copy that differs is granted in
  `LossIsAskedFor`, as no record names that copy yet.
- Between its decision and its call a discard loses the last copy in the same way: the
  re-hash finds the source to be the linked entry's own file, another delete archives and
  removes the source, its record is purged, and the entry goes. `loss` takes `discard`
  as an instant for this, and `move` and `consume` for what a user can put at a destination, or
  do to a restored copy, in the same way.
- A source that cannot be removed after its row is committed is in the payload's
  `failed` and its record is not in `archived`, which `docs/machine-surface.md`
  says holds one entry per record the invocation wrote.
- A second process purging between the checks and the move makes "the archived
  copy was kept" untrue of a failed restore.
- A file created at a free destination after the check is replaced by the
  rename.
- A hard-linked entry stays writable through every other name of its file, so
  the recorded hash holds for good only of copies.
- A root replaced by a file or a link after `NewPlan` is archived as such and
  extracted as an empty directory; `RestoredIsWhole` takes the top for a directory.
- A file that became a link between its listing and its visit is archived as a
  header without a target, and that tree can never be extracted.
- A file a user puts at a destination that was found free is overwritten by the
  extraction, and removed by its rollback.
- `user_version` may go back while processes race; no column is lost by it.
- `--larger-than` takes what is of just that size too, and, like `--all`, lists and
  counts records that were purged before, which the loop then skips; a record named
  twice is purged and counted twice.
- After a change of the UTC offset `list`'s newest-first order is that of the wall
  clocks: `StampsOrderInstants` says by how much it can be off.

## 5. Fairness

`FairSpec` assumes weak fairness of each process's steps (`Continue`), never of
starting a command, of users, of crashes or of the lock. The code justifies it: no
command of saferm waits for another one, apart from the lock, where the wait is
bounded by SQLite's busy timeout and the retry budget. `OperationsEnd` needs nothing
of the lock: a process that keeps losing gives up. `CommandsEnd` holds because every
loop has a list that only shrinks. Crashes are no part of `records`: a crash ends a
command at once, and the entry it may leave is the matter of NoBlobIsOrphaned's
assumption. `CaptureEnds` has weak fairness of the reader's own steps alone: writers may
append for ever, which holds nothing up because the directory is listed once and an
identifier is visited once.

## 6. Proofs

`FileArchiveProofs` extends FileArchive:

- `TypeCorrect`: `Spec => []TypeOK`, from the named assumptions on the constants
  alone.
- `StampsTellTheTruth`, under `RemovalsWork` (removing an entry does not fail):
  `RestoredWasGivenBack` and `PurgedIsGone` are invariants. (FileStampProofs has the first of them without the
  assumption.) Neither is inductive. An
  undelete at `mark` must already have given its content back, a purge at `stamp` must
  already have removed its entry, and a stamped row must never get its entry
  again, which needs that an entry appears only under a uuid with no row, that a
  process inserting a row is the only one with that uuid, and that a process at
  `stamp` has a row. The invariant `StampsFit` says so, one conjunct for each.
- `ImplementsRecord`, under the same assumption: every step maps to a step of
  ArchiveRecord or to a stutter, action by action, with the same invariant.
- `NoBlobIsOrphaned`, under `BlobsAreSettled` (no crash, no failing copy, no failing
  discard: the three ways an orphan is known to arise).
- `CommandsRunDown`, for finitely many records: `StepsLeft(p)`, the calls a command has
  at most ahead of it plus two for each record of a purge's list, is a number of at most
  nine and two for each record, each step of the command makes it less, and nobody
  else's step touches it. `CommandsEnd` follows by weak fairness and the fact that a
  running command is never stuck; that last step needs ENABLED.
- `OwnersSettle`, under `BlobsAreSettled`: if commands end, an entry without a row that
  a delete owns is recorded or taken back. With `NoBlobIsOrphaned`, by which every such
  entry has an owner, this is `EntriesAreSettled` up to `CommandsEnd`. It is stated for each
  process and record, as the temporal prover has no quantifiers.

`FileContentProofs` extends it with what the archived bytes are worth:

- `RemovalIsCovered`, under `WindowsClosed` (the points `stat`, `rehash` and `unlink`
  are instants, as in the run `removal`; no other point need be): `RemovalCovered` is an
  invariant, with any faults, crashes, edits and reuse of inodes. `RemovalCovered`
  speaks of one point; the invariant `Relies(p)` says what a delete
  may count on at each of its points. A hard-linked entry is covered because it is the
  source's own inode. A copy is covered because it is *private*: no path and no
  other entry leads to it, so nobody can write into it. The remembered inode holds
  the hashed bytes for as long as its size and mtime have not moved, also where
  the inode was freed and reused. `Frame` is what any step of other processes leaves
  alone of these three; `StepFrame`, `UserFrame` and `OthersRely` make the argument once
  for all pairs of actions.
- `CopiesKeepTheirHash`, under `CopiesOnly` (the kernel refuses every hard link):
  `RecordedHashHolds` is an invariant, for any number of processes and with every window
  open. The same privacy carries it: an entry that appears is a new file and has no
  row, a row that appears is that of a compared copy, and nothing in between can write
  to it. No run checks it, since the runs link what they can.

- `LossesAreAskedFor`, under `InstantsTaken` (those windows, and the moment between a check
  and `discard`, `move` or `consume`) and `InsertsWork`: `LossIsAskedFor` holds of every
  step. `Spares(p)` says what is to be found elsewhere when p takes a name away: a
  discarded entry under its source, a consumed one in its restored copy, and what
  `UnlinkSource` removes in the entry, by `RemovalIsCovered`. `AddingLosesNothing` and
  `TakingLosesNothing` turn that into statements on what is reachable. With any of the
  assumed points open but `stat`, or with failing inserts, TLC violates the property on the
  instance of `loss`; `stat` is what `RemovalIsCovered` needs.

`FileStampProofs` extends FileArchiveProofs with what is said of a record:

- `RestoredMeansGivenBack`: `RestoredWasGivenBack` is an invariant whatever fails or
  crashes. An undelete reaches `mark` only by a move or a copy that it recorded in
  `fate`, and `fate` only grows.
- `MissingIsExplained`, under `StampsWork` (no crash, no failing UPDATE): `GoneIsHonest` is
  an invariant. It needs that a row which lost its entry keeps the process that took it
  at `mark` or `stamp` until the row is stamped, which no other process can do away
  with.
- `FailuresKeepEntries`: `FailedRestoreKeepsEntry` holds of every step, from the type
  assumptions alone. The invariant `TakenIsKnown` says that a row without an entry has
  its reason in `fate`; an undelete adds to `fate` at the step that takes the entry, and
  ends by nothing but `mark` from there on.

`TreeArchiveProofs` proves every property of the run `tree`, for a tree of any shape, any
contents and targets, any faults and any number of edits. What a tree is, is in
`TreeAssumption` (each path with the directories above it) and `OrderAssumption` (a walk
meets a directory before what is in it).

- `TypeCorrect`, with what makes the others possible: no step leaves a path without its
  directory (`PutTree`, `TakeFromTree`), and an idle command carries nothing.
- `FilesAreCovered`. A recorded member that has kept its size and mtime is what the entry
  holds (`MembersFit`), which is why it matters that the record comes before the copy. The
  verifying walk is cut in two by what it has listed and not visited (`WalkFits`): a path
  that nobody touched since is below such a path, or has been found covered. What was
  listed as a file or a link has nothing below it, except what has been put there since.
- `RestoresAreWhole`. Headers come top down (`HeldFits`), so that the only directory a
  header's `mkdirTracked` makes, where nobody interferes, is the header's own; a path
  whose header is done is what it is to become, and every other is empty
  (`DestinationFits`).
- `ForeignPathsSurvive`: headers, pending directories and created list name only paths
  the entry holds (`HeadersFit`).
- `RollbacksAreExact`: what was created stood where nothing stood, after the directories it
  is in, so that undoing the list backwards meets a directory that is not empty only where
  somebody else has put something there (`CreatedFits`).
- `ImplementsRecord`, under `RemovalsWork` (removing an entry does not fail, as in the
  run): a tree's or link's record refines ArchiveRecord.
- `TreesAreCovered`: of the behaviours that keep to `KindsKept`, `TreeCovered` is an
  invariant. `KindsKept` restricts users only: while a delete is under way they make nothing
  else of a directory or link that is archived already, and no link of a listed file.
  It is the gap `tree_kinds` shows and no more: writing, adding and removing stay free.
  The invariant `OthersFit` adds to those of `FilesAreCovered` that such a member is gone or
  still what it was.

`DatabaseProofs` proves every invariant of the run `database`, for any ladder, any number
of processes and any budget: `TypeCorrect`, `VersionIsHonest`, `LadderIsSafe` and
`InsertIsHonest`. The last needs that an insert under way has not reported and not
inserted yet, since each attempt is one statement. `MigratingAloneSucceeds`, under `Alone`
(one process): `RacingMigrationsSucceed`, which two processes violate, is an invariant, as a
column found missing is still missing when it is added. `OperationsGoOn`: each step of a
running operation ends it, takes the next of its attempts, or climbs to the next statement
of the ladder within one, all of them bounded, and no other process moves it; this is what
`OperationsEnd` has beyond fairness. For the ladder, the invariant says that a
process at migration `v`, column `k`, has behind it the columns of every migration
below `v` and the first `k - 1` of `v`. Columns are never dropped, so what one process
has seen stays true while another sets the version back.

`DeleteBatchProofs` proves every property of the run `batch`, for any set of paths and
any requests. `TypeCorrect` needs that inside the loop `at` is an index of the
request. `ExitCodeIsFirstFailure` and `AbortIsFinal` share the invariant `ExitFits`:
`firstFailure` is the code of the first entry of `failures`, and under abort a failure
ends the loop at once. `TakenHasRecord` needs that at a removal the path has its row.
`PreviewIsHarmless` needs that a preview never reaches `Execute`. `NoPathIsLost` counts:
at every point the paths passed so far are the archived, the failed and the skipped
ones, and the one at hand while it has no answer (`CountsFit`).

`TraceStoreProofs` proves every invariant of the run `trace`, for any identifiers, hours,
cap and number of edits:

- `NothingThereDangles` follows from what a search knows: an entry that was written before the
  capture began, whole and in a partition never lost, is in a partition that the listing
  has, not after the hour of its identifier, and either still to be looked into or, if it
  was parsed, in its index.
- `ChainsAreAncestries` needs that an index says of an identifier what its invocation
  wrote unless it is forged, that identifiers in the chain have been seen, and that the
  one in hand is the parent the chain's last entry names.
- `SilenceIsComplete` follows from the order in `Finish`, with the cap kept to until then.
- `CapturesGoOn`: each step of a capture ends it, or adds an identifier to `seen`, or a
  partition to `loaded`, or takes one from `todo`, in this order of precedence; all three stay within
  the identifiers and the one listing, which no writer extends. This is what `CaptureEnds` has
  beyond fairness, for finitely many of both.

`SelectionProofs` proves every invariant of the run `selection`, for words of any width, any
zones and any clocks:

- `StampsAreOrdered` from the invariant that a row's stamp is the one of its instant in
  some zone (`StampsFit`).
- `SizesAreKeptTo` from a lemma that a wrapped product which divides back to its factor
  was not wrapped, the suffix dividing the number of words.
- `AgesAreKeptTo`: an age below `Half` is not changed by the wrap, and a limit that is
  compared as text is off by the difference of the offsets at most.
- `YoungerAreSpared`, under `AgesFit` (every age somebody writes fits the word) and
  `OffsetKept` (one offset, everywhere and always): the help text's `YoungerIsSpared`, which
  `purge_age` refutes for want of the first, is an invariant.

Only model-checked: everything temporal under fairness (`CommandsEnd`, `EntriesAreSettled`,
`OperationsEnd`, `CaptureEnds`). That fairness makes a process take its step needs ENABLED, which is
out of the prover's reach, and so is the induction that a bounded measure cannot decrease for
ever. The rest of their arguments is in `CommandsRunDown`, `OwnersSettle`, `OperationsGoOn` and
`CapturesGoOn`. The four properties whose runs expect a violation do not hold, and
`RemovalIsCovered`, `TreesAreCovered`, `MigratingAloneSucceeds` and `YoungerAreSpared` say what
each of them takes to hold; `RemovalCovered` holds also in `removal`, where the windows are
closed.

## 7. Not modelled

Of trees, permissions,
owners and times; corrupt entries and hostile member names in them; and the checks
of `extractTarZst` that refuse such names. Of the trace store what happens between the stat and the read of one partition, and
the writers' own code, which is strictcli's. Of selection the splitting of a text into number
and suffix, and the preview and listing a purge prints. Process metadata, the git helpers, the
command line and the packaging wrappers decide nothing that the properties are
about. Power loss (what reaches the disk before a row does) is not modelled: a crash
here is the end of a process.
