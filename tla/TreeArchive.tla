------------------------------ MODULE TreeArchive ------------------------------
(***************************************************************************)
(* The life of one archived directory tree or symlink in saferm: the walk  *)
(* that writes the .tar.zst, the walk that verifies it before the removal, *)
(* the extraction and its rollback.  A delete and an undelete (one         *)
(* process, one after the other) run beside a purge and beside users, who  *)
(* change any path of the tree between any two steps.                      *)
(*                                                                         *)
(* A node is a directory, a regular file (identified with its content) or  *)
(* a symlink (identified with its target).  Targets lead to nothing, so a  *)
(* link is never walked or written through.                                *)
(***************************************************************************)
EXTENDS Naturals, Sequences

CONSTANTS
    Paths,     \* the paths of the tree
    Root,
    Parent,    \* path other than the root -> its directory
    Above,     \* path -> the path and the directories above it
    Order,     \* path -> its place in filepath.WalkDir's order
    Contents,  \* contents of regular files
    Torn,      \* the content of a file that was copied only in part
    Targets,   \* targets of symlinks
    Broken,    \* the empty target of a header made without reading the link
    Dir,       \* a directory
    None,      \* nothing
    Faults,    \* which calls may fail: a subset of FaultKinds
    MaxEdits   \* bound on the number of user edits

Nodes == Contents \cup Targets \cup {Dir, None}

FaultKinds == {"write", "tar", "insert", "discard", "remove", "clear",
               "extract", "consume", "purge", "mark"}

ASSUME TreeAssumption ==
    /\ Root \in Paths /\ "entry" \notin Paths
    /\ Parent \in [Paths \ {Root} -> Paths]
    /\ Above \in [Paths -> SUBSET Paths]
    /\ Above[Root] = {Root}
    /\ \A p \in Paths \ {Root} : Above[p] = {p} \cup Above[Parent[p]] /\ p \notin Above[Parent[p]]
    /\ \A p \in Paths :
          /\ Root \in Above[p]
          /\ \A q \in Above[p] :
                /\ Above[q] \subseteq Above[p]
                /\ q # p => \E c \in Above[p] \ {Root} : Parent[c] = q
ASSUME OrderAssumption ==
    /\ Order \in [Paths -> Nat]
    /\ \A p, q \in Paths : Order[p] = Order[q] => p = q
    /\ \A p \in Paths : \A q \in Above[p] \ {p} : Order[q] < Order[p]
ASSUME NodesAssumption ==
    /\ Torn \in Contents /\ Broken \in Targets
    /\ Contents \cap Targets = {}
    /\ Dir # None /\ {Dir, None} \cap (Contents \cup Targets) = {}
ASSUME BoundsAssumption == Faults \subseteq FaultKinds /\ MaxEdits \in Nat

VARIABLES
    node,    \* path -> what is there
    entry,   \* the archive entry: "none", "partial" or "whole"
    held,    \* path -> what the entry holds of it; a link's entry, its target
    row,     \* "none", or the kind of thing it records: "tree" or "link"
    stamps,  \* which of "restored" and "purged" the row carries
    pc,      \* the call the delete or undelete makes next
    job,     \* what it carries between calls
    purger,  \* the call the purge makes next
    given,   \* "yes" once an undelete has consumed the entry (history)
    late,    \* what others changed behind the current check's back (history)
    found,   \* what stood at the root as the extraction began (history)
    edits    \* number of user edits so far

vars == <<node, entry, held, row, stamps, pc, job, purger, given, late, found, edits>>

DeletePoints   == {"readlink", "stat", "open", "tar", "copy", "insert", "discard",
                   "verify", "reread", "walk", "remove"}
UndeletePoints == {"look", "check", "clear", "unpack", "extract", "make", "rollback",
                   "consume", "mark"}

Kinds == {"none", "dir", "link", "file"}

Nothing == [p \in Paths |-> "none"]

\* What archive.Plan carries, and the walk under way: `members` is the recorded
\* member list, `stale` the regular members whose size or mtime has moved since,
\* `todo` the paths a walk has listed and not visited, or the headers still to be
\* extracted, by their kind; `pending` the directories mkdirTracked is to make.
NoJob == [kind |-> "none", identity |-> "kept", todo |-> Nothing,
          members |-> Nothing, stale |-> {}, unarchived |-> "no",
          pending |-> {}, created |-> <<>>]

NoTree == [p \in Paths |-> None]

Job == [kind : {"none", "tree", "link"}, identity : {"kept", "replaced"},
        todo : [Paths -> Kinds], members : [Paths -> {"none", "regular", "other"}],
        stale : SUBSET Paths, unarchived : {"no", "yes"},
        pending : SUBSET Paths, created : Seq(Paths)]

TypeOK ==
    /\ node \in [Paths -> Nodes]
    /\ held \in [Paths -> Nodes]
    /\ \A p \in Paths : node[p] # None => \A q \in Above[p] \ {p} : node[q] = Dir
    /\ entry \in {"none", "partial", "whole"}
    /\ row \in {"none", "tree", "link"}
    /\ stamps \subseteq {"restored", "purged"}
    /\ pc \in {"idle"} \cup DeletePoints \cup UndeletePoints
    /\ job \in Job
    /\ pc = "idle" => job = NoJob
    /\ purger \in {"ready", "stamp"}
    /\ given \in {"no", "yes"}
    /\ late \subseteq Paths \cup {"entry"}
    /\ found \in Nodes
    /\ edits \in Nat

-----------------------------------------------------------------------------
(* Helpers. *)

Fault(kind) == kind \in Faults

Kind(n) == CASE n = Dir -> "dir" [] n \in Targets -> "link" [] OTHER -> "file"

Below(p) == {q \in Paths : p \in Above[q]}
Children(p) == {q \in Paths \ {Root} : Parent[q] = p}
Empty(p) == \A q \in Children(p) : node[q] = None

\* Listed for a walk: each path with the kind it has in a tree.
Listed(S, tree) ==
    [q \in Paths |-> IF q \in S /\ tree[q] # None THEN Kind(tree[q]) ELSE "none"]

Left == {p \in Paths : job.todo[p] # "none"}

\* The walk's next path, or the next header of the tar.
First(p) == p \in Left /\ \A q \in Left : Order[p] <= Order[q]

Visited(p) == [job.todo EXCEPT ![p] = "none"]

\* What remains to be walked once p has been visited: a directory is listed after
\* its own visit.
Descend(p) ==
    LET listing == IF job.todo[p] = "dir" THEN Listed(Children(p), node) ELSE Nothing
    IN  [q \in Paths |-> IF listing[q] # "none" THEN listing[q] ELSE Visited(p)[q]]

\* The paths a removal that stops partway has removed: whole subtrees.
Partly == {gone \in SUBSET Below(Root) : \A p \in gone : Below(p) \subseteq gone}

Without(gone) == [p \in Paths |-> IF p \in gone THEN None ELSE node[p]]

Goto(point) == pc' = point /\ UNCHANGED job

End == pc' = "idle" /\ job' = NoJob /\ late' = {} /\ found' = None

arch == <<entry, held>>
db   == <<row, stamps>>
hist == <<given, late, found>>
rest == <<purger, edits>>

\* The command goes on, or ends, and nothing else changes.
Proceed(point) == Goto(point) /\ UNCHANGED <<node, arch, db, hist, rest>>
Stop == End /\ UNCHANGED <<node, arch, db, given, rest>>

\* A tree or a link; nothing is archived.  A regular root is FileArchive's.
Init ==
    /\ node \in [Paths -> Nodes \ {Torn, Broken}]
    /\ node[Root] \in Targets \cup {Dir}
    /\ \A p \in Paths : node[p] # None => \A q \in Above[p] \ {p} : node[q] = Dir
    /\ held = NoTree
    /\ entry = "none" /\ row = "none" /\ stamps = {}
    /\ pc = "idle" /\ job = NoJob /\ purger = "ready"
    /\ given = "no" /\ late = {} /\ found = None /\ edits = 0

-----------------------------------------------------------------------------
(* delete: archive.Execute. *)

\* archive.NewPlan fixes the kind, for good.
PlanDelete ==
    /\ pc = "idle"
    /\ row = "none" /\ entry = "none"
    /\ node[Root] \in Targets \cup {Dir}
    /\ LET kind == IF node[Root] = Dir THEN "tree" ELSE "link" IN
        /\ pc' = IF kind = "tree" THEN "stat" ELSE "readlink"
        /\ job' = [job EXCEPT !.kind = kind]
    /\ UNCHANGED <<node, arch, db, hist, rest>>

\* archiveSymlink reads the target before the Lstat that gives the identity.
ReadLink ==
    /\ pc = "readlink"
    /\ node[Root] \in Targets
    /\ held' = [NoTree EXCEPT ![Root] = node[Root]]
    /\ Goto("stat")
    /\ UNCHANGED <<node, entry, db, hist, rest>>

\* The root went, or is no link any more.
SourceVanished ==
    /\ \/ pc = "readlink" /\ node[Root] \notin Targets
       \/ pc \in {"stat", "open"} /\ node[Root] = None
    /\ Stop

\* Lstat of a link, and its target written to the .symlink entry.
StatLink ==
    /\ pc = "stat" /\ job.kind = "link"
    /\ node[Root] # None
    /\ entry' = "whole"
    /\ pc' = "insert"
    /\ job' = [job EXCEPT !.identity = "kept"]
    /\ UNCHANGED <<node, held, db, hist, rest>>

\* os.WriteFile fails and leaves what it wrote.
WriteLinkFails ==
    /\ pc = "stat" /\ job.kind = "link"
    /\ Fault("write")
    /\ node[Root] # None
    /\ entry' = "partial"
    /\ End
    /\ UNCHANGED <<node, held, db, given, rest>>

\* archiveDirectory's Lstat.  The walk that adds up the size reads only.
StatTree ==
    /\ pc = "stat" /\ job.kind = "tree"
    /\ node[Root] # None
    /\ pc' = "open"
    /\ job' = [job EXCEPT !.identity = "kept"]
    /\ UNCHANGED <<node, arch, db, hist, rest>>

\* createTarZst creates its file, and WalkDir looks at the root once more.
OpenTar ==
    /\ pc = "open"
    /\ node[Root] # None
    /\ entry' = "partial"
    /\ held' = NoTree
    /\ pc' = "tar"
    /\ job' = [job EXCEPT !.todo = Listed({Root}, node)]
    /\ UNCHANGED <<node, db, hist, rest>>

\* The visit finds what the listing said, or at least something where it said
\* a file: a directory must be listed and a link read.
Visitable(p) ==
    /\ node[p] # None
    /\ job.todo[p] \in {"dir", "link"} => Kind(node[p]) = job.todo[p]

\* A regular file is recorded, with its size and mtime, before it is copied.
VisitRegular(p) ==
    /\ pc = "tar"
    /\ First(p) /\ Visitable(p) /\ node[p] \in Contents
    /\ pc' = "copy"
    /\ job' = [job EXCEPT !.members[p] = "regular", !.stale = @ \ {p}]
    /\ UNCHANGED <<node, arch, db, hist, rest>>

\* Everything else is a header only.  A link that was listed as a file gets the
\* header tar.FileInfoHeader makes of its Lstat, which has no target.
VisitOther(p) ==
    /\ pc = "tar"
    /\ First(p) /\ Visitable(p) /\ node[p] \notin Contents
    /\ held' = [held EXCEPT ![p] =
                    IF job.todo[p] = "file" /\ node[p] # Dir THEN Broken ELSE node[p]]
    /\ job' = [job EXCEPT !.members[p] = "other", !.todo = Descend(p)]
    /\ UNCHANGED <<node, entry, db, pc, hist, rest>>

\* Mutant: the size and mtime are taken after the copy.
CopyMemberThenStat(p) ==
    /\ pc = "copy"
    /\ First(p) /\ node[p] \in Contents
    /\ \E c \in {node[p]} \cup (IF p \in job.stale THEN {Torn} ELSE {}) :
          held' = [held EXCEPT ![p] = c]
    /\ pc' = "tar"
    /\ job' = [job EXCEPT !.todo = Visited(p), !.stale = @ \ {p}]
    /\ UNCHANGED <<node, entry, db, hist, rest>>

\* What was rewritten since the visit may have been copied half old, half new.
CopyMember(p) ==
    /\ pc = "copy"
    /\ First(p) /\ node[p] \in Contents
    /\ \E c \in {node[p]} \cup (IF p \in job.stale THEN {Torn} ELSE {}) :
          held' = [held EXCEPT ![p] = c]
    /\ pc' = "tar"
    /\ job' = [job EXCEPT !.todo = Visited(p)]
    /\ UNCHANGED <<node, entry, db, hist, rest>>

FinishTar ==
    /\ pc = "tar"
    /\ Left = {}
    /\ entry' = "whole"
    /\ Goto("insert")
    /\ UNCHANGED <<node, held, db, hist, rest>>

\* A path vanished or changed kind after it was listed, a file changed its size
\* as it was copied, a write failed: the partial entry is taken back.
TarFails ==
    /\ \/ pc = "tar" /\ \E p \in Paths : First(p) /\ ~Visitable(p)
       \/ pc = "copy" /\ \E p \in job.stale : First(p)
       \/ pc \in {"tar", "copy"} /\ Fault("tar")
    /\ entry' = "none"
    /\ held' = NoTree
    /\ End
    /\ UNCHANGED <<node, db, given, rest>>

InsertRow ==
    /\ pc = "insert"
    /\ row' = job.kind
    /\ Goto("verify")
    /\ UNCHANGED <<node, arch, stamps, hist, rest>>

InsertFails ==
    /\ pc = "insert"
    /\ Fault("insert")
    /\ Proceed("discard")

\* archive.DiscardBlob, after a failed insert and after ErrDirectoryChanged.
DiscardEntry ==
    /\ pc = "discard"
    /\ entry' = "none"
    /\ End
    /\ UNCHANGED <<node, held, db, given, rest>>

DiscardFails ==
    /\ pc = "discard"
    /\ Fault("discard")
    /\ Stop

-----------------------------------------------------------------------------
(* delete: archive.RemoveSource. *)

SourceStands == node[Root] # None /\ job.identity = "kept"

RefuseRemoval ==
    /\ pc = "verify"
    /\ ~SourceStands \/ entry = "none"
    /\ Stop

\* The same root, and an entry: on to what the identity does not cover.
VerifySource ==
    /\ pc = "verify"
    /\ SourceStands /\ entry # "none"
    /\ late' = {}
    /\ pc' = IF job.kind = "link" THEN "reread" ELSE "walk"
    /\ job' = [job EXCEPT !.todo = Listed({Root}, node)]
    /\ UNCHANGED <<node, arch, db, given, found, rest>>

LinkAgrees ==
    /\ pc = "reread"
    /\ node[Root] = held[Root]
    /\ late' = late \ {Root}
    /\ Goto("remove")
    /\ UNCHANGED <<node, arch, db, given, found, rest>>

\* ErrSourceReplaced, or nothing there to read.
LinkDiffers ==
    /\ pc = "reread"
    /\ node[Root] # held[Root]
    /\ Stop

\* The walk cannot stat a file it recorded, or list a directory it found.
Lost(p) == \/ job.members[p] = "regular" /\ node[p] = None
           \/ job.todo[p] = "dir" /\ node[p] # Dir

\* verifyTreeUnchanged's visit: a path the tar does not have, or a regular
\* member whose size or mtime moved.  Other members are not looked at.
VisitAgain(p) ==
    /\ pc = "walk"
    /\ First(p) /\ ~Lost(p)
    /\ late' = late \ {p}
    /\ job' = [job EXCEPT !.todo = Descend(p),
                  !.unarchived = IF job.members[p] = "none" \/ p \in job.stale
                                 THEN "yes" ELSE @]
    /\ UNCHANGED <<node, arch, db, pc, given, found, rest>>

WalkFails ==
    /\ pc = "walk"
    /\ \E p \in Paths : First(p) /\ Lost(p)
    /\ Stop

TreeUnchanged ==
    /\ pc = "walk"
    /\ Left = {} /\ job.unarchived = "no"
    /\ Proceed("remove")

\* ErrDirectoryChanged: the entry does not hold all of the tree.
TreeChanged ==
    /\ pc = "walk"
    /\ Left = {} /\ job.unarchived = "yes"
    /\ Proceed("discard")

\* os.RemoveAll of a tree, os.Remove of a link.
RemoveSource ==
    /\ pc = "remove"
    /\ job.kind = "link" => Empty(Root)
    /\ node' = NoTree
    /\ End
    /\ UNCHANGED <<arch, db, given, rest>>

\* os.RemoveAll may have removed a part of the tree.
RemoveFails ==
    /\ pc = "remove"
    /\ Fault("remove") \/ (job.kind = "link" /\ ~Empty(Root))
    /\ \E gone \in IF job.kind = "link" THEN {{}} ELSE Partly : node' = Without(gone)
    /\ End
    /\ UNCHANGED <<arch, db, given, rest>>

-----------------------------------------------------------------------------
(* undelete, to a destination the root stands for. *)

ResolveRecord ==
    /\ pc = "idle"
    /\ row # "none" /\ stamps = {}
    /\ Proceed("look")

\* An empty directory is a tree's own place, emptied.
Occupied == node[Root] # None /\ ~(row = "tree" /\ node[Root] = Dir /\ Empty(Root))

\* No entry, or --on-conflict abort met an occupied destination.
RefuseRestore ==
    /\ pc = "look"
    /\ entry = "none" \/ Occupied
    /\ Stop

DestinationFree ==
    /\ pc = "look"
    /\ entry # "none" /\ ~Occupied
    /\ late' = {}
    /\ Goto("unpack")
    /\ UNCHANGED <<node, arch, db, given, found, rest>>

DestinationOccupied ==
    /\ pc = "look"
    /\ entry # "none" /\ Occupied
    /\ Proceed("check")

\* VerifyEntry.  Nobody writes into an entry here, so it is fit or gone.
EntryVerified ==
    /\ pc = "check"
    /\ entry = "whole"
    /\ Proceed("clear")

EntryUnfit ==
    /\ pc = "check"
    /\ entry # "whole"
    /\ Stop

\* fx.Remove of the destination and everything under it.
ClearDestination ==
    /\ pc = "clear"
    /\ node' = NoTree
    /\ late' = {}
    /\ Goto("unpack")
    /\ UNCHANGED <<arch, db, given, found, rest>>

ClearFails ==
    /\ pc = "clear"
    /\ Fault("clear")
    /\ \E gone \in Partly : node' = Without(gone)
    /\ End
    /\ UNCHANGED <<arch, db, given, rest>>

\* RestoreSymlink takes the target from the row.
RecreateLink ==
    /\ pc = "unpack" /\ row = "link"
    /\ node[Root] = None
    /\ node' = [node EXCEPT ![Root] = held[Root]]
    /\ Goto("consume")
    /\ UNCHANGED <<arch, db, hist, rest>>

RecreateLinkFails ==
    /\ pc = "unpack" /\ row = "link"
    /\ node[Root] # None
    /\ Stop

OpenEntry ==
    /\ pc = "unpack" /\ row = "tree"
    /\ entry = "whole"
    /\ found' = node[Root]
    /\ pc' = "extract"
    /\ job' = [job EXCEPT !.todo = Listed(Paths, held)]
    /\ UNCHANGED <<node, arch, db, given, late, rest>>

OpenEntryFails ==
    /\ pc = "unpack" /\ row = "tree"
    /\ entry # "whole"
    /\ Stop

\* The directories a header asks for: its path's, and the path itself if it is
\* a directory's header -- or the top one, whatever its type.
IsDirectoryHeader(p) == p = Root \/ job.todo[p] = "dir"

Wanted(p) == IF IsDirectoryHeader(p) THEN Above[p] ELSE Above[p] \ {p}

Blocked(p) == \E q \in Wanted(p) : node[q] \notin {Dir, None}

\* The next header, and mkdirTracked's way up to a directory that is there.
NextHeader(p) ==
    /\ pc = "extract"
    /\ First(p) /\ ~Blocked(p)
    /\ pc' = "make"
    /\ job' = [job EXCEPT !.pending = {q \in Wanted(p) : node[q] = None}]
    /\ UNCHANGED <<node, arch, db, hist, rest>>

\* And its way down again.
Topmost(q) == q \in job.pending /\ Above[q] \cap job.pending = {q}

Orphaned(q) == q # Root /\ node[Parent[q]] # Dir

\* Mutant: a directory that was made is not remembered.
MakeDirUntracked(q) ==
    /\ pc = "make"
    /\ Topmost(q) /\ ~Orphaned(q) /\ node[q] = None
    /\ node' = [node EXCEPT ![q] = Dir]
    /\ job' = [job EXCEPT !.pending = @ \ {q}]
    /\ UNCHANGED <<arch, db, pc, hist, rest>>

MakeDir(q) ==
    /\ pc = "make"
    /\ Topmost(q) /\ ~Orphaned(q) /\ node[q] = None
    /\ node' = [node EXCEPT ![q] = Dir]
    /\ job' = [job EXCEPT !.pending = @ \ {q}, !.created = Append(@, q)]
    /\ UNCHANGED <<arch, db, pc, hist, rest>>

\* Somebody else has made it meanwhile, or put something else there.
DirExists(q) ==
    /\ pc = "make"
    /\ Topmost(q) /\ ~Orphaned(q) /\ node[q] # None
    /\ job' = [job EXCEPT !.pending = @ \ {q}]
    /\ UNCHANGED <<node, arch, db, pc, hist, rest>>

\* Its directories are there: what the header itself is about.
Ready(p) == pc = "make" /\ job.pending = {} /\ First(p)

EndDirectory(p) ==
    /\ Ready(p) /\ IsDirectoryHeader(p)
    /\ pc' = "extract"
    /\ job' = [job EXCEPT !.todo = Visited(p)]
    /\ UNCHANGED <<node, arch, db, hist, rest>>

\* What a link or a file is made at, or not: os.Symlink never replaces what is
\* there, O_CREATE|O_TRUNC writes a file that is, or through a link.
Writable(p) ==
    /\ ~Orphaned(p)
    /\ IF job.todo[p] = "link" THEN node[p] = None /\ held[p] # Broken ELSE node[p] # Dir

Write(p, n) ==
    /\ Ready(p) /\ ~IsDirectoryHeader(p) /\ Writable(p)
    /\ node' = [node EXCEPT ![p] = IF @ \in Targets THEN @ ELSE n]

\* Mutant: a member that cannot be written is skipped.
ExtractSkips ==
    /\ \E p \in Paths : First(p) /\ job' = [job EXCEPT !.todo = Visited(p), !.pending = {}]
    /\ \/ pc = "extract" /\ \E p \in Paths : First(p) /\ Blocked(p)
       \/ pc = "make" /\ \E q \in Paths : Topmost(q) /\ Orphaned(q)
       \/ \E p \in Paths : Ready(p) /\ ~IsDirectoryHeader(p) /\ ~Writable(p)
       \/ pc \in {"extract", "make"} /\ Fault("extract")
    /\ pc' = "extract"
    /\ UNCHANGED <<node, arch, db, hist, rest>>

WriteMember(p) ==
    /\ Write(p, held[p])
    /\ pc' = "extract"
    /\ job' = [job EXCEPT !.todo = Visited(p), !.created = Append(@, p)]
    /\ UNCHANGED <<arch, db, hist, rest>>

\* extractTree goes on to the rollback, which has nothing to do if nothing was
\* created: something stands where a directory should, one is gone again, a member
\* cannot be written, or a call fails.
ExtractFails ==
    /\ \/ pc = "extract" /\ \E p \in Paths : First(p) /\ Blocked(p)
       \/ pc = "make" /\ \E q \in Paths : Topmost(q) /\ Orphaned(q)
       \/ \E p \in Paths : Ready(p) /\ ~IsDirectoryHeader(p) /\ ~Writable(p)
       \/ pc \in {"extract", "make"} /\ Fault("extract")
    /\ pc' = "rollback"
    /\ UNCHANGED <<node, arch, db, job, hist, rest>>

\* The copy of a file stops partway.
WriteFails(p) ==
    /\ Fault("extract")
    /\ job.todo[p] = "file" /\ Write(p, Torn)
    /\ pc' = "rollback"
    /\ job' = [job EXCEPT !.created = Append(@, p)]
    /\ UNCHANGED <<arch, db, hist, rest>>

FinishExtract ==
    /\ pc = "extract"
    /\ Left = {}
    /\ Proceed("consume")

Newest == job.created[Len(job.created)]
Older  == SubSeq(job.created, 1, Len(job.created) - 1)

\* Mutant: the rollback removes what a created directory holds as well.
RollbackAll ==
    /\ pc = "rollback"
    /\ job.created # <<>>
    /\ node' = Without(Below(Newest))
    /\ job' = [job EXCEPT !.created = Older]
    /\ UNCHANGED <<arch, db, pc, hist, rest>>

\* RollbackExtraction, newest first.  os.Remove does not remove a directory that
\* holds something, and whatever stands at a created path now counts as created.
Rollback ==
    /\ pc = "rollback"
    /\ job.created # <<>>
    /\ node' = IF node[Newest] = Dir /\ ~Empty(Newest) THEN node ELSE Without({Newest})
    /\ job' = [job EXCEPT !.created = Older]
    /\ UNCHANGED <<arch, db, pc, hist, rest>>

\* Mutant: the job is not done with.
FinishRollbackKeeping ==
    /\ pc = "rollback"
    /\ job.created = <<>>
    /\ pc' = "idle" /\ late' = {} /\ found' = None
    /\ UNCHANGED <<node, arch, db, job, given, rest>>

FinishRollback ==
    /\ pc = "rollback"
    /\ job.created = <<>>
    /\ Stop

ConsumeEntry ==
    /\ pc = "consume"
    /\ entry # "none"
    /\ entry' = "none"
    /\ given' = "yes"
    /\ Goto("mark")
    /\ UNCHANGED <<node, held, db, late, found, rest>>

\* Mutant: the error of the removal is dropped.
ConsumeFailsUnnoticed ==
    /\ pc = "consume"
    /\ entry = "none" \/ Fault("consume")
    /\ Proceed("mark")

\* The destination is whole and the undelete reports a failure.
ConsumeFails ==
    /\ pc = "consume"
    /\ entry = "none" \/ Fault("consume")
    /\ Stop

MarkRestored ==
    /\ pc = "mark"
    /\ stamps' = stamps \cup {"restored"}
    /\ End
    /\ UNCHANGED <<node, arch, row, given, rest>>

MarkRestoredFails ==
    /\ pc = "mark"
    /\ Fault("mark")
    /\ Stop

-----------------------------------------------------------------------------
(* purge, and users. *)

\* Points at which a delete or an undelete relies on what it has seen.
Watching == {"reread", "walk", "remove", "unpack", "extract", "make", "rollback", "consume"}

Behind(changes) == late' = IF pc \in Watching THEN late \cup changes ELSE late

\* A removal that fails is only warned about.
PurgeEntry ==
    /\ purger = "ready"
    /\ row # "none" /\ "purged" \notin stamps
    /\ entry' \in {"none"} \cup (IF Fault("purge") THEN {entry} ELSE {})
    /\ Behind({"entry"})
    /\ purger' = "stamp"
    /\ UNCHANGED <<node, held, db, pc, job, given, found, edits>>

MarkPurged ==
    /\ purger = "stamp"
    /\ stamps' = stamps \cup {"purged"}
    /\ purger' = "ready"
    /\ UNCHANGED <<node, arch, row, pc, job, hist, edits>>

MarkPurgedFails ==
    /\ purger = "stamp"
    /\ Fault("mark")
    /\ purger' = "ready"
    /\ UNCHANGED <<node, arch, db, pc, job, hist, edits>>

\* A user puts n at p: writes, creates, retargets, replaces or removes.  A write
\* moves a size or an mtime; a new root may get the old one's inode number.
Edit(p, n) ==
    /\ edits < MaxEdits
    /\ p # Root => node[Parent[p]] = Dir
    /\ n # node[p]
    /\ node' = [Without(Below(p)) EXCEPT ![p] = n]
    /\ LET changed == {q \in Paths : node'[q] # node[q]} IN
        /\ Behind(changed)
        /\ \E identity \in IF p = Root /\ n # None /\ pc \in DeletePoints
                            THEN {job.identity, "replaced"}
                            ELSE {job.identity} :
             job' = [job EXCEPT !.identity = identity,
                        !.stale = @ \cup {q \in changed : job.members[q] = "regular"}]
    /\ edits' = edits + 1
    /\ UNCHANGED <<arch, db, pc, given, found, purger>>

User == \E p \in Paths, n \in Nodes \ {Torn, Broken} : Edit(p, n)

-----------------------------------------------------------------------------

Delete ==
    \/ PlanDelete \/ ReadLink \/ SourceVanished \/ StatLink \/ WriteLinkFails
    \/ StatTree \/ OpenTar \/ FinishTar \/ TarFails
    \/ \E p \in Paths : VisitRegular(p) \/ VisitOther(p) \/ CopyMember(p) \/ VisitAgain(p)
    \/ InsertRow \/ InsertFails \/ DiscardEntry \/ DiscardFails
    \/ RefuseRemoval \/ VerifySource \/ LinkAgrees \/ LinkDiffers
    \/ WalkFails \/ TreeUnchanged \/ TreeChanged
    \/ RemoveSource \/ RemoveFails

Undelete ==
    \/ ResolveRecord \/ RefuseRestore \/ DestinationFree \/ DestinationOccupied
    \/ EntryVerified \/ EntryUnfit \/ ClearDestination \/ ClearFails
    \/ RecreateLink \/ RecreateLinkFails \/ OpenEntry \/ OpenEntryFails
    \/ \E p \in Paths : NextHeader(p) \/ MakeDir(p) \/ DirExists(p) \/ EndDirectory(p)
                           \/ WriteMember(p) \/ WriteFails(p)
    \/ ExtractFails \/ FinishExtract
    \/ Rollback \/ FinishRollback \/ ConsumeEntry \/ ConsumeFails
    \/ MarkRestored \/ MarkRestoredFails

Purge == PurgeEntry \/ MarkPurged \/ MarkPurgedFails

Next == Delete \/ Undelete \/ Purge \/ User

Spec == Init /\ [][Next]_vars

-----------------------------------------------------------------------------
(* What the commands promise. *)

\* The last look is over: what was changed since is `late`.
Covered(paths) ==
    /\ entry = "whole" \/ "entry" \in late
    /\ \A p \in paths \ late : node[p] # None => held[p] = node[p]

\* The removal destroys no regular file, no path the archiving walk never saw and
\* no lone link of which the entry holds no copy, except what came or changed
\* after the verification had looked at it.
FilesCovered ==
    pc = "remove" => Covered({p \in Paths : job.members[p] # "other"})

\* The same of everything under the root: verifyTreeUnchanged "reports whether the
\* tree still holds only what the tar holds".
TreeCovered == pc = "remove" => Covered(Paths \ {Root})

\* An undelete consumes the entry only once the destination is what the entry
\* holds, path by path, except what others changed meanwhile.  The top of a tree
\* is a directory, whatever was found there.
RestoredIsWhole ==
    pc = "consume" =>
        \A p \in Paths \ late :
            node[p] = IF p = Root /\ row = "tree" THEN Dir ELSE held[p]

\* A failed extraction leaves the destination as it found it, except what others
\* changed there and the directories that lead to it.
RollbackIsExact ==
    [][pc = "rollback" /\ pc' = "idle" =>
        \A p \in Paths \ late :
            \/ node[p] = IF p = Root THEN found ELSE None
            \/ node[p] = Dir /\ Below(p) \cap late # {}]_vars

\* No extraction and no rollback touches a path the entry does not hold.
ForeignSurvives ==
    [][edits' = edits /\ pc \in {"extract", "make", "rollback"} =>
        \A p \in Paths : node[p] = node'[p] \/ held[p] # None]_vars

\* Trees and links implement the abstract record as files do.
One(condition) == IF condition THEN {"record"} ELSE {}

Record == INSTANCE ArchiveRecord WITH
    Uuids    <- {"record"},
    recorded <- One(row # "none"),
    held     <- One(row # "none" /\ entry # "none"),
    given    <- One(given = "yes"),
    restored <- One("restored" \in stamps),
    purged   <- One("purged" \in stamps)

KeepsRecord == Record!Spec

=============================================================================
