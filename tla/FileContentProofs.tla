---------------------------- MODULE FileContentProofs ----------------------------
(* What the archive holds is what the rows and the deletes take it for.  The     *)
(* entries that are copies keep their bytes; and with the three windows the code *)
(* leaves open taken as instants, a delete removes only what the archive has,    *)
(* whatever else interleaves, fails, crashes or is edited.                       *)
EXTENDS FileArchiveProofs

\* The windows: between hash and Lstat, during the re-hash, and between the
\* verification and the removal.
WindowsClosed == {"stat", "rehash", "unlink"} \subseteq Shut

\* The kernel refuses every hard link, so every entry is a copy.
CopiesOnly == Linkable = {}

-----------------------------------------------------------------------------
(* What a delete may rely on at each of its calls. *)

\* No name and no other entry leads to u's entry: nobody can write into it.
Private(u) == /\ \A a \in Paths : name[a] # entry[u]
              /\ \A v \in Uuids : v # u => entry[v] # entry[u]

\* p made its entry by copying, and it is still there.
Copied(p) == /\ pc[p] \in {"compare", "insert", "verify", "rehash", "unlink"}
             /\ job[p].linked = FALSE
             /\ Entry(p) # None

Relies(p) ==
    /\ pc[p] = "stat" => Source(p) # None /\ data[Source(p)] = job[p].hash
    /\ pc[p] \in {"link", "compare", "insert", "verify"} /\ p \notin touched
         => job[p].ident \in Inodes /\ data[job[p].ident] = job[p].hash
    /\ pc[p] \in {"hash", "stat", "link"} => job[p].linked = FALSE
    /\ Copied(p) => Private(Uuid(p)) /\ (pc[p] # "compare" => data[Entry(p)] = job[p].hash)
    /\ pc[p] \in {"verify", "rehash", "unlink"} => row[Uuid(p)] = job[p].hash
    /\ pc[p] \in {"rehash", "unlink"} => SameFile(p) /\ EntryStands(p)
    /\ pc[p] = "unlink" => data[Source(p)] = job[p].hash

AllRely == \A p \in Procs : Relies(p)

LEMMA CoveredWhenRelied == TypeInv /\ AllRely => RemovalCovered
<1> SUFFICES ASSUME TypeInv, AllRely, NEW p \in Procs, pc[p] = "unlink"
             PROVE  /\ SameFile(p) /\ Entry(p) # None
                    /\ data[Entry(p)] = data[Source(p)] /\ data[Entry(p)] = row[Uuid(p)]
  BY DEF RemovalCovered
<1>1. SameFile(p) /\ EntryStands(p) /\ data[Source(p)] = job[p].hash /\ row[Uuid(p)] = job[p].hash
  BY DEF AllRely, Relies
<1>2. CASE job[p].linked = FALSE
  BY <1>1, <1>2 DEF AllRely, Relies, Copied, EntryStands
<1>3. CASE job[p].linked # FALSE
  <2>1. job[p].linked = TRUE
    BY <1>3 DEF TypeInv, TypeOK, Job
  <2>2. QED
    BY <1>1, <2>1 DEF EntryStands
<1>4. QED
  BY <1>2, <1>3

-----------------------------------------------------------------------------
(* What the steps of others leave alone.                                       *)

\* A step of the processes S: whoever remembers a file that was written knows; a
\* private entry stays what it is or goes; a row stays, and so does its lack of an
\* entry.
Frame(S) ==
    /\ \A i \in Inodes, p \in Procs \ S :
          data'[i] # data[i] /\ job[p].ident = i => p \in touched'
    /\ touched \ S \subseteq touched'
    /\ \A u \in Uuids : entry[u] # None /\ entry'[u] # None /\ Private(u) =>
          entry'[u] = entry[u] /\ Private(u)' /\ data'[entry[u]] = data[entry[u]]
    /\ \A u \in Uuids : row[u] # None =>
          row'[u] = row[u] /\ (entry[u] = None => entry'[u] = None)

\* A process that takes no step, and is in none of the windows, relies on what it
\* relied on.
LEMMA OthersRely ==
    ASSUME TypeInv, OwnInv, NEW S, NEW p \in Procs \ S, Frame(S), Relies(p),
           pc[p] \notin {"stat", "rehash", "unlink"}, pc'[p] = pc[p], job'[p] = job[p]
    PROVE  Relies(p)'
<1> USE DEF TypeInv, TypeOK, JobsFit, DeletePoints, UndeletePoints, Uuid, Path, Source, Entry
<1>1. pc[p] \in {"link", "compare", "insert", "verify"} /\ p \notin touched'
        => job[p].ident \in Inodes /\ data'[job[p].ident] = job[p].hash
  BY DEF Frame, Relies
<1>2. ASSUME Copied(p)'
      PROVE  Private(Uuid(p))' /\ (pc[p] # "compare" => data'[entry'[Uuid(p)]] = job[p].hash)
  <2>1. pc[p] \in {"compare", "insert", "verify"} /\ job[p].linked = FALSE /\ entry'[Uuid(p)] # None
    BY <1>2 DEF Copied
  <2>2. Uuid(p) \in Uuids
    BY <2>1
  <2>3. entry[Uuid(p)] # None
    BY <2>1, <2>2 DEF Frame, OwnInv, RowsFit, EntriesFit, UsingRow
  <2>4. Private(Uuid(p)) /\ (pc[p] # "compare" => data[Entry(p)] = job[p].hash)
    BY <2>1, <2>3 DEF Relies, Copied
  <2>5. entry'[Uuid(p)] = entry[Uuid(p)] /\ data'[entry[Uuid(p)]] = data[entry[Uuid(p)]]
    BY <2>1, <2>2, <2>3, <2>4 DEF Frame
  <2>6. \A u \in Uuids : u = Uuid(p) => Private(u)'
    BY <2>1, <2>3, <2>4 DEF Frame
  <2>7. Uuid(p)' = Uuid(p)
    OBVIOUS
  <2>8. Private(Uuid(p))'
    BY <2>2, <2>6, <2>7 DEF Private
  <2>9. QED
    BY <2>4, <2>5, <2>8
<1>3. pc[p] = "verify" => row'[Uuid(p)] = job[p].hash
  BY NoneIsNothing DEF Frame, Relies, OwnInv, RowsFit, UsingRow
<1>4. QED
  BY <1>1, <1>2, <1>3 DEF Relies

-----------------------------------------------------------------------------
(* Every step respects the frame.                                              *)

\* A step that makes no new name of a file and writes none.
LEMMA FrameOfTaking ==
    ASSUME NEW S, UNCHANGED <<data, row>>, touched \ S \subseteq touched',
           \A u \in Uuids : entry'[u] = None \/ entry'[u] = entry[u],
           \A a \in Paths : name'[a] = None \/ \E b \in Paths : name'[a] = name[b]
    PROVE  Frame(S)
BY DEF Frame, Private

\* A step that lays content down in file i, names it a, and tells whoever
\* remembers i.  Nobody's private entry is i.
LEMMA FrameOfWriting ==
    ASSUME TypeInv, NEW S, NEW i \in Inodes, NEW c, data' = [data EXCEPT ![i] = c],
           UNCHANGED <<row, entry>>, TouchedBy(i) \subseteq touched',
           \A u \in Uuids : Private(u) => entry[u] # i,
           \A a \in Paths : name'[a] = i \/ name'[a] = name[a]
    PROVE  Frame(S)
BY DEF Frame, Private, TypeInv, TypeOK, TouchedBy

\* A step that gives u, which has neither row nor entry, a first entry: an
\* existing file, or a new one.
LEMMA FrameOfMaking ==
    ASSUME TypeInv, NEW S, NEW u \in Uuids, NEW i \in Inodes, NEW c, row[u] = None, entry[u] = None,
           entry' = [entry EXCEPT ![u] = i], UNCHANGED <<row, name>>,
           \/ data' = data /\ touched' = touched /\ \E a \in Paths : name[a] = i
           \/ /\ i \in FreeInodes /\ data' = [data EXCEPT ![i] = c]
              /\ TouchedBy(i) \ S \subseteq touched'
    PROVE  Frame(S)
<1> USE DEF TypeInv, TypeOK
<1>1. /\ \A j \in Inodes, p \in Procs \ S : data'[j] # data[j] /\ job[p].ident = j => p \in touched'
      /\ touched \ S \subseteq touched'
  BY DEF TouchedBy
<1>2. ASSUME NEW v \in Uuids, entry[v] # None, Private(v)
      PROVE  entry'[v] = entry[v] /\ Private(v)' /\ data'[entry[v]] = data[entry[v]]
  <2>1. v # u /\ entry'[v] = entry[v] /\ i # entry[v]
    BY <1>2 DEF Private, FreeInodes
  <2>2. entry[v] \in Inodes /\ data'[entry[v]] = data[entry[v]]
    BY <1>2, <2>1 DEF OrNone
  <2>3. QED
    BY <1>2, <2>1, <2>2 DEF Private
<1>3. QED
  BY <1>1, <1>2 DEF Frame

LEMMA StepFrame ==
    ASSUME TypeInv, OwnInv, NEW p \in Procs, StepOf(p)
    PROVE  Frame({p})
<1> USE NoneIsNothing DEF TypeInv, TypeOK, JobsFit, DeletePoints, UndeletePoints, Hashed, OwnInv, RowsFit,
        EntriesFit, Making, UsingRow, OrNone, Uuid, Path, Source, Entry, fs, db
<1>1. CASE GiveUp(p) \/ HashSource(p) \/ StatSource(p)
  BY <1>1, FrameOfTaking DEF GiveUp, HashSource, StatSource, End
<1>2. CASE CopyMatches(p) \/ InsertFails(p) \/ VerifyByStat(p) \/ RehashAgrees(p) \/ RehashDiscards(p)
  BY <1>2, FrameOfTaking DEF CopyMatches, InsertFails, VerifyByStat, RehashAgrees, RehashDiscards, Goto
<1>3. CASE CopyDiffers(p) \/ DiscardEntry(p)
  BY <1>3, FrameOfTaking DEF CopyDiffers, DiscardEntry, End
<1>4. CASE DestinationFree(p) \/ DestinationOccupied(p) \/ EntryVerified(p)
  BY <1>4, FrameOfTaking DEF DestinationFree, DestinationOccupied, EntryVerified, Goto
<1>5. CASE UnlinkSource(p) \/ ClearDestination(p) \/ CopyOutFails(p)
  BY <1>5, FrameOfTaking DEF UnlinkSource, ClearDestination, CopyOutFails, Goto, End
<1>6. CASE ConsumeEntry(p)
  BY <1>6, FrameOfTaking DEF ConsumeEntry, Goto
<1>7. CASE MarkRestored(p) \/ MarkPurged(p) \/ MarkPurgedFails(p)
  BY <1>7, FrameOfTaking DEF MarkRestored, MarkPurged, MarkPurgedFails, Goto, End
<1>8. CASE InsertRow(p)
  BY <1>8 DEF InsertRow, Goto, Frame, Private
<1>9. CASE LinkEntry(p)
  <2>1. /\ Uuid(p) \in Uuids /\ Source(p) \in Inodes /\ row[Uuid(p)] = None /\ entry[Uuid(p)] = None
        /\ \E a \in Paths : name[a] = Source(p)
    BY <1>9 DEF LinkEntry
  <2>2. QED
    BY <1>9, <2>1, FrameOfMaking DEF LinkEntry
<1>10. CASE CopyEntry(p) \/ CopyEntryFails(p)
  <2>1. /\ Uuid(p) \in Uuids /\ row[Uuid(p)] = None /\ entry[Uuid(p)] = None
        /\ UNCHANGED <<row, name>>
    BY <1>10 DEF CopyEntry, CopyEntryFails
  <2>2. PICK i \in FreeInodes : /\ entry' = [entry EXCEPT ![Uuid(p)] = i]
                                /\ \/ data' = [data EXCEPT ![i] = data[Source(p)]]
                                   \/ data' = [data EXCEPT ![i] = Torn]
                                /\ TouchedBy(i) \ {p} \subseteq touched'
    BY <1>10 DEF CopyEntry, CopyEntryFails
  <2>3. i \in Inodes
    BY DEF FreeInodes
  <2>4. QED
    BY <2>1, <2>2, <2>3, FrameOfMaking
<1>11. CASE MoveOut(p)
  <2>1. /\ Uuid(p) \in Uuids /\ Path(p) \in Paths /\ UNCHANGED <<data, row, touched>>
        /\ name' = [name EXCEPT ![Path(p)] = Entry(p)]
        /\ entry' = IF Source(p) = Entry(p) THEN entry ELSE [entry EXCEPT ![Uuid(p)] = None]
    BY <1>11 DEF MoveOut, Goto
  <2>2. ASSUME NEW u \in Uuids, entry[u] # None, entry'[u] # None, Private(u)
        PROVE  entry'[u] = entry[u] /\ Private(u)'
    <3>1. entry'[u] = entry[u] /\ u # Uuid(p)
      BY <2>1, <2>2 DEF Private
    <3>2. Entry(p) # entry[u]
      BY <2>1, <2>2, <3>1 DEF Private
    <3>3. QED
      BY <2>1, <2>2, <3>1, <3>2 DEF Private
  <2>3. QED
    BY <2>1, <2>2 DEF Frame
<1>12. CASE CopyOut(p)
  <2>1. PICK i \in IF Source(p) # None THEN {Source(p)} ELSE FreeInodes :
            /\ name' = [name EXCEPT ![Path(p)] = i]
            /\ data' = [data EXCEPT ![i] = data[Entry(p)]]
            /\ touched' = TouchedBy(i)
    BY <1>12 DEF CopyOut
  <2>2. /\ Path(p) \in Paths /\ i \in Inodes /\ \A u \in Uuids : Private(u) => entry[u] # i
        /\ UNCHANGED <<row, entry>>
    BY <1>12, <2>1 DEF CopyOut, FreeInodes, Private
  <2>3. QED
    BY <2>1, <2>2, FrameOfWriting
<1>13. QED
  BY <1>1, <1>2, <1>3, <1>4, <1>5, <1>6, <1>7, <1>8, <1>9, <1>10, <1>11, <1>12 DEF StepOf

LEMMA StartFrame ==
    ASSUME TypeInv, NEW p \in Procs,
           \/ \E a \in Paths, u \in Uuids : PlanDelete(p, a, u) \/ ResolveRecord(p, u, a)
           \/ \E selected \in SUBSET Uuids : SelectPurge(p, selected)
           \/ \E u \in Uuids : PurgeEntry(p, u)
    PROVE  Frame({p})
<1>1. \A u \in Uuids : entry'[u] = None \/ entry'[u] = entry[u]
  BY DEF PlanDelete, ResolveRecord, SelectPurge, PurgeEntry, fs, TypeInv, TypeOK
<1>2. UNCHANGED <<name, data, row, touched>>
  BY DEF PlanDelete, ResolveRecord, SelectPurge, PurgeEntry, fs, db
<1>3. QED
  BY <1>1, <1>2, FrameOfTaking

LEMMA UserFrame ==
    ASSUME TypeInv, User
    PROVE  Frame({})
<1>1. ASSUME NEW a \in Paths, NEW c \in Contents, WriteThrough(a, c) PROVE Frame({})
  <2>1. PICK i \in Inodes : i = name[a]
    BY <1>1 DEF WriteThrough, TypeInv, TypeOK, OrNone
  <2>2. /\ \A u \in Uuids : Private(u) => entry[u] # i
        /\ data' = [data EXCEPT ![i] = c]
        /\ touched' = TouchedBy(i)
        /\ UNCHANGED <<name, row, entry>>
    BY <1>1, <2>1 DEF WriteThrough, Private, db
  <2>3. QED
    BY <2>1, <2>2, FrameOfWriting
<1>2. ASSUME NEW a \in Paths, NEW c \in Contents, CreateFile(a, c) PROVE Frame({})
  <2>1. PICK i \in Inodes : /\ \A u \in Uuids : entry[u] # i
                            /\ name' = [name EXCEPT ![a] = i]
                            /\ data' = [data EXCEPT ![i] = c]
                            /\ touched' = TouchedBy(i)
    BY <1>2 DEF CreateFile
  <2>2. QED
    BY <1>2, <2>1, FrameOfWriting DEF CreateFile, TypeInv, TypeOK, db
<1>3. ASSUME NEW a \in Paths, NEW b \in Paths, RemoveFile(a) \/ RenameFile(a, b) PROVE Frame({})
  BY <1>3, FrameOfTaking DEF RemoveFile, RenameFile, procs, db, TypeInv, TypeOK
<1>4. QED
  BY <1>1, <1>2, <1>3 DEF User

-----------------------------------------------------------------------------
(* What a process comes to rely on by its own steps.                           *)

\* Where nothing is removed and nothing is made, nothing is relied on.
LEMMA NothingRelied ==
    ASSUME NEW p \in Procs,
           pc'[p] \notin {"hash", "stat", "link", "compare", "insert", "verify", "rehash", "unlink"}
    PROVE  Relies(p)'
BY DEF Relies, Copied

\* A process that moves on with everything as it was.
LEMMA MovesOn ==
    ASSUME TypeInv, NEW p \in Procs, Relies(p), UNCHANGED <<name, entry, data, job, touched>>,
           \/ pc[p] = "compare" /\ pc'[p] = "insert" /\ data[Entry(p)] = job[p].hash
           \/ pc[p] = "insert" /\ pc'[p] = "verify" /\ row'[Uuid(p)] = job[p].hash
           \/ /\ pc[p] = "verify" /\ SameFile(p) /\ EntryStands(p) /\ UNCHANGED row
              /\ pc'[p] = IF p \in touched THEN "rehash" ELSE "unlink"
           \/ pc[p] = "rehash" /\ pc'[p] = "unlink" /\ data[Source(p)] = job[p].hash /\ UNCHANGED row
    PROVE  Relies(p)'
BY DEF Relies, Copied, Private, SameFile, EntryStands, Source, Entry, Uuid

LEMMA StepRelies ==
    ASSUME TypeInv, OwnInv, NEW p \in Procs, StepOf(p), Relies(p)
    PROVE  Relies(p)'
<1> USE NoneIsNothing DEF TypeInv, TypeOK, JobsFit, DeletePoints, UndeletePoints, Hashed, OwnInv, RowsFit,
        EntriesFit, Making, UsingRow, OrNone, Uuid, Path, Source, Entry, fs, db
<1>1. CASE GiveUp(p) \/ CopyDiffers(p) \/ DiscardEntry(p) \/ UnlinkSource(p) \/ CopyOutFails(p) \/ MarkRestored(p)
  BY <1>1, NothingRelied DEF GiveUp, CopyDiffers, DiscardEntry, UnlinkSource, CopyOutFails, MarkRestored, End
<1>2. CASE InsertFails(p) \/ RehashDiscards(p)
  BY <1>2, NothingRelied DEF InsertFails, RehashDiscards, Goto
<1>3. CASE DestinationFree(p) \/ DestinationOccupied(p) \/ EntryVerified(p) \/ ClearDestination(p)
  BY <1>3, NothingRelied DEF DestinationFree, DestinationOccupied, EntryVerified, ClearDestination, Goto
<1>4. CASE MoveOut(p) \/ CopyOut(p) \/ ConsumeEntry(p) \/ MarkPurged(p) \/ MarkPurgedFails(p) \/ CopyEntryFails(p)
  <2>1. pc'[p] \in {"mark", "consume", "remove", "idle"}
    <3>1. \E point \in {"mark", "consume", "remove", "idle"} : pc' = [pc EXCEPT ![p] = point]
      BY <1>4 DEF MoveOut, CopyOut, ConsumeEntry, MarkPurged, MarkPurgedFails, CopyEntryFails, Goto
    <3>2. QED
      BY <3>1
  <2>2. QED
    BY <2>1, NothingRelied
<1>5. CASE HashSource(p)
  BY <1>5 DEF HashSource, Relies, Copied
<1>6. CASE StatSource(p)
  BY <1>6 DEF StatSource, Relies, Copied
<1>7. CASE LinkEntry(p)
  BY <1>7 DEF LinkEntry, Relies, Copied
<1>8. CASE CopyEntry(p)
  <2>1. PICK i \in FreeInodes : /\ entry' = [entry EXCEPT ![Uuid(p)] = i]
                                /\ data' = [data EXCEPT ![i] = data[Source(p)]]
                                /\ touched' = TouchedBy(i)
    BY <1>8 DEF CopyEntry
  <2>2. /\ pc[p] = "link" /\ pc'[p] = "compare" /\ job' = job /\ name' = name
        /\ Uuid(p) \in Uuids /\ job[p].linked = FALSE
    BY <1>8 DEF CopyEntry, Relies
  <2>3. Private(Uuid(p))'
    BY <2>1, <2>2 DEF Private, FreeInodes
  <2>4. p \notin touched' => job[p].ident \in Inodes /\ data'[job[p].ident] = job[p].hash
    BY <2>1, <2>2 DEF TouchedBy, Relies
  <2>5. QED
    BY <2>2, <2>3, <2>4 DEF Relies, Copied
<1>9. CASE CopyMatches(p)
  BY <1>9, MovesOn DEF CopyMatches, Goto
<1>10. CASE InsertRow(p)
  BY <1>10, MovesOn DEF InsertRow, Goto
<1>11. CASE VerifyByStat(p)
  BY <1>11, MovesOn DEF VerifyByStat, Goto
<1>12. CASE RehashAgrees(p)
  BY <1>12, MovesOn DEF RehashAgrees, Goto
<1>13. QED
  BY <1>1, <1>2, <1>3, <1>4, <1>5, <1>6, <1>7, <1>8, <1>9, <1>10, <1>11, <1>12 DEF StepOf

LEMMA StartRelies ==
    ASSUME TypeInv, NEW p \in Procs,
           \/ \E a \in Paths, u \in Uuids : PlanDelete(p, a, u) \/ ResolveRecord(p, u, a)
           \/ \E selected \in SUBSET Uuids : SelectPurge(p, selected)
           \/ \E u \in Uuids : PurgeEntry(p, u)
    PROVE  Relies(p)'
<1>1. pc'[p] \in {"entry", "remove", "stamp"} \/ (pc'[p] = "hash" /\ job'[p].linked = FALSE)
  BY DEF PlanDelete, ResolveRecord, SelectPurge, PurgeEntry, NoJob, TypeInv, TypeOK
<1>2. CASE pc'[p] = "hash" /\ job'[p].linked = FALSE
  BY <1>2 DEF Relies, Copied
<1>3. QED
  BY <1>1, <1>2, NothingRelied

-----------------------------------------------------------------------------
(* The removal. *)

LEMMA NextAllRely ==
    ASSUME TypeInv, OwnInv, AllRely, WindowsClosed, [Next]_vars
    PROVE  AllRely'
<1>1. ASSUME NEW p \in Procs, Clear(p),
             \/ StepOf(p)
             \/ \E a \in Paths, u \in Uuids : PlanDelete(p, a, u) \/ ResolveRecord(p, u, a)
             \/ \E selected \in SUBSET Uuids : SelectPurge(p, selected)
             \/ \E u \in Uuids : PurgeEntry(p, u)
      PROVE  AllRely'
  <2>1. Frame({p}) /\ Relies(p)'
    BY <1>1, StepFrame, StartFrame, StepRelies, StartRelies DEF AllRely
  <2>2. \A q \in Procs \ {p} : pc'[q] = pc[q] /\ job'[q] = job[q]
    BY <1>1, OthersStay
  <2>3. ASSUME NEW q \in Procs \ {p} PROVE Relies(q)'
    <3>1. pc[q] \notin {"stat", "rehash", "unlink"}
      BY <1>1 DEF Clear, WindowsClosed
    <3>2. QED
      BY <2>1, <2>2, <3>1, OthersRely DEF AllRely
  <2>4. QED
    BY <2>1, <2>3 DEF AllRely
<1>2. CASE User
  <2>1. UNCHANGED <<pc, job>>
    BY <1>2 DEF User, WriteThrough, CreateFile, RemoveFile, RenameFile, procs
  <2>2. ASSUME NEW q \in Procs PROVE Relies(q)'
    <3>1. pc[q] \notin {"stat", "rehash", "unlink"}
      BY <1>2 DEF User, Quiet, WindowsClosed
    <3>2. Frame({}) /\ Relies(q) /\ q \in Procs \ {}
      BY <1>2, UserFrame DEF AllRely
    <3>3. QED
      BY <2>1, <3>1, <3>2, OthersRely
  <2>3. QED
    BY <2>2 DEF AllRely
<1>3. CASE UNCHANGED vars
  BY <1>3 DEF vars, AllRely, Relies, Copied, Private, SameFile, EntryStands, Source, Entry, Uuid
<1>4. QED
  BY StepCases, <1>1, <1>2, <1>3

\* With the three windows taken as instants, a delete removes a source only
\* while the archive holds its bytes under a row that says so, however the
\* commands interleave, fail and crash and whatever users do to the paths.
THEOREM RemovalIsCovered ==
    ASSUME WindowsClosed
    PROVE  Spec => []RemovalCovered
<1>1. Init => TypeInv /\ OwnInv /\ AllRely
  BY InitInv DEF Inv, Init, AllRely, Relies, Copied
<1>2. (TypeInv /\ OwnInv /\ AllRely) /\ [Next]_vars => (TypeInv /\ OwnInv /\ AllRely)'
  BY NextTypeInv, NextOwnInv, NextAllRely
<1>3. TypeInv /\ OwnInv /\ AllRely => RemovalCovered
  BY CoveredWhenRelied
<1>4. QED
  BY <1>1, <1>2, <1>3, PTL DEF Spec

-----------------------------------------------------------------------------
(* Losses. *)

\* Besides the windows of a delete: between its verdict on a changed source and the
\* discard, and in a restore between the look at the destination and the move or
\* copy, and between the copy and the removal of the entry.
InstantsTaken == WindowsClosed /\ {"discard", "move", "consume"} \subseteq Shut

\* No insert fails: one that does takes the entry back without a look at the
\* source, which others may have removed by then.
InsertsWork == "insert" \notin Faults

\* What is taken out of the archive, or away from a destination, is to be found
\* elsewhere.
Spares(p) ==
    /\ pc[p] = "discard" => Source(p) # None /\ Entry(p) = Source(p)
    /\ pc[p] = "move" => Source(p) = None
    /\ pc[p] = "consume" => Entry(p) # None /\ Source(p) # None /\ data[Source(p)] = data[Entry(p)]

AllSpare == \A p \in Procs : Spares(p)

LEMMA StepSpares ==
    ASSUME TypeInv, InsertsWork, NEW p \in Procs, Relies(p), StepOf(p)
    PROVE  Spares(p)'
<1> USE NoneIsNothing DEF TypeInv, TypeOK, JobsFit, UndeletePoints, OrNone, Uuid, Path, Source, Entry, fs, db
<1>1. CASE RehashDiscards(p)
  BY <1>1 DEF RehashDiscards, Goto, Relies, EntryStands, Spares
<1>2. CASE DestinationFree(p) \/ ClearDestination(p)
  BY <1>2 DEF DestinationFree, ClearDestination, Goto, Spares
<1>3. CASE CopyOut(p)
  <2>1. PICK i \in IF Source(p) # None THEN {Source(p)} ELSE FreeInodes :
            /\ name' = [name EXCEPT ![Path(p)] = i]
            /\ data' = [data EXCEPT ![i] = data[Entry(p)]]
    BY <1>3 DEF CopyOut
  <2>2. /\ i \in Inodes /\ Path(p) \in Paths /\ Entry(p) \in Inodes
        /\ pc'[p] = "consume" /\ UNCHANGED <<entry, job>>
    BY <1>3, <2>1 DEF CopyOut, FreeInodes
  <2>3. QED
    BY <2>1, <2>2 DEF Spares
<1>4. ~InsertFails(p)
  BY DEF InsertFails, InsertsWork, Fault
<1>5. CASE ~(RehashDiscards(p) \/ DestinationFree(p) \/ ClearDestination(p) \/ CopyOut(p))
  <2>1. \E point \in Points \ {"discard", "move", "consume"} : pc' = [pc EXCEPT ![p] = point]
    <3>1. CASE \/ GiveUp(p) \/ CopyEntryFails(p) \/ CopyDiffers(p) \/ DiscardEntry(p) \/ UnlinkSource(p)
               \/ CopyOutFails(p) \/ MarkRestored(p)
      BY <3>1 DEF GiveUp, CopyEntryFails, CopyDiffers, DiscardEntry, UnlinkSource, CopyOutFails,
         MarkRestored, End, Points
    <3>2. CASE HashSource(p) \/ StatSource(p) \/ LinkEntry(p) \/ CopyEntry(p) \/ CopyMatches(p)
               \/ InsertRow(p) \/ VerifyByStat(p) \/ RehashAgrees(p)
      BY <3>2 DEF HashSource, StatSource, LinkEntry, CopyEntry, CopyMatches, InsertRow, VerifyByStat,
         RehashAgrees, Goto, Points, DeletePoints
    <3>3. CASE DestinationOccupied(p) \/ EntryVerified(p) \/ MoveOut(p) \/ ConsumeEntry(p)
               \/ MarkPurged(p) \/ MarkPurgedFails(p)
      BY <3>3 DEF DestinationOccupied, EntryVerified, MoveOut, ConsumeEntry, MarkPurged, MarkPurgedFails,
         Goto, Points, UndeletePoints, PurgePoints
    <3>4. QED
      BY <1>4, <1>5, <3>1, <3>2, <3>3 DEF StepOf
  <2>2. pc'[p] \notin {"discard", "move", "consume"}
    BY <2>1
  <2>3. QED
    BY <2>2 DEF Spares
<1>6. QED
  BY <1>1, <1>2, <1>3, <1>5

LEMMA NextAllSpare ==
    ASSUME TypeInv, AllRely, AllSpare, InstantsTaken, InsertsWork, [Next]_vars
    PROVE  AllSpare'
<1>1. ASSUME NEW p \in Procs, Clear(p),
             \/ StepOf(p)
             \/ \E a \in Paths, u \in Uuids : PlanDelete(p, a, u) \/ ResolveRecord(p, u, a)
             \/ \E selected \in SUBSET Uuids : SelectPurge(p, selected)
             \/ \E u \in Uuids : PurgeEntry(p, u)
      PROVE  AllSpare'
  <2>1. Spares(p)'
    <3>1. CASE StepOf(p)
      BY <3>1, StepSpares DEF AllRely
    <3>2. CASE ~StepOf(p)
      BY <1>1, <3>2 DEF PlanDelete, ResolveRecord, SelectPurge, PurgeEntry, TypeInv, TypeOK, Spares
    <3>3. QED
      BY <3>1, <3>2
  <2>2. \A q \in Procs \ {p} : pc'[q] = pc[q] /\ pc[q] \notin {"discard", "move", "consume"}
    BY <1>1, OthersStay DEF Clear, InstantsTaken
  <2>3. QED
    BY <2>1, <2>2 DEF AllSpare, Spares
<1>2. CASE User
  <2>1. \A q \in Procs : pc'[q] = pc[q] /\ pc[q] \notin {"discard", "move", "consume"}
    BY <1>2 DEF User, Quiet, InstantsTaken, WriteThrough, CreateFile, RemoveFile, RenameFile, procs
  <2>2. QED
    BY <2>1 DEF AllSpare, Spares
<1>3. CASE UNCHANGED vars
  BY <1>3 DEF vars, AllSpare, Spares, Source, Entry
<1>4. QED
  BY StepCases, <1>1, <1>2, <1>3

\* The files some name leads to.
Named == Inodes \ FreeInodes

LEMMA NothingLost ==
    ASSUME TypeInv, \A i \in Named : \E j \in Inodes : j \notin FreeInodes' /\ data'[j] = data[i]
    PROVE  Reachable \subseteq Reachable'
BY DEF Reachable, Named

\* A step that only adds names, and writes to no file that has one.
LEMMA AddingLosesNothing ==
    ASSUME TypeInv,
           \A a \in Paths : name[a] # None => name'[a] = name[a],
           \A u \in Uuids : entry[u] # None => entry'[u] = entry[u],
           \A i \in Named : data'[i] = data[i]
    PROVE  Reachable \subseteq Reachable'
<1>1. ASSUME NEW i \in Named PROVE i \in Inodes /\ i \notin FreeInodes'
  BY NoneIsNothing DEF Named, FreeInodes
<1>2. QED
  BY <1>1, NothingLost

\* A step that takes a name from file i, of which file j keeps the content.
LEMMA TakingLosesNothing ==
    ASSUME TypeInv, NEW i, NEW j \in Inodes, data[j] = data[i], UNCHANGED data, j \notin FreeInodes',
           \A a \in Paths : name[a] \in Inodes => name'[a] = name[a] \/ name[a] = i,
           \A u \in Uuids : entry[u] \in Inodes => entry'[u] = entry[u] \/ entry[u] = i
    PROVE  Reachable \subseteq Reachable'
<1>1. ASSUME NEW k \in Named PROVE \E l \in Inodes : l \notin FreeInodes' /\ data'[l] = data[k]
  <2>1. CASE k = i
    BY <2>1
  <2>2. CASE k # i
    <3>1. k \in Inodes /\ k \notin FreeInodes'
      BY <2>2 DEF Named, FreeInodes
    <3>2. QED
      BY <3>1
  <2>3. QED
    BY <2>1, <2>2
<1>2. QED
  BY <1>1, NothingLost

LEMMA StepLosesNothing ==
    ASSUME TypeInv, OwnInv, AllRely, AllSpare, NEW p \in Procs, StepOf(p), pc[p] \notin {"clear", "compare"}
    PROVE  Reachable \subseteq Reachable'
<1> USE NoneIsNothing DEF TypeInv, TypeOK, JobsFit, DeletePoints, UndeletePoints, Hashed, OwnInv, RowsFit,
        EntriesFit, OrNone, Uuid, Path, Source, Entry, fs, db
<1>1. CASE UNCHANGED fs
  BY <1>1 DEF Reachable, FreeInodes
<1>2. CASE LinkEntry(p)
  BY <1>2, AddingLosesNothing DEF LinkEntry
<1>3. CASE CopyEntry(p) \/ CopyEntryFails(p)
  <2>1. PICK i \in FreeInodes : \E c : entry' = [entry EXCEPT ![Uuid(p)] = i] /\ data' = [data EXCEPT ![i] = c]
    BY <1>3 DEF CopyEntry, CopyEntryFails
  <2>2. /\ name' = name /\ Entry(p) = None
        /\ \A k \in Named : k \in Inodes /\ k # i
    BY <1>3 DEF CopyEntry, CopyEntryFails, Named
  <2>3. QED
    BY <2>1, <2>2, AddingLosesNothing
<1>4. CASE DiscardEntry(p)
  <2>1. /\ Entry(p) \in Inodes /\ Path(p) \in Paths /\ name[Path(p)] = Entry(p)
        /\ entry' = [entry EXCEPT ![Uuid(p)] = None] /\ UNCHANGED <<name, data>>
    BY <1>4 DEF DiscardEntry, AllSpare, Spares
  <2>2. Entry(p) \notin FreeInodes'
    BY <2>1 DEF FreeInodes
  <2>3. QED
    BY <2>1, <2>2, TakingLosesNothing
<1>5. CASE UnlinkSource(p)
  <2>1. /\ Entry(p) \in Inodes /\ data[Entry(p)] = data[Source(p)] /\ Uuid(p) \in Uuids
        /\ name' = [name EXCEPT ![Path(p)] = None] /\ UNCHANGED <<entry, data>>
    BY <1>5, CoveredWhenRelied DEF UnlinkSource, RemovalCovered
  <2>2. Entry(p) \notin FreeInodes'
    BY <2>1 DEF FreeInodes
  <2>3. QED
    BY <2>1, <2>2, TakingLosesNothing
<1>6. CASE MoveOut(p)
  <2>0. Source(p) = None /\ Uuid(p) \in Uuids /\ Path(p) \in Paths
    BY <1>6 DEF MoveOut, AllSpare, Spares
  <2>1. /\ Entry(p) \in Inodes
        /\ name' = [name EXCEPT ![Path(p)] = Entry(p)]
        /\ entry' = [entry EXCEPT ![Uuid(p)] = None] /\ UNCHANGED data
    BY <1>6, <2>0 DEF MoveOut
  <2>2. Entry(p) \notin FreeInodes'
    BY <2>0, <2>1 DEF FreeInodes
  <2>3. QED
    BY <2>0, <2>1, <2>2, TakingLosesNothing
<1>7. CASE CopyOut(p)
  <2>1. Source(p) = None
    BY <1>7 DEF CopyOut, AllSpare, Spares
  <2>2. PICK i \in FreeInodes : \E c : name' = [name EXCEPT ![Path(p)] = i] /\ data' = [data EXCEPT ![i] = c]
    BY <1>7, <2>1 DEF CopyOut
  <2>3. entry' = entry /\ \A k \in Named : k \in Inodes /\ k # i
    BY <1>7 DEF CopyOut, Named
  <2>4. QED
    BY <2>1, <2>2, <2>3, AddingLosesNothing
<1>8. CASE CopyOutFails(p)
  BY <1>8, AddingLosesNothing DEF CopyOutFails, AllSpare, Spares
<1>9. CASE ConsumeEntry(p)
  <2>0. pc[p] = "consume" /\ Uuid(p) \in Uuids /\ Path(p) \in Paths
    BY <1>9 DEF ConsumeEntry
  <2>1. Source(p) \in Inodes /\ data[Source(p)] = data[Entry(p)]
    BY <2>0 DEF AllSpare, Spares
  <2>2. entry' = [entry EXCEPT ![Uuid(p)] = None] /\ UNCHANGED <<name, data>>
    BY <1>9 DEF ConsumeEntry
  <2>3. Source(p) \notin FreeInodes'
    BY <2>0, <2>2 DEF FreeInodes
  <2>4. QED
    BY <2>0, <2>1, <2>2, <2>3, TakingLosesNothing
<1>10. CASE ~UNCHANGED fs
  <2>1. ~(ClearDestination(p) \/ CopyDiffers(p))
    BY DEF ClearDestination, CopyDiffers
  <2>2. \/ LinkEntry(p) \/ CopyEntry(p) \/ CopyEntryFails(p) \/ DiscardEntry(p) \/ UnlinkSource(p)
        \/ MoveOut(p) \/ CopyOut(p) \/ CopyOutFails(p) \/ ConsumeEntry(p)
    BY <1>10, <2>1 DEF StepOf, GiveUp, HashSource, StatSource, CopyMatches, InsertRow, InsertFails,
       VerifyByStat, RehashAgrees, RehashDiscards, DestinationFree, DestinationOccupied, EntryVerified,
       MarkRestored, MarkPurged, MarkPurgedFails
  <2>3. QED
    BY <2>2, <1>2, <1>3, <1>4, <1>5, <1>6, <1>7, <1>8, <1>9
<1>11. QED
  BY <1>1, <1>10

LEMMA LossOnlyWhereAsked ==
    ASSUME TypeInv, OwnInv, AllRely, AllSpare, [Next]_vars, NEW p \in Procs, pc'[p] # pc[p],
           pc[p] \notin {"remove", "clear", "compare"}
    PROVE  Reachable \subseteq Reachable'
<1>1. ASSUME NEW q \in Procs, StepOf(q) PROVE Reachable \subseteq Reachable'
  BY <1>1, OthersStay, StepLosesNothing
<1>2. ASSUME NEW q \in Procs,
             \/ \E a \in Paths, u \in Uuids : PlanDelete(q, a, u) \/ ResolveRecord(q, u, a)
             \/ \E selected \in SUBSET Uuids : SelectPurge(q, selected)
      PROVE  Reachable \subseteq Reachable'
  BY <1>2 DEF PlanDelete, ResolveRecord, SelectPurge, fs, Reachable, FreeInodes
<1>3. ASSUME NEW q \in Procs, NEW u \in Uuids, PurgeEntry(q, u) PROVE FALSE
  <2>1. q = p
    BY <1>3, OthersStay
  <2>2. QED
    BY <1>3, <2>1 DEF PurgeEntry
<1>4. ~(User \/ UNCHANGED vars)
  BY DEF User, WriteThrough, CreateFile, RemoveFile, RenameFile, procs, vars
<1>5. QED
  BY StepCases, <1>1, <1>2, <1>3, <1>4

\* With those moments taken as instants and inserts that work, no command makes
\* the last copy of a content unreachable but by what its caller asked for, a purge
\* or an overwrite, or by taking back a copy no record names: whatever else fails,
\* crashes, interleaves or is edited.
THEOREM LossesAreAskedFor ==
    ASSUME InstantsTaken, InsertsWork
    PROVE  Spec => LossIsAskedFor
<1>1. Init => TypeInv /\ OwnInv /\ AllRely /\ AllSpare
  BY InitInv DEF Inv, Init, AllRely, Relies, Copied, AllSpare, Spares
<1>2. (TypeInv /\ OwnInv /\ AllRely /\ AllSpare) /\ [Next]_vars =>
        (TypeInv /\ OwnInv /\ AllRely /\ AllSpare)'
  BY NextTypeInv, NextOwnInv, NextAllRely, NextAllSpare DEF InstantsTaken
<1>3. (TypeInv /\ OwnInv /\ AllRely /\ AllSpare) /\ [Next]_vars =>
        [\A p \in Procs : pc'[p] # pc[p] /\ ~(Reachable \subseteq Reachable' \cup {Torn})
            => pc[p] \in {"remove", "clear", "compare"}]_vars
  BY LossOnlyWhereAsked
<1>4. QED
  BY <1>1, <1>2, <1>3, PTL DEF Spec, LossIsAskedFor

-----------------------------------------------------------------------------
(* Copies. *)

CopiesInv ==
    /\ \A u \in Uuids : entry[u] # None => Private(u)
    /\ \A p \in Procs : pc[p] = "insert" => data[Entry(p)] = job[p].hash
    /\ RecordedHashHolds

LEMMA NextFrame ==
    ASSUME TypeInv, OwnInv, [Next]_vars
    PROVE  \E S \in SUBSET Procs : Frame(S)
<1>1. CASE User
  BY <1>1, UserFrame
<1>2. CASE UNCHANGED vars
  <2>1. Frame({})
    BY <1>2 DEF vars, Frame, Private
  <2>2. QED
    BY <2>1
<1>3. QED
  BY <1>1, <1>2, StepCases, StepFrame, StartFrame

\* An entry that appears is a new file of its own, and has no row yet.
LEMMA NewEntry ==
    ASSUME TypeInv, OwnInv, CopiesOnly, [Next]_vars,
           NEW u \in Uuids, entry[u] = None, entry'[u] # None
    PROVE  Private(u)' /\ row'[u] = None
<1> USE NoneIsNothing DEF TypeInv, TypeOK, JobsFit, DeletePoints, UndeletePoints, OwnInv, RowsFit,
        Making, OrNone, Uuid, Path, fs, db
<1>1. ASSUME NEW p \in Procs, StepOf(p) PROVE Private(u)' /\ row'[u] = None
  <2>1. CASE CopyEntry(p) \/ CopyEntryFails(p)
    <3>1. /\ Uuid(p) \in Uuids /\ row[Uuid(p)] = None /\ UNCHANGED <<row, name>>
          /\ \E i \in FreeInodes : entry' = [entry EXCEPT ![Uuid(p)] = i]
      BY <2>1 DEF CopyEntry, CopyEntryFails
    <3>2. PICK i \in FreeInodes : entry' = [entry EXCEPT ![Uuid(p)] = i]
      BY <3>1
    <3>3. u = Uuid(p) /\ entry'[u] = i
      BY <3>1, <3>2
    <3>4. QED
      BY <3>1, <3>2, <3>3 DEF Private, FreeInodes
  <2>2. CASE LinkEntry(p)
    BY <2>2 DEF LinkEntry, CopiesOnly
  <2>3. CASE ~(CopyEntry(p) \/ CopyEntryFails(p) \/ LinkEntry(p))
    <3>1. \A v \in Uuids : entry'[v] = None \/ entry'[v] = entry[v]
      BY <1>1, <2>3 DEF StepOf, GiveUp, HashSource, StatSource, CopyMatches, CopyDiffers, InsertRow,
         InsertFails, DiscardEntry, VerifyByStat, RehashAgrees, RehashDiscards, UnlinkSource,
         DestinationFree, DestinationOccupied, EntryVerified, ClearDestination, MoveOut, CopyOut,
         CopyOutFails, ConsumeEntry, MarkRestored, MarkPurged, MarkPurgedFails
    <3>2. QED
      BY <3>1
  <2>4. QED
    BY <2>1, <2>2, <2>3
<1>2. ASSUME NEW p \in Procs,
             \/ \E a \in Paths, v \in Uuids : PlanDelete(p, a, v) \/ ResolveRecord(p, v, a)
             \/ \E selected \in SUBSET Uuids : SelectPurge(p, selected)
             \/ \E v \in Uuids : PurgeEntry(p, v)
      PROVE  FALSE
  BY <1>2 DEF PlanDelete, ResolveRecord, SelectPurge, PurgeEntry
<1>3. CASE User \/ UNCHANGED vars
  BY <1>3 DEF User, WriteThrough, CreateFile, RemoveFile, RenameFile, vars
<1>4. QED
  BY StepCases, <1>1, <1>2, <1>3

\* A row that appears is the one a delete inserts, and nothing else happens.
LEMMA NewRow ==
    ASSUME TypeInv, [Next]_vars, NEW u \in Uuids, row'[u] # row[u]
    PROVE  /\ UNCHANGED <<entry, data>>
           /\ \E p \in Procs : pc[p] = "insert" /\ Uuid(p) = u /\ row'[u] = job[p].hash
<1> USE DEF fs, db
<1>1. ASSUME NEW p \in Procs, StepOf(p)
      PROVE  UNCHANGED <<entry, data>> /\ pc[p] = "insert" /\ Uuid(p) = u /\ row'[u] = job[p].hash
  <2>1. CASE InsertRow(p)
    BY <2>1 DEF InsertRow, TypeInv, TypeOK
  <2>2. CASE ~InsertRow(p)
    BY <1>1, <2>2 DEF StepOf, GiveUp, HashSource, StatSource, LinkEntry, CopyEntry, CopyEntryFails,
       CopyMatches, CopyDiffers, InsertFails, DiscardEntry, VerifyByStat, RehashAgrees, RehashDiscards,
       UnlinkSource, DestinationFree, DestinationOccupied, EntryVerified, ClearDestination, MoveOut,
       CopyOut, CopyOutFails, ConsumeEntry, MarkRestored, MarkPurged, MarkPurgedFails
  <2>3. QED
    BY <2>1, <2>2
<1>2. ASSUME NEW p \in Procs,
             \/ \E a \in Paths, v \in Uuids : PlanDelete(p, a, v) \/ ResolveRecord(p, v, a)
             \/ \E selected \in SUBSET Uuids : SelectPurge(p, selected)
             \/ \E v \in Uuids : PurgeEntry(p, v)
      PROVE  FALSE
  BY <1>2 DEF PlanDelete, ResolveRecord, SelectPurge, PurgeEntry
<1>3. CASE User \/ UNCHANGED vars
  BY <1>3 DEF User, WriteThrough, CreateFile, RemoveFile, RenameFile, vars
<1>4. QED
  BY StepCases, <1>1, <1>2, <1>3

\* A delete comes to its insert only with a copy it has compared.
LEMMA ComesToInsert ==
    ASSUME TypeInv, CopiesOnly, [Next]_vars, NEW p \in Procs, pc'[p] = "insert"
    PROVE  /\ job'[p] = job[p]
           /\ \/ pc[p] = "insert"
              \/ pc[p] = "compare" /\ data[Entry(p)] = job[p].hash /\ UNCHANGED <<entry, data>>
<1> DEFINE Comes == /\ job'[p] = job[p]
                    /\ \/ pc[p] = "insert"
                       \/ pc[p] = "compare" /\ data[Entry(p)] = job[p].hash /\ UNCHANGED <<entry, data>>
<1> USE DEF TypeInv, TypeOK, fs, db
<1>1. ASSUME NEW q \in Procs, StepOf(q) PROVE Comes
  <2>1. CASE CopyMatches(q) \/ LinkEntry(q)
    BY <2>1 DEF CopyMatches, LinkEntry, CopiesOnly, Goto
  <2>2. CASE CopyEntry(q) \/ CopyEntryFails(q) \/ CopyOut(q)
    BY <2>2 DEF CopyEntry, CopyEntryFails, CopyOut
  <2>3. CASE ~(CopyMatches(q) \/ LinkEntry(q) \/ CopyEntry(q) \/ CopyEntryFails(q) \/ CopyOut(q))
    BY <1>1, <2>3 DEF StepOf, GiveUp, HashSource, StatSource, CopyDiffers, InsertRow, InsertFails,
       DiscardEntry, VerifyByStat, RehashAgrees, RehashDiscards, UnlinkSource, DestinationFree,
       DestinationOccupied, EntryVerified, ClearDestination, MoveOut, CopyOutFails, ConsumeEntry,
       MarkRestored, MarkPurged, MarkPurgedFails, End, Goto
  <2>4. QED
    BY <2>1, <2>2, <2>3
<1>2. ASSUME NEW q \in Procs,
             \/ \E a \in Paths, v \in Uuids : PlanDelete(q, a, v) \/ ResolveRecord(q, v, a)
             \/ \E selected \in SUBSET Uuids : SelectPurge(q, selected)
             \/ \E v \in Uuids : PurgeEntry(q, v)
      PROVE  Comes
  BY <1>2 DEF PlanDelete, ResolveRecord, SelectPurge, PurgeEntry
<1>3. CASE User \/ UNCHANGED vars
  BY <1>3 DEF User, WriteThrough, CreateFile, RemoveFile, RenameFile, procs, vars
<1>4. QED
  BY StepCases, <1>1, <1>2, <1>3

LEMMA NextCopiesInv ==
    ASSUME TypeInv, OwnInv, CopiesOnly, CopiesInv, [Next]_vars
    PROVE  CopiesInv'
<1> USE DEF TypeInv, JobsFit, DeletePoints, Uuid, Entry
<1>1. OwnInv'
  BY NextOwnInv
<1>2. PICK S \in SUBSET Procs : Frame(S)
  BY NextFrame
<1>3. ASSUME NEW u \in Uuids, entry[u] # None, entry'[u] # None
      PROVE  entry'[u] = entry[u] /\ Private(u)' /\ data'[entry[u]] = data[entry[u]]
  BY <1>2, <1>3 DEF CopiesInv, Frame
<1>4. ASSUME NEW u \in Uuids, entry'[u] # None PROVE Private(u)'
  BY <1>3, <1>4, NewEntry
<1>5. ASSUME NEW p \in Procs, pc'[p] = "insert" PROVE data'[entry'[job'[p].uuid]] = job'[p].hash
  <2>1. entry'[job'[p].uuid] # None
    BY <1>1, <1>5 DEF OwnInv, EntriesFit
  <2>2. /\ job'[p] = job[p]
        /\ \/ pc[p] = "insert"
           \/ pc[p] = "compare" /\ data[Entry(p)] = job[p].hash /\ UNCHANGED <<entry, data>>
    BY <1>5, ComesToInsert
  <2>3. CASE pc[p] = "insert"
    BY <1>3, <2>1, <2>2, <2>3 DEF CopiesInv, OwnInv, EntriesFit
  <2>4. QED
    BY <2>2, <2>3
<1>6. ASSUME NEW u \in Uuids, row'[u] # None, entry'[u] # None PROVE data'[entry'[u]] = row'[u]
  <2>1. CASE row'[u] = row[u]
    BY <1>3, <1>6, <2>1, NewEntry DEF CopiesInv, RecordedHashHolds
  <2>2. CASE row'[u] # row[u]
    <3>1. PICK p \in Procs : pc[p] = "insert" /\ Uuid(p) = u /\ row'[u] = job[p].hash
      BY <2>2, NewRow
    <3>2. QED
      BY <2>2, <3>1, NewRow DEF CopiesInv
  <2>3. QED
    BY <2>1, <2>2
<1>7. QED
  BY <1>4, <1>5, <1>6 DEF CopiesInv, RecordedHashHolds

\* Where no entry is a hard link, the hash a row records is the hash of its
\* entry for as long as there is one: whatever interleaves, crashes, fails or is
\* edited, with every window open.
THEOREM CopiesKeepTheirHash ==
    ASSUME CopiesOnly
    PROVE  Spec => []RecordedHashHolds
<1>1. Init => TypeInv /\ OwnInv /\ CopiesInv
  BY InitInv DEF Inv, Init, CopiesInv, RecordedHashHolds
<1>2. (TypeInv /\ OwnInv /\ CopiesInv) /\ [Next]_vars => (TypeInv /\ OwnInv /\ CopiesInv)'
  BY NextTypeInv, NextOwnInv, NextCopiesInv
<1>3. TypeInv /\ OwnInv /\ CopiesInv => RecordedHashHolds
  BY DEF CopiesInv
<1>4. QED
  BY <1>1, <1>2, <1>3, PTL DEF Spec

=============================================================================
