--------------------------- MODULE FileArchiveProofs ---------------------------
(* Proofs about FileArchive, for any number of processes, paths and records. *)
EXTENDS FileArchive, FiniteSetTheorems, TLAPS

-----------------------------------------------------------------------------
(* Types.  TypeOK is not inductive: what a process does next is well typed     *)
(* because of what it carries at each program point.                           *)

Hashed == {"stat", "link", "compare", "insert", "verify", "rehash", "unlink"}

JobsFit ==
    \A p \in Procs :
        /\ pc[p] \in DeletePoints \cup UndeletePoints => Uuid(p) \in Uuids /\ Path(p) \in Paths
        /\ pc[p] = "stamp" => Uuid(p) \in Uuids
        /\ pc[p] \in Hashed => job[p].hash \in Contents

TypeInv == TypeOK /\ JobsFit

\* A command that stops without touching a file or a row.  One that has made an
\* entry and no row yet stops so only in a crash, or when the discard fails too; one
\* that has only a stamp left to set, in a crash or when the UPDATE fails.
GiveUp(p) ==
    /\ End(p)
    /\ UNCHANGED <<name, entry, data, row, restored, purged, edits, fate>>
    /\ pc[p] \in {"compare", "insert", "discard"} => Fault("crash") \/ Fault("discard")
    /\ pc[p] \in {"mark", "stamp"} => Fault("crash") \/ Fault("mark")

\* The ways a step can happen, the ones that only give up taken together.
StepOf(p) ==
    \/ GiveUp(p)
    \/ HashSource(p) \/ StatSource(p) \/ LinkEntry(p) \/ CopyEntry(p) \/ CopyEntryFails(p)
    \/ CopyMatches(p) \/ CopyDiffers(p) \/ InsertRow(p) \/ InsertFails(p)
    \/ DiscardEntry(p) \/ VerifyByStat(p) \/ RehashAgrees(p) \/ RehashDiscards(p)
    \/ UnlinkSource(p)
    \/ DestinationFree(p) \/ DestinationOccupied(p) \/ EntryVerified(p)
    \/ ClearDestination(p) \/ MoveOut(p) \/ CopyOut(p) \/ CopyOutFails(p)
    \/ ConsumeEntry(p) \/ MarkRestored(p)
    \/ MarkPurged(p) \/ MarkPurgedFails(p)

\* A running command's own step.
LEMMA ContinueCases ==
    ASSUME NEW p \in Procs, Continue(p)
    PROVE  StepOf(p) \/ \E u \in Uuids : PurgeEntry(p, u)
<1>1. SourceVanished(p) \/ DiscardFails(p) \/ RefuseRemoval(p) \/ RehashRefuses(p) \/ UnlinkFails(p)
        => GiveUp(p)
  BY DEF SourceVanished, DiscardFails, RefuseRemoval, RehashRefuses, UnlinkFails, GiveUp, fs, db
<1>2. RefuseRestore(p) \/ EntryUnfit(p) \/ ClearFails(p) \/ MoveFails(p) \/ ConsumeFails(p)
        \/ MarkRestoredFails(p) \/ FinishPurge(p) => GiveUp(p)
  BY DEF RefuseRestore, EntryUnfit, ClearFails, MoveFails, ConsumeFails, MarkRestoredFails,
         FinishPurge, GiveUp, fs, db
<1>3. QED
  BY <1>1, <1>2 DEF Continue, Delete, Undelete, Purge, StepOf

\* Every step is one of the cases the proofs go through.
LEMMA StepCases ==
    ASSUME Next
    PROVE  \/ \E p \in Procs :
                /\ Clear(p)
                /\ \/ StepOf(p)
                   \/ \E a \in Paths, u \in Uuids : PlanDelete(p, a, u) \/ ResolveRecord(p, u, a)
                   \/ \E selected \in SUBSET Uuids : SelectPurge(p, selected)
                   \/ \E u \in Uuids : PurgeEntry(p, u)
           \/ User
<1>1. ASSUME NEW p \in Procs, Continue(p)
      PROVE  Clear(p) /\ (StepOf(p) \/ \E u \in Uuids : PurgeEntry(p, u))
  BY <1>1, ContinueCases DEF Continue
<1>2. ASSUME NEW p \in Procs, Crash(p) PROVE StepOf(p)
  BY <1>2 DEF Crash, GiveUp, StepOf, fs, db
<1>3. QED
  BY <1>1, <1>2 DEF Next, Start

LEMMA NoJobType == NoJob \in Job
BY DEF NoJob, Job, OrNone

LEMMA InitTypeInv == Init => TypeInv
BY NoJobType DEF Init, TypeInv, TypeOK, JobsFit, Points, DeletePoints, UndeletePoints, Hashed, OrNone

\* A step keeps the types, and each program point finds what it needs.
LEMMA NextTypeInv ==
    ASSUME TypeInv, [Next]_vars
    PROVE  TypeInv'
<1> USE DEF TypeInv, TypeOK, JobsFit, Hashed, Points, DeletePoints, UndeletePoints, PurgePoints,
            OrNone, Job, Uuid, Path, Source, Entry
<1>1. ASSUME NEW p \in Procs, StepOf(p) PROVE TypeInv'
  <2>1. CASE GiveUp(p)
    BY <2>1, NoJobType DEF GiveUp, End, fs, db
  <2>2. CASE HashSource(p)
    BY <2>2, NoneIsNothing DEF HashSource, fs, db
  <2>3. CASE StatSource(p)
    <3>0. Source(p) \in OrNone(Inodes) /\ job[p] \in Job
      BY <2>3 DEF StatSource
    <3>1. [job[p] EXCEPT !.ident = Source(p)] \in Job
      BY <3>0
    <3>2. job' \in [Procs -> Job] /\ pc' \in [Procs -> Points] /\ touched' \in SUBSET Procs
      BY <2>3, <3>1 DEF StatSource
    <3>3. JobsFit'
      BY <2>3, NoneIsNothing DEF StatSource
    <3>4. QED
      BY <2>3, <3>2, <3>3 DEF StatSource, fs, db
  <2>4. CASE LinkEntry(p)
    <3>1. [job[p] EXCEPT !.linked = TRUE] \in Job
      OBVIOUS
    <3>2. entry' \in [Uuids -> OrNone(Inodes)] /\ job' \in [Procs -> Job] /\ pc' \in [Procs -> Points]
      BY <2>4, <3>1 DEF LinkEntry
    <3>3. JobsFit'
      BY <2>4, NoneIsNothing DEF LinkEntry
    <3>4. QED
      BY <2>4, <3>2, <3>3 DEF LinkEntry, db
  <2>5. CASE CopyDiffers(p)
    BY <2>5, NoJobType DEF CopyDiffers, End, fs, db
  <2>6. CASE InsertRow(p)
    BY <2>6 DEF InsertRow, Goto, fs, db
  <2>7. CASE DiscardEntry(p)
    BY <2>7, NoJobType DEF DiscardEntry, End, Became, Fates, fs, db
  <2>8. CASE VerifyByStat(p)
    BY <2>8 DEF VerifyByStat, Goto, fs, db
  <2>9. CASE UnlinkSource(p)
    BY <2>9, NoJobType DEF UnlinkSource, End, fs, db
  <2>10. CASE ClearDestination(p)
    BY <2>10 DEF ClearDestination, Goto, fs, db
  <2>11. CASE MoveOut(p)
    BY <2>11 DEF MoveOut, Goto, Became, Fates, fs, db
  <2>12. CASE CopyOutFails(p)
    BY <2>12, NoJobType DEF CopyOutFails, End, fs, db
  <2>13. CASE ConsumeEntry(p)
    BY <2>13 DEF ConsumeEntry, Goto, Became, Fates, fs, db
  <2>14. CASE MarkRestored(p)
    BY <2>14, NoJobType DEF MarkRestored, End, fs, db
  <2>15. CASE MarkPurged(p)
    BY <2>15 DEF MarkPurged, Goto, fs, db
  <2>16. CASE \/ CopyMatches(p) \/ InsertFails(p) \/ RehashAgrees(p) \/ RehashDiscards(p)
             \/ DestinationFree(p) \/ DestinationOccupied(p) \/ EntryVerified(p) \/ MarkPurgedFails(p)
    BY <2>16 DEF CopyMatches, InsertFails, RehashAgrees, RehashDiscards, DestinationFree, DestinationOccupied, EntryVerified, MarkPurgedFails, Goto, fs, db
  <2>17. CASE CopyEntry(p)
    <3>1. PICK i \in FreeInodes : /\ entry' = [entry EXCEPT ![Uuid(p)] = i]
                                 /\ data' = [data EXCEPT ![i] = data[Source(p)]]
                                 /\ touched' = TouchedBy(i)
      BY <2>17 DEF CopyEntry
    <3>2. QED
      BY <2>17, <3>1, NoneIsNothing DEF CopyEntry, FreeInodes, TouchedBy, db
  <2>18. CASE CopyEntryFails(p)
    <3>1. PICK i \in FreeInodes : /\ entry' = [entry EXCEPT ![Uuid(p)] = i]
                                 /\ data' = [data EXCEPT ![i] = Torn]
                                 /\ touched' = TouchedBy(i) \ {p}
      BY <2>18 DEF CopyEntryFails
    <3>2. QED
      BY <2>18, <3>1, NoneIsNothing, TornIsContent, NoJobType DEF CopyEntryFails, FreeInodes, TouchedBy, db
  <2>19. CASE CopyOut(p)
    <3>1. PICK i \in IF Source(p) # None THEN {Source(p)} ELSE FreeInodes :
              /\ name' = [name EXCEPT ![Path(p)] = i]
              /\ data' = [data EXCEPT ![i] = data[Entry(p)]]
              /\ touched' = TouchedBy(i)
      BY <2>19 DEF CopyOut
    <3>2. Path(p) \in Paths /\ Uuid(p) \in Uuids
      BY <2>19 DEF CopyOut
    <3>3. i \in Inodes /\ data[Entry(p)] \in Contents
      BY <2>19, <3>1, <3>2 DEF CopyOut, FreeInodes
    <3>4. QED
      BY <2>19, <3>1, <3>3 DEF CopyOut, TouchedBy, db
  <2>20. QED
    BY <1>1, <2>1, <2>2, <2>3, <2>4, <2>5, <2>6, <2>7, <2>8, <2>9, <2>10, <2>11, <2>12, <2>13, <2>14, <2>15, <2>16, <2>17, <2>18, <2>19 DEF StepOf
<1>2. ASSUME NEW p \in Procs, NEW a \in Paths, NEW u \in Uuids, PlanDelete(p, a, u) \/ ResolveRecord(p, u, a)
      PROVE  TypeInv'
  <2> DEFINE begun == [NoJob EXCEPT !.uuid = u, !.path = a]
  <2>1. begun \in Job /\ begun.uuid = u /\ begun.path = a
    BY DEF NoJob
  <2>2. job' = [job EXCEPT ![p] = begun]
    BY <1>2 DEF PlanDelete, ResolveRecord
  <2>3. pc' = [pc EXCEPT ![p] = "hash"] \/ pc' = [pc EXCEPT ![p] = "entry"]
    BY <1>2 DEF PlanDelete, ResolveRecord
  <2> HIDE DEF begun
  <2>4. job' \in [Procs -> Job] /\ pc' \in [Procs -> Points]
    BY <2>1, <2>2, <2>3
  <2>5. JobsFit'
    BY <2>1, <2>2, <2>3
  <2>6. QED
    BY <1>2, <2>4, <2>5 DEF PlanDelete, ResolveRecord, fs, db
<1>3. ASSUME NEW p \in Procs, NEW selected \in SUBSET Uuids, SelectPurge(p, selected) PROVE TypeInv'
  BY <1>3 DEF SelectPurge, NoJob, fs, db
<1>4. ASSUME NEW p \in Procs, NEW u \in Uuids, PurgeEntry(p, u) PROVE TypeInv'
  <2>1. [job[p] EXCEPT !.uuid = u, !.todo = @ \ {u}] \in Job
    BY DEF Job
  <2>2. entry' \in [Uuids -> OrNone(Inodes)]
    BY <1>4 DEF PurgeEntry
  <2>3. fate' \in [Uuids -> SUBSET Fates]
    <3>1. Became(u, "destroyed") \in [Uuids -> SUBSET Fates]
      BY DEF Became, Fates
    <3>2. fate' = Became(u, "destroyed") \/ fate' = fate
      BY <1>4 DEF PurgeEntry
    <3>3. QED
      BY <3>1, <3>2
  <2>4. QED
    BY <1>4, <2>1, <2>2, <2>3 DEF PurgeEntry
<1>5. CASE User
  <2>1. edits' \in Nat /\ UNCHANGED <<row, restored, purged, pc, job, entry, fate>>
    BY <1>5 DEF User, WriteThrough, CreateFile, RemoveFile, RenameFile, CanEdit, procs, db
  <2>2. /\ name' \in [Paths -> OrNone(Inodes)]
        /\ data' \in [Inodes -> Contents]
        /\ touched' \in SUBSET Procs
    <3>1. ASSUME NEW a \in Paths, NEW c \in Contents, WriteThrough(a, c) PROVE <2>2
      BY <3>1 DEF WriteThrough, TouchedBy
    <3>2. ASSUME NEW a \in Paths, NEW c \in Contents, CreateFile(a, c) PROVE <2>2
      BY <3>2 DEF CreateFile, TouchedBy
    <3>3. ASSUME NEW a \in Paths, NEW b \in Paths, RemoveFile(a) \/ RenameFile(a, b) PROVE <2>2
      BY <3>3 DEF RemoveFile, RenameFile, procs
    <3>4. QED
      BY <1>5, <3>1, <3>2, <3>3 DEF User
  <2>3. QED
    BY <2>1, <2>2
<1>6. CASE UNCHANGED vars
  BY <1>6 DEF vars
<1>7. QED
  BY StepCases, <1>1, <1>2, <1>3, <1>4, <1>5, <1>6

\* A process's step leaves the other processes where they are.
LEMMA OthersStay ==
    ASSUME TypeInv, NEW p \in Procs,
           \/ StepOf(p)
           \/ \E a \in Paths, u \in Uuids : PlanDelete(p, a, u) \/ ResolveRecord(p, u, a)
           \/ \E selected \in SUBSET Uuids : SelectPurge(p, selected)
           \/ \E u \in Uuids : PurgeEntry(p, u)
    PROVE  \A q \in Procs \ {p} : pc'[q] = pc[q] /\ job'[q] = job[q]
<1>1. CASE StepOf(p)
  BY <1>1 DEF StepOf, GiveUp, HashSource, StatSource, LinkEntry, CopyEntry, CopyEntryFails, CopyMatches,
     CopyDiffers, InsertRow, InsertFails, DiscardEntry, VerifyByStat, RehashAgrees, RehashDiscards,
     UnlinkSource, DestinationFree, DestinationOccupied, EntryVerified, ClearDestination, MoveOut,
     CopyOut, CopyOutFails, ConsumeEntry, MarkRestored, MarkPurged, MarkPurgedFails, End, Goto,
     TypeInv, TypeOK
<1>2. CASE ~StepOf(p)
  BY <1>2 DEF PlanDelete, ResolveRecord, SelectPurge, PurgeEntry, TypeInv, TypeOK
<1>3. QED
  BY <1>1, <1>2

\* Every reachable state is well typed, whatever fails, crashes or is edited.
THEOREM TypeCorrect == Spec => []TypeOK
<1>1. Init => TypeInv
  BY InitTypeInv
<1>2. TypeInv /\ [Next]_vars => TypeInv'
  BY NextTypeInv
<1>3. TypeInv => TypeOK
  BY DEF TypeInv
<1>4. QED
  BY <1>1, <1>2, <1>3, PTL DEF Spec

-----------------------------------------------------------------------------
(* Whose record a uuid is.  Nothing coordinates the processes: a uuid belongs   *)
(* to the delete that minted it until its row exists, and to whoever resolves   *)
(* the row afterwards.                                                         *)

Making == {"hash", "stat", "link", "compare", "insert"}

UsingRow == {"verify", "rehash", "unlink", "stamp"} \cup UndeletePoints

RowsFit ==
    \A p \in Procs :
        /\ pc[p] \in Making => row[Uuid(p)] = None
        /\ pc[p] \in UsingRow => row[Uuid(p)] # None
        /\ \A u \in job[p].todo : row[u] # None

UuidsDiffer ==
    \A p, q \in Procs :
        p # q /\ pc[p] \in Making /\ pc[q] \in Making \cup {"discard"} => Uuid(p) # Uuid(q)

EntriesFit ==
    \A p \in Procs :
        /\ pc[p] \in {"hash", "stat", "link"} => Entry(p) = None
        /\ pc[p] \in {"compare", "insert"} => Entry(p) # None

OwnInv == RowsFit /\ UuidsDiffer /\ EntriesFit

LEMMA NextOwnInv ==
    ASSUME TypeInv, OwnInv, [Next]_vars
    PROVE  OwnInv'
<1> USE NoneIsNothing DEF TypeInv, TypeOK, JobsFit, Hashed, DeletePoints, UndeletePoints,
        OwnInv, RowsFit, UuidsDiffer, EntriesFit, Making, UsingRow, OrNone, Job, Uuid, Path, Source, Entry
<1>1. ASSUME NEW p \in Procs, StepOf(p) PROVE OwnInv'
  <2>1. CASE GiveUp(p)
    BY <2>1 DEF GiveUp, End, NoJob, fs, db
  <2>2. CASE HashSource(p)
    BY <2>2 DEF HashSource, fs, db
  <2>3. CASE StatSource(p)
    BY <2>3 DEF StatSource, fs, db
  <2>4. CASE LinkEntry(p)
    BY <2>4 DEF LinkEntry, fs, db
  <2>5. CASE CopyEntry(p)
    <3>1. PICK i \in FreeInodes : entry' = [entry EXCEPT ![Uuid(p)] = i]
      BY <2>5 DEF CopyEntry
    <3>2. i # None
      BY DEF FreeInodes
    <3>3. QED
      BY <2>5, <3>1, <3>2 DEF CopyEntry, db
  <2>6. CASE CopyEntryFails(p)
    BY <2>6 DEF CopyEntryFails, NoJob, fs, db
  <2>7. CASE CopyDiffers(p)
    BY <2>7 DEF CopyDiffers, End, NoJob, fs, db
  <2>8. CASE InsertRow(p)
    BY <2>8 DEF InsertRow, Goto, fs, db
  <2>9. CASE DiscardEntry(p)
    BY <2>9 DEF DiscardEntry, End, NoJob, Became, fs, db
  <2>10. CASE VerifyByStat(p)
    BY <2>10 DEF VerifyByStat, Goto, fs, db
  <2>11. CASE UnlinkSource(p)
    BY <2>11 DEF UnlinkSource, End, NoJob, fs, db
  <2>12. CASE ClearDestination(p)
    BY <2>12 DEF ClearDestination, Goto, fs, db
  <2>13. CASE MoveOut(p)
    <3>1. entry' = entry \/ entry' = [entry EXCEPT ![Uuid(p)] = None]
      BY <2>13 DEF MoveOut
    <3>2. ASSUME NEW q \in Procs, pc'[q] \in Making PROVE pc'[q] = pc[q] /\ Uuid(q) # Uuid(p)
      BY <2>13, <3>2 DEF MoveOut, Goto, db
    <3>3. RowsFit' /\ UuidsDiffer'
      BY <2>13 DEF MoveOut, Goto, db
    <3>4. EntriesFit'
      BY <2>13, <3>1, <3>2 DEF MoveOut, Goto
    <3>5. QED
      BY <3>3, <3>4
  <2>14. CASE CopyOut(p)
    BY <2>14 DEF CopyOut, fs, db
  <2>15. CASE CopyOutFails(p)
    BY <2>15 DEF CopyOutFails, End, NoJob, fs, db
  <2>16. CASE ConsumeEntry(p)
    <3>1. ASSUME NEW q \in Procs, pc'[q] \in Making PROVE pc'[q] = pc[q] /\ Uuid(q) # Uuid(p)
      BY <2>16, <3>1 DEF ConsumeEntry, Goto, db
    <3>2. RowsFit' /\ UuidsDiffer'
      BY <2>16 DEF ConsumeEntry, Goto, db
    <3>3. EntriesFit'
      BY <2>16, <3>1 DEF ConsumeEntry, Goto
    <3>4. QED
      BY <3>2, <3>3
  <2>17. CASE MarkRestored(p)
    BY <2>17 DEF MarkRestored, End, NoJob, fs, db
  <2>18. CASE MarkPurged(p)
    BY <2>18 DEF MarkPurged, Goto, fs, db
  <2>19. CASE CopyMatches(p) \/ InsertFails(p) \/ RehashAgrees(p) \/ RehashDiscards(p)
    BY <2>19 DEF CopyMatches, InsertFails, RehashAgrees, RehashDiscards, Goto, fs, db
  <2>20. CASE DestinationFree(p) \/ DestinationOccupied(p) \/ EntryVerified(p) \/ MarkPurgedFails(p)
    BY <2>20 DEF DestinationFree, DestinationOccupied, EntryVerified, MarkPurgedFails, Goto, fs, db
  <2>21. QED
    BY <1>1, <2>1, <2>2, <2>3, <2>4, <2>5, <2>6, <2>7, <2>8, <2>9, <2>10, <2>11, <2>12, <2>13, <2>14, <2>15, <2>16, <2>17, <2>18, <2>19, <2>20 DEF StepOf

<1>2. ASSUME NEW p \in Procs, NEW a \in Paths, NEW u \in Uuids, PlanDelete(p, a, u) PROVE OwnInv'
  BY <1>2 DEF PlanDelete, NoJob, fs, db
<1>3. ASSUME NEW p \in Procs, NEW a \in Paths, NEW u \in Uuids, ResolveRecord(p, u, a) PROVE OwnInv'
  BY <1>3 DEF ResolveRecord, NoJob, fs, db
<1>4. ASSUME NEW p \in Procs, NEW selected \in SUBSET Uuids, SelectPurge(p, selected) PROVE OwnInv'
  BY <1>4 DEF SelectPurge, NoJob, fs, db
<1>5. ASSUME NEW p \in Procs, NEW u \in Uuids, PurgeEntry(p, u) PROVE OwnInv'
  <2>1. entry' = entry \/ entry' = [entry EXCEPT ![u] = None]
    BY <1>5 DEF PurgeEntry
  <2>2. QED
    BY <1>5, <2>1 DEF PurgeEntry, db
<1>6. CASE User
  <2>1. UNCHANGED <<row, pc, job, entry>>
    BY <1>6 DEF User, WriteThrough, CreateFile, RemoveFile, RenameFile, procs, db
  <2>2. QED
    BY <2>1
<1>7. CASE UNCHANGED vars
  BY <1>7 DEF vars
<1>8. QED
  BY StepCases, <1>1, <1>2, <1>3, <1>4, <1>5, <1>6, <1>7

-----------------------------------------------------------------------------
(* What the stamps say.  An entry whose row exists is only ever taken out, so   *)
(* a command that saw it go, or took it, may stamp the row at any later time.  *)

StampsFit ==
    /\ \A p \in Procs : pc[p] = "mark" => "given back" \in fate[Uuid(p)]
    /\ \A p \in Procs : pc[p] = "stamp" => Entry(p) = None
    /\ RestoredWasGivenBack
    /\ PurgedIsGone
    /\ \A u \in purged : row[u] # None

\* A fx.Remove of an archive entry that purge asks for succeeds.
RemovalsWork == "remove" \notin Faults

\* Once recorded, always recorded; once taken out, never put back.
Onwards ==
    \A u \in Uuids : /\ fate[u] \subseteq fate'[u]
                     /\ row[u] # None => row'[u] # None /\ (entry[u] = None => entry'[u] = None)

\* Nobody but p comes to a point where it stamps a row, and p only as told.
ComesToStamp(p, points) ==
    \A q \in Procs : pc'[q] \in {"mark", "stamp"} =>
        \/ pc'[q] = pc[q] /\ Uuid(q)' = Uuid(q)
        \/ q = p /\ pc'[q] \in points

LEMMA StampsFrame ==
    ASSUME TypeInv, RowsFit, StampsFit, Onwards, UNCHANGED <<restored, purged>>,
           NEW p \in Procs, ComesToStamp(p, {})
    PROVE  StampsFit'
BY DEF TypeInv, TypeOK, JobsFit, RowsFit, UsingRow, UndeletePoints, StampsFit, Onwards, ComesToStamp,
       RestoredWasGivenBack, PurgedIsGone, Uuid, Entry

LEMMA BecameMore ==
    ASSUME TypeOK, NEW u \in Uuids, NEW what, fate' = Became(u, what)
    PROVE  \A v \in Uuids : fate[v] \subseteq fate'[v]
BY DEF TypeOK, Became

\* Steps of a delete neither stamp anything nor bring back a recorded entry.
LEMMA DeleteStamps ==
    ASSUME TypeInv, OwnInv, NEW p \in Procs,
           \/ HashSource(p) \/ StatSource(p) \/ LinkEntry(p) \/ CopyEntry(p) \/ CopyEntryFails(p)
           \/ CopyMatches(p) \/ CopyDiffers(p) \/ InsertRow(p) \/ InsertFails(p)
           \/ DiscardEntry(p) \/ VerifyByStat(p) \/ RehashAgrees(p) \/ RehashDiscards(p)
           \/ UnlinkSource(p)
    PROVE  Onwards /\ ComesToStamp(p, {}) /\ UNCHANGED <<restored, purged>>
<1> USE NoneIsNothing DEF TypeInv, TypeOK, JobsFit, DeletePoints, Hashed, OwnInv, RowsFit, Making,
        OrNone, Uuid, Onwards, ComesToStamp, fs, db
<1>1. CASE HashSource(p)
  BY <1>1 DEF HashSource
<1>2. CASE StatSource(p)
  BY <1>2 DEF StatSource
<1>3. CASE LinkEntry(p)
  BY <1>3 DEF LinkEntry
<1>4. CASE CopyEntry(p)
  <2>1. PICK i \in FreeInodes : entry' = [entry EXCEPT ![Uuid(p)] = i]
    BY <1>4 DEF CopyEntry
  <2>2. QED
    BY <1>4, <2>1 DEF CopyEntry
<1>5. CASE CopyEntryFails(p)
  <2>1. PICK i \in FreeInodes : entry' = [entry EXCEPT ![Uuid(p)] = i]
    BY <1>5 DEF CopyEntryFails
  <2>2. QED
    BY <1>5, <2>1 DEF CopyEntryFails
<1>6. CASE CopyMatches(p) \/ InsertFails(p)
  BY <1>6 DEF CopyMatches, InsertFails, Goto
<1>7. CASE CopyDiffers(p)
  BY <1>7 DEF CopyDiffers, End
<1>8. CASE InsertRow(p)
  BY <1>8 DEF InsertRow, Goto
<1>9. CASE DiscardEntry(p)
  <2>1. \A v \in Uuids : fate[v] \subseteq fate'[v]
    BY <1>9, BecameMore DEF DiscardEntry
  <2>2. QED
    BY <1>9, <2>1 DEF DiscardEntry, End
<1>10. CASE VerifyByStat(p) \/ RehashAgrees(p) \/ RehashDiscards(p)
  BY <1>10 DEF VerifyByStat, RehashAgrees, RehashDiscards, Goto
<1>11. CASE UnlinkSource(p)
  BY <1>11 DEF UnlinkSource, End
<1>12. QED
  BY <1>1, <1>2, <1>3, <1>4, <1>5, <1>6, <1>7, <1>8, <1>9, <1>10, <1>11

LEMMA UndeleteStamps ==
    ASSUME TypeInv, NEW p \in Procs,
           \/ GiveUp(p) \/ DestinationFree(p) \/ DestinationOccupied(p) \/ EntryVerified(p)
           \/ ClearDestination(p) \/ CopyOut(p) \/ CopyOutFails(p) \/ MarkPurgedFails(p)
    PROVE  Onwards /\ ComesToStamp(p, {}) /\ UNCHANGED <<restored, purged>>
<1> USE NoneIsNothing DEF TypeInv, TypeOK, Uuid, Onwards, ComesToStamp, fs, db
<1>1. CASE GiveUp(p) \/ CopyOutFails(p)
  BY <1>1 DEF GiveUp, CopyOutFails, End
<1>2. CASE DestinationFree(p) \/ DestinationOccupied(p) \/ EntryVerified(p)
  BY <1>2 DEF DestinationFree, DestinationOccupied, EntryVerified, Goto
<1>3. CASE ClearDestination(p) \/ MarkPurgedFails(p)
  BY <1>3 DEF ClearDestination, MarkPurgedFails, Goto
<1>4. CASE CopyOut(p)
  BY <1>4 DEF CopyOut
<1>5. QED
  BY <1>1, <1>2, <1>3, <1>4

\* The two ways an undelete takes an entry out: its row may be stamped from then on.
LEMMA TakeOutStamps ==
    ASSUME TypeInv, OwnInv, NEW p \in Procs, MoveOut(p) \/ ConsumeEntry(p)
    PROVE  /\ Onwards /\ ComesToStamp(p, {"mark"}) /\ UNCHANGED <<restored, purged>>
           /\ pc'[p] = "mark" /\ Uuid(p)' = Uuid(p) /\ "given back" \in fate'[Uuid(p)]
<1> USE NoneIsNothing DEF TypeInv, TypeOK, JobsFit, UndeletePoints, Uuid, Entry
<1>1. fate' = Became(Uuid(p), "given back") /\ Uuid(p) \in Uuids /\ entry[Uuid(p)] # None
  BY DEF MoveOut, ConsumeEntry
<1>2. "given back" \in fate'[Uuid(p)]
  BY <1>1 DEF Became
<1>3. \A v \in Uuids : fate[v] \subseteq fate'[v]
  BY <1>1, BecameMore
<1>4. entry' = entry \/ entry' = [entry EXCEPT ![Uuid(p)] = None]
  BY DEF MoveOut, ConsumeEntry
<1>5. UNCHANGED <<row, restored, purged, job>> /\ pc' = [pc EXCEPT ![p] = "mark"]
  BY DEF MoveOut, ConsumeEntry, Goto, db
<1>6. QED
  BY <1>1, <1>2, <1>3, <1>4, <1>5 DEF Onwards, ComesToStamp

LEMMA PurgeEntryStamps ==
    ASSUME TypeInv, RemovalsWork, NEW p \in Procs, NEW u \in Uuids, PurgeEntry(p, u)
    PROVE  /\ Onwards /\ ComesToStamp(p, {"stamp"}) /\ UNCHANGED <<restored, purged>>
           /\ pc'[p] = "stamp" /\ Uuid(p)' = u /\ entry'[u] = None
<1> USE NoneIsNothing DEF TypeInv, TypeOK, Uuid
<1>1. entry' = [entry EXCEPT ![u] = None] /\ fate' = Became(u, "destroyed")
  BY DEF PurgeEntry, RemovalsWork, Fault
<1>2. \A v \in Uuids : fate[v] \subseteq fate'[v]
  BY <1>1, BecameMore
<1>3. UNCHANGED <<row, restored, purged>> /\ pc' = [pc EXCEPT ![p] = "stamp"]
  BY DEF PurgeEntry, db
<1>4. job' = [job EXCEPT ![p].uuid = u, ![p].todo = @ \ {u}]
  BY DEF PurgeEntry
<1>5. Uuid(p)' = u /\ \A q \in Procs : q # p => Uuid(q)' = Uuid(q)
  BY <1>4 DEF Job
<1>6. QED
  BY <1>1, <1>2, <1>3, <1>5 DEF Onwards, ComesToStamp

LEMMA NextStampsFit ==
    ASSUME TypeInv, OwnInv, StampsFit, RemovalsWork, [Next]_vars
    PROVE  StampsFit'
<1>1. ASSUME NEW p \in Procs, StepOf(p) PROVE StampsFit'
  <2>1. CASE MoveOut(p) \/ ConsumeEntry(p)
    BY <2>1, TakeOutStamps DEF TypeInv, TypeOK, JobsFit, OwnInv, RowsFit, UsingRow, UndeletePoints, StampsFit,
       Onwards, ComesToStamp, RestoredWasGivenBack, PurgedIsGone, Uuid, Entry
  <2>2. CASE MarkRestored(p)
    BY <2>2 DEF MarkRestored, End, NoJob, fs, TypeInv, TypeOK, StampsFit, RestoredWasGivenBack, PurgedIsGone, Uuid, Entry
  <2>3. CASE MarkPurged(p)
    BY <2>3 DEF MarkPurged, Goto, fs, TypeInv, TypeOK, OwnInv, RowsFit, UsingRow, StampsFit, RestoredWasGivenBack,
       PurgedIsGone, Uuid, Entry
  <2>4. CASE ~(MoveOut(p) \/ ConsumeEntry(p) \/ MarkRestored(p) \/ MarkPurged(p))
    <3>1. Onwards /\ ComesToStamp(p, {}) /\ UNCHANGED <<restored, purged>>
      BY <1>1, <2>4, DeleteStamps, UndeleteStamps DEF StepOf
    <3>2. QED
      BY <3>1, StampsFrame DEF OwnInv
  <2>5. QED
    BY <2>1, <2>2, <2>3, <2>4
<1>2. ASSUME NEW p \in Procs, NEW a \in Paths, NEW u \in Uuids, PlanDelete(p, a, u) \/ ResolveRecord(p, u, a)
      PROVE  StampsFit'
  <2>1. Onwards /\ ComesToStamp(p, {}) /\ UNCHANGED <<restored, purged>>
    BY <1>2 DEF PlanDelete, ResolveRecord, fs, db, Onwards, ComesToStamp, TypeInv, TypeOK, Uuid
  <2>2. QED
    BY <2>1, StampsFrame DEF OwnInv
<1>3. ASSUME NEW p \in Procs, NEW selected \in SUBSET Uuids, SelectPurge(p, selected) PROVE StampsFit'
  <2>1. Onwards /\ ComesToStamp(p, {}) /\ UNCHANGED <<restored, purged>>
    BY <1>3 DEF SelectPurge, fs, db, Onwards, ComesToStamp, TypeInv, TypeOK, Uuid
  <2>2. QED
    BY <2>1, StampsFrame DEF OwnInv
<1>4. ASSUME NEW p \in Procs, NEW u \in Uuids, PurgeEntry(p, u) PROVE StampsFit'
  <2>1. /\ Onwards /\ ComesToStamp(p, {"stamp"}) /\ UNCHANGED <<restored, purged>>
        /\ pc'[p] = "stamp" /\ Uuid(p)' = u /\ entry'[u] = None
    BY <1>4, PurgeEntryStamps
  <2>2. RestoredWasGivenBack' /\ PurgedIsGone' /\ \A v \in purged' : row'[v] # None
    BY <2>1 DEF TypeInv, TypeOK, StampsFit, Onwards, RestoredWasGivenBack, PurgedIsGone
  <2>3. ASSUME NEW q \in Procs, pc'[q] = "mark" PROVE ("given back" \in fate[Uuid(q)])'
    <3>1. pc[q] = "mark" /\ Uuid(q)' = Uuid(q) /\ Uuid(q) \in Uuids
      BY <2>1, <2>3 DEF ComesToStamp, TypeInv, JobsFit, UndeletePoints
    <3>2. QED
      BY <2>1, <3>1 DEF StampsFit, Onwards
  <2>4. ASSUME NEW q \in Procs, pc'[q] = "stamp" PROVE (Entry(q) = None)'
    <3>1. CASE q = p
      BY <2>1, <3>1 DEF Entry, Uuid
    <3>2. CASE q # p
      <4>1. pc[q] = "stamp" /\ Uuid(q)' = Uuid(q) /\ Uuid(q) \in Uuids
        BY <2>1, <2>4, <3>2 DEF ComesToStamp, TypeInv, JobsFit
      <4>2. entry[Uuid(q)] = None /\ row[Uuid(q)] # None
        BY <4>1 DEF StampsFit, Entry, Uuid, OwnInv, RowsFit, UsingRow
      <4>3. entry'[Uuid(q)'] = None
        BY <2>1, <4>1, <4>2 DEF Onwards
      <4>4. QED
        BY <4>3 DEF Entry, Uuid
    <3>3. QED
      BY <3>1, <3>2
  <2>5. QED
    BY <2>2, <2>3, <2>4 DEF StampsFit
<1>5. CASE User \/ UNCHANGED vars
  <2>1. UNCHANGED <<row, restored, purged, pc, job, entry, fate>>
    BY <1>5 DEF User, WriteThrough, CreateFile, RemoveFile, RenameFile, procs, db, vars
  <2>2. QED
    BY <2>1 DEF StampsFit, RestoredWasGivenBack, PurgedIsGone, Uuid, Entry
<1>6. QED
  BY StepCases, <1>1, <1>2, <1>3, <1>4, <1>5

-----------------------------------------------------------------------------
(* The commands implement the abstract record. *)

Inv == TypeInv /\ OwnInv /\ StampsFit

LEMMA InitInv == Init => Inv
BY InitTypeInv DEF Init, Inv, OwnInv, RowsFit, UuidsDiffer, EntriesFit, Making, UsingRow, UndeletePoints,
   StampsFit, RestoredWasGivenBack, PurgedIsGone, NoJob, Uuid, Entry

\* Whatever other commands do, crash or fail to do: a row stamped restored_at
\* was given back, and a row stamped purged_at has nothing left in the archive.
THEOREM StampsTellTheTruth ==
    ASSUME RemovalsWork
    PROVE  Spec => [](RestoredWasGivenBack /\ PurgedIsGone)
<1>1. Init => Inv
  BY InitInv
<1>2. Inv /\ [Next]_vars => Inv'
  BY NextTypeInv, NextOwnInv, NextStampsFit DEF Inv
<1>3. Inv => RestoredWasGivenBack /\ PurgedIsGone
  BY DEF Inv, StampsFit
<1>4. QED
  BY <1>1, <1>2, <1>3, PTL DEF Spec

-----------------------------------------------------------------------------
(* Refinement: what a step does to the rows and the archive is one step of the  *)
(* abstract record, or nothing.                                                *)

\* A step that changes no row and no recorded entry is invisible.
LEMMA Invisible ==
    ASSUME UNCHANGED <<row, restored, purged>>, Given' = Given,
           \A u \in Uuids : row[u] # None => (entry'[u] = None <=> entry[u] = None)
    PROVE  UNCHANGED Record!vars
<1>1. Recorded' = Recorded /\ Held' = Held
  BY DEF Recorded, Held
<1>2. QED
  BY <1>1 DEF Record!vars

\* What a step may add to the history of a record's content.
LEMMA BecameGiven ==
    ASSUME TypeOK, NEW u \in Uuids, entry[u] # None,
           NEW what \in Fates, fate' = Became(u, what)
    PROVE  Given' = IF what = "given back" THEN Given \cup {u} ELSE Given
BY DEF TypeOK, Became, Given

LEMMA BecameNothing ==
    ASSUME NEW u \in Uuids, entry[u] = None, NEW what, fate' = Became(u, what)
    PROVE  Given' = Given
BY DEF Became, Given

\* Taking the entry of a recorded uuid out of the archive.
LEMMA TakenOut ==
    ASSUME TypeOK, NEW u \in Uuids, row[u] # None, entry[u] # None,
           entry' = [entry EXCEPT ![u] = None], UNCHANGED row
    PROVE  u \in Held /\ Held' = Held \ {u} /\ Recorded' = Recorded
BY DEF TypeOK, Held, Recorded

LEMMA DeleteImplements ==
    ASSUME TypeInv, OwnInv, NEW p \in Procs,
           \/ HashSource(p) \/ StatSource(p) \/ LinkEntry(p) \/ CopyEntry(p) \/ CopyEntryFails(p)
           \/ CopyMatches(p) \/ CopyDiffers(p) \/ InsertRow(p) \/ InsertFails(p)
           \/ DiscardEntry(p) \/ VerifyByStat(p) \/ RehashAgrees(p) \/ RehashDiscards(p)
           \/ UnlinkSource(p)
    PROVE  [Record!Next]_(Record!vars)
<1> USE NoneIsNothing DEF TypeInv, TypeOK, JobsFit, DeletePoints, Hashed, OwnInv, RowsFit, Making,
        OrNone, Uuid, fs, db
<1>1. CASE HashSource(p) \/ StatSource(p)
  BY <1>1, Invisible DEF HashSource, StatSource, Given
<1>2. CASE LinkEntry(p)
  BY <1>2, Invisible DEF LinkEntry, Given
<1>3. CASE CopyEntry(p)
  <2>1. PICK i \in FreeInodes : entry' = [entry EXCEPT ![Uuid(p)] = i]
    BY <1>3 DEF CopyEntry
  <2>2. QED
    BY <1>3, <2>1, Invisible DEF CopyEntry, Given
<1>4. CASE CopyEntryFails(p)
  <2>1. PICK i \in FreeInodes : entry' = [entry EXCEPT ![Uuid(p)] = i]
    BY <1>4 DEF CopyEntryFails
  <2>2. QED
    BY <1>4, <2>1, Invisible DEF CopyEntryFails, Given
<1>5. CASE CopyMatches(p) \/ InsertFails(p)
  BY <1>5, Invisible DEF CopyMatches, InsertFails, Goto, Given
<1>6. CASE CopyDiffers(p)
  BY <1>6, Invisible DEF CopyDiffers, Given
<1>7. CASE InsertRow(p)
  <2>1. Uuid(p) \in Uuids /\ Uuid(p) \notin Recorded
    BY <1>7 DEF InsertRow, Recorded
  <2>2. entry[Uuid(p)] # None
    BY <1>7 DEF InsertRow, EntriesFit, Entry
  <2>3. Recorded' = Recorded \cup {Uuid(p)} /\ Held' = Held \cup {Uuid(p)}
    BY <1>7, <2>1, <2>2 DEF InsertRow, Recorded, Held
  <2>4. Record!Record(Uuid(p))
    BY <1>7, <2>1, <2>3 DEF InsertRow, Record!Record, Given
  <2>5. QED
    BY <2>1, <2>4 DEF Record!Next
<1>8. CASE DiscardEntry(p)
  <2>1. /\ Uuid(p) \in Uuids
        /\ entry' = [entry EXCEPT ![Uuid(p)] = None] /\ fate' = Became(Uuid(p), "discarded")
        /\ UNCHANGED <<row, restored, purged>>
    BY <1>8 DEF DiscardEntry
  <2>2. CASE entry[Uuid(p)] = None
    BY <2>1, <2>2, BecameNothing, Invisible
  <2>3. CASE entry[Uuid(p)] # None
    <3>1. Given' = Given
      BY <2>1, <2>3, BecameGiven DEF Fates
    <3>2. CASE row[Uuid(p)] = None
      BY <2>1, <3>1, <3>2, Invisible
    <3>3. CASE row[Uuid(p)] # None
      <4>1. Record!Drop(Uuid(p))
        BY <2>1, <2>3, <3>1, <3>3, TakenOut DEF Record!Drop
      <4>2. QED
        BY <2>1, <4>1 DEF Record!Next
    <3>4. QED
      BY <3>2, <3>3
  <2>4. QED
    BY <2>2, <2>3
<1>9. CASE VerifyByStat(p) \/ RehashAgrees(p) \/ RehashDiscards(p)
  BY <1>9, Invisible DEF VerifyByStat, RehashAgrees, RehashDiscards, Goto, Given
<1>10. CASE UnlinkSource(p)
  BY <1>10, Invisible DEF UnlinkSource, Given
<1>11. QED
  BY <1>1, <1>2, <1>3, <1>4, <1>5, <1>6, <1>7, <1>8, <1>9, <1>10

LEMMA UndeleteImplements ==
    ASSUME TypeInv, OwnInv, StampsFit, NEW p \in Procs,
           \/ GiveUp(p) \/ DestinationFree(p) \/ DestinationOccupied(p) \/ EntryVerified(p)
           \/ ClearDestination(p) \/ MoveOut(p) \/ CopyOut(p) \/ CopyOutFails(p)
           \/ ConsumeEntry(p) \/ MarkRestored(p) \/ MarkPurgedFails(p)
    PROVE  [Record!Next]_(Record!vars)
<1> USE DEF fs, db
<1>1. CASE GiveUp(p) \/ CopyOut(p) \/ CopyOutFails(p)
  BY <1>1, Invisible DEF GiveUp, CopyOut, CopyOutFails, Given
<1>2. CASE DestinationFree(p) \/ DestinationOccupied(p) \/ EntryVerified(p) \/ ClearDestination(p)
          \/ MarkPurgedFails(p)
  BY <1>2, Invisible DEF DestinationFree, DestinationOccupied, EntryVerified, ClearDestination,
     MarkPurgedFails, Given
<1>3. CASE MoveOut(p) \/ ConsumeEntry(p)
  <2>1. /\ Uuid(p) \in Uuids /\ entry[Uuid(p)] # None /\ row[Uuid(p)] # None
        /\ fate' = Became(Uuid(p), "given back") /\ UNCHANGED <<row, restored, purged>>
        /\ entry' = entry \/ entry' = [entry EXCEPT ![Uuid(p)] = None]
    BY <1>3 DEF MoveOut, ConsumeEntry, TypeInv, JobsFit, UndeletePoints, OwnInv, RowsFit, UsingRow, Entry, Uuid
  <2>2. Given' = Given \cup {Uuid(p)}
    BY <2>1, BecameGiven DEF TypeInv, Fates
  <2>3. Uuid(p) \in Held /\ Held' \in {Held, Held \ {Uuid(p)}} /\ Recorded' = Recorded
    BY <2>1, TakenOut DEF TypeInv, Held, Recorded
  <2>4. Record!GiveBack(Uuid(p))
    BY <2>1, <2>2, <2>3 DEF Record!GiveBack
  <2>5. QED
    BY <2>1, <2>4 DEF Record!Next
<1>4. CASE MarkRestored(p)
  <2>1. Uuid(p) \in Uuids /\ Uuid(p) \in Given
    BY <1>4 DEF MarkRestored, TypeInv, JobsFit, UndeletePoints, StampsFit, Given
  <2>2. Record!StampRestored(Uuid(p))
    BY <1>4, <2>1 DEF MarkRestored, Record!StampRestored, Recorded, Held, Given
  <2>3. QED
    BY <2>1, <2>2 DEF Record!Next
<1>5. QED
  BY <1>1, <1>2, <1>3, <1>4

LEMMA PurgeImplements ==
    ASSUME TypeInv, OwnInv, StampsFit, RemovalsWork, NEW p \in Procs,
           MarkPurged(p) \/ \E u \in Uuids : PurgeEntry(p, u)
    PROVE  [Record!Next]_(Record!vars)
<1>1. CASE MarkPurged(p)
  <2>1. Uuid(p) \in Uuids /\ Uuid(p) \in Recorded \ Held
    BY <1>1 DEF MarkPurged, TypeInv, JobsFit, OwnInv, RowsFit, UsingRow, StampsFit, Recorded, Held, Entry, Uuid
  <2>2. Record!StampPurged(Uuid(p))
    BY <1>1, <2>1 DEF MarkPurged, fs, Record!StampPurged, Recorded, Held, Given
  <2>3. QED
    BY <2>1, <2>2 DEF Record!Next
<1>2. ASSUME NEW u \in Uuids, PurgeEntry(p, u) PROVE [Record!Next]_(Record!vars)
  <2>1. /\ entry' = [entry EXCEPT ![u] = None] /\ fate' = Became(u, "destroyed")
        /\ UNCHANGED <<row, restored, purged>> /\ row[u] # None
    BY <1>2 DEF PurgeEntry, RemovalsWork, Fault, db, OwnInv, RowsFit
  <2>2. CASE entry[u] = None
    BY <2>1, <2>2, BecameNothing, Invisible DEF TypeInv, TypeOK
  <2>3. CASE entry[u] # None
    <3>1. Given' = Given
      BY <2>1, <2>3, BecameGiven DEF TypeInv, Fates
    <3>2. Record!Drop(u)
      BY <2>1, <2>3, <3>1, TakenOut DEF TypeInv, Record!Drop
    <3>3. QED
      BY <3>2 DEF Record!Next
  <2>4. QED
    BY <2>2, <2>3
<1>3. QED
  BY <1>1, <1>2

LEMMA NextImplements ==
    ASSUME Inv, RemovalsWork, [Next]_vars
    PROVE  [Record!Next]_(Record!vars)
<1> USE DEF Inv
<1>1. ASSUME NEW p \in Procs, StepOf(p) PROVE [Record!Next]_(Record!vars)
  BY <1>1, DeleteImplements, UndeleteImplements, PurgeImplements DEF StepOf
<1>2. ASSUME NEW p \in Procs, NEW a \in Paths, NEW u \in Uuids, PlanDelete(p, a, u) \/ ResolveRecord(p, u, a)
      PROVE  [Record!Next]_(Record!vars)
  BY <1>2, Invisible DEF PlanDelete, ResolveRecord, fs, db, Given
<1>3. ASSUME NEW p \in Procs, NEW selected \in SUBSET Uuids, SelectPurge(p, selected)
      PROVE  [Record!Next]_(Record!vars)
  BY <1>3, Invisible DEF SelectPurge, fs, db, Given
<1>4. ASSUME NEW p \in Procs, NEW u \in Uuids, PurgeEntry(p, u) PROVE [Record!Next]_(Record!vars)
  BY <1>4, PurgeImplements
<1>5. CASE User \/ UNCHANGED vars
  <2>1. UNCHANGED <<row, restored, purged, entry, fate>>
    BY <1>5 DEF User, WriteThrough, CreateFile, RemoveFile, RenameFile, db, vars
  <2>2. QED
    BY <2>1, Invisible DEF Given
<1>6. QED
  BY StepCases, <1>1, <1>2, <1>3, <1>4, <1>5

LEMMA InitImplements == Init => Record!Init
BY DEF Init, Record!Init, Recorded, Held, Given

\* Concurrent, crashing commands and users who edit files implement the abstract
\* record: custody is taken once, given up once, and stamped with the truth.
THEOREM ImplementsRecord ==
    ASSUME RemovalsWork
    PROVE  Spec => KeepsRecords
<1>1. Init => Inv /\ Record!Init
  BY InitInv, InitImplements
<1>2. Inv /\ [Next]_vars => Inv'
  BY NextTypeInv, NextOwnInv, NextStampsFit DEF Inv
<1>3. Inv /\ [Next]_vars => [Record!Next]_(Record!vars)
  BY NextImplements
<1>4. QED
  BY <1>1, <1>2, <1>3, PTL DEF Spec, KeepsRecords, Record!Spec

-----------------------------------------------------------------------------
(* No blob without a row.                                                      *)

\* The three ways the code itself leaves a blob behind do not happen.
BlobsAreSettled == Faults \cap {"crash", "copy", "discard"} = {}

\* A step of p that changes no other uuid than its own and leaves its own settled.
LEMMA SettledStep ==
    ASSUME NoOrphanEntry, NEW p \in Procs,
           \A u \in Uuids : u # Uuid(p) =>
               (entry'[u] # None => entry[u] # None) /\ (row'[u] = None => row[u] = None),
           \A q \in Procs : q # p => pc'[q] = pc[q] /\ Uuid(q)' = Uuid(q),
           \/ pc[p] \notin {"compare", "insert", "discard"} /\ UNCHANGED <<entry, row>>
           \/ entry'[Uuid(p)] = None \/ row'[Uuid(p)] # None
           \/ Uuid(p)' = Uuid(p) /\ pc'[p] \in {"compare", "insert", "discard"}
    PROVE  NoOrphanEntry'
<1> SUFFICES ASSUME NEW u \in Uuids, entry'[u] # None, row'[u] = None
             PROVE  \E q \in Procs : Uuid(q)' = u /\ pc'[q] \in {"compare", "insert", "discard"}
  BY DEF NoOrphanEntry
<1>1. CASE Uuid(p)' = u /\ pc'[p] \in {"compare", "insert", "discard"}
  BY <1>1
<1>2. CASE ~(Uuid(p)' = u /\ pc'[p] \in {"compare", "insert", "discard"})
  <2>1. entry[u] # None /\ row[u] = None /\ (u = Uuid(p) => pc[p] \notin {"compare", "insert", "discard"})
    BY <1>2
  <2>2. PICK q \in Procs : Uuid(q) = u /\ pc[q] \in {"compare", "insert", "discard"}
    BY <2>1 DEF NoOrphanEntry
  <2>3. q # p
    BY <2>1, <2>2
  <2>4. QED
    BY <2>2, <2>3
<1>3. QED
  BY <1>1, <1>2

LEMMA NextNoOrphan ==
    ASSUME TypeInv, OwnInv, NoOrphanEntry, BlobsAreSettled, [Next]_vars
    PROVE  NoOrphanEntry'
<1> USE NoneIsNothing DEF TypeInv, TypeOK, JobsFit, DeletePoints, UndeletePoints, Hashed, OwnInv, RowsFit,
        Making, UsingRow, OrNone, Uuid, fs, db
<1>1. ASSUME NEW p \in Procs, StepOf(p) PROVE NoOrphanEntry'
  <2>1. CASE GiveUp(p)
    BY <2>1, SettledStep DEF GiveUp, End, BlobsAreSettled, Fault
  <2>2. CASE HashSource(p) \/ StatSource(p)
    BY <2>2, SettledStep DEF HashSource, StatSource
  <2>3. CASE LinkEntry(p)
    BY <2>3, SettledStep DEF LinkEntry
  <2>4. CASE CopyEntry(p)
    <3>1. PICK i \in FreeInodes : entry' = [entry EXCEPT ![Uuid(p)] = i]
      BY <2>4 DEF CopyEntry
    <3>2. QED
      BY <2>4, <3>1, SettledStep DEF CopyEntry
  <2>5. CASE CopyEntryFails(p)
    BY <2>5 DEF CopyEntryFails, BlobsAreSettled, Fault
  <2>6. CASE CopyMatches(p) \/ InsertFails(p)
    BY <2>6, SettledStep DEF CopyMatches, InsertFails, Goto
  <2>7. CASE CopyDiffers(p) \/ DiscardEntry(p)
    BY <2>7, SettledStep DEF CopyDiffers, DiscardEntry, End
  <2>8. CASE InsertRow(p)
    BY <2>8, SettledStep DEF InsertRow, Goto
  <2>9. CASE VerifyByStat(p) \/ RehashAgrees(p) \/ RehashDiscards(p)
    BY <2>9, SettledStep DEF VerifyByStat, RehashAgrees, RehashDiscards, Goto
  <2>10. CASE UnlinkSource(p)
    BY <2>10, SettledStep DEF UnlinkSource, End
  <2>11. CASE DestinationFree(p) \/ DestinationOccupied(p) \/ EntryVerified(p) \/ MarkPurgedFails(p)
    BY <2>11, SettledStep DEF DestinationFree, DestinationOccupied, EntryVerified, MarkPurgedFails, Goto
  <2>12. CASE ClearDestination(p) \/ CopyOut(p) \/ CopyOutFails(p)
    BY <2>12, SettledStep DEF ClearDestination, CopyOut, CopyOutFails, Goto, End
  <2>13. CASE MoveOut(p) \/ ConsumeEntry(p)
    <3>1. row[Uuid(p)] # None /\ UNCHANGED row
      BY <2>13 DEF MoveOut, ConsumeEntry
    <3>2. entry' = entry \/ entry' = [entry EXCEPT ![Uuid(p)] = None]
      BY <2>13 DEF MoveOut, ConsumeEntry
    <3>3. \A q \in Procs : q # p => pc'[q] = pc[q] /\ Uuid(q)' = Uuid(q)
      BY <2>13 DEF MoveOut, ConsumeEntry, Goto
    <3>4. QED
      BY <3>1, <3>2, <3>3, SettledStep
  <2>14. CASE MarkRestored(p) \/ MarkPurged(p)
    BY <2>14, SettledStep DEF MarkRestored, MarkPurged, End, Goto
  <2>15. QED
    BY <1>1, <2>1, <2>2, <2>3, <2>4, <2>5, <2>6, <2>7, <2>8, <2>9, <2>10, <2>11, <2>12, <2>13, <2>14 DEF StepOf
<1>2. ASSUME NEW p \in Procs, NEW a \in Paths, NEW u \in Uuids, PlanDelete(p, a, u) \/ ResolveRecord(p, u, a)
      PROVE  NoOrphanEntry'
  BY <1>2, SettledStep DEF PlanDelete, ResolveRecord
<1>3. ASSUME NEW p \in Procs, NEW selected \in SUBSET Uuids, SelectPurge(p, selected) PROVE NoOrphanEntry'
  BY <1>3, SettledStep DEF SelectPurge
<1>4. ASSUME NEW p \in Procs, NEW u \in Uuids, PurgeEntry(p, u) PROVE NoOrphanEntry'
  <2>1. pc[p] = "remove" /\ pc'[p] = "stamp" /\ \A q \in Procs : q # p => pc'[q] = pc[q] /\ Uuid(q)' = Uuid(q)
    BY <1>4 DEF PurgeEntry
  <2>2. row[u] # None /\ UNCHANGED row
    BY <1>4 DEF PurgeEntry
  <2>3. entry' = entry \/ entry' = [entry EXCEPT ![u] = None]
    BY <1>4 DEF PurgeEntry
  <2>4. QED
    BY <2>1, <2>2, <2>3 DEF NoOrphanEntry
<1>5. CASE User \/ UNCHANGED vars
  <2>1. UNCHANGED <<row, pc, job, entry>>
    BY <1>5 DEF User, WriteThrough, CreateFile, RemoveFile, RenameFile, procs, vars
  <2>2. QED
    BY <2>1 DEF NoOrphanEntry
<1>6. QED
  BY StepCases, <1>1, <1>2, <1>3, <1>4, <1>5

\* Unless a delete crashes, or a copy or a discard fails, no blob is left that
\* no row names.
THEOREM NoBlobIsOrphaned ==
    ASSUME BlobsAreSettled
    PROVE  Spec => []NoOrphanEntry
<1>1. Init => TypeInv /\ OwnInv /\ NoOrphanEntry
  BY InitInv DEF Init, Inv, NoOrphanEntry
<1>2. (TypeInv /\ OwnInv /\ NoOrphanEntry) /\ [Next]_vars => (TypeInv /\ OwnInv /\ NoOrphanEntry)'
  BY NextTypeInv, NextOwnInv, NextNoOrphan
<1>3. QED
  BY <1>1, <1>2, PTL DEF Spec


\* The delete that has made an entry and has not recorded it yet.
Owns(p, u) == Uuid(p) = u /\ pc[p] \in {"compare", "insert", "discard"}

Blob(u) == entry[u] # None /\ row[u] = None

\* It does not let go of the entry before the entry is recorded or gone.
LEMMA OwnerStays ==
    ASSUME TypeInv, BlobsAreSettled, NEW p \in Procs, NEW u \in Uuids, Owns(p, u), [Next]_vars
    PROVE  (Owns(p, u) \/ ~Blob(u))'
<1> USE DEF TypeInv, TypeOK, Owns, Uuid, fs, db
<1>1. ASSUME NEW q \in Procs,
             \/ StepOf(q)
             \/ \E a \in Paths, v \in Uuids : PlanDelete(q, a, v) \/ ResolveRecord(q, v, a)
             \/ \E selected \in SUBSET Uuids : SelectPurge(q, selected)
             \/ \E v \in Uuids : PurgeEntry(q, v)
      PROVE  (Owns(p, u) \/ ~Blob(u))'
  <2>1. CASE q # p
    BY <1>1, <2>1, OthersStay
  <2>2. CASE q = p
    <3>1. ~GiveUp(p)
      BY DEF GiveUp, BlobsAreSettled, Fault
    <3>2. CopyMatches(p) \/ CopyDiffers(p) \/ InsertRow(p) \/ InsertFails(p) \/ DiscardEntry(p)
      BY <1>1, <2>2, <3>1 DEF StepOf, HashSource, StatSource, LinkEntry, CopyEntry, CopyEntryFails,
         VerifyByStat, RehashAgrees, RehashDiscards, UnlinkSource, DestinationFree, DestinationOccupied,
         EntryVerified, ClearDestination, MoveOut, CopyOut, CopyOutFails, ConsumeEntry, MarkRestored,
         MarkPurged, MarkPurgedFails, PlanDelete, ResolveRecord, SelectPurge, PurgeEntry
    <3>3. CASE CopyMatches(p) \/ InsertFails(p)
      BY <3>3 DEF CopyMatches, InsertFails, Goto
    <3>4. CASE CopyDiffers(p) \/ DiscardEntry(p)
      BY <3>4 DEF CopyDiffers, DiscardEntry, Blob
    <3>5. CASE InsertRow(p)
      BY <3>5, NoneIsNothing DEF InsertRow, Blob, JobsFit, Hashed
    <3>6. QED
      BY <3>2, <3>3, <3>4, <3>5
  <2>3. QED
    BY <2>1, <2>2
<1>2. CASE User \/ UNCHANGED vars
  BY <1>2 DEF User, WriteThrough, CreateFile, RemoveFile, RenameFile, procs, vars
<1>3. QED
  BY StepCases, <1>1, <1>2

\* A delete that ends, as each does under fairness, has recorded the entry it made
\* or taken it back by then: what EntriesAreSettled needs beyond CommandsEnd.
THEOREM OwnersSettle ==
    ASSUME BlobsAreSettled, NEW p \in Procs, NEW u \in Uuids
    PROVE  Spec /\ (pc[p] # "idle" ~> pc[p] = "idle")
             => ((Owns(p, u) /\ Blob(u)) ~> ~Blob(u))
<1>1. Init => TypeInv
  BY InitTypeInv
<1>2. TypeInv /\ [Next]_vars => TypeInv'
  BY NextTypeInv
<1>3. TypeInv /\ Owns(p, u) /\ [Next]_vars => (Owns(p, u) \/ ~Blob(u))'
  BY OwnerStays
<1>4. Owns(p, u) => pc[p] # "idle" /\ ~(pc[p] = "idle")
  BY DEF Owns
<1>5. QED
  BY <1>1, <1>2, <1>3, <1>4, PTL DEF Spec

-----------------------------------------------------------------------------
(* Commands end.  What liveness rests on and fairness is no part of: a command  *)
(* comes nearer to its end with each of its own steps, and no step of anybody    *)
(* else, be it another command or a user, takes it back.                         *)

\* The calls still to come at each point, leaving a purge's records aside.
CallsFrom == [idle |-> 0,
              hash |-> 9, stat |-> 8, link |-> 7, compare |-> 6, insert |-> 5, verify |-> 4,
              rehash |-> 3, unlink |-> 2, discard |-> 2,
              entry |-> 6, check |-> 5, clear |-> 4, move |-> 3, consume |-> 2, mark |-> 1,
              remove |-> 1, stamp |-> 2]

StepsLeft(p) == CallsFrom[pc[p]] + 2 * Cardinality(job[p].todo)

\* A process that is running and stays on its way.
Nears(p) == pc[p] # "idle" => StepsLeft(p)' < StepsLeft(p)

\* Both parts of the count are numbers, and bounded.
LEMMA TodoIsFinite ==
    ASSUME IsFiniteSet(Uuids), NEW todo \in SUBSET Uuids
    PROVE  IsFiniteSet(todo) /\ Cardinality(todo) \in 0 .. Cardinality(Uuids)
BY FS_Subset, FS_CardinalityType

LEMMA CallsAreCounted ==
    ASSUME NEW point \in Points
    PROVE  CallsFrom[point] \in 0..9 /\ (CallsFrom[point] = 0 <=> point = "idle")
BY DEF CallsFrom, Points, DeletePoints, UndeletePoints, PurgePoints

\* Where a process is, and what it has to do.
LEMMA Whereabouts ==
    ASSUME TypeOK, NEW p \in Procs
    PROVE  pc[p] \in Points /\ job[p].todo \in SUBSET Uuids
BY DEF TypeOK, Job

LEMMA StepsAreCounted ==
    ASSUME IsFiniteSet(Uuids), NEW point \in Points, NEW todo \in SUBSET Uuids
    PROVE  CallsFrom[point] + 2 * Cardinality(todo) \in 0 .. 9 + 2 * Cardinality(Uuids)
<1>1. CallsFrom[point] \in 0..9
  BY CallsAreCounted
<1>2. Cardinality(todo) \in 0 .. Cardinality(Uuids) /\ Cardinality(Uuids) \in Nat
  BY TodoIsFinite, FS_CardinalityType
<1>3. QED
  BY <1>1, <1>2

\* A step to a point with fewer calls to come, with the same records to do.
LEMMA NearsByCalls ==
    ASSUME TypeOK, IsFiniteSet(Uuids), NEW p \in Procs, pc'[p] \in Points,
           job'[p].todo = job[p].todo, CallsFrom[pc'[p]] < CallsFrom[pc[p]]
    PROVE  Nears(p)
<1>1. Cardinality(job[p].todo) \in Nat
  BY Whereabouts, TodoIsFinite
<1>2. CallsFrom[pc[p]] \in Nat /\ CallsFrom[pc'[p]] \in Nat
  BY Whereabouts, CallsAreCounted
<1>3. QED
  BY <1>1, <1>2 DEF Nears, StepsLeft

\* A command that ends.
LEMMA NearsByEnding ==
    ASSUME TypeOK, IsFiniteSet(Uuids), NEW p \in Procs, pc'[p] = "idle", job'[p] = NoJob
    PROVE  Nears(p)
<1>1. StepsLeft(p)' = 0
  BY FS_EmptySet DEF StepsLeft, CallsFrom, NoJob
<1>2. pc[p] # "idle" => StepsLeft(p) > 0
  BY Whereabouts, TodoIsFinite, CallsAreCounted DEF StepsLeft
<1>3. QED
  BY <1>1, <1>2 DEF Nears

LEMMA StepNears ==
    ASSUME TypeInv, TypeInv', IsFiniteSet(Uuids), NEW p \in Procs, StepOf(p)
    PROVE  Nears(p)
<1> USE DEF TypeInv, TypeOK, Job
<1>1. CASE \/ GiveUp(p) \/ CopyEntryFails(p) \/ CopyDiffers(p) \/ DiscardEntry(p) \/ UnlinkSource(p)
           \/ CopyOutFails(p) \/ MarkRestored(p)
  <2>1. pc'[p] = "idle" /\ job'[p] = NoJob
    BY <1>1 DEF GiveUp, CopyEntryFails, CopyDiffers, DiscardEntry, UnlinkSource, CopyOutFails,
       MarkRestored, End
  <2>2. QED
    BY <2>1, NearsByEnding
<1>2. CASE ~(\/ GiveUp(p) \/ CopyEntryFails(p) \/ CopyDiffers(p) \/ DiscardEntry(p) \/ UnlinkSource(p)
             \/ CopyOutFails(p) \/ MarkRestored(p))
  <2>1. job'[p].todo = job[p].todo
    <3>1. CASE HashSource(p) \/ StatSource(p) \/ LinkEntry(p)
      BY <3>1 DEF HashSource, StatSource, LinkEntry
    <3>2. CASE ~(HashSource(p) \/ StatSource(p) \/ LinkEntry(p))
      BY <1>2, <3>2 DEF StepOf, CopyEntry, CopyMatches, InsertRow, InsertFails, VerifyByStat, RehashAgrees,
         RehashDiscards, DestinationFree, DestinationOccupied, EntryVerified, ClearDestination, MoveOut,
         CopyOut, ConsumeEntry, MarkPurged, MarkPurgedFails, Goto
    <3>3. QED
      BY <3>1, <3>2
  <2>2. CallsFrom[pc'[p]] < CallsFrom[pc[p]]
    <3>1. CASE HashSource(p) \/ StatSource(p) \/ LinkEntry(p) \/ CopyEntry(p) \/ CopyMatches(p)
      BY <3>1 DEF HashSource, StatSource, LinkEntry, CopyEntry, CopyMatches, Goto, CallsFrom
    <3>2. CASE InsertRow(p) \/ InsertFails(p) \/ VerifyByStat(p) \/ RehashAgrees(p) \/ RehashDiscards(p)
      BY <3>2 DEF InsertRow, InsertFails, VerifyByStat, RehashAgrees, RehashDiscards, Goto, CallsFrom
    <3>3. CASE DestinationFree(p) \/ DestinationOccupied(p) \/ EntryVerified(p) \/ ClearDestination(p)
      BY <3>3 DEF DestinationFree, DestinationOccupied, EntryVerified, ClearDestination, Goto, CallsFrom
    <3>4. CASE MoveOut(p) \/ ConsumeEntry(p)
      <4>1. pc[p] \in {"move", "consume"} /\ pc'[p] = "mark"
        BY <3>4 DEF MoveOut, ConsumeEntry, Goto
      <4>2. QED
        BY <4>1 DEF CallsFrom
    <3>5. CASE MarkPurged(p) \/ MarkPurgedFails(p)
      BY <3>5 DEF MarkPurged, MarkPurgedFails, Goto, CallsFrom
    <3>6. CASE CopyOut(p)
      <4>1. pc[p] = "move" /\ pc'[p] = "consume"
        BY <3>6 DEF CopyOut
      <4>2. QED
        BY <4>1 DEF CallsFrom
    <3>7. QED
      BY <1>2, <3>1, <3>2, <3>3, <3>4, <3>5, <3>6 DEF StepOf
  <2>3. QED
    BY <2>1, <2>2, NearsByCalls
<1>3. QED
  BY <1>1, <1>2

\* The loop of a purge: one record less to do, one stamp more.
LEMMA PurgeNears ==
    ASSUME TypeInv, IsFiniteSet(Uuids), NEW p \in Procs, NEW u \in Uuids, PurgeEntry(p, u)
    PROVE  Nears(p)
<1>1. /\ pc[p] = "remove" /\ pc'[p] = "stamp" /\ u \in job[p].todo
      /\ job'[p].todo = job[p].todo \ {u}
  BY DEF PurgeEntry, TypeInv, TypeOK, Job
<1>2. Cardinality(job'[p].todo) = Cardinality(job[p].todo) - 1
  BY <1>1, Whereabouts, TodoIsFinite, FS_RemoveElement DEF TypeInv
<1>3. Cardinality(job[p].todo) \in Nat
  BY Whereabouts, TodoIsFinite DEF TypeInv
<1>4. QED
  BY <1>1, <1>2, <1>3 DEF Nears, StepsLeft, CallsFrom

\* What a step does to the commands that are running.
RunsDown ==
    \A p \in Procs : pc[p] # "idle" =>
        /\ Continue(p) \/ Crash(p) => StepsLeft(p)' < StepsLeft(p)
        /\ StepsLeft(p)' <= StepsLeft(p)

\* Each step of a command that is running brings it nearer to its end, of which it
\* is never more than nine calls and two for each record away, and nobody else's
\* step does anything about that.
THEOREM CommandsRunDown ==
    ASSUME IsFiniteSet(Uuids)
    PROVE  Spec => /\ [](\A p \in Procs : StepsLeft(p) \in 0 .. 9 + 2 * Cardinality(Uuids))
                   /\ [][RunsDown]_vars
<1>1. Init => TypeInv
  BY InitTypeInv
<1>2. TypeInv /\ [Next]_vars => TypeInv'
  BY NextTypeInv
<1>3. TypeInv => \A p \in Procs : StepsLeft(p) \in 0 .. 9 + 2 * Cardinality(Uuids)
  BY Whereabouts, StepsAreCounted DEF TypeInv, StepsLeft
<1>4. ASSUME TypeInv, [Next]_vars, NEW p \in Procs, pc[p] # "idle"
      PROVE  /\ Continue(p) \/ Crash(p) => StepsLeft(p)' < StepsLeft(p)
             /\ StepsLeft(p)' <= StepsLeft(p)
  <2>1. TypeInv' /\ StepsLeft(p) \in Nat /\ StepsLeft(p)' \in Nat
    <3>1. pc[p] \in Points /\ job[p].todo \in SUBSET Uuids
      BY <1>4, Whereabouts DEF TypeInv
    <3>2. TypeInv' /\ pc'[p] \in Points /\ job'[p].todo \in SUBSET Uuids
      BY <1>4, NextTypeInv DEF TypeInv, TypeOK, Job
    <3>3. QED
      BY <3>1, <3>2, StepsAreCounted, FS_CardinalityType DEF StepsLeft
  <2>2. ASSUME NEW q \in Procs, Crash(q) PROVE StepOf(q)
    BY <2>2 DEF Crash, GiveUp, StepOf, fs, db
  <2>3. CASE Continue(p) \/ Crash(p)
    <3>1. Nears(p)
      BY <1>4, <2>1, <2>2, <2>3, ContinueCases, StepNears, PurgeNears
    <3>2. QED
      BY <1>4, <2>1, <3>1 DEF Nears
  <2>4. CASE ~(Continue(p) \/ Crash(p))
    <3>1. pc'[p] = pc[p] /\ job'[p] = job[p]
      <4>1. ASSUME NEW q \in Procs, q # p, Start(q) \/ Continue(q) \/ Crash(q) PROVE <3>1
        BY <1>4, <2>2, <4>1, ContinueCases, OthersStay DEF Start
      <4>2. ~Start(p)
        BY <1>4 DEF Start, PlanDelete, ResolveRecord, SelectPurge
      <4>3. CASE User \/ UNCHANGED vars
        BY <4>3 DEF User, WriteThrough, CreateFile, RemoveFile, RenameFile, procs, vars
      <4>4. QED
        BY <1>4, <2>4, <4>1, <4>2, <4>3 DEF Next
    <3>2. QED
      BY <2>1, <2>4, <3>1 DEF StepsLeft
  <2>5. QED
    BY <2>3, <2>4
<1>5. TypeInv /\ [Next]_vars => [RunsDown]_vars
  BY <1>4 DEF RunsDown
<1>6. QED
  BY <1>1, <1>2, <1>3, <1>5, PTL DEF Spec

=============================================================================
