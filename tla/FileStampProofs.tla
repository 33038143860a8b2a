---------------------------- MODULE FileStampProofs ----------------------------
(* Proofs about FileArchive: what the stamps, and their absence, let info say.  *)
EXTENDS FileArchiveProofs

-----------------------------------------------------------------------------
(* restored_at, whatever fails. *)

GivenFit ==
    /\ RestoredWasGivenBack
    /\ \A p \in Procs : pc[p] = "mark" => "given back" \in fate[Uuid(p)]

LEMMA GivenFrame ==
    ASSUME TypeInv, GivenFit, Onwards, UNCHANGED restored, NEW p \in Procs, ComesToStamp(p, {"stamp"})
    PROVE  GivenFit'
BY DEF TypeInv, TypeOK, JobsFit, UndeletePoints, GivenFit, Onwards, ComesToStamp, RestoredWasGivenBack

LEMMA NextGivenFit ==
    ASSUME TypeInv, OwnInv, GivenFit, [Next]_vars
    PROVE  GivenFit'
<1>1. ASSUME NEW p \in Procs, StepOf(p) PROVE GivenFit'
  <2>1. CASE MoveOut(p) \/ ConsumeEntry(p)
    BY <2>1, TakeOutStamps DEF TypeInv, TypeOK, JobsFit, UndeletePoints, GivenFit,
       Onwards, ComesToStamp, RestoredWasGivenBack
  <2>2. CASE MarkRestored(p)
    BY <2>2 DEF MarkRestored, End, fs, TypeInv, TypeOK, GivenFit, RestoredWasGivenBack, Uuid
  <2>3. CASE MarkPurged(p)
    BY <2>3 DEF MarkPurged, Goto, fs, TypeInv, TypeOK, GivenFit, RestoredWasGivenBack, Uuid
  <2>4. CASE ~(MoveOut(p) \/ ConsumeEntry(p) \/ MarkRestored(p) \/ MarkPurged(p))
    <3>1. Onwards /\ ComesToStamp(p, {}) /\ UNCHANGED <<restored, purged>>
      BY <1>1, <2>4, DeleteStamps, UndeleteStamps DEF StepOf
    <3>2. QED
      BY <3>1, GivenFrame DEF ComesToStamp
  <2>5. QED
    BY <2>1, <2>2, <2>3, <2>4
<1>2. ASSUME NEW p \in Procs, NEW a \in Paths, NEW u \in Uuids, PlanDelete(p, a, u) \/ ResolveRecord(p, u, a)
      PROVE  GivenFit'
  <2>1. Onwards /\ ComesToStamp(p, {"stamp"}) /\ UNCHANGED <<restored, purged>>
    BY <1>2 DEF PlanDelete, ResolveRecord, fs, db, Onwards, ComesToStamp, TypeInv, TypeOK, Uuid
  <2>2. QED
    BY <2>1, GivenFrame
<1>3. ASSUME NEW p \in Procs, NEW selected \in SUBSET Uuids, SelectPurge(p, selected) PROVE GivenFit'
  <2>1. Onwards /\ ComesToStamp(p, {"stamp"}) /\ UNCHANGED <<restored, purged>>
    BY <1>3 DEF SelectPurge, fs, db, Onwards, ComesToStamp, TypeInv, TypeOK, Uuid
  <2>2. QED
    BY <2>1, GivenFrame
<1>4. ASSUME NEW p \in Procs, NEW u \in Uuids, PurgeEntry(p, u) PROVE GivenFit'
  <2>1. \A v \in Uuids : fate[v] \subseteq fate'[v]
    BY <1>4, BecameMore DEF PurgeEntry, TypeInv
  <2>2. entry' = entry \/ entry' = [entry EXCEPT ![u] = None]
    BY <1>4 DEF PurgeEntry
  <2>3. UNCHANGED <<row, restored>> /\ pc' = [pc EXCEPT ![p] = "stamp"]
    BY <1>4 DEF PurgeEntry, db
  <2>4. \A q \in Procs : q # p => Uuid(q)' = Uuid(q)
    BY <1>4 DEF PurgeEntry, TypeInv, TypeOK, Uuid
  <2>5. Onwards /\ ComesToStamp(p, {"stamp"})
    BY <2>1, <2>2, <2>3, <2>4 DEF Onwards, ComesToStamp, TypeInv, TypeOK
  <2>6. QED
    BY <2>3, <2>5, GivenFrame
<1>5. CASE User \/ UNCHANGED vars
  <2>1. UNCHANGED <<restored, pc, job, fate>>
    BY <1>5 DEF User, WriteThrough, CreateFile, RemoveFile, RenameFile, procs, db, vars
  <2>2. QED
    BY <2>1 DEF GivenFit, RestoredWasGivenBack, Uuid
<1>6. QED
  BY StepCases, <1>1, <1>2, <1>3, <1>4, <1>5

\* A row stamped restored_at was given back by an undelete, whatever fails,
\* crashes or runs beside it.
THEOREM RestoredMeansGivenBack == Spec => []RestoredWasGivenBack
<1>1. Init => TypeInv /\ OwnInv /\ GivenFit
  BY InitInv DEF Init, Inv, GivenFit, RestoredWasGivenBack
<1>2. (TypeInv /\ OwnInv /\ GivenFit) /\ [Next]_vars => (TypeInv /\ OwnInv /\ GivenFit)'
  BY NextTypeInv, NextOwnInv, NextGivenFit
<1>3. TypeInv /\ OwnInv /\ GivenFit => RestoredWasGivenBack
  BY DEF GivenFit
<1>4. QED
  BY <1>1, <1>2, <1>3, PTL DEF Spec

-----------------------------------------------------------------------------
(* A row without a stamp and without an entry. *)

Gone(u) == row[u] # None /\ entry[u] = None /\ u \notin restored \cup purged

Stamping == {"mark", "stamp"}

GoneFit ==
    \A u \in Uuids : Gone(u) =>
        \/ "discarded" \in fate[u]
        \/ \E p \in Procs : Uuid(p) = u /\ pc[p] \in Stamping

\* No process is killed, and no UPDATE fails, with only the stamp left to set.
StampsWork == "crash" \notin Faults /\ "mark" \notin Faults

\* Nothing recorded goes, and who is about to stamp a row still is.
Holds ==
    /\ \A u \in Uuids : (Gone(u)' => Gone(u)) /\ fate[u] \subseteq fate'[u]
    /\ \A q \in Procs : pc[q] \in Stamping => pc'[q] = pc[q] /\ Uuid(q)' = Uuid(q)

LEMMA HoldsKeeps == ASSUME GoneFit, Holds PROVE GoneFit'
BY DEF GoneFit, Holds

\* Steps of a delete, but for the discard.
LEMMA DeleteHolds ==
    ASSUME TypeInv, OwnInv, NEW p \in Procs,
           \/ HashSource(p) \/ StatSource(p) \/ LinkEntry(p) \/ CopyEntry(p) \/ CopyEntryFails(p)
           \/ CopyMatches(p) \/ CopyDiffers(p) \/ InsertRow(p) \/ InsertFails(p)
           \/ VerifyByStat(p) \/ RehashAgrees(p) \/ RehashDiscards(p) \/ UnlinkSource(p)
    PROVE  Holds
<1> USE NoneIsNothing DEF TypeInv, TypeOK, JobsFit, DeletePoints, Hashed, OwnInv, RowsFit, EntriesFit, Making,
        OrNone, Uuid, Entry, Holds, Gone, Stamping, fs, db
<1>1. CASE HashSource(p) \/ StatSource(p) \/ LinkEntry(p)
  BY <1>1 DEF HashSource, StatSource, LinkEntry
<1>2. CASE CopyEntry(p) \/ CopyEntryFails(p)
  <2>1. PICK i \in FreeInodes : entry' = [entry EXCEPT ![Uuid(p)] = i]
    BY <1>2 DEF CopyEntry, CopyEntryFails
  <2>2. i # None
    BY DEF FreeInodes
  <2>3. pc[p] \notin Stamping /\ \A q \in Procs : q # p => pc'[q] = pc[q] /\ Uuid(q)' = Uuid(q)
    BY <1>2 DEF CopyEntry, CopyEntryFails
  <2>4. UNCHANGED <<row, restored, purged, fate>>
    BY <1>2 DEF CopyEntry, CopyEntryFails
  <2>5. QED
    BY <2>1, <2>2, <2>3, <2>4
<1>3. CASE CopyMatches(p) \/ InsertFails(p) \/ VerifyByStat(p) \/ RehashAgrees(p) \/ RehashDiscards(p)
  BY <1>3 DEF CopyMatches, InsertFails, VerifyByStat, RehashAgrees, RehashDiscards, Goto
<1>4. CASE CopyDiffers(p) \/ UnlinkSource(p)
  BY <1>4 DEF CopyDiffers, UnlinkSource, End
<1>5. CASE InsertRow(p)
  BY <1>5 DEF InsertRow, Goto
<1>6. QED
  BY <1>1, <1>2, <1>3, <1>4, <1>5

LEMMA OtherHolds ==
    ASSUME TypeInv, StampsWork, NEW p \in Procs,
           \/ GiveUp(p) \/ DestinationFree(p) \/ DestinationOccupied(p) \/ EntryVerified(p)
           \/ ClearDestination(p) \/ CopyOut(p) \/ CopyOutFails(p)
    PROVE  Holds
<1> USE DEF TypeInv, TypeOK, Uuid, Holds, Gone, Stamping, fs, db
<1>1. CASE GiveUp(p) \/ CopyOutFails(p)
  BY <1>1 DEF GiveUp, CopyOutFails, End, StampsWork, Fault
<1>2. CASE DestinationFree(p) \/ DestinationOccupied(p) \/ EntryVerified(p) \/ ClearDestination(p)
  BY <1>2 DEF DestinationFree, DestinationOccupied, EntryVerified, ClearDestination, Goto
<1>3. CASE CopyOut(p)
  BY <1>3 DEF CopyOut
<1>4. QED
  BY <1>1, <1>2, <1>3

\* An entry that is discarded is known to have been.
LEMMA DiscardKeeps ==
    ASSUME TypeInv, GoneFit, NEW p \in Procs, DiscardEntry(p)
    PROVE  GoneFit'
<1> SUFFICES ASSUME NEW u \in Uuids, Gone(u)'
             PROVE  ("discarded" \in fate[u] \/ \E q \in Procs : Uuid(q) = u /\ pc[q] \in Stamping)'
  BY DEF GoneFit
<1>1. /\ entry' = [entry EXCEPT ![Uuid(p)] = None] /\ fate' = Became(Uuid(p), "discarded")
      /\ UNCHANGED <<row, restored, purged>>
      /\ Uuid(p) \in Uuids
  BY DEF DiscardEntry, db, TypeInv, JobsFit, DeletePoints
<1>2. CASE u = Uuid(p) /\ entry[u] # None
  BY <1>1, <1>2 DEF Became, TypeInv, TypeOK
<1>3. CASE ~(u = Uuid(p) /\ entry[u] # None)
  <2>1. Gone(u)
    BY <1>1, <1>3 DEF Gone, TypeInv, TypeOK
  <2>2. fate[u] \subseteq fate'[u]
    BY <1>1, BecameMore DEF TypeInv
  <2>3. ASSUME NEW q \in Procs, Uuid(q) = u, pc[q] \in Stamping
        PROVE  pc'[q] = pc[q] /\ Uuid(q)' = Uuid(q)
    BY <2>3 DEF DiscardEntry, End, Stamping, Uuid, TypeInv, TypeOK
  <2>4. QED
    BY <2>1, <2>2, <2>3 DEF GoneFit
<1>4. QED
  BY <1>2, <1>3

\* Whoever takes an entry out is about to stamp its row.
LEMMA TakerKeeps ==
    ASSUME TypeInv, GoneFit, NEW p \in Procs, NEW u \in Uuids, pc[p] \notin Stamping,
           pc'[p] \in Stamping, Uuid(p)' = u,
           \A q \in Procs : q # p => pc'[q] = pc[q] /\ Uuid(q)' = Uuid(q),
           \A v \in Uuids : fate[v] \subseteq fate'[v] /\ (v # u => entry'[v] = entry[v]),
           UNCHANGED <<row, restored, purged>>
    PROVE  GoneFit'
<1> SUFFICES ASSUME NEW v \in Uuids, Gone(v)'
             PROVE  ("discarded" \in fate[v] \/ \E q \in Procs : Uuid(q) = v /\ pc[q] \in Stamping)'
  BY DEF GoneFit
<1>1. CASE v = u
  BY <1>1
<1>2. CASE v # u
  <2>1. Gone(v)
    BY <1>2 DEF Gone
  <2>2. ASSUME NEW q \in Procs, Uuid(q) = v, pc[q] \in Stamping
        PROVE  pc'[q] \in Stamping /\ Uuid(q)' = v
    BY <2>2
  <2>3. QED
    BY <2>1, <2>2 DEF GoneFit
<1>3. QED
  BY <1>1, <1>2

\* Whoever stamps a row leaves no other row without an explanation.
LEMMA StampKeeps ==
    ASSUME TypeInv, GoneFit, NEW p \in Procs, MarkRestored(p) \/ MarkPurged(p)
    PROVE  GoneFit'
<1> SUFFICES ASSUME NEW u \in Uuids, Gone(u)'
             PROVE  ("discarded" \in fate[u] \/ \E q \in Procs : Uuid(q) = u /\ pc[q] \in Stamping)'
  BY DEF GoneFit
<1>1. /\ UNCHANGED <<row, entry, fate>>
      /\ restored' \cup purged' = restored \cup purged \cup {Uuid(p)}
      /\ \A q \in Procs : q # p => pc'[q] = pc[q] /\ Uuid(q)' = Uuid(q)
  BY DEF MarkRestored, MarkPurged, End, Goto, fs, Uuid, TypeInv, TypeOK
<1>2. Gone(u) /\ u # Uuid(p)
  BY <1>1 DEF Gone
<1>3. QED
  BY <1>1, <1>2 DEF GoneFit

LEMMA NextGoneFit ==
    ASSUME TypeInv, OwnInv, GoneFit, StampsWork, [Next]_vars
    PROVE  GoneFit'
<1>1. ASSUME NEW p \in Procs, StepOf(p) PROVE GoneFit'
  <2>1. CASE MoveOut(p) \/ ConsumeEntry(p)
    <3>1. /\ pc[p] \notin Stamping /\ Uuid(p) \in Uuids /\ UNCHANGED <<row, restored, purged>>
          /\ \A q \in Procs : q # p => pc'[q] = pc[q] /\ Uuid(q)' = Uuid(q)
          /\ \A v \in Uuids : v # Uuid(p) => entry'[v] = entry[v]
      BY <2>1 DEF MoveOut, ConsumeEntry, Goto, db, Stamping, Uuid, TypeInv, TypeOK, JobsFit, UndeletePoints
    <3>2. pc'[p] = "mark" /\ Uuid(p)' = Uuid(p) /\ Onwards
      BY <2>1, TakeOutStamps
    <3>3. QED
      BY <3>1, <3>2, TakerKeeps DEF Onwards, Stamping
  <2>2. CASE MarkRestored(p) \/ MarkPurged(p)
    BY <2>2, StampKeeps
  <2>3. CASE DiscardEntry(p)
    BY <2>3, DiscardKeeps
  <2>4. ~MarkPurgedFails(p)
    BY DEF MarkPurgedFails, StampsWork, Fault
  <2>5. QED
    BY <1>1, <2>1, <2>2, <2>3, <2>4, DeleteHolds, OtherHolds, HoldsKeeps DEF StepOf
<1>2. ASSUME NEW p \in Procs, NEW a \in Paths, NEW u \in Uuids, PlanDelete(p, a, u) \/ ResolveRecord(p, u, a)
      PROVE  GoneFit'
  <2>1. Holds
    BY <1>2 DEF PlanDelete, ResolveRecord, fs, db, Holds, Gone, Stamping, TypeInv, TypeOK, Uuid
  <2>2. QED
    BY <2>1, HoldsKeeps
<1>3. ASSUME NEW p \in Procs, NEW selected \in SUBSET Uuids, SelectPurge(p, selected) PROVE GoneFit'
  <2>1. Holds
    BY <1>3 DEF SelectPurge, fs, db, Holds, Gone, Stamping, TypeInv, TypeOK, Uuid
  <2>2. QED
    BY <2>1, HoldsKeeps
<1>4. ASSUME NEW p \in Procs, NEW u \in Uuids, PurgeEntry(p, u) PROVE GoneFit'
  <2>1. \A v \in Uuids : fate[v] \subseteq fate'[v]
    BY <1>4, BecameMore DEF PurgeEntry, TypeInv
  <2>2. \A v \in Uuids : v # u => entry'[v] = entry[v]
    BY <1>4 DEF PurgeEntry, TypeInv, TypeOK
  <2>3. /\ pc[p] \notin Stamping /\ pc'[p] = "stamp" /\ UNCHANGED <<row, restored, purged>>
        /\ \A q \in Procs : q # p => pc'[q] = pc[q]
    BY <1>4 DEF PurgeEntry, db, Stamping, TypeInv, TypeOK
  <2>4. job' = [job EXCEPT ![p].uuid = u, ![p].todo = @ \ {u}]
    BY <1>4 DEF PurgeEntry
  <2>5. Uuid(p)' = u /\ \A q \in Procs : q # p => Uuid(q)' = Uuid(q)
    BY <2>4 DEF TypeInv, TypeOK, Job, Uuid
  <2>6. QED
    BY <2>1, <2>2, <2>3, <2>5, TakerKeeps DEF Stamping
<1>5. CASE User \/ UNCHANGED vars
  <2>1. UNCHANGED <<row, restored, purged, pc, job, entry, fate>>
    BY <1>5 DEF User, WriteThrough, CreateFile, RemoveFile, RenameFile, procs, db, vars
  <2>2. QED
    BY <2>1 DEF GoneFit, Gone, Uuid
<1>6. QED
  BY StepCases, <1>1, <1>2, <1>3, <1>4, <1>5

LEMMA GoneIsExplained == GoneFit => GoneIsHonest
<1> SUFFICES ASSUME GoneFit, NEW u \in Uuids, row[u] # None, Status(u) = "entry-missing"
             PROVE  \/ "discarded" \in fate[u]
                    \/ \E p \in Procs : Uuid(p) = u /\ pc[p] \in {"mark", "stamp"}
  BY DEF GoneIsHonest
<1>1. Gone(u)
  BY DEF Status, Gone
<1>2. QED
  BY <1>1 DEF GoneFit, Stamping

\* Where UPDATEs work and nobody is killed, info says that an entry is missing,
\* though nothing restored or purged it, of no row but those whose delete discarded
\* the entry and those a command is about to stamp.
THEOREM MissingIsExplained ==
    ASSUME StampsWork
    PROVE  Spec => []GoneIsHonest
<1>1. Init => TypeInv /\ OwnInv /\ GoneFit
  BY InitInv DEF Init, Inv, GoneFit, Gone
<1>2. (TypeInv /\ OwnInv /\ GoneFit) /\ [Next]_vars => (TypeInv /\ OwnInv /\ GoneFit)'
  BY NextTypeInv, NextOwnInv, NextGoneFit
<1>3. TypeInv /\ OwnInv /\ GoneFit => GoneIsHonest
  BY GoneIsExplained
<1>4. QED
  BY <1>1, <1>2, <1>3, PTL DEF Spec

-----------------------------------------------------------------------------
(* A restore that fails. *)

\* Of a row whose entry is gone it is known where it went.
TakenIsKnown == \A u \in Uuids : row[u] # None /\ entry[u] = None => fate[u] # {}

\* A step that takes no entry out of a row's hands, and forgets nothing.
LEMMA KnownFrame ==
    ASSUME TakenIsKnown,
           \A u \in Uuids : fate[u] \subseteq fate'[u],
           \A u \in Uuids : row'[u] # None /\ entry'[u] = None =>
               (row[u] # None /\ entry[u] = None) \/ fate'[u] # {}
    PROVE  TakenIsKnown'
BY DEF TakenIsKnown

\* A step that takes an entry out and says what for.
LEMMA KnownTaking ==
    ASSUME TypeInv, TakenIsKnown, NEW u \in Uuids, NEW what, fate' = Became(u, what),
           entry' = entry \/ entry' = [entry EXCEPT ![u] = None], UNCHANGED row
    PROVE  TakenIsKnown'
<1>1. \A v \in Uuids : fate[v] \subseteq fate'[v]
  BY BecameMore DEF TypeInv
<1>2. ASSUME NEW v \in Uuids, row'[v] # None, entry'[v] = None
      PROVE  (row[v] # None /\ entry[v] = None) \/ fate'[v] # {}
  <2>1. CASE v = u /\ entry[u] # None
    BY <2>1 DEF Became, TypeInv, TypeOK
  <2>2. CASE ~(v = u /\ entry[u] # None)
    BY <1>2, <2>2 DEF TypeInv, TypeOK
  <2>3. QED
    BY <2>1, <2>2
<1>3. QED
  BY <1>1, <1>2, KnownFrame

LEMMA StepIsKnown ==
    ASSUME TypeInv, OwnInv, TakenIsKnown, NEW p \in Procs, StepOf(p)
    PROVE  TakenIsKnown'
<1> USE NoneIsNothing DEF TypeInv, TypeOK, JobsFit, DeletePoints, UndeletePoints, OwnInv, RowsFit, EntriesFit,
        Making, OrNone, Uuid, Entry, fs, db
<1>1. CASE GiveUp(p)
  BY <1>1 DEF GiveUp, TakenIsKnown
<1>2. CASE HashSource(p) \/ StatSource(p) \/ CopyMatches(p) \/ InsertFails(p) \/ VerifyByStat(p)
           \/ RehashAgrees(p) \/ RehashDiscards(p) \/ UnlinkSource(p)
  BY <1>2 DEF HashSource, StatSource, CopyMatches, InsertFails, VerifyByStat, RehashAgrees,
     RehashDiscards, UnlinkSource, TakenIsKnown
<1>3. CASE DestinationFree(p) \/ DestinationOccupied(p) \/ EntryVerified(p) \/ ClearDestination(p)
           \/ CopyOut(p) \/ CopyOutFails(p) \/ MarkRestored(p) \/ MarkPurged(p) \/ MarkPurgedFails(p)
  BY <1>3 DEF DestinationFree, DestinationOccupied, EntryVerified, ClearDestination, CopyOut,
     CopyOutFails, MarkRestored, MarkPurged, MarkPurgedFails, TakenIsKnown
<1>4. CASE LinkEntry(p) \/ CopyEntry(p) \/ CopyEntryFails(p) \/ CopyDiffers(p)
  <2>1. /\ row[Uuid(p)] = None /\ UNCHANGED <<row, fate>>
        /\ \A u \in Uuids : u # Uuid(p) => entry'[u] = entry[u]
    BY <1>4 DEF LinkEntry, CopyEntry, CopyEntryFails, CopyDiffers
  <2>2. QED
    BY <2>1, KnownFrame
<1>5. CASE InsertRow(p)
  <2>1. /\ entry[Uuid(p)] # None /\ UNCHANGED <<entry, fate>>
        /\ \A u \in Uuids : u # Uuid(p) => row'[u] = row[u]
    BY <1>5 DEF InsertRow
  <2>2. QED
    BY <2>1, KnownFrame
<1>6. CASE DiscardEntry(p)
  <2>1. /\ Uuid(p) \in Uuids /\ UNCHANGED row /\ fate' = Became(Uuid(p), "discarded")
        /\ entry' = [entry EXCEPT ![Uuid(p)] = None]
    BY <1>6 DEF DiscardEntry
  <2>2. QED
    BY <2>1, KnownTaking
<1>7. CASE MoveOut(p) \/ ConsumeEntry(p)
  <2>1. /\ Uuid(p) \in Uuids /\ UNCHANGED row /\ fate' = Became(Uuid(p), "given back")
        /\ entry' = entry \/ entry' = [entry EXCEPT ![Uuid(p)] = None]
    BY <1>7 DEF MoveOut, ConsumeEntry
  <2>2. QED
    BY <2>1, KnownTaking
<1>8. QED
  BY <1>1, <1>2, <1>3, <1>4, <1>5, <1>6, <1>7 DEF StepOf

LEMMA NextIsKnown ==
    ASSUME TypeInv, OwnInv, TakenIsKnown, [Next]_vars
    PROVE  TakenIsKnown'
<1>1. ASSUME NEW p \in Procs, NEW u \in Uuids, PurgeEntry(p, u) PROVE TakenIsKnown'
  <2>1. CASE UNCHANGED <<entry, fate>>
    BY <1>1, <2>1 DEF PurgeEntry, db, TakenIsKnown
  <2>2. CASE entry' = [entry EXCEPT ![u] = None] /\ fate' = Became(u, "destroyed")
    BY <1>1, <2>2, KnownTaking DEF PurgeEntry, db
  <2>3. QED
    BY <1>1, <2>1, <2>2 DEF PurgeEntry
<1>2. ASSUME NEW p \in Procs,
             \/ \E a \in Paths, u \in Uuids : PlanDelete(p, a, u) \/ ResolveRecord(p, u, a)
             \/ \E selected \in SUBSET Uuids : SelectPurge(p, selected)
      PROVE  TakenIsKnown'
  BY <1>2 DEF PlanDelete, ResolveRecord, SelectPurge, fs, db, TakenIsKnown
<1>3. CASE User \/ UNCHANGED vars
  BY <1>3 DEF User, WriteThrough, CreateFile, RemoveFile, RenameFile, db, vars, TakenIsKnown
<1>4. QED
  BY StepCases, StepIsKnown, <1>1, <1>2, <1>3

\* A step that ends an undelete before it has given anything back leaves the archive alone.
LEMMA EndingKeepsEntry ==
    ASSUME TypeInv, [Next]_vars, NEW p \in Procs,
           pc[p] \in {"check", "clear", "move", "consume"}, pc'[p] = "idle"
    PROVE  entry' = entry
<1> USE DEF TypeInv, TypeOK, fs, db
<1>1. ASSUME NEW q \in Procs, StepOf(q) PROVE q = p /\ (GiveUp(q) \/ CopyOutFails(q))
  <2>1. CASE ~(GiveUp(q) \/ CopyOutFails(q))
    BY <1>1, <2>1 DEF StepOf, HashSource, StatSource, LinkEntry, CopyEntry, CopyEntryFails, CopyMatches,
       CopyDiffers, InsertRow, InsertFails, DiscardEntry, VerifyByStat, RehashAgrees, RehashDiscards,
       UnlinkSource, DestinationFree, DestinationOccupied, EntryVerified, ClearDestination, MoveOut,
       CopyOut, ConsumeEntry, MarkRestored, MarkPurged, MarkPurgedFails, End, Goto
  <2>2. CASE GiveUp(q) \/ CopyOutFails(q)
    BY <2>2 DEF GiveUp, CopyOutFails, End
  <2>3. QED
    BY <2>1, <2>2
<1>2. ASSUME NEW q \in Procs,
             \/ \E a \in Paths, u \in Uuids : PlanDelete(q, a, u) \/ ResolveRecord(q, u, a)
             \/ \E selected \in SUBSET Uuids : SelectPurge(q, selected)
             \/ \E u \in Uuids : PurgeEntry(q, u)
      PROVE  FALSE
  BY <1>2 DEF PlanDelete, ResolveRecord, SelectPurge, PurgeEntry
<1>3. CASE User \/ UNCHANGED vars
  BY <1>3 DEF User, WriteThrough, CreateFile, RemoveFile, RenameFile, procs, vars
<1>4. QED
  BY StepCases, <1>1, <1>2, <1>3 DEF GiveUp, CopyOutFails

\* An undelete that fails, at any of its calls and for any reason, a crash among
\* them, leaves the entry in the archive unless somebody else has taken it out.
THEOREM FailuresKeepEntries == Spec => FailedRestoreKeepsEntry
<1>1. Init => TypeInv /\ OwnInv /\ TakenIsKnown
  BY InitInv DEF Init, Inv, TakenIsKnown
<1>2. (TypeInv /\ OwnInv /\ TakenIsKnown) /\ [Next]_vars => (TypeInv /\ OwnInv /\ TakenIsKnown)'
  BY NextTypeInv, NextOwnInv, NextIsKnown
<1>3. ASSUME TypeInv, OwnInv, TakenIsKnown, [Next]_vars, NEW p \in Procs,
             pc[p] \in {"check", "clear", "move", "consume"}, pc'[p] = "idle"
      PROVE  entry'[Uuid(p)] # None \/ fate[Uuid(p)] # {}
  <2>1. Uuid(p) \in Uuids /\ row[Uuid(p)] # None
    BY <1>3 DEF TypeInv, JobsFit, OwnInv, RowsFit, UsingRow, UndeletePoints
  <2>2. entry' = entry
    BY <1>3, EndingKeepsEntry
  <2>3. QED
    BY <1>3, <2>1, <2>2 DEF TakenIsKnown
<1>4. (TypeInv /\ OwnInv /\ TakenIsKnown) /\ [Next]_vars =>
        [\A p \in Procs : pc[p] \in {"check", "clear", "move", "consume"} /\ pc'[p] = "idle"
            => entry'[Uuid(p)] # None \/ fate[Uuid(p)] # {}]_vars
  BY <1>3
<1>5. QED
  BY <1>1, <1>2, <1>4, PTL DEF Spec, FailedRestoreKeepsEntry

=============================================================================
