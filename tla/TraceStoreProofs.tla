---------------------------- MODULE TraceStoreProofs ----------------------------
(***************************************************************************)
(* What a capture promises, for any store, any number of invocations and   *)
(* any cap: its types, that no entry to be had is reported missing, that   *)
(* the chain is an ancestry, and that a chain cut short says why.          *)
(***************************************************************************)
EXTENDS TraceStore, SequenceTheorems, TLAPS

(* Types. *)

\* What TypeOK needs to be inductive: the record is within its cap until finish, a
\* walk under way looks for an identifier, partitions are read only after the
\* listing, and an invocation past its selection has selected something.
Working == /\ pc # "done" => Len(anomalies) <= MaxAnomalies
           /\ pc \in {"visit", "search"} => at \in Ids
           /\ pc = "search" => listed
           /\ ~listed => loaded = {}
           /\ \A w \in Ids : writer[w] # "idle" => choice[w] \in Hours

Typed == TypeOK /\ Working

\* A line added to a partition leaves it a partition.
LEMMA EntryKeepsFile ==
    ASSUME NEW file \in File, NEW id \in Ids, NEW up \in Parents
    PROVE  WithEntry(file, id, up) \in File
<1>1. [file.says EXCEPT ![id] = up] \in Says
  BY DEF File, Says
<1> QED
  BY <1>1 DEF WithEntry, File

LEMMA TornKeepsFile ==
    ASSUME NEW file \in File
    PROVE  WithTorn(file) \in File
<1>1. WithTorn(file) = [says |-> file.says, torn |-> file.torn + 1, long |-> file.long]
  BY DEF WithTorn, File
<1> QED
  BY <1>1 DEF File

LEMMA EmptyIsFile == NoLines \in File
  BY DEF NoLines, File, Says

\* Opening a partition for appending finds or makes one.
LEMMA ReopenedIsFile ==
    ASSUME NEW file \in File \cup {None}
    PROVE  Reopened(file) \in File
  BY EmptyIsFile DEF Reopened

\* What read and capEntry have to say of a partition is a sequence of anomalies.
LEMMA ComplaintsAreKinds ==
    ASSUME NEW file \in File
    PROVE  Complaints(file) \in Seq(Kinds)
<1>1. file.torn + file.long \in Nat
  BY DEF File
<1>2. \A i \in 1..(file.torn + file.long) :
        (IF i <= file.torn THEN "malformed-entry" ELSE "oversized-entry-field") \in Kinds
  BY DEF Kinds, Reason, Cuts
<1> QED
  BY <1>1, <1>2 DEF Complaints

\* record keeps to the cap and counts what it refuses.
LEMMA RecordKeepsCap ==
    ASSUME NEW kinds \in Seq(Kinds), anomalies \in Seq(Kinds),
           Len(anomalies) <= MaxAnomalies, dropped \in Nat, Record(kinds)
    PROVE  anomalies' \in Seq(Kinds) /\ Len(anomalies') <= MaxAnomalies /\ dropped' \in Nat
<1> DEFINE room == MaxAnomalies - Len(anomalies)
           kept == IF Len(kinds) <= room THEN Len(kinds) ELSE room
           part1 == SubSeq(kinds, 1, kept)
<1>1. room \in Nat /\ kept \in Nat /\ kept <= room /\ kept <= Len(kinds) /\ Len(kinds) \in Nat
  BY CapAssumption
<1>2. part1 \in Seq(Kinds) /\ Len(part1) = kept
  <2>1. \A i \in 1..kept : kinds[i] \in Kinds
    BY <1>1
  <2> QED
    BY <1>1, <2>1, SubSeqProperties
<1>3. anomalies' = anomalies \o part1 /\ dropped' = dropped + (Len(kinds) - kept)
  BY DEF Record
<1> HIDE DEF room, kept, part1
<1>4. anomalies \o part1 \in Seq(Kinds) /\ Len(anomalies \o part1) = Len(anomalies) + kept
  BY <1>2
<1>5. Len(anomalies) + kept <= MaxAnomalies
  BY <1>1, CapAssumption DEF room
<1> QED
  BY <1>1, <1>3, <1>4, <1>5

\* The empty index of a capture's end.
LEMMA NothingSaid == [h \in Hours |-> NoLines.says] \in [Hours -> Says]
  BY DEF NoLines, Says

\* Every return leaves a record of the declared kinds and no reader.
LEMMA FinishIsTyped ==
    ASSUME NEW how \in Cuts, anomalies \in Seq(Kinds), dropped \in Nat, Finish(how)
    PROVE  /\ anomalies' \in Seq(Kinds) /\ dropped' \in Nat /\ pc' = "done" /\ cut' = how
           /\ seen' = {} /\ listed' = FALSE /\ labels' = {} /\ todo' = {} /\ loaded' = {}
           /\ index' \in [Hours -> Says]
<1> DEFINE owed == IF how = "root" THEN <<>> ELSE <<Reason[how]>>
           fits == Len(anomalies) < MaxAnomalies
           lastly == IF fits THEN anomalies \o owed ELSE anomalies
<1>1. owed \in Seq(Kinds)
  <2>1. CASE how = "root"
    BY <2>1
  <2>2. CASE how # "root"
    <3>1. Reason[how] \in Kinds
      BY <2>2 DEF Kinds
    <3> QED
      BY <2>2, <3>1
  <2> QED
    BY <2>1, <2>2
<1>2. lastly \in Seq(Kinds) /\ Len(owed) \in Nat
  BY <1>1
<1>3. /\ dropped' = IF fits THEN dropped ELSE dropped + Len(owed)
      /\ anomalies' = IF dropped' = 0 THEN lastly
                                      ELSE Append(lastly, "anomalies-dropped")
  BY DEF Finish
<1>4. "anomalies-dropped" \in Kinds
  BY DEF Kinds
<1> HIDE DEF owed, fits, lastly
<1>5. anomalies' \in Seq(Kinds) /\ dropped' \in Nat
  BY <1>2, <1>3, <1>4
<1> QED
  BY <1>5, NothingSaid DEF Finish, Forgotten

-----------------------------------------------------------------------------

\* What TypeOK says of the store and its writers, and of the capture.
StoreTyped ==
    /\ part \in [Hours -> File \cup {None}]
    /\ blocked \in SUBSET Hours
    /\ stamp \in [Ids -> Hours \cup {None}]
    /\ parent \in [Ids -> Ids \cup {None}]
    /\ writer \in [Ids -> {"idle", "chosen", "spawned"}]
    /\ choice \in [Ids -> Hours \cup {None}]
    /\ \A w \in Ids : writer[w] # "idle" => choice[w] \in Hours

CaptureTyped ==
    /\ pc \in {"idle", "visit", "search", "done"}
    /\ at \in Ids \cup {None, Bad}
    /\ seen \in SUBSET Ids
    /\ listed \in BOOLEAN
    /\ labels \in SUBSET Hours
    /\ todo \in SUBSET labels
    /\ loaded \in SUBSET labels
    /\ index \in [Hours -> Says]
    /\ chain \in Seq(Entry)
    /\ anomalies \in Seq(Kinds)
    /\ dropped \in Nat
    /\ cut \in Cuts \cup {None}
    /\ pc # "done" => Len(anomalies) <= MaxAnomalies
    /\ pc \in {"visit", "search"} => at \in Ids
    /\ pc = "search" => listed
    /\ ~listed => loaded = {}

HistoryTyped ==
    /\ known \in SUBSET Ids
    /\ lost \in SUBSET Hours
    /\ torn \in SUBSET Ids
    /\ forged \in SUBSET Ids
    /\ edits \in 0..MaxEdits

LEMMA TypedInParts == Typed <=> StoreTyped /\ CaptureTyped /\ HistoryTyped
  BY DEF Typed, TypeOK, Working, StoreTyped, CaptureTyped, HistoryTyped

LEMMA EditCounts ==
    ASSUME edits \in 0..MaxEdits, Edit
    PROVE  edits' \in 0..MaxEdits
  BY CapAssumption DEF Edit

\* A step of a writer or of a hand keeps the types.
LEMMA WorldKeepsTypes ==
    ASSUME Typed, World
    PROVE  Typed'
<1> USE NamesAssumption
<1>0. StoreTyped /\ CaptureTyped /\ HistoryTyped
  BY TypedInParts
<1>1. ASSUME NEW w \in Ids, AppendEntry(w)
      PROVE  Typed'
  <2>1. choice[w] \in Hours /\ Reopened(part[choice[w]]) \in File /\ parent[w] \in Parents
    BY <1>0, <1>1, ReopenedIsFile DEF AppendEntry, StoreTyped, Parents
  <2>2. part' = [part EXCEPT ![choice[w]] = WithEntry(Reopened(part[choice[w]]), w, parent[w])]
    BY <1>1 DEF AppendEntry
  <2>3. WithEntry(Reopened(part[choice[w]]), w, parent[w]) \in File
    BY <2>1, EntryKeepsFile
  <2>4. StoreTyped'
    BY <1>0, <1>1, <2>1, <2>2, <2>3 DEF AppendEntry, Mint, StoreTyped
  <2>5. CaptureTyped' /\ HistoryTyped'
    BY <1>0, <1>1 DEF AppendEntry, CaptureTyped, HistoryTyped, walk, cache, notes, history
  <2> QED
    BY <2>4, <2>5, TypedInParts, PTL
<1>2. ASSUME NEW w \in Ids, AppendTorn(w)
      PROVE  Typed'
  <2>1. choice[w] \in Hours /\ Reopened(part[choice[w]]) \in File
    BY <1>0, <1>2, ReopenedIsFile DEF AppendTorn, StoreTyped
  <2>2. part' = [part EXCEPT ![choice[w]] = WithTorn(Reopened(part[choice[w]]))]
    BY <1>2 DEF AppendTorn
  <2>3. WithTorn(Reopened(part[choice[w]])) \in File
    BY <2>1, TornKeepsFile
  <2>4. StoreTyped'
    BY <1>0, <1>2, <2>1, <2>2, <2>3 DEF AppendTorn, Mint, StoreTyped
  <2>5. CaptureTyped'
    BY <1>0, <1>2 DEF AppendTorn, CaptureTyped, walk, cache, notes
  <2>6. HistoryTyped'
    BY <1>0, <1>2, EditCounts DEF AppendTorn, HistoryTyped
  <2> QED
    BY <2>4, <2>5, <2>6, TypedInParts, PTL
<1>3. ASSUME NEW w \in Ids, NEW p \in Ids \cup {None}, NEW h \in Hours, Select(w, p, h)
      PROVE  Typed'
  <2>1. StoreTyped'
    BY <1>0, <1>3, EmptyIsFile DEF Select, StoreTyped
  <2>2. CaptureTyped' /\ HistoryTyped'
    BY <1>0, <1>3 DEF Select, CaptureTyped, HistoryTyped, walk, cache, notes, history
  <2> QED
    BY <2>1, <2>2, TypedInParts, PTL
<1>4. ASSUME NEW h \in Hours, Prune(h)
      PROVE  Typed'
  <2>1. StoreTyped'
    BY <1>0, <1>4 DEF Prune, StoreTyped, writers
  <2>2. CaptureTyped'
    BY <1>0, <1>4 DEF Prune, CaptureTyped, walk, cache, notes
  <2>3. HistoryTyped'
    BY <1>0, <1>4, EditCounts DEF Prune, HistoryTyped
  <2> QED
    BY <2>1, <2>2, <2>3, TypedInParts, PTL
<1>5. ASSUME NEW h \in Hours, Block(h)
      PROVE  Typed'
  <2>1. StoreTyped'
    BY <1>0, <1>5 DEF Block, StoreTyped, writers
  <2>2. CaptureTyped'
    BY <1>0, <1>5 DEF Block, CaptureTyped, walk, cache, notes
  <2>3. HistoryTyped'
    BY <1>0, <1>5, EditCounts DEF Block, HistoryTyped
  <2> QED
    BY <2>1, <2>2, <2>3, TypedInParts, PTL
<1>6. ASSUME NEW h \in Hours, NEW id \in Ids, NEW up \in Parents, Forge(h, id, up)
      PROVE  Typed'
  <2>1. part[h] \in File
    BY <1>0, <1>6 DEF Forge, Present, StoreTyped
  <2>2. WithEntry(part[h], id, up) \in File
    BY <2>1, EntryKeepsFile
  <2>3. StoreTyped'
    BY <1>0, <1>6, <2>2 DEF Forge, StoreTyped, writers
  <2>4. CaptureTyped'
    BY <1>0, <1>6 DEF Forge, CaptureTyped, walk, cache, notes
  <2>5. HistoryTyped'
    BY <1>0, <1>6, EditCounts DEF Forge, HistoryTyped
  <2> QED
    BY <2>3, <2>4, <2>5, TypedInParts, PTL
<1> QED
  BY <1>1, <1>2, <1>3, <1>4, <1>5, <1>6 DEF World

-----------------------------------------------------------------------------

\* The end of a capture keeps its types, when the chain and the identifier do.
LEMMA FinishKeepsTypes ==
    ASSUME CaptureTyped, NEW how \in Cuts, Finish(how),
           at' \in Ids \cup {None, Bad}, chain' \in Seq(Entry)
    PROVE  CaptureTyped'
<1>1. /\ anomalies' \in Seq(Kinds) /\ dropped' \in Nat /\ pc' = "done" /\ cut' = how
      /\ seen' = {} /\ listed' = FALSE /\ labels' = {} /\ todo' = {} /\ loaded' = {}
      /\ index' \in [Hours -> Says]
  BY FinishIsTyped DEF CaptureTyped
<1> QED
  BY <1>1 DEF CaptureTyped

\* A step of the capture, or its start, keeps the types.
LEMMA CaptureKeepsTypes ==
    ASSUME Typed, Start \/ Capture
    PROVE  Typed'
<1> USE NamesAssumption
<1>0. StoreTyped /\ CaptureTyped /\ HistoryTyped
  BY TypedInParts
<1>a. "value" \in Cuts /\ "cycle" \in Cuts /\ "dangling" \in Cuts /\ "parent" \in Cuts /\ "root" \in Cuts
  BY DEF Cuts
<1>1. ASSUME NEW value \in Ids \cup {Bad}, Collect(value)
      PROVE  Typed'
  <2>1. StoreTyped' /\ HistoryTyped'
    BY <1>0, <1>1 DEF Collect, StoreTyped, HistoryTyped, store, writers
  <2>2. CASE value = Bad
    <3>1. CaptureTyped'
      BY <1>0, <1>1, <1>a, <2>2, FinishKeepsTypes DEF Collect, CaptureTyped
    <3> QED
      BY <2>1, <3>1, TypedInParts, PTL
  <2>3. CASE value # Bad
    <3>1. CaptureTyped'
      BY <1>0, <1>1, <2>3 DEF Collect, CaptureTyped, cache, notes
    <3> QED
      BY <2>1, <3>1, TypedInParts, PTL
  <2> QED
    BY <2>2, <2>3
<1>2. ASSUME Revisit
      PROVE  Typed'
  <2>1. StoreTyped' /\ HistoryTyped'
    BY <1>0, <1>2 DEF Revisit, StoreTyped, HistoryTyped, store, writers, history
  <2>2. CaptureTyped'
    BY <1>0, <1>2, <1>a, FinishKeepsTypes DEF Revisit, CaptureTyped
  <2> QED
    BY <2>1, <2>2, TypedInParts, PTL
<1>3. ASSUME Visit
      PROVE  Typed'
  <2>1. at \in Ids
    BY <1>0, <1>3 DEF Visit, CaptureTyped
  <2>2. stamp' \in [Ids -> Hours \cup {None}]
    BY <1>0, <1>3, <2>1 DEF Visit, AnyHour, StoreTyped
  <2>3. StoreTyped' /\ HistoryTyped'
    BY <1>0, <1>3, <2>2 DEF Visit, StoreTyped, HistoryTyped, store, history
  <2>4. labels' \in SUBSET Hours /\ todo' \in SUBSET labels'
    BY <1>0, <1>3 DEF Visit, Reach, Present, CaptureTyped
  <2>5. loaded' \in SUBSET labels'
    <3>1. loaded' = loaded
      BY <1>3 DEF Visit, cache
    <3>2. CASE listed
      BY <1>0, <1>3, <3>1, <3>2 DEF Visit, CaptureTyped
    <3>3. CASE ~listed
      BY <1>0, <3>1, <3>3 DEF CaptureTyped
    <3> QED
      BY <3>2, <3>3
  <2>6. CaptureTyped'
    BY <1>0, <1>3, <2>1, <2>4, <2>5 DEF Visit, CaptureTyped, cache, notes
  <2> QED
    BY <2>3, <2>6, TypedInParts, PTL
<1>4. ASSUME ListFails
      PROVE  Typed'
  <2>1. <<"store-unreadable">> \in Seq(Kinds)
    BY DEF Kinds
  <2>2. anomalies' \in Seq(Kinds) /\ Len(anomalies') <= MaxAnomalies /\ dropped' \in Nat
    BY <1>0, <1>4, <2>1, RecordKeepsCap DEF ListFails, CaptureTyped
  <2>3. StoreTyped'
    BY <1>0, <1>4 DEF ListFails, StoreTyped, store, writers
  <2>4. HistoryTyped'
    BY <1>0, <1>4, EditCounts DEF ListFails, HistoryTyped
  <2>5. CaptureTyped'
    BY <1>0, <1>4, <2>2 DEF ListFails, CaptureTyped, cache
  <2> QED
    BY <2>3, <2>4, <2>5, TypedInParts, PTL
<1>5. ASSUME NEW l \in Hours, Load(l)
      PROVE  Typed'
  <2>1. part[l] \in File
    BY <1>0, <1>5 DEF Load, Present, StoreTyped
  <2>2. Complaints(part[l]) \in Seq(Kinds) /\ Complaints(WithTorn(part[l])) \in Seq(Kinds)
    BY <2>1, ComplaintsAreKinds, TornKeepsFile
  <2>3. Record(Complaints(part[l])) \/ Record(Complaints(WithTorn(part[l])))
    BY <1>5 DEF Load
  <2>4. anomalies' \in Seq(Kinds) /\ Len(anomalies') <= MaxAnomalies /\ dropped' \in Nat
    BY <1>0, <1>5, <2>2, <2>3, RecordKeepsCap DEF Load, CaptureTyped
  <2>5. part[l].says \in Says
    BY <2>1 DEF File
  <2>6. StoreTyped' /\ HistoryTyped'
    BY <1>0, <1>5 DEF Load, StoreTyped, HistoryTyped, store, writers, history
  <2>7. CaptureTyped'
    BY <1>0, <1>5, <2>4, <2>5 DEF Load, CaptureTyped, walk, IsNext
  <2> QED
    BY <2>6, <2>7, TypedInParts, PTL
<1>6. ASSUME NEW l \in Hours, LoadFails(l)
      PROVE  Typed'
  <2>1. <<"store-unreadable">> \in Seq(Kinds)
    BY DEF Kinds
  <2>2. anomalies' \in Seq(Kinds) /\ Len(anomalies') <= MaxAnomalies /\ dropped' \in Nat
    BY <1>0, <1>6, <2>1, RecordKeepsCap DEF LoadFails, CaptureTyped
  <2>3. StoreTyped' /\ HistoryTyped'
    BY <1>0, <1>6 DEF LoadFails, StoreTyped, HistoryTyped, store, writers, history
  <2>4. CaptureTyped'
    BY <1>0, <1>6, <2>2 DEF LoadFails, CaptureTyped, walk, IsNext
  <2> QED
    BY <2>3, <2>4, TypedInParts, PTL
<1>7. ASSUME NEW l \in Hours, Miss(l)
      PROVE  Typed'
  <2>1. StoreTyped' /\ HistoryTyped'
    BY <1>0, <1>7 DEF Miss, StoreTyped, HistoryTyped, store, writers, history
  <2>2. CaptureTyped'
    BY <1>0, <1>7 DEF Miss, CaptureTyped, cache, notes
  <2> QED
    BY <2>1, <2>2, TypedInParts, PTL
<1>8. ASSUME NEW l \in Hours, Hit(l)
      PROVE  Typed'
  <2> DEFINE up == index[l][at]
  <2>1. at \in Ids /\ up \in Parents /\ up # Absent
    BY <1>0, <1>8 DEF Hit, CaptureTyped, Says
  <2>2. chain' = Append(chain, [id |-> at, parent |-> up])
    BY <1>8 DEF Hit
  <2>3. chain' \in Seq(Entry)
    BY <1>0, <2>1, <2>2 DEF CaptureTyped, Entry
  <2>4. StoreTyped' /\ HistoryTyped'
    BY <1>0, <1>8 DEF Hit, StoreTyped, HistoryTyped, store, writers, history
  <2>5. CASE up = None
    <3>1. Finish("root") /\ at' = at
      BY <1>8, <2>5 DEF Hit
    <3>2. CaptureTyped'
      BY <1>0, <1>a, <2>1, <2>3, <3>1, FinishKeepsTypes
    <3> QED
      BY <2>4, <3>2, TypedInParts, PTL
  <2>6. CASE up = Bad
    <3>1. Finish("parent") /\ at' = Bad
      BY <1>8, <2>6 DEF Hit
    <3>2. CaptureTyped'
      BY <1>0, <1>a, <2>3, <3>1, FinishKeepsTypes
    <3> QED
      BY <2>4, <3>2, TypedInParts, PTL
  <2>7. CASE up # None /\ up # Bad
    <3>1. up \in Ids
      BY <2>1, <2>7 DEF Parents
    <3>2. pc' = "visit" /\ at' = up /\ todo' = {} /\ UNCHANGED <<seen, listed, labels, cache, cut, notes>>
      BY <1>8, <2>7 DEF Hit
    <3>3. CaptureTyped'
      BY <1>0, <1>8, <2>3, <3>1, <3>2 DEF CaptureTyped, cache, notes, Hit
    <3> QED
      BY <2>4, <3>3, TypedInParts, PTL
  <2> QED
    BY <2>5, <2>6, <2>7
<1>9. ASSUME Dangling
      PROVE  Typed'
  <2>1. StoreTyped' /\ HistoryTyped'
    BY <1>0, <1>9 DEF Dangling, StoreTyped, HistoryTyped, store, writers, history
  <2>2. CaptureTyped'
    BY <1>0, <1>9, <1>a, FinishKeepsTypes DEF Dangling, CaptureTyped
  <2> QED
    BY <2>1, <2>2, TypedInParts, PTL
<1> QED
  BY <1>1, <1>2, <1>3, <1>4, <1>5, <1>6, <1>7, <1>8, <1>9 DEF Start, Capture

LEMMA InitIsTyped == Init => Typed
<1> SUFFICES ASSUME Init PROVE Typed
  OBVIOUS
<1>1. StoreTyped
  BY DEF Init, StoreTyped
<1>2. CaptureTyped
  <2>1. index \in [Hours -> Says]
    BY NothingSaid DEF Init
  <2>2. chain \in Seq(Entry) /\ anomalies \in Seq(Kinds) /\ Len(anomalies) <= MaxAnomalies
    <3>1. chain = <<>> /\ anomalies = <<>> /\ Len(anomalies) = 0
      BY DEF Init
    <3> QED
      BY <3>1, CapAssumption
  <2> QED
    BY <2>1, <2>2 DEF Init, CaptureTyped
<1>3. HistoryTyped
  BY CapAssumption DEF Init, HistoryTyped
<1> QED
  BY <1>1, <1>2, <1>3, TypedInParts

LEMMA StutterKeepsTypes ==
    ASSUME Typed, UNCHANGED vars
    PROVE  Typed'
  BY DEF Typed, TypeOK, Working, vars, Present

\* Every reachable state is typed, whatever writers and hands do.
LEMMA AlwaysTyped == Spec => []Typed
<1>1. Typed /\ [Next]_vars => Typed'
  BY WorldKeepsTypes, CaptureKeepsTypes, StutterKeepsTypes DEF Next
<1> QED
  BY <1>1, InitIsTyped, PTL DEF Spec

\* The type invariant of the trace store and its reader (trace.go), for any store.
THEOREM TypeCorrect == Spec => []TypeOK
<1>1. Typed => TypeOK
  BY DEF Typed
<1> QED
  BY <1>1, AlwaysTyped, PTL

-----------------------------------------------------------------------------
(* The store and what it says. *)

\* An entry that was written whole is in the partition its invocation selected for
\* as long as nobody touches that, the partition is not after the identifier's hour,
\* and a line nobody forged says what its invocation wrote.
Clamped == \A w \in Ids : writer[w] = "spawned" =>
                choice[w] \in Hours /\ stamp[w] \in Hours /\ choice[w] <= stamp[w]

Kept == \A w \in Ids : writer[w] = "spawned" /\ w \notin torn /\ choice[w] \notin lost =>
                part[choice[w]] # None /\ part[choice[w]].says[w] # Absent

Truthful(says) == \A id \in Ids \ forged : says[id] # Absent =>
                        writer[id] = "spawned" /\ says[id] = parent[id]

StoreTruth == \A h \in Hours : part[h] # None => Truthful(part[h].says)

StoreInv == Clamped /\ Kept /\ blocked \subseteq lost /\ StoreTruth

\* What has been written stays written, and an entry once out of reach stays so.
Forward == /\ \A w \in Ids : writer[w] = "spawned" =>
                /\ writer'[w] = "spawned" /\ parent'[w] = parent[w]
                /\ choice'[w] = choice[w] /\ stamp'[w] = stamp[w]
           /\ torn \subseteq torn' /\ lost \subseteq lost' /\ forged \subseteq forged'

LEMMA ForwardKeepsTruth ==
    ASSUME NEW says \in Says, Truthful(says), Forward
    PROVE  Truthful(says)'
  BY DEF Truthful, Forward

LEMMA AbsentIsNoParent == Absent \notin Parents
  BY NamesAssumption DEF Parents

LEMMA WorldIsForward ==
    ASSUME Typed, World
    PROVE  Forward
<1> USE DEF Forward
<1>0. StoreTyped
  BY TypedInParts
<1>1. ASSUME NEW w \in Ids, AppendEntry(w)
      PROVE  Forward
  BY <1>0, <1>1 DEF AppendEntry, Mint, StoreTyped, history
<1>2. ASSUME NEW w \in Ids, AppendTorn(w)
      PROVE  Forward
  BY <1>0, <1>2 DEF AppendTorn, Mint, StoreTyped
<1>3. ASSUME NEW w \in Ids, NEW p \in Ids \cup {None}, NEW h \in Hours, Select(w, p, h)
      PROVE  Forward
  BY <1>0, <1>3 DEF Select, StoreTyped, history
<1>4. ASSUME NEW h \in Hours, Prune(h)
      PROVE  Forward
  BY <1>4 DEF Prune, writers
<1>5. ASSUME NEW h \in Hours, Block(h)
      PROVE  Forward
  BY <1>5 DEF Block, writers
<1>6. ASSUME NEW h \in Hours, NEW id \in Ids, NEW up \in Parents, Forge(h, id, up)
      PROVE  Forward
  BY <1>6 DEF Forge, writers
<1> QED
  BY <1>1, <1>2, <1>3, <1>4, <1>5, <1>6 DEF World

LEMMA CaptureIsForward ==
    ASSUME Typed, StoreInv, Start \/ Capture
    PROVE  /\ Forward
           /\ part' = part /\ blocked' = blocked /\ writer' = writer
           /\ parent' = parent /\ choice' = choice /\ torn' = torn /\ forged' = forged
<1>0. StoreTyped /\ CaptureTyped /\ HistoryTyped
  BY TypedInParts
<1> DEFINE Goal == /\ Forward
                   /\ part' = part /\ blocked' = blocked /\ writer' = writer
                   /\ parent' = parent /\ choice' = choice /\ torn' = torn /\ forged' = forged
<1>1. ASSUME NEW value \in Ids \cup {Bad}, Collect(value)
      PROVE  Goal
  BY <1>1 DEF Collect, Forward, store, writers
<1>2. CASE Revisit
  BY <1>2 DEF Revisit, Forward, store, writers, history
<1>3. CASE Visit
  <2>1. \A w \in Ids : writer[w] = "spawned" => stamp[w] # None
    BY <1>0, NamesAssumption DEF StoreInv, Clamped
  <2>2. \A w \in Ids : writer[w] = "spawned" => stamp'[w] = stamp[w]
    BY <1>0, <1>3, <2>1 DEF Visit, AnyHour, StoreTyped
  <2> QED
    BY <1>3, <2>2 DEF Visit, Forward, store, history
<1>4. CASE ListFails
  BY <1>0, <1>4 DEF ListFails, Forward, store, writers, HistoryTyped
<1>5. ASSUME NEW l \in Hours, Load(l) \/ LoadFails(l) \/ Miss(l) \/ Hit(l)
      PROVE  Goal
  BY <1>5 DEF Load, LoadFails, Miss, Hit, Forward, store, writers, history
<1>6. CASE Dangling
  BY <1>6 DEF Dangling, Forward, store, writers, history
<1> QED
  BY <1>1, <1>2, <1>3, <1>4, <1>5, <1>6 DEF Start, Capture

\* One partition rewritten, the others as they were.
LEMMA RewriteKeepsTruth ==
    ASSUME Typed, Typed', StoreTruth, Forward, NEW h \in Hours, NEW file \in File,
           part' = [part EXCEPT ![h] = file], Truthful(file.says)'
    PROVE  StoreTruth'
<1>1. StoreTyped /\ file.says \in Says
  BY TypedInParts DEF File
<1> SUFFICES ASSUME NEW g \in Hours, part'[g] # None
             PROVE  Truthful(part[g].says)'
  BY DEF StoreTruth
<1>2. CASE g = h
  BY <1>1, <1>2 DEF StoreTyped, Truthful
<1>3. CASE g # h
  <2>1. part'[g] = part[g]
    BY <1>1, <1>3 DEF StoreTyped
  <2>2. part[g] \in File /\ part[g].says \in Says
    BY <1>1, <2>1 DEF StoreTyped, File
  <2>3. Truthful(part[g].says)
    BY <2>1 DEF StoreTruth
  <2> QED
    BY <2>1, <2>2, <2>3 DEF Truthful, Forward
<1> QED
  BY <1>2, <1>3

LEMMA WorldKeepsStore ==
    ASSUME Typed, Typed', StoreInv, World
    PROVE  StoreInv'
<1> USE NamesAssumption
<1>0. StoreTyped /\ HistoryTyped /\ Forward /\ StoreTyped'
  BY TypedInParts, WorldIsForward, PTL
<1>a. Absent \notin Parents /\ None \notin File
  BY AbsentIsNoParent, NoneAssumption
<1>1. ASSUME NEW w \in Ids, AppendEntry(w)
      PROVE  StoreInv'
  <2> DEFINE file == Reopened(part[choice[w]])
  <2>1. choice[w] \in Hours /\ file \in File /\ parent[w] \in Parents
    BY <1>0, <1>1, ReopenedIsFile DEF AppendEntry, StoreTyped, Parents
  <2>2. PICK new \in File : new = WithEntry(file, w, parent[w])
    BY <2>1, EntryKeepsFile
  <2>2a. part' = [part EXCEPT ![choice[w]] = new]
    BY <1>1, <2>2 DEF AppendEntry
  <2>3. /\ writer' = [writer EXCEPT ![w] = "spawned"] /\ writer[w] = "chosen"
        /\ parent' = parent /\ choice' = choice /\ blocked' = blocked
        /\ torn' = torn /\ lost' = lost /\ forged' = forged
        /\ \E h \in Hours : h >= choice[w] /\ stamp' = [stamp EXCEPT ![w] = h]
    BY <1>1 DEF AppendEntry, Mint, history
  <2>4. Truthful(file.says)
    BY <1>0, <2>1 DEF Reopened, StoreInv, StoreTruth, NoLines, Truthful
  <2>5. new.says = [file.says EXCEPT ![w] = parent[w]] /\ file.says \in [Ids -> Parents \cup {Absent}]
    BY <2>1, <2>2 DEF WithEntry, File, Says
  <2> HIDE DEF file
  <2>6. Truthful(new.says)'
    BY <1>0, <2>3, <2>4, <2>5 DEF Truthful, StoreTyped
  <2>7. StoreTruth'
    BY <1>0, <2>1, <2>2, <2>2a, <2>6, RewriteKeepsTruth DEF StoreInv
  <2>8. Clamped'
    BY <1>0, <2>1, <2>3 DEF StoreInv, Clamped, StoreTyped
  <2>9. Kept'
    <3> SUFFICES ASSUME NEW v \in Ids, writer'[v] = "spawned", v \notin torn, choice[v] \notin lost
                 PROVE  part'[choice[v]] # None /\ part'[choice[v]].says[v] # Absent
      BY <2>3 DEF Kept
    <3>1. CASE v = w
      BY <1>0, <1>a, <2>1, <2>2, <2>2a, <2>5, <3>1 DEF StoreTyped
    <3>2. CASE v # w
      <4>1. /\ choice[v] \in Hours /\ part[choice[v]] # None
            /\ part[choice[v]].says[v] # Absent
        BY <1>0, <2>3, <3>2 DEF StoreInv, Kept, Clamped, StoreTyped
      <4>2. CASE choice[v] = choice[w]
        <5>1. file = part[choice[v]]
          BY <4>1, <4>2 DEF file, Reopened
        <5>2. part'[choice[v]] = new
          BY <1>0, <2>1, <2>2, <2>2a, <4>2 DEF StoreTyped
        <5> QED
          BY <1>a, <2>2, <2>5, <3>2, <4>1, <5>1, <5>2
      <4>3. CASE choice[v] # choice[w]
        BY <1>0, <2>1, <2>2, <2>2a, <4>1, <4>3 DEF StoreTyped
      <4> QED
        BY <4>2, <4>3
    <3> QED
      BY <3>1, <3>2
  <2> QED
    BY <2>3, <2>7, <2>8, <2>9 DEF StoreInv
<1>2. ASSUME NEW w \in Ids, AppendTorn(w)
      PROVE  StoreInv'
  <2> DEFINE file == Reopened(part[choice[w]])
  <2>1. choice[w] \in Hours /\ file \in File
    BY <1>0, <1>2, ReopenedIsFile DEF AppendTorn, StoreTyped
  <2>2. PICK new \in File : new = WithTorn(file)
    BY <2>1, TornKeepsFile
  <2>2a. part' = [part EXCEPT ![choice[w]] = new]
    BY <1>2, <2>2 DEF AppendTorn
  <2>3. /\ writer' = [writer EXCEPT ![w] = "spawned"] /\ writer[w] = "chosen"
        /\ parent' = parent /\ choice' = choice /\ blocked' = blocked
        /\ torn' = torn \cup {w} /\ lost' = lost /\ forged' = forged
        /\ \E h \in Hours : h >= choice[w] /\ stamp' = [stamp EXCEPT ![w] = h]
    BY <1>2 DEF AppendTorn, Mint
  <2>4. Truthful(file.says)
    BY <1>0, <2>1 DEF Reopened, StoreInv, StoreTruth, NoLines, Truthful
  <2>5. new.says = file.says /\ file.says \in Says
    BY <2>1, <2>2 DEF WithTorn, File
  <2> HIDE DEF file
  <2>6. Truthful(new.says)'
    BY <1>0, <2>3, <2>4, <2>5 DEF Truthful, StoreTyped
  <2>7. StoreTruth'
    BY <1>0, <2>1, <2>2, <2>2a, <2>6, RewriteKeepsTruth DEF StoreInv
  <2>8. Clamped'
    BY <1>0, <2>1, <2>3 DEF StoreInv, Clamped, StoreTyped
  <2>9. Kept'
    <3> SUFFICES ASSUME NEW v \in Ids, v # w, writer[v] = "spawned", v \notin torn, choice[v] \notin lost
                 PROVE  part'[choice[v]] # None /\ part'[choice[v]].says[v] # Absent
      BY <1>0, <2>3 DEF Kept, StoreTyped
    <3>1. choice[v] \in Hours /\ part[choice[v]] # None /\ part[choice[v]].says[v] # Absent
      BY DEF StoreInv, Kept, Clamped
    <3>2. CASE choice[v] = choice[w]
      <4>1. file = part[choice[v]]
        BY <3>1, <3>2 DEF file, Reopened
      <4>2. part'[choice[v]] = new
        BY <1>0, <2>1, <2>2, <2>2a, <3>2 DEF StoreTyped
      <4> QED
        BY <1>a, <2>2, <2>5, <3>1, <4>1, <4>2
    <3>3. CASE choice[v] # choice[w]
      BY <1>0, <2>1, <2>2, <2>2a, <3>1, <3>3 DEF StoreTyped
    <3> QED
      BY <3>2, <3>3
  <2> QED
    BY <2>3, <2>7, <2>8, <2>9 DEF StoreInv
<1>3. ASSUME NEW w \in Ids, NEW p \in Ids \cup {None}, NEW h \in Hours, Select(w, p, h)
      PROVE  StoreInv'
  <2>1. /\ writer' = [writer EXCEPT ![w] = "chosen"] /\ writer[w] = "idle"
        /\ choice' = [choice EXCEPT ![w] = h] /\ parent' = [parent EXCEPT ![w] = p]
        /\ stamp' = stamp /\ blocked' = blocked
        /\ torn' = torn /\ lost' = lost /\ forged' = forged
        /\ part' = IF part[h] # None THEN part ELSE [part EXCEPT ![h] = NoLines]
    BY <1>3 DEF Select, history, Present
  <2>2. StoreTruth'
    <3>1. CASE part[h] # None
      <4>1. part' = part
        BY <2>1, <3>1
      <4>2. \A g \in Hours : part[g] # None => part[g].says \in Says
        BY <1>0 DEF StoreTyped, File
      <4> QED
        BY <1>0, <4>1, <4>2, ForwardKeepsTruth DEF StoreInv, StoreTruth, Truthful, Forward
    <3>2. CASE part[h] = None
      <4>1. part' = [part EXCEPT ![h] = NoLines]
        BY <2>1, <3>2
      <4>2. Truthful(NoLines.says)'
        BY DEF Truthful, NoLines
      <4> QED
        BY <1>0, <4>1, <4>2, EmptyIsFile, RewriteKeepsTruth DEF StoreInv
    <3> QED
      BY <3>1, <3>2
  <2>3. Clamped'
    BY <1>0, <2>1 DEF StoreInv, Clamped, StoreTyped
  <2>4. Kept'
    <3> SUFFICES ASSUME NEW v \in Ids, v # w, writer[v] = "spawned", v \notin torn, choice[v] \notin lost
                 PROVE  part'[choice[v]] # None /\ part'[choice[v]].says[v] # Absent
      BY <1>0, <2>1 DEF Kept, StoreTyped
    <3>1. choice[v] \in Hours /\ part[choice[v]] # None /\ part[choice[v]].says[v] # Absent
      BY DEF StoreInv, Kept, Clamped
    <3> QED
      BY <1>0, <2>1, <3>1 DEF StoreTyped
  <2> QED
    BY <2>1, <2>2, <2>3, <2>4 DEF StoreInv
<1>4. ASSUME NEW h \in Hours, Prune(h)
      PROVE  StoreInv'
  <2>1. /\ part' = [part EXCEPT ![h] = None] /\ blocked' = blocked \ {h} /\ lost' = lost \cup {h}
        /\ stamp' = stamp /\ parent' = parent /\ writer' = writer /\ choice' = choice
        /\ torn' = torn /\ forged' = forged
    BY <1>4 DEF Prune, writers
  <2>2. Clamped' /\ (blocked \subseteq lost)'
    BY <2>1 DEF StoreInv, Clamped
  <2>3. Kept'
    BY <1>0, <2>1 DEF StoreInv, Kept, Clamped, StoreTyped
  <2>4. StoreTruth'
    BY <1>0, <2>1 DEF StoreInv, StoreTruth, Truthful, StoreTyped
  <2> QED
    BY <2>2, <2>3, <2>4 DEF StoreInv
<1>5. ASSUME NEW h \in Hours, Block(h)
      PROVE  StoreInv'
  BY <1>5 DEF Block, writers, StoreInv, Clamped, Kept, StoreTruth, Truthful
<1>6. ASSUME NEW h \in Hours, NEW id \in Ids, NEW up \in Parents, Forge(h, id, up)
      PROVE  StoreInv'
  <2>1. part[h] \in File
    BY <1>0, <1>6 DEF Forge, Present, StoreTyped
  <2>2. PICK new \in File : new = WithEntry(part[h], id, up)
    BY <2>1, EntryKeepsFile
  <2>2a. part' = [part EXCEPT ![h] = new]
    BY <1>6, <2>2 DEF Forge
  <2>3. /\ stamp' = stamp /\ parent' = parent /\ writer' = writer /\ choice' = choice
        /\ blocked' = blocked /\ torn' = torn /\ lost' = lost /\ forged' = forged \cup {id}
    BY <1>6 DEF Forge, writers
  <2>4. new.says = [part[h].says EXCEPT ![id] = up] /\ part[h].says \in [Ids -> Parents \cup {Absent}]
    BY <2>1, <2>2 DEF WithEntry, File, Says
  <2>5. Truthful(part[h].says)
    BY <1>a, <2>1 DEF StoreInv, StoreTruth
  <2>6. Truthful(new.says)'
    BY <2>3, <2>4, <2>5 DEF Truthful
  <2>7. StoreTruth'
    BY <1>0, <2>2, <2>2a, <2>6, RewriteKeepsTruth DEF StoreInv
  <2>8. Clamped' /\ (blocked \subseteq lost)'
    BY <2>3 DEF StoreInv, Clamped
  <2>9. Kept'
    <3> SUFFICES ASSUME NEW v \in Ids, writer[v] = "spawned", v \notin torn, choice[v] \notin lost
                 PROVE  part'[choice[v]] # None /\ part'[choice[v]].says[v] # Absent
      BY <2>3 DEF Kept
    <3>1. choice[v] \in Hours /\ part[choice[v]] # None /\ part[choice[v]].says[v] # Absent
      BY DEF StoreInv, Kept, Clamped
    <3>2. CASE choice[v] = h
      BY <1>0, <1>a, <2>2, <2>2a, <2>4, <3>1, <3>2 DEF StoreTyped
    <3>3. CASE choice[v] # h
      BY <1>0, <2>2, <2>2a, <3>1, <3>3 DEF StoreTyped
    <3> QED
      BY <3>2, <3>3
  <2> QED
    BY <2>7, <2>8, <2>9 DEF StoreInv
<1> QED
  BY <1>1, <1>2, <1>3, <1>4, <1>5, <1>6 DEF World

LEMMA CaptureKeepsStore ==
    ASSUME Typed, Typed', StoreInv, Start \/ Capture
    PROVE  StoreInv'
<1>0. StoreTyped
  BY TypedInParts
<1>1. /\ Forward
      /\ part' = part /\ blocked' = blocked /\ writer' = writer
      /\ parent' = parent /\ choice' = choice /\ torn' = torn /\ forged' = forged
  BY CaptureIsForward
<1>2. Clamped'
  BY <1>1 DEF StoreInv, Clamped, Forward
<1>3. Kept'
  BY <1>1 DEF StoreInv, Kept, Forward
<1>4. StoreTruth'
  BY <1>1 DEF StoreInv, StoreTruth, Truthful
<1>5. (blocked \subseteq lost)'
  BY <1>1 DEF StoreInv, Forward
<1> QED
  BY <1>2, <1>3, <1>4, <1>5 DEF StoreInv

-----------------------------------------------------------------------------
(* The search. *)

\* Where the search stands: what is to be had was there at the listing, is in every
\* index it belongs to, and has not been stepped past.
SearchInv ==
    /\ \A w \in known : writer[w] = "spawned"
    /\ pc = "idle" => ~listed /\ known = {}
    /\ listed => \A w \in Ids : Whole(w) => choice[w] \in labels
    /\ \A w \in Ids : Whole(w) /\ choice[w] \in loaded => index[choice[w]][w] # Absent
    /\ pc = "search" => (Whole(at) => choice[at] \in todo)
    /\ cut # None => pc = "done"
    /\ cut = "dangling" => at \in Ids /\ ~Whole(at)

\* Nothing out of reach comes back.
LEMMA WholeShrinks ==
    ASSUME Typed, SearchInv, Forward, known' = known, NEW w \in Ids, Whole(w)'
    PROVE  Whole(w) /\ choice'[w] = choice[w]
  BY DEF Whole, SearchInv, Forward

LEMMA WorldKeepsSearch ==
    ASSUME Typed, SearchInv, World
    PROVE  SearchInv'
<1>1. Forward
  BY WorldIsForward
<1>2. known' = known /\ UNCHANGED walk /\ UNCHANGED cache
  BY DEF World, AppendEntry, AppendTorn, Select, Prune, Block, Forge, history
<1>3. /\ pc' = pc /\ at' = at /\ listed' = listed /\ labels' = labels /\ todo' = todo
      /\ cut' = cut /\ loaded' = loaded /\ index' = index
  BY <1>2 DEF walk, cache
<1>4. \A w \in Ids : Whole(w)' => Whole(w) /\ choice'[w] = choice[w]
  BY <1>1, <1>2, WholeShrinks
<1>5. at \in Ids \/ pc # "search"
  BY DEF Typed, Working
<1>6. known \subseteq Ids
  BY DEF Typed, TypeOK
<1>7. (\A w \in known : writer[w] = "spawned")'
  BY <1>1, <1>2, <1>6 DEF SearchInv, Forward
<1>8. (listed => \A w \in Ids : Whole(w) => choice[w] \in labels)'
  BY <1>3, <1>4 DEF SearchInv
<1>9. (\A w \in Ids : Whole(w) /\ choice[w] \in loaded => index[choice[w]][w] # Absent)'
  BY <1>3, <1>4 DEF SearchInv
<1>10. (pc = "search" => (Whole(at) => choice[at] \in todo))'
  <2> SUFFICES ASSUME pc' = "search", Whole(at)'
               PROVE  choice'[at'] \in todo'
    OBVIOUS
  <2>1. at \in Ids /\ at' = at /\ pc = "search"
    BY <1>3, <1>5
  <2>2. Whole(at) /\ choice'[at] = choice[at]
    BY <1>1, <1>2, <2>1 DEF Whole, SearchInv, Forward
  <2> QED
    BY <1>3, <2>1, <2>2 DEF SearchInv
<1>11. (cut = "dangling" => at \in Ids /\ ~Whole(at))'
  <2> SUFFICES ASSUME cut' = "dangling"
               PROVE  at' \in Ids /\ ~Whole(at)'
    OBVIOUS
  <2>1. at \in Ids /\ at' = at /\ ~Whole(at)
    BY <1>3 DEF SearchInv
  <2> QED
    BY <1>1, <1>2, <2>1 DEF Whole, SearchInv, Forward
<1> QED
  BY <1>2, <1>3, <1>7, <1>8, <1>9, <1>10, <1>11 DEF SearchInv

\* A return other than "dangling" keeps it: there is no reader any more.
LEMMA FinishKeepsSearch ==
    ASSUME Typed, SearchInv, Forward, known' = known, NEW how \in Cuts, Finish(how),
           how = "dangling" => at \in Ids /\ at' = at /\ ~Whole(at)
    PROVE  SearchInv'
<1>1. /\ pc' = "done" /\ cut' = how /\ listed' = FALSE /\ loaded' = {}
  BY DEF Finish, Forgotten
<1>2. (\A w \in known : writer[w] = "spawned")'
  BY DEF SearchInv, Forward, Typed, TypeOK
<1>3. (cut = "dangling" => at \in Ids /\ ~Whole(at))'
  <2> SUFFICES ASSUME how = "dangling" PROVE at' \in Ids /\ ~Whole(at)'
    BY <1>1
  <2>1. at \in Ids /\ at' = at /\ ~Whole(at)
    OBVIOUS
  <2> QED
    BY <2>1 DEF Whole, SearchInv, Forward
<1> QED
  BY <1>1, <1>2, <1>3 DEF SearchInv

LEMMA CaptureKeepsSearch ==
    ASSUME Typed, StoreInv, SearchInv, Start \/ Capture
    PROVE  SearchInv'
<1> USE NamesAssumption
<1>0. StoreTyped /\ CaptureTyped /\ HistoryTyped /\ Forward
  BY TypedInParts, CaptureIsForward
<1>f. /\ part' = part /\ blocked' = blocked /\ writer' = writer
      /\ parent' = parent /\ choice' = choice /\ torn' = torn /\ forged' = forged
  BY CaptureIsForward
<1>n. None # "dangling"
  BY NoneAssumption DEF Cuts
<1>a. "value" \in Cuts /\ "cycle" \in Cuts /\ "dangling" \in Cuts /\ "parent" \in Cuts /\ "root" \in Cuts
  BY DEF Cuts
<1>1. ASSUME NEW value \in Ids \cup {Bad}, Collect(value)
      PROVE  SearchInv'
  <2>1. /\ pc = "idle" /\ at' = value /\ known' = {i \in Ids : writer[i] = "spawned"}
    BY <1>1 DEF Collect
  <2>2. /\ ~listed /\ loaded = {} /\ cut = None
    BY <1>0, <2>1 DEF SearchInv, CaptureTyped
  <2>3. CASE value = Bad
    <3>1. pc' = "done" /\ cut' = "value" /\ listed' = FALSE /\ loaded' = {}
      BY <1>1, <2>3 DEF Collect, Finish, Forgotten
    <3> QED
      BY <1>f, <2>1, <3>1 DEF SearchInv
  <2>4. CASE value # Bad
    <3>1. pc' = "visit" /\ cut' = None /\ listed' = listed /\ loaded' = {}
      BY <1>1, <2>2, <2>4 DEF Collect, cache
    <3> QED
      BY <1>f, <1>n, <2>1, <2>2, <3>1 DEF SearchInv
  <2> QED
    BY <2>3, <2>4
<1>2. CASE Revisit
  <2>1. Finish("cycle") /\ known' = known
    BY <1>2 DEF Revisit, history
  <2> QED
    BY <1>0, <1>a, <2>1, FinishKeepsSearch
<1>3. CASE Visit
  <2>1. /\ pc = "visit" /\ at \in Ids /\ cut = None /\ at' = at /\ cut' = cut /\ pc' = "search"
        /\ loaded' = loaded /\ index' = index /\ known' = known /\ lost' = lost
        /\ labels' = IF listed THEN labels ELSE Present
        /\ todo' = Reach(labels', stamp'[at])
    BY <1>0, <1>3 DEF Visit, CaptureTyped, SearchInv, cache, history
  <2>2. \A w \in Ids : Whole(w)' = Whole(w)
    BY <1>f, <2>1 DEF Whole
  <2>3. \A w \in Ids : Whole(w) => choice[w] \in labels'
    <3> SUFFICES ASSUME NEW w \in Ids, Whole(w), ~listed
                 PROVE  choice[w] \in Present
      BY <2>1 DEF SearchInv
    <3>1. writer[w] = "spawned" /\ w \notin torn /\ choice[w] \notin lost
      BY DEF Whole, SearchInv
    <3> QED
      BY <3>1 DEF StoreInv, Kept, Clamped, Present
  <2>4. (listed => \A w \in Ids : Whole(w) => choice[w] \in labels)'
    BY <1>f, <2>2, <2>3
  <2>5. (pc = "search" => (Whole(at) => choice[at] \in todo))'
    <3> SUFFICES ASSUME Whole(at)
                 PROVE  choice[at] \in todo'
      BY <1>f, <2>1, <2>2 DEF Whole
    <3>1. writer[at] = "spawned"
      BY DEF Whole, SearchInv
    <3>2. stamp'[at] = stamp[at] /\ choice[at] <= stamp[at]
      BY <1>0, <2>1, <3>1 DEF Forward, StoreInv, Clamped
    <3> QED
      BY <2>1, <2>3, <3>2 DEF Reach
  <2>6. (\A w \in Ids : Whole(w) /\ choice[w] \in loaded => index[choice[w]][w] # Absent)'
    BY <1>f, <2>1, <2>2 DEF SearchInv
  <2>7. (\A w \in known : writer[w] = "spawned")'
    BY <1>f, <2>1 DEF SearchInv
  <2> QED
    BY <1>n, <2>1, <2>4, <2>5, <2>6, <2>7 DEF SearchInv
<1>4. CASE ListFails
  <2>1. /\ lost' = Hours /\ cut = None /\ cut' = cut /\ known' = known /\ pc' = "search"
    BY <1>0, <1>4 DEF ListFails, SearchInv
  <2>2. \A w \in Ids : ~Whole(w)'
    <3> SUFFICES ASSUME NEW w \in Ids, Whole(w)' PROVE FALSE
      OBVIOUS
    <3>1. w \in known /\ choice[w] \notin Hours
      BY <1>f, <2>1 DEF Whole
    <3> QED
      BY <3>1 DEF SearchInv, StoreInv, Clamped
  <2>3. at' \in Ids
    BY <1>0, <1>4 DEF ListFails, CaptureTyped
  <2>4. (\A w \in known : writer[w] = "spawned")'
    BY <1>f, <2>1 DEF SearchInv
  <2>5. (pc = "search" => (Whole(at) => choice[at] \in todo))'
    BY <1>f, <2>2, <2>3, <2>1 DEF Whole
  <2> QED
    BY <1>n, <2>1, <2>2, <2>4, <2>5 DEF SearchInv
<1>5. ASSUME NEW l \in Hours, Load(l) \/ LoadFails(l)
      PROVE  SearchInv'
  <2>1. /\ known' = known /\ lost' = lost /\ loaded' = loaded \cup {l} /\ l \notin loaded
        /\ pc' = pc /\ at' = at /\ listed' = listed /\ labels' = labels /\ todo' = todo /\ cut' = cut
        /\ pc = "search"
    BY <1>5 DEF Load, LoadFails, walk, history
  <2>2. \A w \in Ids : Whole(w)' = Whole(w)
    BY <1>f, <2>1 DEF Whole
  <2>3. \A w \in Ids : Whole(w) => part[choice[w]] # None /\ choice[w] \in Present \ blocked
                                     /\ part[choice[w]].says[w] # Absent
    BY DEF Whole, SearchInv, StoreInv, Kept, Clamped, Present
  <2>4. \A w \in Ids : Whole(w) /\ choice[w] \in loaded' => index'[choice[w]][w] # Absent
    <3> SUFFICES ASSUME NEW w \in Ids, Whole(w), choice[w] \in loaded'
                 PROVE  index'[choice[w]][w] # Absent
      OBVIOUS
    <3>1. CASE Load(l)
      <4>1. index' = [index EXCEPT ![l] = part[l].says]
        BY <3>1 DEF Load
      <4>2. CASE choice[w] = l
        BY <1>0, <2>3, <4>1, <4>2 DEF CaptureTyped
      <4>3. CASE choice[w] # l
        BY <1>0, <2>1, <4>1, <4>3 DEF CaptureTyped, SearchInv
      <4> QED
        BY <4>2, <4>3
    <3>2. CASE LoadFails(l)
      <4>1. index' = index /\ (l \notin Present \/ l \in blocked)
        BY <3>2 DEF LoadFails
      <4>2. choice[w] # l
        BY <2>3, <4>1
      <4> QED
        BY <2>1, <4>1, <4>2 DEF SearchInv
    <3> QED
      BY <1>5, <3>1, <3>2
  <2>5. (pc = "search" => (Whole(at) => choice[at] \in todo))'
    BY <1>f, <2>1 DEF Whole, SearchInv
  <2>6. (\A w \in known : writer[w] = "spawned")'
    BY <1>f, <2>1 DEF SearchInv
  <2>7. (listed => \A w \in Ids : Whole(w) => choice[w] \in labels)'
    BY <1>f, <2>1, <2>2 DEF SearchInv
  <2>8. (\A w \in Ids : Whole(w) /\ choice[w] \in loaded => index[choice[w]][w] # Absent)'
    BY <1>f, <2>2, <2>4
  <2>9. cut = None
    BY <2>1 DEF SearchInv
  <2> QED
    BY <1>n, <2>1, <2>5, <2>6, <2>7, <2>8, <2>9 DEF SearchInv
<1>6. ASSUME NEW l \in Hours, Miss(l)
      PROVE  SearchInv'
  <2>1. /\ known' = known /\ lost' = lost /\ loaded' = loaded /\ l \in loaded /\ index' = index
        /\ pc' = pc /\ at' = at /\ listed' = listed /\ labels' = labels /\ todo' = todo \ {l}
        /\ cut' = cut /\ pc = "search" /\ index[l][at] = Absent
    BY <1>6 DEF Miss, cache, history
  <2>2. \A w \in Ids : Whole(w)' = Whole(w)
    BY <1>f, <2>1 DEF Whole
  <2>3. at \in Ids /\ cut = None
    BY <1>0, <2>1 DEF CaptureTyped, SearchInv
  <2>4. (pc = "search" => (Whole(at) => choice[at] \in todo))'
    <3> SUFFICES ASSUME Whole(at)
                 PROVE  choice[at] \in todo \ {l}
      BY <1>f, <2>1 DEF Whole
    <3>1. choice[at] \in todo
      BY <2>1 DEF SearchInv
    <3>2. choice[at] # l
      BY <2>1, <2>3 DEF SearchInv
    <3> QED
      BY <3>1, <3>2
  <2>5. (\A w \in known : writer[w] = "spawned")'
    BY <1>f, <2>1 DEF SearchInv
  <2>6. (listed => \A w \in Ids : Whole(w) => choice[w] \in labels)'
    BY <1>f, <2>1, <2>2 DEF SearchInv
  <2>7. (\A w \in Ids : Whole(w) /\ choice[w] \in loaded => index[choice[w]][w] # Absent)'
    BY <1>f, <2>1, <2>2 DEF SearchInv
  <2> QED
    BY <1>n, <2>1, <2>3, <2>4, <2>5, <2>6, <2>7 DEF SearchInv
<1>7. ASSUME NEW l \in Hours, Hit(l)
      PROVE  SearchInv'
  <2> DEFINE up == index[l][at]
  <2>1. known' = known /\ lost' = lost /\ cut = None
    BY <1>7 DEF Hit, history, SearchInv
  <2>2. CASE up = None
    <3>1. Finish("root")
      BY <1>7, <2>2 DEF Hit
    <3> QED
      BY <1>0, <1>a, <2>1, <3>1, FinishKeepsSearch
  <2>3. CASE up = Bad
    <3>1. Finish("parent")
      BY <1>7, <2>3 DEF Hit
    <3> QED
      BY <1>0, <1>a, <2>1, <3>1, FinishKeepsSearch
  <2>4. CASE up # None /\ up # Bad
    <3>1. /\ pc' = "visit" /\ listed' = listed /\ labels' = labels /\ loaded' = loaded
          /\ index' = index /\ cut' = cut
      BY <1>7, <2>4 DEF Hit, cache
    <3>2. \A w \in Ids : Whole(w)' = Whole(w)
      BY <1>f, <2>1 DEF Whole
    <3>3. (\A w \in known : writer[w] = "spawned")'
      BY <1>f, <2>1 DEF SearchInv
    <3>4. (listed => \A w \in Ids : Whole(w) => choice[w] \in labels)'
      BY <1>f, <3>1, <3>2 DEF SearchInv
    <3>5. (\A w \in Ids : Whole(w) /\ choice[w] \in loaded => index[choice[w]][w] # Absent)'
      BY <1>f, <3>1, <3>2 DEF SearchInv
    <3> QED
      BY <1>n, <2>1, <3>1, <3>3, <3>4, <3>5 DEF SearchInv
  <2> QED
    BY <2>2, <2>3, <2>4
<1>8. CASE Dangling
  <2>1. Finish("dangling") /\ known' = known /\ at' = at /\ pc = "search" /\ todo = {}
    BY <1>8 DEF Dangling, history
  <2>2. at \in Ids /\ ~Whole(at)
    BY <1>0, <2>1 DEF SearchInv, CaptureTyped
  <2> QED
    BY <1>0, <1>a, <2>1, <2>2, FinishKeepsSearch
<1> QED
  BY <1>1, <1>2, <1>3, <1>4, <1>5, <1>6, <1>7, <1>8 DEF Start, Capture

-----------------------------------------------------------------------------
(* The chain. *)

IndexTruth == \A h \in Hours : Truthful(index[h])

\* The entries of the chain are among the identifiers walked through, the one being
\* looked for is not among them, and is the parent the last of them names.
ChainInv ==
    /\ IndexTruth
    /\ ChainIsAncestry
    /\ pc = "idle" => chain = <<>>
    /\ pc \in {"visit", "search"} =>
        /\ chain # <<>> => at = chain[Len(chain)].parent
        /\ \A i \in DOMAIN chain : chain[i].id \in seen
    /\ pc = "search" => at \in seen /\ \A i \in DOMAIN chain : chain[i].id # at

LEMMA TruthGoesForward ==
    ASSUME Typed, ChainInv, Forward, chain' = chain, index' = index
    PROVE  IndexTruth' /\ ChainIsAncestry'
<1>1. index \in [Hours -> Says] /\ chain \in Seq(Entry)
  BY DEF Typed, TypeOK
<1>2. IndexTruth'
  BY <1>1, ForwardKeepsTruth DEF ChainInv, IndexTruth, Truthful, Forward
<1>3. \A i \in DOMAIN chain : chain[i].id \in Ids
  <2>1. \A i \in DOMAIN chain : chain[i] \in Entry
    BY <1>1
  <2>2. \A e \in Entry : e.id \in Ids
    BY DEF Entry
  <2> QED
    BY <2>1, <2>2
<1>4. \A i \in DOMAIN chain : chain[i].id \notin forged' =>
            writer'[chain[i].id] = "spawned" /\ chain[i].parent = parent'[chain[i].id]
  BY <1>3 DEF ChainInv, ChainIsAncestry, Forward
<1> QED
  BY <1>2, <1>4 DEF ChainInv, ChainIsAncestry

LEMMA WorldKeepsChain ==
    ASSUME Typed, ChainInv, World
    PROVE  ChainInv'
<1>1. Forward
  BY WorldIsForward
<1>2. UNCHANGED walk /\ UNCHANGED cache
  BY DEF World, AppendEntry, AppendTorn, Select, Prune, Block, Forge
<1>3. pc' = pc /\ at' = at /\ seen' = seen /\ chain' = chain /\ index' = index
  BY <1>2 DEF walk, cache
<1>4. IndexTruth' /\ ChainIsAncestry'
  BY <1>1, <1>3, TruthGoesForward
<1> QED
  BY <1>3, <1>4 DEF ChainInv

\* A return leaves an empty index, which says nothing of anybody.
LEMMA FinishKeepsChain ==
    ASSUME NEW how, Finish(how), ChainIsAncestry'
    PROVE  ChainInv'
<1>1. pc' = "done" /\ \A h \in Hours, i \in Ids : index'[h][i] = Absent
  BY DEF Finish, Forgotten, NoLines
<1>2. IndexTruth'
  BY <1>1 DEF IndexTruth, Truthful
<1> QED
  BY <1>1, <1>2 DEF ChainInv

\* An entry found under the identifier looked for prolongs the ancestry.
LEMMA HitKeepsAncestry ==
    ASSUME Typed, ChainInv, NEW l \in Hours, Hit(l)
    PROVE  ChainIsAncestry' /\ chain' = Append(chain, [id |-> at, parent |-> index[l][at]])
<1> DEFINE new == [id |-> at, parent |-> index[l][at]]
<1>1. /\ pc = "search" /\ index[l][at] # Absent /\ chain' = Append(chain, new)
      /\ writer' = writer /\ parent' = parent /\ forged' = forged
  BY DEF Hit, writers, history
<1>2. at \in Ids /\ chain \in Seq(Entry) /\ index \in [Hours -> Says]
  BY <1>1 DEF Typed, Working, TypeOK
<1>3. new \in Entry
  <2>1. index[l][at] \in Parents
    BY <1>1, <1>2 DEF Says
  <2> QED
    BY <1>2, <2>1 DEF Entry
<1>4. at \notin forged => writer[at] = "spawned" /\ index[l][at] = parent[at]
  BY <1>1, <1>2 DEF ChainInv, IndexTruth, Truthful
<1>5. new.id = at /\ new.parent = index[l][at]
  OBVIOUS
<1> HIDE DEF new
<1>6. /\ Len(chain) \in Nat /\ DOMAIN chain = 1..Len(chain)
      /\ DOMAIN chain' = 1..(Len(chain) + 1)
      /\ \A i \in 1..Len(chain) : chain'[i] = chain[i]
      /\ chain'[Len(chain) + 1] = new
  BY <1>1, <1>2, <1>3
<1>7. \A i \in DOMAIN chain' : i + 1 \in DOMAIN chain' => chain'[i].parent = chain'[i + 1].id
  <2> SUFFICES ASSUME NEW i \in DOMAIN chain', i + 1 \in DOMAIN chain'
               PROVE  chain'[i].parent = chain'[i + 1].id
    OBVIOUS
  <2>1. CASE i + 1 <= Len(chain)
    BY <1>6, <2>1 DEF ChainInv, ChainIsAncestry
  <2>2. CASE i = Len(chain)
    <3>1. chain # <<>> /\ at = chain[Len(chain)].parent
      BY <1>1, <1>2, <1>6, <2>2 DEF ChainInv
    <3> QED
      BY <1>5, <1>6, <2>2, <3>1
  <2> QED
    BY <1>6, <2>1, <2>2
<1>8. \A i, j \in DOMAIN chain' : chain'[i].id = chain'[j].id => i = j
  <2>1. \A i \in 1..Len(chain) : chain[i].id # at
    BY <1>1, <1>6 DEF ChainInv
  <2>2. \A i, j \in 1..Len(chain) : chain[i].id = chain[j].id => i = j
    BY <1>6 DEF ChainInv, ChainIsAncestry
  <2>3. \A i \in DOMAIN chain' : i \in 1..Len(chain) \/ i = Len(chain) + 1
    BY <1>6
  <2> QED
    BY <1>5, <1>6, <2>1, <2>2, <2>3
<1>9. \A i \in DOMAIN chain' : chain'[i].id \notin forged =>
        writer[chain'[i].id] = "spawned" /\ chain'[i].parent = parent[chain'[i].id]
  <2> SUFFICES ASSUME NEW i \in DOMAIN chain', chain'[i].id \notin forged
               PROVE  writer[chain'[i].id] = "spawned" /\ chain'[i].parent = parent[chain'[i].id]
    OBVIOUS
  <2>1. CASE i \in 1..Len(chain)
    BY <1>6, <2>1 DEF ChainInv, ChainIsAncestry
  <2>2. CASE i = Len(chain) + 1
    BY <1>4, <1>5, <1>6, <2>2
  <2> QED
    BY <1>6, <2>1, <2>2
<1> QED
  BY <1>1, <1>7, <1>8, <1>9 DEF ChainIsAncestry, new

LEMMA CaptureKeepsChain ==
    ASSUME Typed, StoreInv, ChainInv, Start \/ Capture
    PROVE  ChainInv'
<1> USE NamesAssumption
<1>0. CaptureTyped /\ Forward
  BY TypedInParts, CaptureIsForward
<1>1. ASSUME NEW value \in Ids \cup {Bad}, Collect(value)
      PROVE  ChainInv'
  <2>1. chain' = chain /\ pc = "idle" /\ chain = <<>>
    BY <1>1 DEF Collect, ChainInv
  <2>2. ChainIsAncestry'
    BY <2>1 DEF ChainIsAncestry
  <2>3. CASE value = Bad
    BY <1>1, <2>2, <2>3, FinishKeepsChain DEF Collect
  <2>4. CASE value # Bad
    <3>1. index' = index /\ pc' = "visit"
      BY <1>1, <2>4 DEF Collect, cache
    <3>2. IndexTruth'
      BY <1>0, <2>1, <3>1, TruthGoesForward
    <3> QED
      BY <2>1, <2>2, <3>1, <3>2 DEF ChainInv
  <2> QED
    BY <2>3, <2>4
<1>2. CASE Revisit
  <2>1. Finish("cycle") /\ chain' = chain
    BY <1>2 DEF Revisit
  <2>2. ChainIsAncestry'
    BY <1>2, <2>1 DEF Revisit, ChainInv, ChainIsAncestry, writers, history
  <2> QED
    BY <2>1, <2>2, FinishKeepsChain
<1>3. CASE Visit \/ ListFails
  <2>1. /\ chain' = chain /\ index' = index /\ pc = "visit" /\ pc' = "search"
        /\ at' = at /\ at \notin seen /\ seen' = seen \cup {at}
    BY <1>3 DEF Visit, ListFails, cache
  <2>2. IndexTruth' /\ ChainIsAncestry'
    BY <1>0, <2>1, TruthGoesForward
  <2> QED
    BY <2>1, <2>2 DEF ChainInv
<1>4. ASSUME NEW l \in Hours, Load(l) \/ LoadFails(l) \/ Miss(l)
      PROVE  ChainInv'
  <2>1. /\ chain' = chain /\ pc = "search" /\ pc' = "search" /\ at' = at /\ seen' = seen
        /\ writer' = writer /\ parent' = parent /\ forged' = forged
    BY <1>4 DEF Load, LoadFails, Miss, walk, writers, history
  <2>2. ChainIsAncestry'
    BY <2>1 DEF ChainInv, ChainIsAncestry
  <2>3. IndexTruth'
    <3>1. CASE index' = index
      BY <2>1, <3>1 DEF ChainInv, IndexTruth, Truthful
    <3>2. CASE Load(l)
      <4>1. index' = [index EXCEPT ![l] = part[l].says] /\ part[l] # None
        BY <3>2 DEF Load, Present
      <4>2. Truthful(part[l].says)
        BY <4>1 DEF StoreInv, StoreTruth
      <4> QED
        BY <1>0, <2>1, <4>1, <4>2 DEF ChainInv, IndexTruth, Truthful, CaptureTyped
    <3> QED
      BY <1>4, <3>1, <3>2 DEF LoadFails, Miss, cache
  <2> QED
    BY <2>1, <2>2, <2>3 DEF ChainInv
<1>5. ASSUME NEW l \in Hours, Hit(l)
      PROVE  ChainInv'
  <2> DEFINE up == index[l][at]
  <2>1. ChainIsAncestry' /\ chain' = Append(chain, [id |-> at, parent |-> up])
    BY <1>5, HitKeepsAncestry
  <2>2. CASE up = None
    BY <1>5, <2>1, <2>2, FinishKeepsChain DEF Hit
  <2>3. CASE up = Bad
    BY <1>5, <2>1, <2>3, FinishKeepsChain DEF Hit
  <2>4. CASE up # None /\ up # Bad
    <3>1. /\ pc = "search" /\ pc' = "visit" /\ at' = up /\ index' = index /\ seen' = seen
          /\ writer' = writer /\ parent' = parent /\ forged' = forged
      BY <1>5, <2>4 DEF Hit, cache, writers, history
    <3>2. IndexTruth'
      BY <3>1 DEF ChainInv, IndexTruth, Truthful
    <3>3. /\ Len(chain) \in Nat /\ DOMAIN chain = 1..Len(chain)
          /\ DOMAIN chain' = 1..(Len(chain) + 1) /\ Len(chain') = Len(chain) + 1
          /\ \A i \in 1..Len(chain) : chain'[i] = chain[i]
          /\ chain'[Len(chain) + 1] = [id |-> at, parent |-> up]
      BY <1>0, <2>1 DEF CaptureTyped
    <3>4. chain'[Len(chain')].parent = at'
      BY <3>1, <3>3
    <3>5. \A i \in DOMAIN chain' : chain'[i].id \in seen'
      <4>1. \A i \in DOMAIN chain : chain[i].id \in seen
        BY <3>1 DEF ChainInv
      <4>2. at \in seen
        BY <3>1 DEF ChainInv
      <4>3. \A i \in DOMAIN chain' : i \in 1..Len(chain) \/ i = Len(chain) + 1
        BY <3>3
      <4> QED
        BY <3>1, <3>3, <4>1, <4>2, <4>3
    <3> QED
      BY <2>1, <3>1, <3>2, <3>4, <3>5 DEF ChainInv
  <2> QED
    BY <2>2, <2>3, <2>4
<1>6. CASE Dangling
  <2>1. Finish("dangling") /\ chain' = chain
    BY <1>6 DEF Dangling
  <2>2. ChainIsAncestry'
    BY <1>6, <2>1 DEF Dangling, ChainInv, ChainIsAncestry, writers, history
  <2> QED
    BY <2>1, <2>2, FinishKeepsChain
<1> QED
  BY <1>1, <1>2, <1>3, <1>4, <1>5, <1>6 DEF Start, Capture

-----------------------------------------------------------------------------
(* The end of a capture. *)

\* A return explains itself, or finds the cap reached and finish saying so.
LEMMA FinishExplains ==
    ASSUME Typed, NEW how \in Cuts, Finish(how), pc # "done",
           how = "root" => chain' # <<>> /\ chain'[Len(chain')].parent = None
    PROVE  CutIsExplained'
<1> DEFINE owed == IF how = "root" THEN <<>> ELSE <<Reason[how]>>
           fits == Len(anomalies) < MaxAnomalies
           lastly == IF fits THEN anomalies \o owed ELSE anomalies
<1>1. /\ anomalies \in Seq(Kinds) /\ Len(anomalies) \in Nat /\ Len(anomalies) <= MaxAnomalies
      /\ dropped \in Nat /\ MaxAnomalies \in Nat
  BY CapAssumption DEF Typed, TypeOK, Working
<1>2. /\ dropped' = IF fits THEN dropped ELSE dropped + Len(owed)
      /\ anomalies' = IF dropped' = 0 THEN lastly
                                      ELSE Append(lastly, "anomalies-dropped")
      /\ cut' = how
  BY DEF Finish
<1>3. CASE how = "root"
  BY <1>2, <1>3 DEF CutIsExplained
<1>4. CASE how # "root"
  <2>1. Reason[how] \in Kinds /\ "anomalies-dropped" \in Kinds
    BY <1>4 DEF Kinds
  <2>2. owed = <<Reason[how]>>
    BY <1>4
  <2>3. CASE fits
    <3>1. lastly = Append(anomalies, Reason[how])
      BY <1>1, <2>1, <2>2, <2>3
    <3>2. lastly \in Seq(Kinds) /\ Len(lastly) = Len(anomalies) + 1 /\ lastly[Len(anomalies) + 1] = Reason[how]
      BY <1>1, <2>1, <3>1
    <3> HIDE DEF lastly
    <3>3. /\ Len(anomalies) + 1 \in DOMAIN Append(lastly, "anomalies-dropped")
          /\ Append(lastly, "anomalies-dropped")[Len(anomalies) + 1] = Reason[how]
      BY <1>1, <2>1, <3>2
    <3>4. Len(anomalies) + 1 \in DOMAIN anomalies' /\ anomalies'[Len(anomalies) + 1] = Reason[how]
      BY <1>1, <1>2, <3>2, <3>3
    <3> QED
      BY <1>2, <1>4, <3>4 DEF CutIsExplained
  <2>4. CASE ~fits
    <3>1. Len(anomalies) = MaxAnomalies /\ lastly = anomalies
      BY <1>1, <2>4
    <3>2. dropped' = dropped + 1
      BY <1>2, <2>2, <2>4
    <3>3. anomalies' = Append(anomalies, "anomalies-dropped")
      BY <1>1, <1>2, <3>1, <3>2
    <3>4. Len(anomalies') = MaxAnomalies + 1 /\ anomalies'[MaxAnomalies + 1] = "anomalies-dropped"
      BY <1>1, <2>1, <3>1, <3>3
    <3> QED
      BY <1>2, <1>4, <3>4 DEF CutIsExplained
  <2> QED
    BY <2>3, <2>4
<1> QED
  BY <1>3, <1>4

LEMMA CaptureExplains ==
    ASSUME Typed, StoreInv, ChainInv, Start \/ Capture
    PROVE  CutIsExplained'
<1> USE NamesAssumption
<1>a. "value" \in Cuts /\ "cycle" \in Cuts /\ "dangling" \in Cuts /\ "parent" \in Cuts /\ "root" \in Cuts
  BY DEF Cuts
<1>1. ASSUME NEW value \in Ids \cup {Bad}, Collect(value)
      PROVE  CutIsExplained'
  <2>1. CASE value = Bad
    BY <1>1, <1>a, <2>1, FinishExplains DEF Collect
  <2>2. CASE value # Bad
    BY <1>1, <2>2 DEF Collect, CutIsExplained
  <2> QED
    BY <2>1, <2>2
<1>2. CASE Revisit
  BY <1>2, <1>a, FinishExplains DEF Revisit
<1>3. CASE Visit \/ ListFails
  BY <1>3 DEF Visit, ListFails, CutIsExplained
<1>4. ASSUME NEW l \in Hours, Load(l) \/ LoadFails(l) \/ Miss(l)
      PROVE  CutIsExplained'
  BY <1>4 DEF Load, LoadFails, Miss, walk, CutIsExplained
<1>5. ASSUME NEW l \in Hours, Hit(l)
      PROVE  CutIsExplained'
  <2> DEFINE up == index[l][at]
  <2>1. chain' = Append(chain, [id |-> at, parent |-> up]) /\ chain \in Seq(Entry) /\ pc # "done"
    BY <1>5, HitKeepsAncestry DEF Hit, Typed, TypeOK
  <2>2. CASE up = None
    <3>1. Finish("root")
      BY <1>5, <2>2 DEF Hit
    <3>2. chain' # <<>> /\ chain'[Len(chain')].parent = None
      BY <2>1, <2>2
    <3> QED
      BY <1>a, <2>1, <3>1, <3>2, FinishExplains
  <2>3. CASE up = Bad
    BY <1>5, <1>a, <2>1, <2>3, FinishExplains DEF Hit
  <2>4. CASE up # None /\ up # Bad
    BY <1>5, <2>4 DEF Hit, CutIsExplained
  <2> QED
    BY <2>2, <2>3, <2>4
<1>6. CASE Dangling
  BY <1>6, <1>a, FinishExplains DEF Dangling
<1> QED
  BY <1>1, <1>2, <1>3, <1>4, <1>5, <1>6 DEF Start, Capture

-----------------------------------------------------------------------------

Inv == Typed /\ StoreInv /\ SearchInv /\ ChainInv /\ CutIsExplained

LEMMA InitHolds == Init => Inv
<1> SUFFICES ASSUME Init PROVE Inv
  OBVIOUS
<1>1. Typed
  BY InitIsTyped
<1>2. StoreInv
  BY DEF Init, StoreInv, Clamped, Kept, StoreTruth
<1>3. SearchInv
  BY NoneAssumption DEF Init, SearchInv, Whole, Cuts
<1>4. ChainInv
  BY DEF Init, ChainInv, IndexTruth, Truthful, ChainIsAncestry, NoLines
<1>5. CutIsExplained
  BY DEF Init, CutIsExplained
<1> QED
  BY <1>1, <1>2, <1>3, <1>4, <1>5 DEF Inv

LEMMA StepHolds == Inv /\ [Next]_vars => Inv'
<1> SUFFICES ASSUME Inv, [Next]_vars PROVE Inv'
  OBVIOUS
<1>1. CASE pc # "done" /\ World
  <2>1. Typed'
    BY <1>1, WorldKeepsTypes DEF Inv
  <2>2. StoreInv'
    BY <1>1, <2>1, WorldKeepsStore DEF Inv
  <2>3. SearchInv' /\ ChainInv'
    BY <1>1, WorldKeepsSearch, WorldKeepsChain DEF Inv
  <2>4. pc' = pc
    BY <1>1 DEF World, AppendEntry, AppendTorn, Select, Prune, Block, Forge, walk
  <2>5. CutIsExplained'
    BY <1>1, <2>4 DEF CutIsExplained
  <2> QED
    BY <2>1, <2>2, <2>3, <2>5 DEF Inv
<1>2. CASE Start \/ Capture
  <2>1. Typed'
    BY <1>2, CaptureKeepsTypes DEF Inv
  <2>2. StoreInv'
    BY <1>2, <2>1, CaptureKeepsStore DEF Inv
  <2>3. SearchInv' /\ ChainInv' /\ CutIsExplained'
    BY <1>2, CaptureKeepsSearch, CaptureKeepsChain, CaptureExplains DEF Inv
  <2> QED
    BY <2>1, <2>2, <2>3 DEF Inv
<1>3. CASE UNCHANGED vars
  <2>1. Typed'
    BY <1>3, StutterKeepsTypes DEF Inv
  <2>2. StoreInv'
    BY <1>3 DEF Inv, vars, StoreInv, Clamped, Kept, StoreTruth, Truthful
  <2>3. SearchInv'
    BY <1>3 DEF Inv, vars, SearchInv, Whole
  <2>4. ChainInv' /\ CutIsExplained'
    BY <1>3 DEF Inv, vars, ChainInv, IndexTruth, Truthful, ChainIsAncestry, CutIsExplained
  <2> QED
    BY <2>1, <2>2, <2>3, <2>4 DEF Inv
<1> QED
  BY <1>1, <1>2, <1>3 DEF Next

LEMMA AlwaysInv == Spec => []Inv
  BY InitHolds, StepHolds, PTL DEF Spec

\* lookup and the comment above it: an entry that can be had is never reported as a
\* dangling parent, wherever the roll left it and however the store changes meanwhile.
THEOREM NothingThereDangles == Spec => []NoFalseDangling
<1>1. Inv => NoFalseDangling
  BY DEF Inv, SearchInv, NoFalseDangling
<1> QED
  BY <1>1, AlwaysInv, PTL

\* collectFrom: the chain is what the invocations on it wrote of their parents, each
\* once, whatever cycles and forged lines the store holds.
THEOREM ChainsAreAncestries == Spec => []ChainIsAncestry
<1>1. Inv => ChainIsAncestry
  BY DEF Inv, ChainInv
<1> QED
  BY <1>1, AlwaysInv, PTL

\* record and finish: a capture that says nothing of a cut has the chain to its root,
\* at any cap.
THEOREM SilenceIsComplete == Spec => []CutIsExplained
<1>1. Inv => CutIsExplained
  BY DEF Inv
<1> QED
  BY <1>1, AlwaysInv, PTL

-----------------------------------------------------------------------------
(* Captures end.  What liveness rests on and fairness is no part of: a capture    *)
(* looks for no identifier twice, parses no partition twice and looks into none   *)
(* twice for the same identifier, and no writer takes it back.                    *)

UnderWay == pc \in {"visit", "search"}

Grows(S, T) == S \subseteq T /\ S # T

Advances ==
    \/ pc' = "done"
    \/ Grows(seen, seen')
    \/ seen' = seen /\ Grows(loaded, loaded')
    \/ seen' = seen /\ loaded' = loaded /\ Grows(todo', todo)

ListsOnce == listed => pc' = "done" \/ labels' = labels

GoesOn ==
    UnderWay => IF Capture THEN Advances /\ ListsOnce ELSE UNCHANGED <<walk, cache, notes>>

\* A capture that goes on has looked for one more identifier, or parsed one more
\* partition for it, or has one less left to look into, of the ones it listed once:
\* among finitely many it cannot go on for ever, however the store grows meanwhile.
THEOREM CapturesGoOn ==
    Spec => /\ [](seen \subseteq Ids /\ loaded \subseteq labels /\ todo \subseteq labels)
            /\ [][GoesOn]_vars
<1>1. Typed => seen \subseteq Ids /\ loaded \subseteq labels /\ todo \subseteq labels
  BY DEF Typed, TypeOK
<1>2. ASSUME Typed, UnderWay, Capture
      PROVE  Advances /\ ListsOnce
  <2> USE DEF Advances, ListsOnce
  <2>1. CASE Revisit \/ Dangling
    BY <2>1 DEF Revisit, Dangling, Finish
  <2>2. CASE Visit \/ ListFails
    <3>1. seen' = seen \cup {at} /\ at \notin seen /\ (listed => labels' = labels)
      BY <2>2 DEF Visit, ListFails
    <3>2. QED
      BY <3>1 DEF Grows
  <2>3. ASSUME NEW l \in Hours, Load(l) \/ LoadFails(l) PROVE Advances /\ ListsOnce
    <3>1. l \notin loaded /\ loaded' = loaded \cup {l} /\ seen' = seen /\ labels' = labels
      BY <2>3 DEF Load, LoadFails, walk
    <3>2. QED
      BY <3>1 DEF Grows
  <2>4. ASSUME NEW l \in Hours, Miss(l) PROVE Advances /\ ListsOnce
    <3>1. l \in todo /\ todo' = todo \ {l} /\ UNCHANGED <<seen, loaded, labels>>
      BY <2>4 DEF Miss, IsNext, cache
    <3>2. QED
      BY <3>1 DEF Grows
  <2>5. ASSUME NEW l \in Hours, Hit(l) PROVE Advances /\ ListsOnce
    <3>1. CASE index[l][at] \in {None, Bad}
      BY <2>5, <3>1, NamesAssumption DEF Hit, Finish
    <3>2. CASE index[l][at] \notin {None, Bad}
      <4>1. l \in todo /\ todo' = {} /\ UNCHANGED <<seen, loaded, labels>>
        BY <2>5, <3>2 DEF Hit, IsNext, cache
      <4>2. QED
        BY <4>1 DEF Grows
    <3>3. QED
      BY <3>1, <3>2
  <2>6. QED
    BY <1>2, <2>1, <2>2, <2>3, <2>4, <2>5 DEF Capture
<1>3. ASSUME UnderWay, [Next]_vars, ~Capture PROVE UNCHANGED <<walk, cache, notes>>
  <2>1. CASE World
    BY <2>1 DEF World, AppendEntry, AppendTorn, Select, Prune, Block, Forge
  <2>2. CASE UNCHANGED vars
    BY <2>2 DEF vars, walk, cache, notes
  <2>3. ~Start
    BY <1>3 DEF UnderWay, Start, Collect
  <2>4. QED
    BY <1>3, <2>1, <2>2, <2>3 DEF Next
<1>4. Typed /\ [Next]_vars => [GoesOn]_vars
  BY <1>2, <1>3 DEF GoesOn, walk
<1>5. QED
  BY <1>1, <1>4, AlwaysTyped, PTL DEF Spec

=============================================================================
