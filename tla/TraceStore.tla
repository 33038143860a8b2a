------------------------------- MODULE TraceStore -------------------------------
(***************************************************************************)
(* The ancestry a delete records: internal/trace reading the process trace *)
(* store while other programs append to it, somebody prunes it, and hands  *)
(* put other things where a partition should be.                           *)
(*                                                                         *)
(* The store is one file per hour.  Its writers are the programs built on  *)
(* strictcli, which are not in this repository: they are modelled from     *)
(* what lookup's comment relies on.  An identifier stands for the          *)
(* invocation whose entry carries it; of its timestamp only the hour       *)
(* matters.                                                                *)
(***************************************************************************)
EXTENDS Naturals, Sequences

CONSTANTS
    Ids,           \* identifiers, of invocations or of nobody
    Hours,         \* UTC hours: the range starts partitions are named by
    Bad,           \* a string that is no canonical identifier
    None,          \* no parent, no file, nothing yet
    Absent,        \* no entry by this identifier
    LongWinded,    \* identifiers whose entry has a field to be truncated
    MaxAnomalies,  \* maxAnomalies
    MaxEdits       \* bound on what hands and pruning do to the store

ASSUME HoursAssumption == Hours \subseteq Nat
ASSUME CapAssumption == MaxAnomalies \in Nat \ {0} /\ MaxEdits \in Nat
ASSUME NamesAssumption ==
    /\ Bad \notin Ids /\ None \notin Ids /\ Absent \notin Ids
    /\ Bad # None /\ Bad # Absent /\ None # Absent
    /\ None \notin Hours
    /\ LongWinded \subseteq Ids

VARIABLES
    \* the store
    part,       \* hour -> what its partition holds, or None
    blocked,    \* partitions no reader can load: a FIFO, an oversized file, ...
    \* the invocations that write it
    stamp,      \* identifier -> the hour in it, once anybody has used it
    parent,     \* identifier -> the entry of the process that spawned its own
    writer,     \* identifier -> how far its invocation is
    choice,     \* identifier -> the partition its invocation selected
    \* the capture
    pc,         \* where collectFrom is
    at,         \* the identifier looked for
    seen,       \* identifiers walked through
    listed,     \* whether the directory has been read
    labels,     \* the partitions it had then
    todo,       \* those lookup has still to look into
    loaded,     \* the partitions that have been parsed
    index,      \* hour -> identifier -> the parent its entry names, or Absent
    chain,      \* Capture.Chain
    anomalies,  \* Capture.Anomalies, by kind
    dropped,    \* Capture.dropped
    cut,        \* which return ended the walk
    \* bookkeeping of the model
    known,      \* identifiers whose entry was written when the capture began
    lost,       \* partitions that were pruned or blocked at some time
    torn,       \* identifiers whose own line was torn
    forged,     \* identifiers a hand has written a line for
    edits       \* number of edits so far

store   == <<part, blocked>>
writers == <<stamp, parent, writer, choice>>
walk    == <<pc, at, seen, listed, labels, todo, chain, cut>>
cache   == <<loaded, index>>
notes   == <<anomalies, dropped>>
history == <<known, lost, torn, forged, edits>>
vars == <<part, blocked, stamp, parent, writer, choice,
          pc, at, seen, listed, labels, todo, loaded, index,
          chain, anomalies, dropped, cut, known, lost, torn, forged, edits>>

Parents == Ids \cup {None, Bad}
Entry == [id : Ids, parent : Parents]

\* A partition: for each identifier the entry of its last line, and how many lines
\* parseEntry refuses and how many have a field capField truncates.
Says == [Ids -> Parents \cup {Absent}]
File == [says : Says, torn : Nat, long : Nat]
NoLines == [says |-> [i \in Ids |-> Absent], torn |-> 0, long |-> 0]

Cuts == {"value", "cycle", "dangling", "parent", "root"}

ASSUME NoneAssumption == None \notin File /\ None \notin Cuts

\* The anomaly each way of cutting a chain owes; the root owes none.
Reason == [value |-> "malformed-trace-parent", cycle |-> "chain-cycle",
           dangling |-> "dangling-parent", parent |-> "malformed-entry"]

Kinds == {Reason[c] : c \in Cuts \ {"root"}}
            \cup {"store-unreadable", "oversized-entry-field", "anomalies-dropped"}

TypeOK ==
    /\ part \in [Hours -> File \cup {None}]
    /\ blocked \in SUBSET Hours
    /\ stamp \in [Ids -> Hours \cup {None}]
    /\ parent \in [Ids -> Ids \cup {None}]
    /\ writer \in [Ids -> {"idle", "chosen", "spawned"}]
    /\ choice \in [Ids -> Hours \cup {None}]
    /\ pc \in {"idle", "visit", "search", "done"}
    /\ at \in Ids \cup {None, Bad}
    /\ seen \in SUBSET Ids
    /\ listed \in BOOLEAN
    /\ labels \in SUBSET Hours
    /\ todo \in SUBSET labels
    /\ loaded \in SUBSET labels
    /\ index \in [Hours -> Says]
    /\ chain \in Seq(Entry)
    /\ anomalies \in Seq(Kinds)
    /\ dropped \in Nat
    /\ cut \in Cuts \cup {None}
    /\ known \in SUBSET Ids
    /\ lost \in SUBSET Hours
    /\ torn \in SUBSET Ids
    /\ forged \in SUBSET Ids
    /\ edits \in 0..MaxEdits

-----------------------------------------------------------------------------

Present == {h \in Hours : part[h] # None}

Init ==
    /\ part = [h \in Hours |-> None]
    /\ blocked = {}
    /\ stamp = [i \in Ids |-> None]
    /\ parent = [i \in Ids |-> None]
    /\ writer = [i \in Ids |-> "idle"]
    /\ choice = [i \in Ids |-> None]
    /\ pc = "idle" /\ at = None /\ seen = {}
    /\ listed = FALSE /\ labels = {} /\ todo = {}
    /\ loaded = {} /\ index = [h \in Hours |-> NoLines.says]
    /\ chain = <<>> /\ anomalies = <<>> /\ dropped = 0 /\ cut = None
    /\ known = {} /\ lost = {} /\ torn = {} /\ forged = {} /\ edits = 0

-----------------------------------------------------------------------------
(* Writers: strictcli at the seam where one tool spawns another. *)

\* The invocation of w, run by hand or spawned by p, selects the active
\* partition -- the newest there is -- or rolls to a new one.
Select(w, p, h) ==
    /\ writer[w] = "idle"
    /\ p = None \/ (p \in Ids /\ writer[p] = "spawned")
    /\ \A l \in Present : l <= h
    /\ part' = IF h \in Present THEN part ELSE [part EXCEPT ![h] = NoLines]
    /\ writer' = [writer EXCEPT ![w] = "chosen"]
    /\ choice' = [choice EXCEPT ![w] = h]
    /\ parent' = [parent EXCEPT ![w] = p]
    /\ UNCHANGED <<blocked, stamp, walk, cache, notes, history>>

\* Its identifier is never earlier than the range start of the partition it
\* selected, which need not be the newest any more.
Mint(w) ==
    /\ stamp[w] = None
    /\ \E h \in Hours : h >= choice[w] /\ stamp' = [stamp EXCEPT ![w] = h]

\* Opened for appending, and created if it has been pruned meanwhile.
Reopened(file) == IF file = None THEN NoLines ELSE file

WithEntry(file, id, up) ==
    [says |-> [file.says EXCEPT ![id] = up], torn |-> file.torn,
     long |-> IF id \in LongWinded THEN file.long + 1 ELSE file.long]

WithTorn(file) == [file EXCEPT !.torn = @ + 1]

\* One line, in the file by that name, and only then is the child spawned.
AppendEntry(w) ==
    /\ writer[w] = "chosen"
    /\ Mint(w)
    /\ choice[w] \notin blocked
    /\ part' = [part EXCEPT ![choice[w]] = WithEntry(Reopened(@), w, parent[w])]
    /\ writer' = [writer EXCEPT ![w] = "spawned"]
    /\ UNCHANGED <<blocked, parent, choice, walk, cache, notes, history>>

(* Hands, and whoever prunes. *)

Edit == edits < MaxEdits /\ edits' = edits + 1

\* A write that is not atomic tears the line, and its writer does not know.
AppendTorn(w) ==
    /\ Edit
    /\ writer[w] = "chosen"
    /\ Mint(w)
    /\ choice[w] \notin blocked
    /\ part' = [part EXCEPT ![choice[w]] = WithTorn(Reopened(@))]
    /\ torn' = torn \cup {w}
    /\ writer' = [writer EXCEPT ![w] = "spawned"]
    /\ UNCHANGED <<blocked, parent, choice, walk, cache, notes, known, lost, forged>>

Prune(h) ==
    /\ Edit
    /\ h \in Present
    /\ part' = [part EXCEPT ![h] = None]
    /\ blocked' = blocked \ {h}
    /\ lost' = lost \cup {h}
    /\ UNCHANGED <<writers, walk, cache, notes, known, torn, forged>>

Block(h) ==
    /\ Edit
    /\ h \in Present
    /\ blocked' = blocked \cup {h}
    /\ lost' = lost \cup {h}
    /\ UNCHANGED <<part, writers, walk, cache, notes, known, torn, forged>>

Forge(h, id, up) ==
    /\ Edit
    /\ h \in Present \ blocked
    /\ part' = [part EXCEPT ![h] = WithEntry(@, id, up)]
    /\ forged' = forged \cup {id}
    /\ UNCHANGED <<blocked, writers, walk, cache, notes, known, lost, torn>>

-----------------------------------------------------------------------------
(* Capture.record and Capture.finish. *)

Record(kinds) ==
    LET room == MaxAnomalies - Len(anomalies)
        kept == IF Len(kinds) <= room THEN Len(kinds) ELSE room
    IN  /\ anomalies' = anomalies \o SubSeq(kinds, 1, kept)
        /\ dropped' = dropped + (Len(kinds) - kept)

\* What the call leaves behind of the reader, its cache and the walk's set: nothing.
Forgotten ==
    /\ seen' = {} /\ listed' = FALSE /\ labels' = {} /\ todo' = {}
    /\ loaded' = {} /\ index' = [h \in Hours |-> NoLines.says]

\* Mutant: finish runs before the anomaly of the return is recorded.
FinishTooEarly(how) ==
    LET owed == IF how = "root" THEN <<>> ELSE <<Reason[how]>>
        fits == Len(anomalies) < MaxAnomalies
        lastly == IF fits THEN anomalies \o owed ELSE anomalies
    IN  /\ dropped' = IF fits THEN dropped ELSE dropped + Len(owed)
        /\ anomalies' = IF dropped = 0 THEN lastly
                                       ELSE Append(lastly, "anomalies-dropped")
        /\ pc' = "done"
        /\ cut' = how
        /\ Forgotten

\* The walk ends at this return: its anomaly, then the deferred finish.
Finish(how) ==
    LET owed == IF how = "root" THEN <<>> ELSE <<Reason[how]>>
        fits == Len(anomalies) < MaxAnomalies
        lastly == IF fits THEN anomalies \o owed ELSE anomalies
    IN  /\ dropped' = IF fits THEN dropped ELSE dropped + Len(owed)
        /\ anomalies' = IF dropped' = 0 THEN lastly
                                        ELSE Append(lastly, "anomalies-dropped")
        /\ pc' = "done"
        /\ cut' = how
        /\ Forgotten

-----------------------------------------------------------------------------
(* collectFrom. *)

\* The environment variable has the identifier of the spawning invocation's
\* entry, or whatever somebody put there.
Collect(value) ==
    /\ pc = "idle"
    /\ at' = value
    /\ known' = {i \in Ids : writer[i] = "spawned"}
    /\ IF value = Bad THEN Finish("value")
                      ELSE pc' = "visit" /\ UNCHANGED <<seen, listed, labels, todo, cache, cut, notes>>
    /\ UNCHANGED <<store, writers, chain, lost, torn, forged, edits>>

Revisit ==
    /\ pc = "visit"
    /\ at \in seen
    /\ Finish("cycle")
    /\ UNCHANGED <<store, writers, at, chain, history>>

\* Mutant: the candidate is the only partition looked into.
CandidateOnly(ls, h) == {l \in ls : l <= h /\ \A m \in ls : m <= h => m <= l}

\* The labels not after the identifier's hour: lookup's binary search, and the
\* range of its walk backward.
Reach(ls, h) == {l \in ls : l <= h}

\* The hour of an identifier no writer has minted is whatever it is.
AnyHour(id) ==
    IF stamp[id] # None THEN UNCHANGED stamp
                        ELSE \E h \in Hours : stamp' = [stamp EXCEPT ![id] = h]

\* Mutant: every lookup lists the directory again.
VisitRelisting ==
    /\ pc = "visit"
    /\ at \notin seen
    /\ seen' = seen \cup {at}
    /\ listed' = TRUE
    /\ labels' = Present
    /\ AnyHour(at)
    /\ todo' = Reach(labels', stamp'[at])
    /\ pc' = "search"
    /\ UNCHANGED <<store, parent, writer, choice, at, cache, chain, cut, notes, history>>

\* Mutant: an entry is looked up however often the walk comes by it.
VisitAgain ==
    /\ pc = "visit"
    /\ seen' = seen \cup {at}
    /\ listed' = TRUE
    /\ labels' = IF listed THEN labels ELSE Present
    /\ AnyHour(at)
    /\ todo' = Reach(labels', stamp'[at])
    /\ pc' = "search"
    /\ UNCHANGED <<store, parent, writer, choice, at, cache, chain, cut, notes, history>>

\* lookup begins.  The first one lists the directory, once for the capture.
Visit ==
    /\ pc = "visit"
    /\ at \notin seen
    /\ seen' = seen \cup {at}
    /\ listed' = TRUE
    /\ labels' = IF listed THEN labels ELSE Present
    /\ AnyHour(at)
    /\ todo' = Reach(labels', stamp'[at])
    /\ pc' = "search"
    /\ UNCHANGED <<store, parent, writer, choice, at, cache, chain, cut, notes, history>>

\* The directory is there and cannot be read.
ListFails ==
    /\ pc = "visit"
    /\ at \notin seen
    /\ ~listed
    /\ Edit
    /\ lost' = Hours
    /\ seen' = seen \cup {at}
    /\ listed' = TRUE
    /\ pc' = "search"
    /\ Record(<<"store-unreadable">>)
    /\ UNCHANGED <<store, writers, at, labels, todo, cache, chain, cut, known, torn, forged>>

\* The greatest label that is left.
IsNext(l) == l \in todo /\ \A m \in todo : m <= l

\* What parseEntry and capEntry have to say of a file's lines.
Complaints(file) ==
    [i \in 1..(file.torn + file.long) |->
        IF i <= file.torn THEN "malformed-entry" ELSE "oversized-entry-field"]

\* read, of a partition not parsed yet.  A line that is just being appended may be
\* seen in part.
Load(l) ==
    /\ pc = "search"
    /\ IsNext(l) /\ l \notin loaded
    /\ l \in Present \ blocked
    /\ index' = [index EXCEPT ![l] = part[l].says]
    /\ loaded' = loaded \cup {l}
    /\ \/ Record(Complaints(part[l]))
       \/ /\ \E w \in Ids : writer[w] = "chosen" /\ choice[w] = l
          /\ Record(Complaints(WithTorn(part[l])))
    /\ UNCHANGED <<store, writers, walk, history>>

\* It was pruned since the listing, or is nothing to be loaded: its index stays
\* empty.
LoadFails(l) ==
    /\ pc = "search"
    /\ IsNext(l) /\ l \notin loaded
    /\ l \notin Present \/ l \in blocked
    /\ loaded' = loaded \cup {l}
    /\ Record(<<"store-unreadable">>)
    /\ UNCHANGED <<store, writers, walk, index, history>>

\* Mutant: a partition already parsed is not stepped past.
MissStuck(l) ==
    /\ pc = "search"
    /\ IsNext(l) /\ l \in loaded
    /\ index[l][at] = Absent
    /\ todo' = IF seen = {at} THEN todo \ {l} ELSE todo
    /\ UNCHANGED <<store, writers, pc, at, seen, listed, labels, cache, chain,
                   cut, notes, history>>

\* Not in this one: one partition further back.
Miss(l) ==
    /\ pc = "search"
    /\ IsNext(l) /\ l \in loaded
    /\ index[l][at] = Absent
    /\ todo' = todo \ {l}
    /\ UNCHANGED <<store, writers, pc, at, seen, listed, labels, cache, chain,
                   cut, notes, history>>

\* The entry joins the chain, and the walk goes on with the parent it names.
Hit(l) ==
    /\ pc = "search"
    /\ IsNext(l) /\ l \in loaded
    /\ LET up == index[l][at] IN
        /\ up # Absent
        /\ chain' = Append(chain, [id |-> at, parent |-> up])
        /\ CASE up = None -> Finish("root") /\ UNCHANGED at
             [] up = Bad  -> Finish("parent") /\ at' = Bad
             [] OTHER     -> /\ pc' = "visit" /\ at' = up /\ todo' = {}
                             /\ UNCHANGED <<seen, listed, labels, cache, cut, notes>>
    /\ UNCHANGED <<store, writers, history>>

Dangling ==
    /\ pc = "search"
    /\ todo = {}
    /\ Finish("dangling")
    /\ UNCHANGED <<store, writers, at, chain, history>>

-----------------------------------------------------------------------------

World ==
    \/ \E w \in Ids : AppendEntry(w) \/ AppendTorn(w)
    \/ \E w \in Ids, p \in Ids \cup {None}, h \in Hours : Select(w, p, h)
    \/ \E h \in Hours : Prune(h) \/ Block(h) \/ \E id \in Ids, up \in Parents : Forge(h, id, up)

Start == \E value \in Ids \cup {Bad} : Collect(value)

\* The next step of a capture under way.
Capture ==
    \/ Revisit \/ Visit \/ ListFails \/ Dangling
    \/ \E l \in Hours : Load(l) \/ LoadFails(l) \/ Miss(l) \/ Hit(l)

\* Once the capture is over nobody looks at the store again.
Next == (pc # "done" /\ World) \/ Start \/ Capture

Spec == Init /\ [][Next]_vars

\* The reader runs; nothing is assumed of the others.
FairSpec == Spec /\ WF_vars(Capture)

-----------------------------------------------------------------------------
(* What a capture promises. *)

\* The partition an invocation's entry went to whole, which has been there for
\* any reader ever since.
Whole(id) == id \in known \ torn /\ choice[id] \notin lost

\* A chain is cut for want of an entry only where the entry really was not to be
\* had: never written when the capture began, torn, or in a partition that was
\* pruned or could not be loaded.  In particular a writer that lost a roll, and so
\* left its entry in an older partition than its timestamp's, is found.
NoFalseDangling == cut = "dangling" => ~Whole(at)

\* The chain is an ancestry: each entry names the next one as its parent, none
\* comes twice, and what it says of an invocation is what that invocation wrote,
\* unless somebody else has written a line in its name.
ChainIsAncestry ==
    /\ \A i \in DOMAIN chain : i + 1 \in DOMAIN chain => chain[i].parent = chain[i + 1].id
    /\ \A i, j \in DOMAIN chain : chain[i].id = chain[j].id => i = j
    /\ \A i \in DOMAIN chain : LET id == chain[i].id IN
        id \notin forged => writer[id] = "spawned" /\ chain[i].parent = parent[id]

\* A chain that stops before its root says why, or says that there was more to say
\* than the record keeps: silence means a whole chain.
CutIsExplained ==
    pc = "done" =>
        \/ cut = "root" /\ chain # <<>> /\ chain[Len(chain)].parent = None
        \/ cut # "root" /\ \/ \E i \in DOMAIN anomalies : anomalies[i] = Reason[cut]
                           \/ /\ Len(anomalies) = MaxAnomalies + 1
                              /\ anomalies[MaxAnomalies + 1] = "anomalies-dropped"

\* A capture comes to its end, however the store grows meanwhile: it holds up no
\* deletion.
CaptureEnds == pc = "visit" ~> pc = "done"

=============================================================================
