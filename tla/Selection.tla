-------------------------------- MODULE Selection --------------------------------
(***************************************************************************)
(* Which records a command means: the ages and sizes purge is given, the   *)
(* timestamps ages are compared with, and the identifiers undelete and     *)
(* purge resolve.  Commands run one at a time here (FileArchive has their  *)
(* interleavings) on a machine whose clock runs and whose UTC offset may   *)
(* change under the rows it has already stamped.                           *)
(*                                                                         *)
(* A tick of the model is a second, and also what a machine word counts:   *)
(* the word is scaled down to 2 * Half values.                             *)
(***************************************************************************)
EXTENDS Integers

CONSTANTS
    Ids,             \* records, by their UUID or their numeric id
    Paths,
    Sizes,           \* of what is deleted
    Zones,           \* time zones the machine may be set to
    OffsetIn(_, _),  \* the UTC offset of a zone at an instant
    Half,            \* words hold -Half .. Half - 1
    Counts,          \* the numbers callers write before a unit
    Ticks,           \* unit of a duration -> its ticks
    Bytes,           \* suffix of a size -> its bytes
    MaxNow,          \* bound on the clock
    None

ASSUME WordAssumption == Half \in Nat \ {0}
ASSUME UnitsAssumption ==
    /\ Counts \subseteq Int
    /\ \A u \in DOMAIN Ticks : Ticks[u] \in Nat \ {0}
    /\ \A s \in DOMAIN Bytes : \E k \in 1 .. (2 * Half) : 2 * Half = Bytes[s] * k
    /\ \A s \in DOMAIN Bytes : Bytes[s] \in Nat \ {0}
ASSUME RowsAssumption == Sizes \subseteq Nat /\ MaxNow \in Nat
ASSUME ZonesAssumption == \A z \in Zones, t \in (-2 * Half) .. (MaxNow + 2 * Half) : OffsetIn(z, t) \in Int

VARIABLES
    now,       \* the clock
    zone,      \* the zone the machine is set to
    row,       \* id -> what its record holds, or None
    restored,  \* ids whose record has restored_at
    purged,    \* ids whose record has purged_at
    born       \* id -> the instant of its deletion (history)

vars == <<now, zone, row, restored, purged, born>>

Stamps == [wall : Int, off : Int]
Rows   == [stamp : Stamps, size : Sizes, path : Paths]

TypeOK ==
    /\ now \in 0 .. MaxNow
    /\ zone \in Zones
    /\ row \in [Ids -> Rows \cup {None}]
    /\ restored \in SUBSET {i \in Ids : row[i] # None}
    /\ purged \in SUBSET {i \in Ids : row[i] # None}
    /\ born \in [Ids -> 0 .. MaxNow]

-----------------------------------------------------------------------------
(* Numbers. *)

Wrap(x) == ((x + Half) % (2 * Half)) - Half

\* Division as the language defines it: towards zero.
Quo(a, b) == IF a >= 0 THEN a \div b ELSE -((-a) \div b)

\* What Atoi and ParseInt accept, less what the parsers then refuse.
Countable == 1 .. (Half - 1)

Refused == -Half - 1

\* Mutant: the product is taken as it comes.
parseSizeUnchecked(n, s) == IF n \in Countable THEN Wrap(n * Bytes[s]) ELSE Refused

parseSize(n, s) ==
    LET result == Wrap(n * Bytes[s])
    IN  IF n \in Countable /\ Quo(result, Bytes[s]) = n THEN result ELSE Refused

parseDuration(n, u) == IF n \in Countable THEN Wrap(n * Ticks[u]) ELSE Refused

-----------------------------------------------------------------------------
(* Timestamps. *)

\* Format(time.RFC3339): the wall clock, and the offset it is ahead by.
Stamp(t, z) == [wall |-> t + OffsetIn(z, t), off |-> OffsetIn(z, t)]

\* How the suffixes +hh:mm, -hh:mm and Z compare as text.
SuffixBefore(o, p) ==
    \/ o > 0 /\ (p <= 0 \/ o < p)
    \/ o < 0 /\ (p = 0 \/ p < o)

\* Mutant: the suffix decides first.
SuffixFirst(a, b) == SuffixBefore(a.off, b.off) \/ (a.off = b.off /\ a.wall < b.wall)

\* SQLite compares the column as text: wall clock first.
Before(a, b) == a.wall < b.wall \/ (a.wall = b.wall /\ SuffixBefore(a.off, b.off))

-----------------------------------------------------------------------------
(* Queries. *)

Recorded == {i \in Ids : row[i] # None}

\* Neither restored nor purged: what every query but QueryAll(true) asks for.
Live == Recorded \ (restored \cup purged)

QueryAll(includeAll) == IF includeAll THEN Recorded ELSE Live

QueryByPath(path) == {i \in Live : row[i].path = path}

\* Mutant: the limit is formatted in UTC, the rows are not.
QueryOlderThanUTC(limit) == {i \in Live : Before(row[i].stamp, [wall |-> limit, off |-> 0])}

QueryOlderThan(limit) == {i \in Live : Before(row[i].stamp, Stamp(limit, zone))}

\* A UUID or a number names one record, restored, purged or neither; a path names a
\* record when it is the only live one from there.
resolveRecord(target) ==
    IF target \in Paths
    THEN {i \in QueryByPath(target) : QueryByPath(target) = {i}}
    ELSE {target} \cap Recorded

-----------------------------------------------------------------------------

Init ==
    /\ now = 0
    /\ zone \in Zones
    /\ row = [i \in Ids |-> None]
    /\ restored = {} /\ purged = {}
    /\ born = [i \in Ids |-> 0]

Tick == now < MaxNow /\ now' = now + 1 /\ UNCHANGED <<zone, row, restored, purged, born>>

\* The machine's owner travels.
Move(z) == zone' = z /\ UNCHANGED <<now, row, restored, purged, born>>

Delete(i, size, path) ==
    /\ row[i] = None
    /\ row' = [row EXCEPT ![i] = [stamp |-> Stamp(now, zone), size |-> size, path |-> path]]
    /\ born' = [born EXCEPT ![i] = now]
    /\ UNCHANGED <<now, zone, restored, purged>>

\* A record that was restored or purged before is refused.
Undelete(target) ==
    /\ \E i \in resolveRecord(target) : i \in Live /\ restored' = restored \cup {i}
    /\ UNCHANGED <<now, zone, row, purged, born>>

\* A purge as its caller writes it: at least one of the four.
Asks == [targets : SUBSET Ids,
         older   : [n : Counts, unit : DOMAIN Ticks] \cup {None},
         larger  : [n : Counts, unit : DOMAIN Bytes] \cup {None},
         all     : BOOLEAN]

AtLeastOne(ask) == ask.targets # {} \/ ask.older # None \/ ask.larger # None \/ ask.all

\* Its limits can be parsed, those that are looked at.
AgeOf(ask)  == parseDuration(ask.older.n, ask.older.unit)
SizeOf(ask) == parseSize(ask.larger.n, ask.larger.unit)

Understood(ask) ==
    /\ \A i \in ask.targets : resolveRecord(i) # {}
    /\ ask.targets = {} /\ ask.older # None => AgeOf(ask) # Refused
    /\ ask.larger # None => SizeOf(ask) # Refused

\* Targets first, then an age, and else everything there is.
Candidates(ask) ==
    IF ask.targets # {} THEN UNION {resolveRecord(i) : i \in ask.targets}
    ELSE IF ask.older # None THEN QueryOlderThan(now + Wrap(-AgeOf(ask)))
    ELSE QueryAll(TRUE)

Selected(ask) ==
    {i \in Candidates(ask) : ask.larger = None \/ row[i].size >= SizeOf(ask)}

\* Mutant: a target nobody has a record of is purged all the same.
PurgeUnresolved(ask) ==
    /\ AtLeastOne(ask)
    /\ purged' = purged \cup (Selected(ask) \cup ask.targets)
    /\ UNCHANGED <<now, zone, row, restored, born>>

\* Those purged before are skipped, those restored before are stamped as well.
Purge(ask) ==
    /\ AtLeastOne(ask)
    /\ Understood(ask)
    /\ purged' = purged \cup Selected(ask)
    /\ UNCHANGED <<now, zone, row, restored, born>>

Next ==
    \/ Tick
    \/ \E z \in Zones : Move(z)
    \/ \E i \in Ids, size \in Sizes, path \in Paths : Delete(i, size, path)
    \/ \E target \in Ids \cup Paths : Undelete(target)
    \/ \E ask \in Asks : Purge(ask)

Spec == Init /\ [][Next]_vars

-----------------------------------------------------------------------------
(* What a selection promises. *)

Distance(o, p) == IF o <= p THEN p - o ELSE o - p

\* The order of the stamps, by which records are listed and ages are judged, is
\* the order of the deletions where the offset has not changed between them, and is
\* off by no more than the change where it has.
StampsOrderInstants ==
    \A i, j \in Recorded : Before(row[i].stamp, row[j].stamp) =>
        LET apart == Distance(row[i].stamp.off, row[j].stamp.off)
        IN  IF apart = 0 THEN born[i] < born[j] ELSE born[i] <= born[j] + apart

ByAge(ask) == ask.targets = {} /\ ask.older # None

\* The age its caller wrote, as a number of any size.
Limit(ask) == now - ask.older.n * Ticks[ask.older.unit]

\* The offset of the limit against a record's.
Slack(ask, i) == Distance(row[i].stamp.off, OffsetIn(zone, Limit(ask)))

\* The records a purge would take now: those purged before are skipped.
Taken(ask) == Selected(ask) \ purged

Possible == {ask \in Asks : AtLeastOne(ask) /\ Understood(ask)}

\* An age that fits the word is kept to: a purge by age takes live records only, none
\* that is younger and, when no size is asked for, all that are older, but for a
\* change of offset between the record and the limit.
AgeIsKeptTo ==
    \A ask \in Possible : ByAge(ask) /\ ask.older.n * Ticks[ask.older.unit] < Half =>
        /\ Taken(ask) \subseteq Live
        /\ \A i \in Taken(ask) :
            \/ born[i] < Limit(ask)
            \/ Slack(ask, i) # 0 /\ born[i] <= Limit(ask) + Slack(ask, i)
        /\ ask.larger = None => \A i \in Live \ Taken(ask) :
            \/ born[i] >= Limit(ask)
            \/ Slack(ask, i) # 0 /\ born[i] + Slack(ask, i) >= Limit(ask)

\* A purge with a size takes nothing smaller than what its caller wrote, a number of
\* any size: a product that does not fit the word is refused.
SizeIsKeptTo ==
    \A ask \in Possible : ask.larger # None =>
        \A i \in Taken(ask) : row[i].size >= ask.larger.n * Bytes[ask.larger.unit]

\* The help of --older-than: "Purge items older than duration".  It does not hold of
\* durations that do not fit the word.
YoungerIsSpared ==
    \A ask \in Possible : ByAge(ask) =>
        \A i \in Taken(ask) : now - born[i] >= ask.older.n * Ticks[ask.older.unit]

=============================================================================
