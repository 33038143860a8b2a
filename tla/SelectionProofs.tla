----------------------------- MODULE SelectionProofs -----------------------------
(* Proofs about Selection, for any zones, counts, units and width of the word. *)
EXTENDS Selection, TLAPS

-----------------------------------------------------------------------------
(* The type invariant. *)

LEMMA StampType ==
    ASSUME NEW t \in 0 .. MaxNow, NEW z \in Zones
    PROVE  /\ Stamp(t, z) \in Stamps
           /\ Stamp(t, z).wall = t + Stamp(t, z).off
<1>1. t \in (-2 * Half) .. (MaxNow + 2 * Half)
  BY WordAssumption, RowsAssumption
<1>2. OffsetIn(z, t) \in Int
  BY <1>1, ZonesAssumption
<1>3. t + OffsetIn(z, t) \in Int
  BY <1>2, RowsAssumption
<1>4. QED
  BY <1>2, <1>3 DEF Stamp, Stamps

LEMMA InitTypeOK == Init => TypeOK
BY RowsAssumption DEF Init, TypeOK

LEMMA QueriesRead ==
    /\ Live \subseteq Recorded
    /\ \A limit : QueryOlderThan(limit) \subseteq Live
    /\ \A target : resolveRecord(target) \subseteq Recorded
    /\ \A b : QueryAll(b) \subseteq Recorded
BY DEF Live, Recorded, QueryOlderThan, resolveRecord, QueryAll, QueryByPath

LEMMA SelectedRecorded == \A ask : Selected(ask) \subseteq Recorded
<1>1. TAKE ask
<1>2. Candidates(ask) \subseteq Recorded
  BY QueriesRead DEF Candidates
<1>3. QED
  BY <1>2 DEF Selected

LEMMA NextTypeOK == TypeOK /\ [Next]_vars => TypeOK'
<1> SUFFICES ASSUME TypeOK, [Next]_vars PROVE TypeOK'
  OBVIOUS
<1> USE DEF TypeOK
<1>1. CASE Tick
  BY <1>1, RowsAssumption DEF Tick
<1>2. ASSUME NEW z \in Zones, Move(z) PROVE TypeOK'
  BY <1>2 DEF Move
<1>3. ASSUME NEW i \in Ids, NEW size \in Sizes, NEW path \in Paths, Delete(i, size, path)
      PROVE  TypeOK'
  <2> DEFINE new == [stamp |-> Stamp(now, zone), size |-> size, path |-> path]
  <2>1. new \in Rows
    BY StampType DEF Rows
  <2>2. row' = [row EXCEPT ![i] = new] /\ row' \in [Ids -> Rows \cup {None}]
    BY <1>3, <2>1 DEF Delete
  <2>3. row[i] = None
    BY <1>3 DEF Delete
  <2>4. \A j \in Ids : row[j] # None => row'[j] # None
    BY <2>2, <2>3
  <2>5. QED
    BY <1>3, <2>2, <2>4 DEF Delete
<1>4. ASSUME NEW target \in Ids \cup Paths, Undelete(target) PROVE TypeOK'
  BY <1>4, QueriesRead DEF Undelete, Recorded
<1>5. ASSUME NEW ask \in Asks, Purge(ask) PROVE TypeOK'
  BY <1>5, SelectedRecorded DEF Purge, Recorded
<1>6. CASE UNCHANGED vars
  BY <1>6 DEF vars
<1>7. QED
  BY <1>1, <1>2, <1>3, <1>4, <1>5, <1>6 DEF Next

\* Every reachable state is type-correct.
THEOREM TypeCorrect == Spec => []TypeOK
<1>1. QED
  BY InitTypeOK, NextTypeOK, PTL DEF Spec

-----------------------------------------------------------------------------
(* Stamps are the instants they were taken at, seen through their offsets. *)

StampsFit == \A i \in Recorded : row[i].stamp.wall = born[i] + row[i].stamp.off

LEMMA NextStampsFit == TypeOK /\ StampsFit /\ [Next]_vars => StampsFit'
<1> SUFFICES ASSUME TypeOK, StampsFit, [Next]_vars PROVE StampsFit'
  OBVIOUS
<1>1. CASE UNCHANGED <<row, born>>
  BY <1>1 DEF StampsFit, Recorded
<1>2. ASSUME NEW i \in Ids, NEW size \in Sizes, NEW path \in Paths, Delete(i, size, path)
      PROVE  StampsFit'
  <2> SUFFICES ASSUME NEW j \in Recorded'
               PROVE  row'[j].stamp.wall = born'[j] + row'[j].stamp.off
    BY DEF StampsFit
  <2>1. j \in Ids
    BY DEF Recorded
  <2>2. CASE j = i
    <3> DEFINE s == Stamp(now, zone)
    <3>1. row'[i] = [stamp |-> s, size |-> size, path |-> path] /\ born'[i] = now
      BY <1>2 DEF Delete, TypeOK
    <3>2. s.wall = now + s.off
      BY StampType DEF TypeOK
    <3> HIDE DEF s
    <3>3. QED
      BY <2>2, <3>1, <3>2
  <2>3. CASE j # i
    <3>1. row'[j] = row[j] /\ born'[j] = born[j]
      BY <1>2, <2>1, <2>3 DEF Delete, TypeOK
    <3>2. j \in Recorded
      BY <2>1, <3>1 DEF Recorded
    <3>3. QED
      BY <3>1, <3>2 DEF StampsFit
  <2>4. QED
    BY <2>2, <2>3
<1>3. QED
  BY <1>1, <1>2 DEF Next, Tick, Move, Undelete, Purge, vars

\* What a record's stamp says of its deletion.
LEMMA StampTells ==
    ASSUME TypeOK, StampsFit, NEW i \in Recorded
    PROVE  /\ i \in Ids /\ born[i] \in Int
           /\ row[i].stamp.wall \in Int /\ row[i].stamp.off \in Int
           /\ row[i].stamp.wall = born[i] + row[i].stamp.off
<1>1. i \in Ids /\ row[i] \in Rows
  BY DEF Recorded, TypeOK
<1>2. row[i].stamp \in Stamps
  BY <1>1 DEF Rows
<1>3. row[i].stamp.wall \in Int /\ row[i].stamp.off \in Int
  BY <1>2 DEF Stamps
<1>4. born[i] \in Int
  BY <1>1, RowsAssumption DEF TypeOK
<1>5. QED
  BY <1>1, <1>3, <1>4 DEF StampsFit

LEMMA OrderedWhenFit == TypeOK /\ StampsFit => StampsOrderInstants
<1> SUFFICES ASSUME TypeOK, StampsFit, NEW i \in Recorded, NEW j \in Recorded,
                    Before(row[i].stamp, row[j].stamp)
             PROVE  LET apart == Distance(row[i].stamp.off, row[j].stamp.off)
                    IN  IF apart = 0 THEN born[i] < born[j] ELSE born[i] <= born[j] + apart
  BY DEF StampsOrderInstants
<1>1. PICK a : a = row[i].stamp
  OBVIOUS
<1>2. PICK b : b = row[j].stamp
  OBVIOUS
<1>3. a.wall \in Int /\ a.off \in Int /\ born[i] \in Int /\ a.wall = born[i] + a.off
  BY <1>1, StampTells
<1>4. b.wall \in Int /\ b.off \in Int /\ born[j] \in Int /\ b.wall = born[j] + b.off
  BY <1>2, StampTells
<1>5. a.wall < b.wall \/ (a.wall = b.wall /\ SuffixBefore(a.off, b.off))
  BY <1>1, <1>2 DEF Before
<1>6. QED
  BY <1>1, <1>2, <1>3, <1>4, <1>5 DEF SuffixBefore, Distance

\* The order of the stamps is the order of the deletions up to a change of offset.
THEOREM StampsAreOrdered == Spec => []StampsOrderInstants
<1>1. Init => TypeOK /\ StampsFit
  BY InitTypeOK DEF Init, StampsFit, Recorded
<1>2. (TypeOK /\ StampsFit) /\ [Next]_vars => (TypeOK /\ StampsFit)'
  BY NextTypeOK, NextStampsFit
<1>3. QED
  BY <1>1, <1>2, OrderedWhenFit, PTL DEF Spec

-----------------------------------------------------------------------------
(* Words. *)

LEMMA SmallWraps ==
    ASSUME NEW x \in Int, -Half <= x, x < Half
    PROVE  Wrap(x) = x
BY WordAssumption DEF Wrap

LEMMA RefusedIsNoWord == ASSUME NEW x \in Int PROVE Wrap(x) # Refused /\ Wrap(x) \in Int
BY WordAssumption DEF Wrap, Refused

LEMMA Division ==
    ASSUME NEW y \in Int, NEW m \in Int, m > 0
    PROVE  /\ y \div m \in Int
           /\ y % m \in 0 .. (m - 1)
           /\ y = (m * (y \div m)) + (y % m)
OBVIOUS

LEMMA WrapStep ==
    ASSUME NEW x \in Int
    PROVE  \E q \in Int : Wrap(x) = x - (2 * Half) * q
<1>1. PICK m \in Int : m = 2 * Half /\ m > 0
  BY WordAssumption
<1>2. PICK y \in Int : y = x + Half
  BY WordAssumption
<1>3. PICK q \in Int : y = (m * q) + (y % m)
  BY <1>1, Division
<1>4. y % m \in Int
  BY <1>1, Division
<1>5. Wrap(x) = (y % m) - Half
  BY <1>1, <1>2 DEF Wrap
<1>6. Wrap(x) = x - m * q
  BY <1>1, <1>2, <1>3, <1>4, <1>5, WordAssumption
<1>7. QED
  BY <1>1, <1>6

LEMMA Times ==
    ASSUME NEW b \in Int, b > 0, NEW d \in Int, d # 0
    PROVE  b * d >= b \/ b * d <= -b
<1>1. CASE d >= 1
  BY <1>1
<1>2. CASE d <= -1
  BY <1>2
<1>3. QED
  BY <1>1, <1>2

LEMMA Exact ==
    ASSUME NEW b \in Int, b > 0, NEW z \in Int
    PROVE  (b * z) \div b = z
<1>1. PICK y \in Int : y = b * z
  OBVIOUS
<1>2. PICK d \in Int : d = y \div b /\ y = (b * d) + (y % b)
  BY Division
<1>3. PICK r \in Int : r = y % b /\ 0 <= r /\ r < b
  BY Division
<1>4. b * (z - d) = r
  BY <1>1, <1>2, <1>3
<1>5. z - d = 0
  BY <1>3, <1>4, Times
<1>6. QED
  BY <1>1, <1>2, <1>5

LEMMA ExactQuo ==
    ASSUME NEW b \in Int, b > 0, NEW z \in Int
    PROVE  Quo(b * z, b) = z
<1>1. PICK y \in Int : y = b * z
  OBVIOUS
<1>2. -y = b * (-z)
  BY <1>1
<1>3. CASE y >= 0
  BY <1>1, <1>3, Exact DEF Quo
<1>4. CASE ~(y >= 0)
  <2>1. (-y) \div b = -z
    BY <1>2, Exact
  <2>2. QED
    BY <1>1, <1>4, <2>1 DEF Quo
<1>5. QED
  BY <1>3, <1>4

\* A size that is accepted is the number its caller wrote.
LEMMA AcceptedSize ==
    ASSUME NEW n \in Int, NEW s \in DOMAIN Bytes, parseSize(n, s) # Refused
    PROVE  parseSize(n, s) = n * Bytes[s]
<1>1. PICK b \in Int : b = Bytes[s] /\ b > 0
  BY UnitsAssumption
<1>2. PICK k \in Int : 2 * Half = b * k /\ k > 0
  BY <1>1, UnitsAssumption, WordAssumption
<1>3. PICK x \in Int : x = n * b
  BY <1>1
<1>4. PICK q \in Int : Wrap(x) = x - (2 * Half) * q
  BY WrapStep
<1>5. PICK z \in Int : z = n - k * q
  BY <1>2
<1>6. (2 * Half) * q = b * (k * q)
  BY <1>1, <1>2, WordAssumption
<1>7. b * z = b * n - b * (k * q)
  BY <1>1, <1>2, <1>5
<1>8. Wrap(x) = b * z
  BY <1>1, <1>3, <1>4, <1>6, <1>7
<1>9. Wrap(n * Bytes[s]) = Wrap(x)
  BY <1>1, <1>3
<1>10. Quo(Wrap(x), b) = n /\ parseSize(n, s) = Wrap(x)
  BY <1>1, <1>9 DEF parseSize
<1>11. z = n
  BY <1>1, <1>8, <1>10, ExactQuo
<1>12. QED
  BY <1>1, <1>8, <1>10, <1>11

\* A purge with a size takes nothing smaller than the number its caller wrote.
LEMMA SizeWhenTyped == TypeOK => SizeIsKeptTo
<1> SUFFICES ASSUME TypeOK, NEW ask \in Possible, ask.larger # None, NEW i \in Taken(ask)
             PROVE  row[i].size >= ask.larger.n * Bytes[ask.larger.unit]
  BY DEF SizeIsKeptTo
<1>1. ask \in Asks /\ SizeOf(ask) # Refused
  BY DEF Possible, Understood
<1>2. ask.larger \in [n : Counts, unit : DOMAIN Bytes]
  BY <1>1 DEF Asks
<1>3. ask.larger.n \in Int /\ ask.larger.unit \in DOMAIN Bytes
  BY <1>2, UnitsAssumption
<1>4. SizeOf(ask) = ask.larger.n * Bytes[ask.larger.unit]
  BY <1>1, <1>3, AcceptedSize DEF SizeOf
<1>5. row[i].size >= SizeOf(ask)
  BY DEF Taken, Selected
<1>6. QED
  BY <1>4, <1>5

\* A purge by size takes nothing smaller, whatever the width of the word.
THEOREM SizesAreKeptTo == Spec => []SizeIsKeptTo
<1>1. QED
  BY InitTypeOK, NextTypeOK, SizeWhenTyped, PTL DEF Spec

-----------------------------------------------------------------------------
(* Ages. *)

\* An age that fits is parsed as it is written, and the limit it sets can be stamped.
LEMMA AcceptedAge ==
    ASSUME TypeOK, NEW ask \in Possible, ByAge(ask),
           ask.older.n * Ticks[ask.older.unit] < Half
    PROVE  /\ Limit(ask) \in Int
           /\ Limit(ask) \in (-2 * Half) .. (MaxNow + 2 * Half)
           /\ now + Wrap(-AgeOf(ask)) = Limit(ask)
           /\ OffsetIn(zone, Limit(ask)) \in Int
<1>1. ask \in Asks /\ ask.older # None /\ AgeOf(ask) # Refused
  BY DEF Possible, Understood, ByAge
<1>2. ask.older \in [n : Counts, unit : DOMAIN Ticks]
  BY <1>1 DEF Asks
<1>3. PICK n \in Int : n = ask.older.n
  BY <1>2, UnitsAssumption
<1>4. PICK t \in Int : t = Ticks[ask.older.unit] /\ t > 0
  BY <1>2, UnitsAssumption
<1>5. AgeOf(ask) = parseDuration(ask.older.n, ask.older.unit)
  BY DEF AgeOf
<1>6. n \in Countable /\ AgeOf(ask) = Wrap(n * t)
  BY <1>1, <1>3, <1>4, <1>5 DEF parseDuration
<1>7. n >= 1
  BY <1>6, WordAssumption DEF Countable
<1>8. PICK d \in Int : d = n * t
  BY <1>3, <1>4
<1>9. d >= t
  BY <1>4, <1>7, <1>8
<1>10. 0 < d /\ d < Half
  BY <1>3, <1>4, <1>8, <1>9
<1>11. AgeOf(ask) = d
  BY <1>6, <1>8, <1>10, SmallWraps, WordAssumption
<1>12. Wrap(-d) = -d
  BY <1>10, SmallWraps, WordAssumption
<1>13. Limit(ask) = now - d
  BY <1>3, <1>4, <1>8 DEF Limit
<1>14. now \in Int /\ 0 <= now /\ now <= MaxNow
  BY RowsAssumption DEF TypeOK
<1>15. now - d \in (-2 * Half) .. (MaxNow + 2 * Half)
  BY <1>10, <1>14, WordAssumption, RowsAssumption
<1>16. OffsetIn(zone, now - d) \in Int
  BY <1>15, ZonesAssumption DEF TypeOK
<1>17. QED
  BY <1>11, <1>12, <1>13, <1>14, <1>15, <1>16

\* One record against the limit, either way.
LEMMA AgainstLimit ==
    ASSUME NEW a, a.wall \in Int, a.off \in Int, NEW t \in Int, a.wall = t + a.off,
           NEW b, b.wall \in Int, b.off \in Int, NEW limit \in Int, b.wall = limit + b.off
    PROVE  LET slack == Distance(a.off, b.off)
           IN  /\ Before(a, b) => t < limit \/ (slack # 0 /\ t <= limit + slack)
               /\ ~Before(a, b) => t >= limit \/ (slack # 0 /\ t + slack >= limit)
BY DEF Before, SuffixBefore, Distance

LEMMA AgeWhenFit == TypeOK /\ StampsFit => AgeIsKeptTo
<1> SUFFICES ASSUME TypeOK, StampsFit, NEW ask \in Possible, ByAge(ask),
                    ask.older.n * Ticks[ask.older.unit] < Half
             PROVE  /\ Taken(ask) \subseteq Live
                    /\ \A i \in Taken(ask) :
                        \/ born[i] < Limit(ask)
                        \/ Slack(ask, i) # 0 /\ born[i] <= Limit(ask) + Slack(ask, i)
                    /\ ask.larger = None => \A i \in Live \ Taken(ask) :
                        \/ born[i] >= Limit(ask)
                        \/ Slack(ask, i) # 0 /\ born[i] + Slack(ask, i) >= Limit(ask)
  BY DEF AgeIsKeptTo
<1>1. PICK limit \in Int : limit = Limit(ask)
  BY AcceptedAge
<1>2. PICK b : b = Stamp(limit, zone)
  OBVIOUS
<1>3. b.wall \in Int /\ b.off \in Int /\ b.wall = limit + b.off /\ b.off = OffsetIn(zone, limit)
  BY <1>1, <1>2, AcceptedAge DEF Stamp
<1>4. Candidates(ask) = {i \in Live : Before(row[i].stamp, b)}
  BY <1>1, <1>2, AcceptedAge DEF Candidates, ByAge, QueryOlderThan
<1>5. Taken(ask) \subseteq Candidates(ask)
  BY DEF Taken, Selected
<1>6. ask.larger = None => Taken(ask) = Candidates(ask)
  BY <1>4 DEF Taken, Selected, Live
<1>7. ASSUME NEW i \in Live
      PROVE  /\ Before(row[i].stamp, b) =>
                    \/ born[i] < Limit(ask)
                    \/ Slack(ask, i) # 0 /\ born[i] <= Limit(ask) + Slack(ask, i)
             /\ ~Before(row[i].stamp, b) =>
                    \/ born[i] >= Limit(ask)
                    \/ Slack(ask, i) # 0 /\ born[i] + Slack(ask, i) >= Limit(ask)
  <2>1. PICK a : a = row[i].stamp
    OBVIOUS
  <2>2. PICK t : t = born[i]
    OBVIOUS
  <2>3. a.wall \in Int /\ a.off \in Int /\ t \in Int /\ a.wall = t + a.off
    BY <2>1, <2>2, StampTells, QueriesRead
  <2>4. Slack(ask, i) = Distance(a.off, b.off)
    BY <1>1, <1>3, <2>1 DEF Slack
  <2>5. QED
    BY <1>1, <1>3, <2>1, <2>2, <2>3, <2>4, AgainstLimit
<1>8. QED
  BY <1>4, <1>5, <1>6, <1>7

\* An age that fits the word is kept to, but for a change of offset.
THEOREM AgesAreKeptTo == Spec => []AgeIsKeptTo
<1>1. Init => TypeOK /\ StampsFit
  BY InitTypeOK DEF Init, StampsFit, Recorded
<1>2. (TypeOK /\ StampsFit) /\ [Next]_vars => (TypeOK /\ StampsFit)'
  BY NextTypeOK, NextStampsFit
<1>3. QED
  BY <1>1, <1>2, AgeWhenFit, PTL DEF Spec

\* What YoungerIsSpared takes beyond the code: every age somebody writes fits the
\* word, and the machine keeps to one offset.
AgesFit == \A n \in Counts, u \in DOMAIN Ticks : n * Ticks[u] < Half

Instants == (-2 * Half) .. (MaxNow + 2 * Half)

OffsetKept == \A y, z \in Zones : \A s, t \in Instants : OffsetIn(y, s) = OffsetIn(z, t)

OffsetsFit == \A i \in Recorded : \E z \in Zones, t \in Instants : row[i].stamp.off = OffsetIn(z, t)

LEMMA NextOffsetsFit == TypeOK /\ OffsetsFit /\ [Next]_vars => OffsetsFit'
<1> SUFFICES ASSUME TypeOK, OffsetsFit, [Next]_vars PROVE OffsetsFit'
  OBVIOUS
<1>1. CASE UNCHANGED row
  BY <1>1 DEF OffsetsFit, Recorded
<1>2. ASSUME NEW i \in Ids, NEW size \in Sizes, NEW path \in Paths, Delete(i, size, path)
      PROVE  OffsetsFit'
  <2>1. row'[i].stamp.off = OffsetIn(zone, now)
    BY <1>2 DEF Delete, Stamp, TypeOK
  <2>2. zone \in Zones /\ now \in Instants
    BY WordAssumption, RowsAssumption DEF TypeOK, Instants
  <2>3. \A j \in Recorded' \ {i} : j \in Recorded /\ row'[j] = row[j]
    BY <1>2 DEF Delete, Recorded, TypeOK
  <2>4. QED
    BY <2>1, <2>2, <2>3 DEF OffsetsFit
<1>3. QED
  BY <1>1, <1>2 DEF Next, Tick, Move, Undelete, Purge, vars

LEMMA YoungerWhenFit == AgesFit /\ OffsetKept /\ TypeOK /\ OffsetsFit /\ AgeIsKeptTo => YoungerIsSpared
<1> SUFFICES ASSUME AgesFit, OffsetKept, TypeOK, OffsetsFit, AgeIsKeptTo,
                    NEW ask \in Possible, ByAge(ask), NEW i \in Taken(ask)
             PROVE  now - born[i] >= ask.older.n * Ticks[ask.older.unit]
  BY DEF YoungerIsSpared
<1>1. ask.older \in [n : Counts, unit : DOMAIN Ticks]
  BY DEF Possible, Understood, Asks, ByAge
<1>2. ask.older.n * Ticks[ask.older.unit] < Half
  BY <1>1 DEF AgesFit
<1>3. i \in Recorded /\ (born[i] < Limit(ask) \/ Slack(ask, i) # 0)
  BY <1>2, QueriesRead DEF AgeIsKeptTo
<1>4. row[i].stamp.off = OffsetIn(zone, Limit(ask)) /\ OffsetIn(zone, Limit(ask)) \in Int
  BY <1>2, <1>3, AcceptedAge DEF OffsetKept, OffsetsFit, Instants, TypeOK
<1>5. Slack(ask, i) = 0
  BY <1>4 DEF Slack, Distance
<1>6. PICK n \in Int : n = ask.older.n
  BY <1>1, UnitsAssumption
<1>7. PICK t \in Int : t = Ticks[ask.older.unit]
  BY <1>1, UnitsAssumption
<1>8. PICK d \in Int : d = n * t
  BY <1>6, <1>7
<1>9. born[i] \in Int /\ now \in Int
  BY <1>3, RowsAssumption DEF TypeOK, Recorded
<1>10. QED
  BY <1>3, <1>5, <1>6, <1>7, <1>8, <1>9 DEF Limit

\* No purge by age takes what is younger than its caller wrote, where ages fit the
\* word and the offset stays: purge_age lacks the first.
THEOREM YoungerAreSpared ==
    ASSUME AgesFit, OffsetKept
    PROVE  Spec => []YoungerIsSpared
<1>1. Init => TypeOK /\ StampsFit /\ OffsetsFit
  BY InitTypeOK DEF Init, StampsFit, OffsetsFit, Recorded
<1>2. (TypeOK /\ StampsFit /\ OffsetsFit) /\ [Next]_vars => (TypeOK /\ StampsFit /\ OffsetsFit)'
  BY NextTypeOK, NextStampsFit, NextOffsetsFit
<1>3. TypeOK /\ StampsFit /\ OffsetsFit => YoungerIsSpared
  BY AgeWhenFit, YoungerWhenFit
<1>4. QED
  BY <1>1, <1>2, <1>3, PTL DEF Spec

=============================================================================
