----------------------------- MODULE DatabaseProofs -----------------------------
(* Proofs about Database, for any ladder, any budget and any number of processes. *)
EXTENDS Database, TLAPS

\* What an attempt knows of the database at its place on the ladder.  Columns are
\* only ever added, so what it saw stays true while others climb.
Placed(p) ==
    /\ pc[p] \notin {"closed", "failed", "schema"} => table = "present"
    /\ pc[p] \in {"look", "alter", "stamp"} =>
        rung[p] \in Migrations /\ UpTo(rung[p] - 1) \subseteq columns
    /\ pc[p] \in {"look", "alter"} =>
        /\ step[p] \in 1 .. Len(Ladder[rung[p]])
        /\ \A k \in 1 .. step[p] - 1 : Ladder[rung[p]][k] \in columns
    /\ pc[p] = "stamp" => AddedBy(rung[p]) \subseteq columns
    /\ pc[p] \in {"open", "insert"} => columns = Columns

Shape ==
    /\ pc \in [Procs -> Points]
    /\ rung \in [Procs -> 0 .. Latest]
    /\ step \in [Procs -> Nat]
    /\ version \in 0 .. Latest
    /\ columns \subseteq Columns
    /\ table \in {"missing", "present"}
    /\ table = "missing" => version = 0 /\ columns = {}

LadderInv == Shape /\ VersionKeepsItsWord /\ \A p \in Procs : Placed(p)

LEMMA LadderLength == Latest \in Nat /\ \A v \in Migrations : Ladder[v] \in Seq(STRING)
BY LadderAssumption DEF Latest, Migrations

\* The columns up to a migration are those up to the one before and its own.
LEMMA UpToStep ==
    ASSUME NEW v \in Migrations
    PROVE  UpTo(v) = UpTo(v - 1) \cup AddedBy(v)
BY LadderLength DEF UpTo, Migrations

LEMMA UpToNothing == UpTo(0) = {}
BY DEF UpTo

LEMMA UpToGrows ==
    ASSUME NEW v \in 0 .. Latest
    PROVE  UpTo(v) \subseteq Columns
BY LadderLength DEF UpTo, Columns

\* The processes a step leaves where they are keep what they know.
LEMMA OthersStay ==
    ASSUME NEW q \in Procs, Placed(q), UNCHANGED <<pc[q], rung[q], step[q]>>,
           columns \subseteq columns', columns' \subseteq Columns, table = "present" => table' = "present"
    PROVE  Placed(q)'
BY DEF Placed

\* Going on to migration v, whose predecessors are all in.
LEMMA ClimbPlaces ==
    ASSUME Shape, NEW p \in Procs, NEW v \in 1 .. Latest + 1, Climb(p, v),
           table' = "present", columns' \subseteq Columns, UpTo(v - 1) \subseteq columns'
    PROVE  /\ Placed(p)'
           /\ pc' \in [Procs -> Points] /\ rung' \in [Procs -> 0 .. Latest] /\ step' \in [Procs -> Nat]
           /\ \A q \in Procs \ {p} : UNCHANGED <<pc[q], rung[q], step[q]>>
<1> USE LadderLength DEF Shape, Climb, Goto, Points, Opening
<1>1. CASE v = Latest + 1
  <2>1. v - 1 = Latest
    BY <1>1
  <2>2. columns' = Columns
    BY <2>1 DEF Columns
  <2>3. QED
    BY <1>1, <2>2 DEF Placed
<1>2. CASE v \in Migrations /\ Ladder[v] = <<>>
  <2>1. AddedBy(v) = {}
    BY <1>2 DEF AddedBy
  <2>2. QED
    BY <1>2, <2>1 DEF Placed, Migrations
<1>3. CASE v \in Migrations /\ Ladder[v] # <<>>
  <2>1. 1 \in 1 .. Len(Ladder[v])
    BY <1>3
  <2>2. QED
    BY <1>3, <2>1 DEF Placed, Migrations
<1>4. QED
  BY <1>1, <1>2, <1>3 DEF Migrations

\* Going on past a column that is in.
LEMMA NextColumnPlaces ==
    ASSUME Shape, NEW p \in Procs, Placed(p), pc[p] \in {"look", "alter"}, NextColumn(p), rung' = rung,
           table' = "present", columns \subseteq columns', columns' \subseteq Columns,
           Ladder[rung[p]][step[p]] \in columns'
    PROVE  /\ Placed(p)'
           /\ pc' \in [Procs -> Points] /\ step' \in [Procs -> Nat]
           /\ \A q \in Procs \ {p} : UNCHANGED <<pc[q], rung[q], step[q]>>
<1> USE LadderLength DEF Shape, NextColumn, Goto, Points, Opening
<1>1. rung[p] \in Migrations /\ step[p] \in 1 .. Len(Ladder[rung[p]]) /\ Len(Ladder[rung[p]]) \in Nat
  BY DEF Placed
<1>2. \A k \in 1 .. step[p] : Ladder[rung[p]][k] \in columns'
  BY <1>1 DEF Placed
<1>3. CASE step[p] < Len(Ladder[rung[p]])
  <2>1. step' = [step EXCEPT ![p] = step[p] + 1] /\ pc' = [pc EXCEPT ![p] = "look"]
    BY <1>3
  <2>2. step'[p] \in 1 .. Len(Ladder[rung[p]]) /\ \A k \in 1 .. step'[p] - 1 : Ladder[rung[p]][k] \in columns'
    BY <1>1, <1>2, <1>3, <2>1
  <2>3. Placed(p)'
    BY <1>1, <2>1, <2>2 DEF Placed
  <2>4. QED
    BY <1>1, <2>1, <2>3
<1>4. CASE ~(step[p] < Len(Ladder[rung[p]]))
  <2>1. AddedBy(rung[p]) \subseteq columns'
    BY <1>1, <1>2, <1>4 DEF AddedBy
  <2>2. QED
    BY <1>1, <1>4, <2>1 DEF Placed
<1>5. QED
  BY <1>3, <1>4

LEMMA NextLadderInv ==
    ASSUME LadderInv, [Next]_vars
    PROVE  LadderInv'
<1> USE LadderLength DEF LadderInv, VersionKeepsItsWord
<1>1. ASSUME NEW p \in Procs, CreateSchema(p) PROVE LadderInv'
  <2>1. /\ columns \subseteq columns' /\ columns' \subseteq Columns /\ table' = "present"
        /\ version' = version /\ UNCHANGED <<rung, step>> /\ pc' = [pc EXCEPT ![p] = "version"]
    BY <1>1 DEF CreateSchema, Goto, Shape
  <2>2. Shape'
    <3>1. (table = "missing" => version = 0 /\ columns = {})' /\ table' \in {"missing", "present"}
      BY <2>1
    <3>2. pc' \in [Procs -> Points] /\ rung' \in [Procs -> 0 .. Latest] /\ step' \in [Procs -> Nat]
      BY <2>1 DEF Shape, Points, Opening
    <3>3. QED
      BY <2>1, <3>1, <3>2 DEF Shape
  <2>3. Placed(p)'
    BY <2>1 DEF Placed, Shape
  <2>4. ASSUME NEW q \in Procs \ {p} PROVE Placed(q)'
    BY <2>1, <2>4, OthersStay DEF Shape
  <2>5. QED
    BY <2>1, <2>2, <2>3, <2>4
<1>2. ASSUME NEW p \in Procs, ReadVersion(p) PROVE LadderInv'
  <2>1. /\ Climb(p, version + 1) /\ table = "present" /\ UNCHANGED <<table, columns, version>>
    BY <1>2 DEF ReadVersion, database, Placed
  <2>2. version + 1 \in 1 .. Latest + 1 /\ UpTo((version + 1) - 1) \subseteq columns
    BY DEF Shape
  <2>3. /\ Placed(p)'
        /\ pc' \in [Procs -> Points] /\ rung' \in [Procs -> 0 .. Latest] /\ step' \in [Procs -> Nat]
        /\ \A q \in Procs \ {p} : UNCHANGED <<pc[q], rung[q], step[q]>>
    BY <2>1, <2>2, ClimbPlaces DEF Shape
  <2>4. Shape'
    BY <2>1, <2>3 DEF Shape
  <2>5. ASSUME NEW q \in Procs \ {p} PROVE Placed(q)'
    BY <2>1, <2>3, <2>5, OthersStay DEF Shape
  <2>6. QED
    BY <2>1, <2>3, <2>4, <2>5
<1>3. ASSUME NEW p \in Procs, LookForColumn(p) PROVE LadderInv'
  <2>1. UNCHANGED <<table, columns, version, rung>> /\ pc[p] = "look" /\ table = "present"
    BY <1>3 DEF LookForColumn, database, Placed
  <2>2. CASE Ladder[rung[p]][step[p]] \in columns
    <3>1. /\ Placed(p)'
          /\ pc' \in [Procs -> Points] /\ step' \in [Procs -> Nat]
          /\ \A q \in Procs \ {p} : UNCHANGED <<pc[q], rung[q], step[q]>>
      BY <1>3, <2>1, <2>2, NextColumnPlaces DEF LookForColumn, Shape
    <3>2. Shape'
      BY <2>1, <3>1 DEF Shape
    <3>3. ASSUME NEW q \in Procs \ {p} PROVE Placed(q)'
      BY <2>1, <3>1, <3>3, OthersStay DEF Shape
    <3>4. QED
      BY <2>1, <3>1, <3>2, <3>3
  <2>3. CASE Ladder[rung[p]][step[p]] \notin columns
    <3>1. pc' = [pc EXCEPT ![p] = "alter"] /\ UNCHANGED step
      BY <1>3, <2>3 DEF LookForColumn, Goto
    <3>2. QED
      BY <2>1, <3>1 DEF Shape, Placed, Points, Opening
  <2>4. QED
    BY <2>2, <2>3
<1>4. ASSUME NEW p \in Procs, AddColumn(p) PROVE LadderInv'
  <2>1. /\ columns' = columns \cup {Ladder[rung[p]][step[p]]} /\ pc[p] = "alter" /\ table = "present"
        /\ UNCHANGED <<table, version, rung>> /\ NextColumn(p)
    BY <1>4 DEF AddColumn, Placed
  <2>2. columns' \subseteq Columns
    <3>1. rung[p] \in Migrations /\ Ladder[rung[p]][step[p]] \in AddedBy(rung[p])
      BY <2>1 DEF Placed, AddedBy
    <3>2. AddedBy(rung[p]) \subseteq Columns
      BY <3>1, UpToStep, UpToGrows DEF Migrations
    <3>3. QED
      BY <2>1, <3>1, <3>2 DEF Shape
  <2>3. /\ Placed(p)'
        /\ pc' \in [Procs -> Points] /\ step' \in [Procs -> Nat]
        /\ \A q \in Procs \ {p} : UNCHANGED <<pc[q], rung[q], step[q]>>
    BY <2>1, <2>2, NextColumnPlaces
  <2>4. Shape'
    <3>1. (table = "missing" => version = 0 /\ columns = {})' /\ table' \in {"missing", "present"}
      BY <2>1 DEF Shape
    <3>2. QED
      BY <2>1, <2>2, <2>3, <3>1 DEF Shape
  <2>5. ASSUME NEW q \in Procs \ {p} PROVE Placed(q)'
    BY <2>1, <2>2, <2>3, <2>5, OthersStay
  <2>6. QED
    BY <2>1, <2>3, <2>4, <2>5
<1>5. ASSUME NEW p \in Procs, SetVersion(p) PROVE LadderInv'
  <2>1. /\ version' = rung[p] /\ Climb(p, rung[p] + 1) /\ UNCHANGED <<table, columns>> /\ table = "present"
        /\ rung[p] \in Migrations /\ UpTo(rung[p] - 1) \cup AddedBy(rung[p]) \subseteq columns
    BY <1>5 DEF SetVersion, Placed
  <2>2. UpTo((rung[p] + 1) - 1) \subseteq columns /\ rung[p] + 1 \in 1 .. Latest + 1
    <3>1. (rung[p] + 1) - 1 = rung[p] /\ rung[p] + 1 \in 1 .. Latest + 1
      BY <2>1 DEF Migrations
    <3>2. UpTo(rung[p]) \subseteq columns
      BY <2>1, UpToStep
    <3>3. QED
      BY <3>1, <3>2
  <2>3. /\ Placed(p)'
        /\ pc' \in [Procs -> Points] /\ rung' \in [Procs -> 0 .. Latest] /\ step' \in [Procs -> Nat]
        /\ \A q \in Procs \ {p} : UNCHANGED <<pc[q], rung[q], step[q]>>
    BY <2>1, <2>2, ClimbPlaces DEF Shape
  <2>4. Shape' /\ VersionKeepsItsWord'
    <3>1. version' \in 0 .. Latest
      BY <2>1 DEF Migrations
    <3>2. (table = "missing" => version = 0 /\ columns = {})' /\ table' \in {"missing", "present"}
      BY <2>1 DEF Shape
    <3>3. VersionKeepsItsWord'
      BY <2>1, UpToStep
    <3>4. QED
      BY <2>1, <2>3, <3>1, <3>2, <3>3 DEF Shape
  <2>5. ASSUME NEW q \in Procs \ {p} PROVE Placed(q)'
    BY <2>1, <2>3, <2>5, OthersStay DEF Shape
  <2>6. QED
    BY <2>3, <2>4, <2>5
<1>6. ASSUME NEW p \in Procs,
             \/ Open(p) \/ AddColumnFails(p) \/ Retry(p) \/ OpenGivesUp(p) \/ Close(p) \/ Crash(p)
      PROVE  LadderInv'
  BY <1>6 DEF Open, AddColumnFails, Retry, OpenGivesUp, Close, Crash, Goto, database,
     Shape, Placed, Points, Opening
<1>7. ASSUME NEW p \in Procs,
             \/ InsertStatement(p) \/ InsertStatementFails(p) \/ InsertGivesUp(p)
             \/ \E u \in Uuids : Insert(p, u)
      PROVE  LadderInv'
  BY <1>7 DEF Insert, InsertStatement, InsertStatementFails, InsertGivesUp, Goto, database,
     Shape, Placed, Points, Opening
<1>8. CASE Lock \/ UNCHANGED vars
  BY <1>8 DEF Lock, vars, database, mine, Shape, Placed
<1>9. QED
  BY <1>1, <1>2, <1>3, <1>4, <1>5, <1>6, <1>7, <1>8 DEF Next, Continue

LEMMA InitLadderInv == Init => LadderInv
<1> SUFFICES ASSUME Init PROVE LadderInv
  OBVIOUS
<1>1. version \in 0 .. Latest /\ table \in {"missing", "present"} /\ columns = UpTo(version)
  BY LadderLength DEF Init
<1>2. table = "missing" => version = 0 /\ columns = {}
  BY UpToNothing DEF Init
<1>3. pc \in [Procs -> Points] /\ rung \in [Procs -> 0 .. Latest] /\ step \in [Procs -> Nat]
  BY LadderLength DEF Init, Points
<1>4. \A p \in Procs : Placed(p)
  BY DEF Init, Placed
<1>5. columns \subseteq Columns
  BY <1>1, UpToGrows
<1>6. QED
  BY <1>1, <1>2, <1>3, <1>4, <1>5 DEF LadderInv, Shape, VersionKeepsItsWord

\* The schema ladder, however many processes race up it and whichever of them
\* crash on the way: user_version never promises a column the table lacks, and
\* what Open returns fits the statements of today.
THEOREM LadderIsSafe == Spec => [](VersionKeepsItsWord /\ OpenedIsMigrated)
<1>1. Init => LadderInv
  BY InitLadderInv
<1>2. LadderInv /\ [Next]_vars => LadderInv'
  BY NextLadderInv
<1>3. LadderInv => VersionKeepsItsWord /\ OpenedIsMigrated
  BY DEF LadderInv, Placed, OpenedIsMigrated
<1>4. QED
  BY <1>1, <1>2, <1>3, PTL DEF Spec

\* The version alone: a crash or a lost race costs a repeated climb and never a
\* skipped migration.
THEOREM VersionIsHonest == Spec => []VersionKeepsItsWord
<1>1. QED
  BY LadderIsSafe, PTL

-----------------------------------------------------------------------------
(* Inserts.  A uuid is asked for by one process at a time, and has neither a row *)
(* nor an answer until then.                                                    *)

OwnTypes ==
    /\ rows \subseteq Uuids
    /\ locked \in BOOLEAN
    /\ attempt \in [Procs -> 1 .. MaxAttempts]
    /\ asked \in [Procs -> Uuids \cup {None}]
    /\ reported \in [Uuids -> {"nothing", "id", "error"}]

Asking ==
    /\ \A p \in Procs : pc[p] = "insert" => asked[p] \in Uuids
    /\ \A p \in Procs : asked[p] \in Uuids => asked[p] \notin rows /\ reported[asked[p]] = "nothing"
    /\ \A p, q \in Procs : p # q /\ asked[p] \in Uuids => asked[q] # asked[p]

InsertInv == LadderInv /\ OwnTypes /\ Asking /\ InsertTellsTheTruth

LEMMA InitInsertInv == Init => InsertInv
<1> SUFFICES ASSUME Init PROVE InsertInv
  OBVIOUS
<1>1. LadderInv
  BY InitLadderInv
<1>2. OwnTypes
  <2>1. attempt \in [Procs -> 1 .. MaxAttempts]
    BY AttemptsAssumption DEF Init
  <2>2. locked \in BOOLEAN
    BY Zenon DEF Init
  <2>3. reported \in [Uuids -> {"nothing", "id", "error"}]
    BY DEF Init
  <2>4. QED
    BY <2>1, <2>2, <2>3 DEF Init, OwnTypes
<1>3. \A p \in Procs : pc[p] = "closed" /\ asked[p] = None
  BY DEF Init
<1>4. Asking
  BY <1>3, NoneAssumption DEF Asking
<1>5. InsertTellsTheTruth
  BY DEF Init, InsertTellsTheTruth
<1>6. QED
  BY <1>1, <1>2, <1>4, <1>5 DEF InsertInv

\* A process ends its insert and leaves everything but its own record alone.
LEMMA EndOfInsert ==
    ASSUME InsertInv, NEW p \in Procs, pc[p] = "insert",
           pc' = [pc EXCEPT ![p] = "open"], asked' = [asked EXCEPT ![p] = None],
           \/ rows' = rows \cup {asked[p]} /\ reported' = [reported EXCEPT ![asked[p]] = "id"]
           \/ rows' = rows /\ reported' = [reported EXCEPT ![asked[p]] = "error"]
    PROVE  /\ rows' \subseteq Uuids /\ reported' \in [Uuids -> {"nothing", "id", "error"}]
           /\ asked' \in [Procs -> Uuids \cup {None}]
           /\ Asking' /\ InsertTellsTheTruth'
<1> USE NoneAssumption DEF InsertInv, LadderInv, Shape, OwnTypes, Asking, InsertTellsTheTruth
<1>1. PICK u \in Uuids : u = asked[p]
  OBVIOUS
<1>2. u \notin rows /\ reported[u] = "nothing" /\ \A q \in Procs : q # p => asked[q] # u
  BY <1>1
<1>3. asked' = [asked EXCEPT ![p] = None]
  OBVIOUS
<1>4. CASE rows' = rows \cup {u} /\ reported' = [reported EXCEPT ![u] = "id"]
  BY <1>2, <1>3, <1>4
<1>5. CASE rows' = rows /\ reported' = [reported EXCEPT ![u] = "error"]
  BY <1>2, <1>3, <1>5
<1>6. QED
  BY <1>1, <1>4, <1>5

LEMMA NextInsertInv ==
    ASSUME InsertInv, [Next]_vars
    PROVE  InsertInv'
<1> USE DEF InsertInv
<1>1. LadderInv'
  BY NextLadderInv
<1>2. ASSUME NEW p \in Procs,
             \/ InsertStatement(p) \/ InsertStatementFails(p) \/ InsertGivesUp(p)
      PROVE  (OwnTypes /\ Asking /\ InsertTellsTheTruth)'
  <2>1. /\ pc[p] = "insert" /\ pc' = [pc EXCEPT ![p] = "open"]
        /\ asked' = [asked EXCEPT ![p] = None] /\ UNCHANGED <<locked, attempt>>
        /\ \/ rows' = rows \cup {asked[p]} /\ reported' = [reported EXCEPT ![asked[p]] = "id"]
           \/ rows' = rows /\ reported' = [reported EXCEPT ![asked[p]] = "error"]
    BY <1>2 DEF InsertStatement, InsertStatementFails, InsertGivesUp, Goto, database
  <2>2. QED
    BY <2>1, EndOfInsert DEF OwnTypes
<1>3. ASSUME NEW p \in Procs, NEW u \in Uuids, Insert(p, u)
      PROVE  (OwnTypes /\ Asking /\ InsertTellsTheTruth)'
  BY <1>3, AttemptsAssumption, NoneAssumption
     DEF Insert, Goto, database, OwnTypes, Asking, InsertTellsTheTruth, LadderInv, Shape
<1>4. ASSUME NEW p \in Procs, Crash(p) \/ Retry(p) \/ Open(p)
      PROVE  (OwnTypes /\ Asking /\ InsertTellsTheTruth)'
  <2>1. UNCHANGED <<rows, reported, locked>> /\ attempt' \in [Procs -> 1 .. MaxAttempts]
    BY <1>4, AttemptsAssumption DEF Crash, Retry, Open, database, OwnTypes
  <2>2. asked' = asked \/ (asked' = [asked EXCEPT ![p] = None] /\ pc'[p] = "closed")
    BY <1>4 DEF Crash, Retry, Open, Goto, LadderInv, Shape
  <2>3. \A q \in Procs : pc'[q] = "insert" => pc[q] = "insert"
    BY <1>4 DEF Crash, Retry, Open, Goto, LadderInv, Shape
  <2>4. asked' \in [Procs -> Uuids \cup {None}]
    BY <2>2 DEF OwnTypes
  <2>5. \A q \in Procs : asked'[q] \in Uuids => asked'[q] = asked[q]
    BY <2>2, NoneAssumption DEF OwnTypes
  <2>6. \A q \in Procs : pc'[q] = "insert" => asked'[q] = asked[q]
    BY <2>2 DEF OwnTypes
  <2>7. Asking'
    BY <2>1, <2>2, <2>3, <2>5, <2>6, NoneAssumption DEF Asking, OwnTypes
  <2>8. QED
    BY <2>1, <2>4, <2>7 DEF OwnTypes, InsertTellsTheTruth
<1>5. ASSUME UNCHANGED <<rows, attempt, asked, reported>>, locked' \in BOOLEAN,
             \A p \in Procs : pc'[p] = "insert" => pc[p] = "insert"
      PROVE  (OwnTypes /\ Asking /\ InsertTellsTheTruth)'
  BY <1>5 DEF OwnTypes, Asking, InsertTellsTheTruth
<1>6. ASSUME NEW p \in Procs,
             \/ CreateSchema(p) \/ ReadVersion(p) \/ LookForColumn(p)
             \/ AddColumn(p) \/ AddColumnFails(p) \/ SetVersion(p)
             \/ OpenGivesUp(p) \/ Close(p)
      PROVE  (OwnTypes /\ Asking /\ InsertTellsTheTruth)'
  <2>1. UNCHANGED <<rows, attempt, asked, reported, locked>>
    BY <1>6 DEF CreateSchema, ReadVersion, LookForColumn, AddColumn, AddColumnFails, SetVersion,
       OpenGivesUp, Close, database
  <2>2. \E point \in Points \ {"insert"} : pc' = [pc EXCEPT ![p] = point]
    BY <1>6 DEF CreateSchema, ReadVersion, LookForColumn, AddColumn, AddColumnFails, SetVersion,
       OpenGivesUp, Close, Climb, NextColumn, Goto, Points, Opening
  <2>3. \A q \in Procs : pc'[q] = "insert" => pc[q] = "insert"
    BY <2>2 DEF LadderInv, Shape
  <2>4. QED
    BY <1>5, <2>1, <2>3 DEF OwnTypes
<1>7. ASSUME Lock \/ UNCHANGED vars
      PROVE  (OwnTypes /\ Asking /\ InsertTellsTheTruth)'
  <2>1. UNCHANGED <<rows, attempt, asked, reported, pc>>
    BY <1>7 DEF Lock, vars, database, mine
  <2>2. locked' \in BOOLEAN
    BY <1>7, Zenon DEF Lock, vars, OwnTypes
  <2>3. QED
    BY <1>5, <2>1, <2>2
<1>8. QED
  BY <1>1, <1>2, <1>3, <1>4, <1>6, <1>7 DEF Next, Continue

\* Every reachable state is type-correct: in particular the attempts stay within
\* the budget and the climb on the ladder.
THEOREM TypeCorrect == Spec => []TypeOK
<1>1. InsertInv => TypeOK
  BY DEF InsertInv, LadderInv, Shape, OwnTypes, TypeOK
<1>2. QED
  BY <1>1, InitInsertInv, NextInsertInv, PTL DEF Spec

\* What Insert returns is what the table holds, whatever is retried, contended or
\* killed: delete discards an archive entry only where there is no row.
THEOREM InsertIsHonest == Spec => []InsertTellsTheTruth
<1>1. InsertInv => InsertTellsTheTruth
  BY DEF InsertInv
<1>2. QED
  BY <1>1, InitInsertInv, NextInsertInv, PTL DEF Spec

-----------------------------------------------------------------------------
(* Opening with nobody else on the ladder. *)

Alone == \A p, q \in Procs : p = q

\* What an attempt found missing is still missing when it adds it.
StillMissing ==
    \A p \in Procs : /\ pc[p] = "alter" => Ladder[rung[p]][step[p]] \notin columns
                     /\ pc[p] # "failed"

LEMMA NextStillMissing ==
    ASSUME LadderInv, StillMissing, Alone, [Next]_vars
    PROVE  StillMissing'
<1> USE DEF StillMissing, LadderInv, Shape
<1>1. ASSUME NEW p \in Procs, LookForColumn(p) PROVE StillMissing'
  <2>1. CASE Ladder[rung[p]][step[p]] \in columns
    <3>1. NextColumn(p)
      BY <1>1, <2>1 DEF LookForColumn
    <3>2. pc'[p] \in {"look", "stamp"}
      BY <3>1 DEF NextColumn, Goto
    <3>3. QED
      BY <3>2 DEF Alone
  <2>2. CASE Ladder[rung[p]][step[p]] \notin columns
    <3>1. UNCHANGED <<columns, rung, step>> /\ pc' = [pc EXCEPT ![p] = "alter"]
      BY <1>1, <2>2 DEF LookForColumn, Goto, database
    <3>2. QED
      BY <2>2, <3>1 DEF Alone
  <2>3. QED
    BY <2>1, <2>2
<1>2. ASSUME NEW p \in Procs, ~LookForColumn(p), ~(Lock \/ UNCHANGED vars),
             \/ Open(p) \/ Continue(p) \/ Close(p) \/ Crash(p) \/ \E u \in Uuids : Insert(p, u)
      PROVE  StillMissing'
  <2>1. ~AddColumnFails(p)
    BY DEF AddColumnFails
  <2>2. \E point \in Points \ {"alter", "failed"} : pc' = [pc EXCEPT ![p] = point]
    BY <1>2, <2>1 DEF Open, Continue, Close, Crash, Insert, CreateSchema, ReadVersion, AddColumn, SetVersion,
       InsertStatement, InsertStatementFails, Retry, OpenGivesUp, InsertGivesUp, Climb, NextColumn, Goto,
       Points, Opening
  <2>3. QED
    BY <2>2 DEF Alone
<1>3. CASE Lock \/ UNCHANGED vars
  BY <1>3 DEF Lock, vars, database, mine
<1>4. QED
  BY <1>1, <1>2, <1>3 DEF Next, Continue

\* A process that opens the database while no other does, at any version, after
\* any crash and under any contention, never fails on a column that is there
\* already: the failure migration_race shows takes two of them.
THEOREM MigratingAloneSucceeds ==
    ASSUME Alone
    PROVE  Spec => []RacingMigrationsSucceed
<1>1. Init => LadderInv /\ StillMissing
  BY InitLadderInv DEF Init, StillMissing
<1>2. (LadderInv /\ StillMissing) /\ [Next]_vars => (LadderInv /\ StillMissing)'
  BY NextLadderInv, NextStillMissing
<1>3. StillMissing => RacingMigrationsSucceed
  BY DEF StillMissing, RacingMigrationsSucceed
<1>4. QED
  BY <1>1, <1>2, <1>3, PTL DEF Spec

-----------------------------------------------------------------------------
(* Operations end.  What liveness rests on and fairness is no part of: an        *)
(* operation goes on, attempt by attempt and within one up the ladder, and       *)
(* nobody else, be it a process or the holder of the lock, sets it back.         *)

Running == Opening \cup {"insert"}

\* The order of an attempt's statements, on the ladder by migration and column.
Climbs(p) ==
    \/ pc[p] = "schema" /\ pc'[p] = "version"
    \/ pc[p] = "version" /\ pc'[p] \in {"look", "stamp"}
    \/ /\ pc[p] \in {"look", "alter", "stamp"} /\ pc'[p] \in {"look", "alter", "stamp"}
       /\ \/ rung'[p] > rung[p]
          \/ rung'[p] = rung[p] /\ step'[p] > step[p]
          \/ /\ rung'[p] = rung[p] /\ step'[p] = step[p]
             /\ <<pc[p], pc'[p]>> \in {<<"look", "alter">>, <<"look", "stamp">>, <<"alter", "stamp">>}

GoesOn ==
    \A p \in Procs : pc[p] \in Running =>
        /\ Continue(p) => \/ pc'[p] \notin Running
                          \/ attempt'[p] > attempt[p] /\ attempt'[p] <= MaxAttempts
                          \/ attempt'[p] = attempt[p] /\ Climbs(p)
        /\ ~Continue(p) => \/ pc'[p] \notin Running
                           \/ UNCHANGED <<pc[p], attempt[p], rung[p], step[p]>>

\* The ladder has an end.
OnLadder ==
    \A p \in Procs : /\ attempt[p] <= MaxAttempts /\ rung[p] <= Latest
                     /\ pc[p] \in {"look", "alter"} => step[p] <= Len(Ladder[rung[p]])

LEMMA ContinueGoesOn ==
    ASSUME InsertInv, NEW p \in Procs, Continue(p)
    PROVE  \/ pc'[p] \notin Running
           \/ attempt'[p] > attempt[p] /\ attempt'[p] <= MaxAttempts
           \/ attempt'[p] = attempt[p] /\ Climbs(p)
<1> USE LadderLength, AttemptsAssumption DEF InsertInv, LadderInv, Shape, OwnTypes, Running, Opening, Climbs, Goto
<1>1. CASE CreateSchema(p)
  BY <1>1 DEF CreateSchema
<1>2. CASE ReadVersion(p)
  <2>1. pc[p] = "version" /\ attempt' = attempt /\ pc'[p] \in {"open", "stamp", "look"}
    BY <1>2 DEF ReadVersion, Climb
  <2>2. QED
    BY <2>1
<1>3. CASE LookForColumn(p) \/ AddColumn(p)
  <2>1. attempt' = attempt /\ rung' = rung /\ pc[p] \in {"look", "alter"}
    BY <1>3 DEF LookForColumn, AddColumn
  <2>2. CASE NextColumn(p)
    <3>1. \/ step'[p] > step[p] /\ pc'[p] = "look"
          \/ step'[p] = step[p] /\ pc'[p] = "stamp"
      BY <2>2 DEF NextColumn
    <3>2. QED
      BY <2>1, <3>1
  <2>3. CASE ~NextColumn(p)
    <3>1. pc[p] = "look" /\ pc'[p] = "alter" /\ step' = step
      BY <1>3, <2>3 DEF LookForColumn, AddColumn
    <3>2. QED
      BY <2>1, <3>1
  <2>4. QED
    BY <2>2, <2>3
<1>4. CASE SetVersion(p)
  <2>1. pc[p] = "stamp" /\ attempt' = attempt /\ rung[p] \in 0 .. Latest
    BY <1>4 DEF SetVersion
  <2>2. CASE rung[p] + 1 > Latest
    BY <1>4, <2>2 DEF SetVersion, Climb
  <2>3. CASE ~(rung[p] + 1 > Latest)
    <3>1. rung'[p] = rung[p] + 1 /\ pc'[p] \in {"stamp", "look"}
      BY <1>4, <2>3 DEF SetVersion, Climb
    <3>2. QED
      BY <2>1, <3>1
  <2>4. QED
    BY <2>2, <2>3
<1>5. CASE AddColumnFails(p) \/ InsertStatement(p) \/ InsertStatementFails(p) \/ OpenGivesUp(p) \/ InsertGivesUp(p)
  BY <1>5 DEF AddColumnFails, InsertStatement, InsertStatementFails, OpenGivesUp, InsertGivesUp
<1>6. CASE Retry(p)
  BY <1>6 DEF Retry
<1>7. QED
  BY <1>1, <1>2, <1>3, <1>4, <1>5, <1>6 DEF Continue

\* The others, and the holder of the lock, leave an operation where it is.
LEMMA OthersLeave ==
    ASSUME InsertInv, NEW p \in Procs, pc[p] \in Running, ~Continue(p), [Next]_vars
    PROVE  pc'[p] \notin Running \/ UNCHANGED <<pc[p], attempt[p], rung[p], step[p]>>
<1> USE DEF InsertInv, LadderInv, Shape, OwnTypes, Running, Opening, Goto
<1>1. ASSUME NEW q \in Procs, q # p,
             Open(q) \/ Continue(q) \/ Close(q) \/ Crash(q) \/ \E u \in Uuids : Insert(q, u)
      PROVE  UNCHANGED <<pc[p], attempt[p], rung[p], step[p]>>
  BY <1>1 DEF Open, Continue, Close, Crash, Insert, CreateSchema, ReadVersion, LookForColumn, AddColumn,
     AddColumnFails, SetVersion, InsertStatement, InsertStatementFails, Retry, OpenGivesUp, InsertGivesUp,
     Climb, NextColumn
<1>2. CASE Crash(p)
  BY <1>2 DEF Crash
<1>3. ~(Open(p) \/ Close(p) \/ \E u \in Uuids : Insert(p, u))
  BY DEF Open, Close, Insert
<1>4. CASE Lock \/ UNCHANGED vars
  BY <1>4 DEF Lock, vars, mine
<1>5. QED
  BY <1>1, <1>2, <1>3, <1>4 DEF Next

\* An operation that goes on takes the next of its bounded number of attempts or
\* climbs within one on a ladder that has an end, and no one but the process itself
\* moves it: it cannot go on for ever.
THEOREM OperationsGoOn == Spec => []OnLadder /\ [][GoesOn]_vars
<1>1. InsertInv /\ [Next]_vars => [GoesOn]_vars
  BY ContinueGoesOn, OthersLeave DEF GoesOn
<1>2. InsertInv => OnLadder
  <2> SUFFICES ASSUME InsertInv, NEW p \in Procs
               PROVE  /\ attempt[p] <= MaxAttempts /\ rung[p] <= Latest
                      /\ pc[p] \in {"look", "alter"} => step[p] <= Len(Ladder[rung[p]])
    BY DEF OnLadder
  <2>1. attempt[p] <= MaxAttempts
    BY AttemptsAssumption DEF InsertInv, OwnTypes
  <2>2. rung[p] <= Latest
    BY LadderLength DEF InsertInv, LadderInv, Shape
  <2>3. pc[p] \in {"look", "alter"} => step[p] <= Len(Ladder[rung[p]])
    BY LadderLength DEF InsertInv, LadderInv, Placed
  <2>4. QED
    BY <2>1, <2>2, <2>3
<1>3. QED
  BY <1>1, <1>2, InitInsertInv, NextInsertInv, PTL DEF Spec

=============================================================================
