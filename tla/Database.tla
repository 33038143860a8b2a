-------------------------------- MODULE Database --------------------------------
(***************************************************************************)
(* internal/db: processes opening one SQLite database, bringing its schema *)
(* up the migration ladder and inserting records, under the bounded retry  *)
(* for lock contention.                                                    *)
(*                                                                         *)
(* Every statement is a transaction of its own.  One that meets a lock     *)
(* another connection holds returns SQLITE_BUSY and has had no effect;     *)
(* a read may also go through, as WAL lets it.                             *)
(***************************************************************************)
EXTENDS Integers, Sequences

CONSTANTS
    Procs,
    Uuids,
    Ladder,       \* migration -> the columns it adds, in order
    MaxAttempts,  \* busyMaxAttempts
    None

Latest     == Len(Ladder)
Migrations == 1 .. Latest
AddedBy(v) == {Ladder[v][k] : k \in 1 .. Len(Ladder[v])}
UpTo(v)    == UNION {AddedBy(w) : w \in 1 .. v}
Columns    == UpTo(Latest)

ASSUME LadderAssumption == Ladder \in Seq(Seq(STRING))
ASSUME AttemptsAssumption == MaxAttempts \in Nat \ {0}
ASSUME NoneAssumption == None \notin Uuids

VARIABLES
    table,     \* "missing" or "present"
    columns,   \* those of its columns that a migration adds
    version,   \* PRAGMA user_version
    rows,      \* uuids that have a row
    locked,    \* a connection outside Procs holds the lock
    pc,        \* process -> the statement it runs next
    attempt,   \* process -> the attempt that statement belongs to
    rung,      \* process -> migration it is at
    step,      \* process -> column of that migration it is at
    asked,     \* process -> uuid of the record it inserts
    reported   \* uuid -> what Insert returned to its caller (history)

database == <<table, columns, version, rows>>
mine     == <<pc, attempt, rung, step, asked>>
vars     == <<table, columns, version, rows, locked, pc, attempt, rung, step, asked, reported>>

Opening == {"schema", "version", "look", "alter", "stamp"}
Points  == {"closed", "open", "insert", "failed"} \cup Opening

TypeOK ==
    /\ table \in {"missing", "present"}
    /\ columns \subseteq Columns
    /\ version \in 0 .. Latest
    /\ rows \subseteq Uuids
    /\ locked \in BOOLEAN
    /\ pc \in [Procs -> Points]
    /\ attempt \in [Procs -> 1 .. MaxAttempts]
    /\ rung \in [Procs -> 0 .. Latest]
    /\ step \in [Procs -> Nat]
    /\ asked \in [Procs -> Uuids \cup {None}]
    /\ reported \in [Uuids -> {"nothing", "id", "error"}]

\* No database yet, or one some release has left with its migrations applied.
Init ==
    /\ \/ table = "missing" /\ version = 0
       \/ table = "present" /\ version \in 0 .. Latest
    /\ columns = UpTo(version)
    /\ rows = {}
    /\ locked = FALSE
    /\ pc = [p \in Procs |-> "closed"]
    /\ attempt = [p \in Procs |-> 1]
    /\ rung = [p \in Procs |-> 0]
    /\ step = [p \in Procs |-> 0]
    /\ asked = [p \in Procs |-> None]
    /\ reported = [u \in Uuids |-> "nothing"]

-----------------------------------------------------------------------------

Goto(p, point) == pc' = [pc EXCEPT ![p] = point]

\* migrate goes through the migrations above the version it read, once, as its
\* attempt began; past the last one the database is open.
Climb(p, v) ==
    /\ rung' = [rung EXCEPT ![p] = IF v > Latest THEN 0 ELSE v]
    /\ step' = [step EXCEPT ![p] = IF v > Latest THEN 0 ELSE 1]
    /\ Goto(p, IF v > Latest THEN "open" ELSE IF Ladder[v] = <<>> THEN "stamp" ELSE "look")

\* On to the next column of the migration, or to its PRAGMA user_version = v.
NextColumn(p) ==
    IF step[p] < Len(Ladder[rung[p]])
    THEN step' = [step EXCEPT ![p] = @ + 1] /\ Goto(p, "look")
    ELSE Goto(p, "stamp") /\ UNCHANGED step

Open(p) ==
    /\ pc[p] \in {"closed", "failed"}
    /\ Goto(p, "schema")
    /\ attempt' = [attempt EXCEPT ![p] = 1]
    /\ UNCHANGED <<database, locked, rung, step, asked, reported>>

\* SchemaSQL: CREATE TABLE IF NOT EXISTS, with every column of today.
CreateSchema(p) ==
    /\ pc[p] = "schema"
    /\ table = "missing" => ~locked
    /\ table' = "present"
    /\ columns' = IF table = "present" THEN columns ELSE Columns
    /\ Goto(p, "version")
    /\ UNCHANGED <<version, rows, locked, attempt, rung, step, asked, reported>>

\* Mutant: the first migration above the version is taken for applied.
ReadVersionOffByOne(p) ==
    /\ pc[p] = "version"
    /\ Climb(p, version + 2)
    /\ UNCHANGED <<database, locked, attempt, asked, reported>>

ReadVersion(p) ==
    /\ pc[p] = "version"
    /\ Climb(p, version + 1)
    /\ UNCHANGED <<database, locked, attempt, asked, reported>>

\* Mutant: a failed look at the columns is read as an answer.
LookTrusted(p) ==
    /\ pc[p] = "look"
    /\ IF locked \/ Ladder[rung[p]][step[p]] \in columns
       THEN NextColumn(p)
       ELSE Goto(p, "alter") /\ UNCHANGED step
    /\ UNCHANGED <<database, locked, attempt, rung, asked, reported>>

\* hasColumn.
LookForColumn(p) ==
    /\ pc[p] = "look"
    /\ IF Ladder[rung[p]][step[p]] \in columns
       THEN NextColumn(p)
       ELSE Goto(p, "alter") /\ UNCHANGED step
    /\ UNCHANGED <<database, locked, attempt, rung, asked, reported>>

AddColumn(p) ==
    /\ pc[p] = "alter"
    /\ ~locked
    /\ Ladder[rung[p]][step[p]] \notin columns
    /\ columns' = columns \cup {Ladder[rung[p]][step[p]]}
    /\ NextColumn(p)
    /\ UNCHANGED <<table, version, rows, locked, attempt, rung, asked, reported>>

\* "duplicate column name" is no contention: open returns it.
AddColumnFails(p) ==
    /\ pc[p] = "alter"
    /\ Ladder[rung[p]][step[p]] \in columns
    /\ Goto(p, "failed")
    /\ UNCHANGED <<database, locked, attempt, rung, step, asked, reported>>

SetVersion(p) ==
    /\ pc[p] = "stamp"
    /\ ~locked
    /\ version' = rung[p]
    /\ Climb(p, rung[p] + 1)
    /\ UNCHANGED <<table, columns, rows, locked, attempt, asked, reported>>

\* Insert, of a record whose uuid this process minted.
Insert(p, u) ==
    /\ pc[p] = "open"
    /\ u \notin rows /\ reported[u] = "nothing" /\ \A q \in Procs : asked[q] # u
    /\ asked' = [asked EXCEPT ![p] = u]
    /\ attempt' = [attempt EXCEPT ![p] = 1]
    /\ Goto(p, "insert")
    /\ UNCHANGED <<database, locked, rung, step, reported>>

\* Mutant: a statement that took effect is taken for a contended one.
InsertStatementAgain(p) ==
    /\ pc[p] = "insert"
    /\ ~locked
    /\ asked[p] \notin rows /\ columns = Columns
    /\ rows' = rows \cup {asked[p]}
    /\ UNCHANGED <<table, columns, version, locked, pc, attempt, rung, step, asked, reported>>

InsertStatement(p) ==
    /\ pc[p] = "insert"
    /\ ~locked
    /\ asked[p] \notin rows /\ columns = Columns
    /\ rows' = rows \cup {asked[p]}
    /\ reported' = [reported EXCEPT ![asked[p]] = "id"]
    /\ asked' = [asked EXCEPT ![p] = None]
    /\ Goto(p, "open")
    /\ UNCHANGED <<table, columns, version, locked, attempt, rung, step>>

\* Any other database error, a statement without effect all the same: it is not
\* retried.  A row with the same uuid or a column the table lacks are two of them.
InsertStatementFails(p) ==
    /\ pc[p] = "insert"
    /\ reported' = [reported EXCEPT ![asked[p]] = "error"]
    /\ asked' = [asked EXCEPT ![p] = None]
    /\ Goto(p, "open")
    /\ UNCHANGED <<database, locked, attempt, rung, step>>

\* Mutant: one attempt too many.
RetryOnceMore(p) ==
    /\ locked
    /\ pc[p] \in Opening \cup {"insert"}
    /\ attempt[p] <= MaxAttempts
    /\ attempt' = [attempt EXCEPT ![p] = @ + 1]
    /\ Goto(p, IF pc[p] = "insert" THEN "insert" ELSE "schema")
    /\ UNCHANGED <<database, locked, rung, step, asked, reported>>

\* Mutant: the attempts are not counted.
RetryUncounted(p) ==
    /\ locked
    /\ pc[p] \in Opening \cup {"insert"}
    /\ Goto(p, IF pc[p] = "insert" THEN "insert" ELSE "schema")
    /\ UNCHANGED <<database, locked, attempt, rung, step, asked, reported>>

\* retryBusy after a contended attempt: the whole operation again.
Retry(p) ==
    /\ locked
    /\ pc[p] \in Opening \cup {"insert"}
    /\ attempt[p] < MaxAttempts
    /\ attempt' = [attempt EXCEPT ![p] = @ + 1]
    /\ Goto(p, IF pc[p] = "insert" THEN "insert" ELSE "schema")
    /\ UNCHANGED <<database, locked, rung, step, asked, reported>>

\* ContentionError: from open, which closes the connection, or from Insert.
OpenGivesUp(p) ==
    /\ locked
    /\ pc[p] \in Opening
    /\ attempt[p] = MaxAttempts
    /\ Goto(p, "closed")
    /\ UNCHANGED <<database, locked, attempt, rung, step, asked, reported>>

InsertGivesUp(p) ==
    /\ locked
    /\ pc[p] = "insert"
    /\ attempt[p] = MaxAttempts
    /\ reported' = [reported EXCEPT ![asked[p]] = "error"]
    /\ asked' = [asked EXCEPT ![p] = None]
    /\ Goto(p, "open")
    /\ UNCHANGED <<database, locked, attempt, rung, step>>

Close(p) ==
    /\ pc[p] = "open"
    /\ Goto(p, "closed")
    /\ UNCHANGED <<database, locked, attempt, rung, step, asked, reported>>

\* The process is killed between two statements.
Crash(p) ==
    /\ pc[p] \in Opening \cup {"insert"}
    /\ asked' = [asked EXCEPT ![p] = None]
    /\ Goto(p, "closed")
    /\ UNCHANGED <<database, locked, attempt, rung, step, reported>>

\* Another connection takes or releases the lock.
Lock == locked' = ~locked /\ UNCHANGED <<database, mine, reported>>

-----------------------------------------------------------------------------

\* An operation under way goes on.
Continue(p) ==
    \/ CreateSchema(p) \/ ReadVersion(p) \/ LookForColumn(p)
    \/ AddColumn(p) \/ AddColumnFails(p) \/ SetVersion(p)
    \/ InsertStatement(p) \/ InsertStatementFails(p)
    \/ Retry(p) \/ OpenGivesUp(p) \/ InsertGivesUp(p)

Next ==
    \/ \E p \in Procs :
        \/ Open(p) \/ Continue(p) \/ Close(p) \/ Crash(p)
        \/ \E u \in Uuids : Insert(p, u)
    \/ Lock

Spec == Init /\ [][Next]_vars

\* A process that runs keeps running; nothing is assumed of the lock.
FairSpec == Spec /\ \A p \in Procs : WF_vars(Continue(p))

-----------------------------------------------------------------------------

\* The version never promises a column the table lacks, though processes racing
\* up the ladder may set it back: a crash or a lost race costs a repeated climb,
\* never a skipped migration.
VersionKeepsItsWord == UpTo(version) \subseteq columns

\* Open returns a database the record's statements fit, whoever else migrates it.
OpenedIsMigrated ==
    \A p \in Procs : pc[p] \in {"open", "insert"} => table = "present" /\ columns = Columns

\* Insert returns an id exactly when there is a row, and an error only when there
\* is none: what delete relies on when it discards the archive entry.
InsertTellsTheTruth ==
    \A u \in Uuids : /\ reported[u] = "id" => u \in rows
                     /\ reported[u] = "error" => u \notin rows

\* An operation ends, however the lock is held.
OperationsEnd ==
    \A p \in Procs : pc[p] \in Opening \cup {"insert"} ~> pc[p] \notin Opening \cup {"insert"}

\* "Migrations are idempotent [...] This prevents errors when multiple processes
\* race through the migration path on first run" (docs/architecture.md).
RacingMigrationsSucceed == \A p \in Procs : pc[p] # "failed"

=============================================================================
