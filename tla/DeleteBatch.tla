------------------------------ MODULE DeleteBatch ------------------------------
(***************************************************************************)
(* One `delete` invocation over several paths: the loop of handleDelete,   *)
(* archiveOne with the steps at which a path can drop out, --on-error,     *)
(* --ignore-missing, --interactive and --dry-run, and what the exit code   *)
(* and the machine payload report at the end.  Others create and remove    *)
(* paths meanwhile.  What a single archival does to its entry and its      *)
(* source is the business of FileArchive and TreeArchive.                  *)
(***************************************************************************)
EXTENDS Naturals, Sequences, FiniteSets

CONSTANTS
    Paths,
    Inside,     \* directory -> the paths below it; every other path is a file
    Batches,    \* the lists of paths callers pass
    Faults,     \* which calls may fail: a subset of FaultKinds
    MaxEdits    \* bound on what others do to the paths

FaultKinds == {"start", "abs", "plan", "execute", "insert", "remove"}

ASSUME BatchAssumption ==
    /\ \E Dirs \in SUBSET Paths : Inside \in [Dirs -> SUBSET Paths]
    /\ Batches \subseteq Seq(Paths) \ {<<>>}
    /\ Faults \subseteq FaultKinds /\ MaxEdits \in Nat

ExitSuccess    == 0
ExitGeneral    == 1
ExitUsage      == 2
ExitDatabase   == 5
ExitArchive    == 6
ExitContention == 8

Failures == {ExitGeneral, ExitUsage, ExitDatabase, ExitArchive, ExitContention}

VARIABLES
    there,         \* the paths that exist
    request,       \* the invocation: paths and switches
    pc, at,        \* the call it makes next, and for which of its paths
    rows,          \* the paths of the records with its group id, in order
    written,       \* the payload's `archived`, by path
    failures,      \* the payload's `failed`, each with the code it stands for
    firstFailure,
    exit,          \* the exit code and whether a payload was supplied
    skipped,       \* paths declined, ignored or only previewed (history)
    took,          \* paths this invocation removed (history)
    edits

vars == <<there, request, pc, at, rows, written, failures, firstFailure, exit,
          skipped, took, edits>>

Requests == [files : Batches, onError : {"abort", "continue"}, recursive : BOOLEAN,
             ignoreMissing : BOOLEAN, interactive : BOOLEAN, dryRun : BOOLEAN]

Running == [code |-> ExitSuccess, payload |-> "running"]

TypeOK ==
    /\ there \subseteq Paths
    /\ request \in Requests
    /\ pc \in {"start", "next", "ask", "plan", "execute", "insert", "remove", "done"}
    /\ at \in 0 .. Len(request.files)
    /\ rows \in Seq(Paths) /\ written \in Seq(Paths)
    /\ failures \in Seq(Paths \X Failures)
    /\ firstFailure \in Failures \cup {ExitSuccess}
    /\ exit \in [code : Failures \cup {ExitSuccess}, payload : {"running", "null", "supplied"}]
    /\ skipped \in Seq(Paths)
    /\ took \subseteq Paths
    /\ edits \in Nat

-----------------------------------------------------------------------------
(* Helpers. *)

File == request.files[at]
Below(p) == IF p \in DOMAIN Inside THEN {p} \cup Inside[p] ELSE {p}
Fault(kind) == kind \in Faults

Init ==
    /\ there \in SUBSET Paths
    /\ \A d \in DOMAIN Inside : Inside[d] \cap there # {} => d \in there
    /\ request \in Requests
    /\ pc = "start" /\ at = 0
    /\ rows = <<>> /\ written = <<>> /\ failures = <<>>
    /\ firstFailure = ExitSuccess /\ exit = Running
    /\ skipped = <<>> /\ took = {} /\ edits = 0

answer == <<written, failures, firstFailure, exit, skipped>>
world  == <<there, rows, took, edits>>

Goto(point) == pc' = point /\ UNCHANGED <<request, at, answer>>

\* archiveOne returns no failure: the loop goes on with the next path.
Skip ==
    /\ skipped' = Append(skipped, File)
    /\ pc' = "next"
    /\ UNCHANGED <<request, at, written, failures, firstFailure, exit>>

\* Mutant: the last failure's code is kept.
FailLatest(code) ==
    /\ failures' = Append(failures, <<File, code>>)
    /\ firstFailure' = code
    /\ IF request.onError = "abort"
       THEN pc' = "done" /\ exit' = [code |-> code, payload |-> "supplied"]
       ELSE pc' = "next" /\ UNCHANGED exit
    /\ UNCHANGED <<request, at, written, skipped>>

\* Mutant: abort goes on with the remaining paths.
FailOn(code) ==
    /\ failures' = Append(failures, <<File, code>>)
    /\ firstFailure' = IF firstFailure = ExitSuccess THEN code ELSE firstFailure
    /\ pc' = "next"
    /\ UNCHANGED <<request, at, written, exit, skipped>>

\* fail(), and what the loop makes of the code: the first failure decides the
\* exit code, and under abort it is the last.
Fail(code) ==
    /\ failures' = Append(failures, <<File, code>>)
    /\ firstFailure' = IF firstFailure = ExitSuccess THEN code ELSE firstFailure
    /\ IF request.onError = "abort"
       THEN pc' = "done" /\ exit' = [code |-> code, payload |-> "supplied"]
       ELSE pc' = "next" /\ UNCHANGED exit
    /\ UNCHANGED <<request, at, written, skipped>>

-----------------------------------------------------------------------------
(* handleDelete. *)

Start ==
    /\ pc = "start"
    /\ Goto("next")
    /\ UNCHANGED world

\* --meta, the directories, the database or the metadata: no payload.
StartFails ==
    /\ pc = "start"
    /\ Fault("start")
    /\ \E code \in Failures \ {ExitArchive} : exit' = [code |-> code, payload |-> "null"]
    /\ pc' = "done"
    /\ UNCHANGED <<request, at, written, failures, firstFailure, skipped, world>>

\* Mutant: one path too many.
NextFileOverrun ==
    /\ pc = "next"
    /\ at <= Len(request.files)
    /\ at' = at + 1
    /\ pc' = "ask"
    /\ UNCHANGED <<request, answer, world>>

NextFile ==
    /\ pc = "next"
    /\ at < Len(request.files)
    /\ at' = at + 1
    /\ pc' = "ask"
    /\ UNCHANGED <<request, answer, world>>

Finish ==
    /\ pc = "next"
    /\ at = Len(request.files)
    /\ exit' = [code |-> firstFailure, payload |-> "supplied"]
    /\ pc' = "done"
    /\ UNCHANGED <<request, at, written, failures, firstFailure, skipped, world>>

-----------------------------------------------------------------------------
(* archiveOne. *)

\* filepath.Abs fails, on which --ignore-missing looks no closer.
AbsFails ==
    /\ pc = "ask"
    /\ Fault("abs")
    /\ IF request.ignoreMissing THEN Skip ELSE Fail(ExitGeneral)
    /\ UNCHANGED world

Ask ==
    /\ pc = "ask"
    /\ Goto("plan")
    /\ UNCHANGED world

\* Anything but a yes, the end of the input included.
Decline ==
    /\ pc = "ask"
    /\ request.interactive
    /\ Skip
    /\ UNCHANGED world

PlanMissing ==
    /\ pc = "plan"
    /\ File \notin there
    /\ IF request.ignoreMissing THEN Skip ELSE Fail(ExitArchive)
    /\ UNCHANGED world

NeedsRecursive == File \in DOMAIN Inside /\ ~request.recursive

PlanRefuses ==
    /\ pc = "plan"
    /\ File \in there /\ NeedsRecursive
    /\ Fail(ExitUsage)
    /\ UNCHANGED world

\* NewPlan's other errors, and recordArchival's in a preview.
PlanFails ==
    /\ pc = "plan"
    /\ Fault("plan")
    /\ Fail(ExitArchive)
    /\ UNCHANGED world

\* Mutant: the preview is not cut short.
PlanForReal ==
    /\ pc = "plan"
    /\ File \in there /\ ~NeedsRecursive
    /\ Goto("execute")
    /\ UNCHANGED world

\* A preview ends with the plan.
Plan ==
    /\ pc = "plan"
    /\ File \in there /\ ~NeedsRecursive
    /\ IF request.dryRun THEN Skip ELSE Goto("execute")
    /\ UNCHANGED world

\* Mutant: the source goes before the record is there.
ExecuteThenRemove ==
    /\ pc = "execute"
    /\ File \in there
    /\ Goto("remove")
    /\ UNCHANGED world

\* archive.Execute, which leaves the source alone.
Execute ==
    /\ pc = "execute"
    /\ File \in there
    /\ Goto("insert")
    /\ UNCHANGED world

ExecuteFails ==
    /\ pc = "execute"
    /\ File \notin there \/ Fault("execute")
    /\ Fail(ExitArchive)
    /\ UNCHANGED world

Insert ==
    /\ pc = "insert"
    /\ rows' = Append(rows, File)
    /\ Goto("remove")
    /\ UNCHANGED <<there, took, edits>>

\* Mutant: the error is printed and not recorded.
InsertFailsUnrecorded ==
    /\ pc = "insert"
    /\ Fault("insert")
    /\ firstFailure' = IF firstFailure = ExitSuccess THEN ExitDatabase ELSE firstFailure
    /\ pc' = "next"
    /\ UNCHANGED <<request, at, written, failures, exit, skipped, world>>

\* The entry is discarded, and nothing has happened to the path.
InsertFails ==
    /\ pc = "insert"
    /\ Fault("insert")
    /\ \E code \in {ExitDatabase, ExitContention} : Fail(code)
    /\ UNCHANGED world

\* RemoveSource, and only then the identifier line and the payload's entry.
Remove ==
    /\ pc = "remove"
    /\ File \in there
    /\ there' = there \ Below(File)
    /\ took' = took \cup (Below(File) \cap there)
    /\ written' = Append(written, File)
    /\ pc' = "next"
    /\ UNCHANGED <<request, at, rows, failures, firstFailure, exit, skipped, edits>>

\* verifySource refuses, or the removal fails, possibly with part of a tree gone.
\* describeUnremovedSource says which: the record stays.
RemoveFails ==
    /\ pc = "remove"
    /\ \/ File \notin there /\ UNCHANGED <<there, took>>
       \/ /\ Fault("remove")
          /\ \E gone \in SUBSET (there \cap (Below(File) \ {File})) :
                there' = there \ gone /\ took' = took \cup gone
    /\ Fail(ExitArchive)
    /\ UNCHANGED <<rows, edits>>

-----------------------------------------------------------------------------

\* Others remove a path, or create one where its directory exists.
Others ==
    /\ pc \notin {"start", "done"} /\ edits < MaxEdits
    /\ \E p \in Paths :
          there' = IF p \in there THEN there \ Below(p)
                   ELSE there \cup {p} \cup {d \in DOMAIN Inside : p \in Inside[d]}
    /\ edits' = edits + 1
    /\ UNCHANGED <<request, pc, at, rows, answer, took>>

archiveOne ==
    \/ AbsFails \/ Ask \/ Decline
    \/ PlanMissing \/ PlanRefuses \/ PlanFails \/ Plan
    \/ Execute \/ ExecuteFails \/ Insert \/ InsertFails \/ Remove \/ RemoveFails

handleDelete == Start \/ StartFails \/ NextFile \/ Finish

Next == handleDelete \/ archiveOne \/ Others

Spec == Init /\ [][Next]_vars

-----------------------------------------------------------------------------
(* What the invocation promises. *)

Count(p, s) == Cardinality({i \in DOMAIN s : s[i] = p})
Failed == [i \in DOMAIN failures |-> failures[i][1]]
Answered == pc = "done" /\ exit.payload = "supplied"

\* The exit code is the first failure's, and success if and only if the payload
\* lists no failure, however many paths failed with different codes after it.
ExitIsFirstFailure ==
    Answered => exit.code = IF failures = <<>> THEN ExitSuccess ELSE failures[1][2]

\* Every path that was passed, as often as it was passed, is archived, failed or
\* skipped, exactly once; only an abort leaves paths unanswered.
EveryPathIsAnswered ==
    Answered =>
        /\ \A p \in Paths : Count(p, written) + Count(p, Failed) + Count(p, skipped)
                              = Count(p, SubSeq(request.files, 1, at))
        /\ at < Len(request.files) => request.onError = "abort" /\ failures # <<>>

\* Nothing this invocation removed is without a record of its group, nor without
\* a line in the payload: as archived, or as failed where a removal stopped
\* partway through a tree.
TakenIsRecorded ==
    \A p \in took : /\ \E i \in DOMAIN rows : p \in Below(rows[i])
                    /\ \/ \E i \in DOMAIN written : p \in Below(written[i])
                       \/ \E i \in DOMAIN failures : p \in Below(Failed[i])

\* Under abort nothing is recorded or removed once a path has failed.
AbortStops ==
    [][request.onError = "abort" /\ failures # <<>> => UNCHANGED <<rows, took, written>>]_vars

\* A preview records, removes and claims nothing.
PreviewTouchesNothing == request.dryRun => rows = <<>> /\ took = {} /\ written = <<>>

=============================================================================
