---------------------------- MODULE DeleteBatchProofs ----------------------------
(* Proofs about DeleteBatch, for any paths, any lists of them and any faults. *)
EXTENDS DeleteBatch, FiniteSetTheorems, SequenceTheorems, TLAPS

-----------------------------------------------------------------------------
(* Types, and the path a program point is about. *)

InLoop == {"ask", "plan", "execute", "insert", "remove"}

LoopFits == pc \in InLoop => at \in 1 .. Len(request.files)

TypeInv == TypeOK /\ LoopFits

\* The steps of archiveOne that only go on to its next call.
GoOn ==
    /\ \/ pc = "start" /\ pc' = "next"
       \/ pc = "ask" /\ pc' = "plan"
       \/ pc = "plan" /\ pc' = "execute" /\ ~request.dryRun
       \/ pc = "execute" /\ pc' = "insert"
    /\ UNCHANGED <<request, at, answer, world>>

PassOver == pc \in {"ask", "plan"} /\ Skip /\ UNCHANGED world

GiveUp == \E code \in Failures :
    pc \in {"ask", "plan", "execute", "insert"} /\ Fail(code) /\ UNCHANGED world

\* Every step is one of the cases the proofs go through.
LEMMA StepCases ==
    ASSUME Next
    PROVE  \/ GoOn \/ PassOver \/ GiveUp \/ RemoveFails
           \/ StartFails \/ NextFile \/ Finish \/ Insert \/ Remove \/ Others
<1> USE DEF Failures, ExitGeneral, ExitUsage, ExitDatabase, ExitArchive, ExitContention
<1>1. Start \/ Ask \/ Execute => GoOn
  BY DEF Start, Ask, Execute, Goto, GoOn
<1>2. Plan => GoOn \/ PassOver
  BY DEF Plan, Goto, GoOn, PassOver
<1>3. Decline \/ AbsFails \/ PlanMissing => PassOver \/ GiveUp
  BY DEF Decline, AbsFails, PlanMissing, PassOver, GiveUp
<1>4. PlanRefuses \/ PlanFails \/ ExecuteFails \/ InsertFails => GiveUp
  BY DEF PlanRefuses, PlanFails, ExecuteFails, InsertFails, GiveUp
<1>5. QED
  BY <1>1, <1>2, <1>3, <1>4 DEF Next, handleDelete, archiveOne

LEMMA RequestType == ASSUME TypeInv PROVE request.files \in Seq(Paths)
BY BatchAssumption DEF TypeInv, TypeOK, Requests

\* In the loop the current path is one of those passed.
LEMMA FileType == ASSUME TypeInv, pc \in InLoop PROVE File \in Paths
BY RequestType, ElementOfSeq DEF TypeInv, LoopFits, File

LEMMA InitTypeInv == Init => TypeInv
<1> SUFFICES ASSUME Init PROVE TypeInv
  OBVIOUS
<1>1. request.files \in Seq(Paths) /\ request \in Requests
  BY BatchAssumption DEF Init, Requests
<1>2. Len(request.files) \in Nat
  BY <1>1
<1>3. at \in 0 .. Len(request.files)
  BY <1>2 DEF Init
<1>4. QED
  BY <1>1, <1>3 DEF Init, TypeInv, TypeOK, LoopFits, InLoop, Failures, Running, ExitSuccess

\* A failure adds a path with its code, and nothing else of another type.
LEMMA FailType ==
    ASSUME TypeInv, pc \in InLoop, NEW code \in Failures, Fail(code)
    PROVE  /\ failures' \in Seq(Paths \X Failures)
           /\ firstFailure' \in Failures \cup {ExitSuccess}
           /\ exit' \in [code : Failures \cup {ExitSuccess}, payload : {"running", "null", "supplied"}]
           /\ pc' \in {"next", "done"}
           /\ UNCHANGED <<request, at, written, skipped>>
<1>1. <<File, code>> \in Paths \X Failures
  BY FileType
<1>2. QED
  BY <1>1 DEF TypeInv, TypeOK, Fail

LEMMA NextTypeInv ==
    ASSUME TypeInv, [Next]_vars
    PROVE  TypeInv'
<1> USE DEF TypeInv, TypeOK, LoopFits, InLoop
<1>1. CASE GoOn
  BY <1>1 DEF GoOn, answer, world
<1>2. CASE PassOver
  BY <1>2, FileType DEF PassOver, Skip, world
<1>3. CASE GiveUp
  BY <1>3, FailType DEF GiveUp, world
<1>4. CASE RemoveFails
  <2>1. there' \subseteq Paths /\ took' \subseteq Paths
    BY <1>4 DEF RemoveFails
  <2>2. QED
    BY <1>4, <2>1, FailType DEF RemoveFails, Failures
<1>5. CASE StartFails
  BY <1>5 DEF StartFails, world
<1>6. CASE NextFile
  BY <1>6, RequestType DEF NextFile, answer, world
<1>7. CASE Finish
  BY <1>7 DEF Finish, world
<1>8. CASE Insert
  BY <1>8, FileType DEF Insert, Goto, answer
<1>9. CASE Remove
  BY <1>9, FileType DEF Remove
<1>10. CASE Others
  <2>1. there' \subseteq Paths /\ edits' \in Nat
    BY <1>10, BatchAssumption DEF Others, Below
  <2>2. QED
    BY <1>10, <2>1 DEF Others, answer
<1>11. CASE UNCHANGED vars
  BY <1>11 DEF vars
<1>12. QED
  BY StepCases, <1>1, <1>2, <1>3, <1>4, <1>5, <1>6, <1>7, <1>8, <1>9, <1>10, <1>11

\* Every reachable state is well typed.
THEOREM TypeCorrect == Spec => []TypeOK
<1>1. Init => TypeInv
  BY InitTypeInv
<1>2. TypeInv /\ [Next]_vars => TypeInv'
  BY NextTypeInv
<1>3. TypeInv => TypeOK
  BY DEF TypeInv
<1>4. QED
  BY <1>1, <1>2, <1>3, PTL DEF Spec

-----------------------------------------------------------------------------
(* The exit code.  It is not inductive by itself: an abort returns the code at  *)
(* hand and not the first one, which is the same because it stopped there.     *)

ExitFits ==
    /\ exit.payload = "running" <=> pc # "done"
    /\ failures = <<>> => firstFailure = ExitSuccess
    /\ failures # <<>> => firstFailure = failures[1][2] /\ firstFailure \in Failures
    /\ exit.payload = "supplied" => exit.code = firstFailure
    /\ request.onError = "abort" /\ failures # <<>> => pc = "done"

LEMMA FailExitFits ==
    ASSUME TypeInv, ExitFits, pc \in InLoop, NEW code \in Failures, Fail(code)
    PROVE  ExitFits'
<1> DEFINE entered == <<File, code>>
<1>1. failures \in Seq(Paths \X Failures) /\ entered \in Paths \X Failures /\ entered[2] = code
  BY FileType DEF TypeInv, TypeOK
<1>2. failures' = Append(failures, entered)
  BY DEF Fail
<1> HIDE DEF entered
<1>3. failures' # <<>> /\ failures'[1] = IF failures = <<>> THEN entered ELSE failures[1]
  BY <1>1, <1>2
<1>4. firstFailure' = failures'[1][2] /\ firstFailure' \in Failures
  <2>1. CASE failures = <<>>
    BY <1>1, <1>3, <2>1 DEF Fail, ExitFits
  <2>2. CASE failures # <<>>
    <3>1. firstFailure # ExitSuccess
      BY <2>2 DEF ExitFits, Failures, ExitSuccess, ExitGeneral, ExitUsage, ExitDatabase, ExitArchive, ExitContention
    <3>2. QED
      BY <1>3, <2>2, <3>1 DEF Fail, ExitFits
  <2>3. QED
    BY <2>1, <2>2
<1>5. CASE request.onError = "abort"
  <2>1. failures = <<>>
    BY <1>5 DEF ExitFits, InLoop
  <2>2. firstFailure' = code
    BY <1>1, <1>3, <1>4, <2>1
  <2>3. QED
    BY <1>3, <1>4, <1>5, <2>2 DEF Fail, ExitFits
<1>6. CASE request.onError # "abort"
  BY <1>3, <1>4, <1>6 DEF Fail, ExitFits, InLoop
<1>7. QED
  BY <1>5, <1>6

LEMMA NextExitFits ==
    ASSUME TypeInv, ExitFits, [Next]_vars
    PROVE  ExitFits'
<1>1. CASE GoOn \/ NextFile \/ Others \/ UNCHANGED vars
  BY <1>1 DEF GoOn, NextFile, Others, answer, vars, ExitFits
<1>2. CASE PassOver \/ Insert \/ Remove
  BY <1>2 DEF PassOver, Skip, Insert, Goto, Remove, answer, ExitFits
<1>3. CASE GiveUp \/ RemoveFails
  BY <1>3, FailExitFits DEF GiveUp, RemoveFails, InLoop, Failures
<1>4. CASE StartFails \/ Finish
  BY <1>4 DEF StartFails, Finish, ExitFits
<1>5. QED
  BY StepCases, <1>1, <1>2, <1>3, <1>4

\* The exit code is the first failure's, under abort and continue alike, and
\* success if and only if nothing failed.
THEOREM ExitCodeIsFirstFailure == Spec => []ExitIsFirstFailure
<1>1. Init => TypeInv /\ ExitFits
  BY InitTypeInv DEF Init, ExitFits, Running
<1>2. TypeInv /\ ExitFits /\ [Next]_vars => TypeInv' /\ ExitFits'
  BY NextTypeInv, NextExitFits
<1>3. ExitFits => ExitIsFirstFailure
  BY DEF ExitFits, ExitIsFirstFailure, Answered
<1>4. QED
  BY <1>1, <1>2, <1>3, PTL DEF Spec

\* An abort leaves everything as it was at the first failure.
THEOREM AbortIsFinal == Spec => AbortStops
<1>1. Init => TypeInv /\ ExitFits
  BY InitTypeInv DEF Init, ExitFits, Running
<1>2. TypeInv /\ ExitFits /\ [Next]_vars => TypeInv' /\ ExitFits'
  BY NextTypeInv, NextExitFits
<1>3. ExitFits /\ [Next]_vars =>
        [request.onError = "abort" /\ failures # <<>> => UNCHANGED <<rows, took, written>>]_vars
  <2> SUFFICES ASSUME ExitFits, Next, request.onError = "abort", failures # <<>>
               PROVE  UNCHANGED <<rows, took, written>>
    OBVIOUS
  <2>1. pc = "done"
    BY DEF ExitFits
  <2>2. QED
    BY <2>1, StepCases DEF GoOn, PassOver, GiveUp, RemoveFails, StartFails, NextFile, Finish, Insert,
       Remove, Others
<1>4. QED
  BY <1>1, <1>2, <1>3, PTL DEF Spec, AbortStops

-----------------------------------------------------------------------------
(* What is removed is recorded, and a preview gets to neither.                 *)

PreviewFits ==
    request.dryRun => pc \notin {"execute", "insert", "remove"} /\ PreviewTouchesNothing

TakenFits ==
    /\ pc = "remove" => \E i \in DOMAIN rows : rows[i] = File
    /\ TakenIsRecorded

LEMMA NextPreviewFits ==
    ASSUME PreviewFits, [Next]_vars
    PROVE  PreviewFits'
<1>1. CASE GoOn \/ NextFile \/ Others \/ UNCHANGED vars
  BY <1>1 DEF GoOn, NextFile, Others, answer, world, vars, PreviewFits, PreviewTouchesNothing
<1>2. CASE PassOver \/ GiveUp
  BY <1>2 DEF PassOver, Skip, GiveUp, Fail, world, PreviewFits, PreviewTouchesNothing
<1>3. CASE StartFails \/ Finish
  BY <1>3 DEF StartFails, Finish, world, PreviewFits, PreviewTouchesNothing
<1>4. CASE Insert \/ Remove \/ RemoveFails
  BY <1>4 DEF Insert, Goto, Remove, RemoveFails, Fail, PreviewFits
<1>5. QED
  BY StepCases, <1>1, <1>2, <1>3, <1>4

\* A preview, whatever it meets, stops short of the first effect.
THEOREM PreviewIsHarmless == Spec => []PreviewTouchesNothing
<1>1. Init => PreviewFits
  BY DEF Init, PreviewFits, PreviewTouchesNothing
<1>2. PreviewFits /\ [Next]_vars => PreviewFits'
  BY NextPreviewFits
<1>3. PreviewFits => PreviewTouchesNothing
  BY DEF PreviewFits, PreviewTouchesNothing
<1>4. QED
  BY <1>1, <1>2, <1>3, PTL DEF Spec

\* A list that grows at its end still holds what it held.
LEMMA Grows ==
    ASSUME NEW S, NEW s \in Seq(S), NEW e \in S
    PROVE  /\ \A i \in DOMAIN s : i \in DOMAIN Append(s, e) /\ Append(s, e)[i] = s[i]
           /\ \E i \in DOMAIN Append(s, e) : Append(s, e)[i] = e
OBVIOUS

LEMMA FailedGrows ==
    ASSUME TypeInv, pc \in InLoop, NEW code \in Failures, Fail(code)
    PROVE  /\ \A i \in DOMAIN failures : i \in DOMAIN failures' /\ Failed'[i] = Failed[i]
           /\ \E i \in DOMAIN failures' : Failed'[i] = File
<1> DEFINE entered == <<File, code>>
<1>1. failures \in Seq(Paths \X Failures) /\ entered \in Paths \X Failures /\ entered[1] = File
  BY FileType DEF TypeInv, TypeOK
<1>2. failures' = Append(failures, entered)
  BY DEF Fail
<1> HIDE DEF entered
<1>3. /\ \A i \in DOMAIN failures : i \in DOMAIN failures' /\ failures'[i] = failures[i]
      /\ \E i \in DOMAIN failures' : failures'[i] = entered
  BY <1>1, <1>2, Grows
<1>4. QED
  BY <1>1, <1>3 DEF Failed

\* Lists only grow, so what was recorded stays recorded.
LEMMA RecordedStays ==
    ASSUME TakenIsRecorded,
           \A i \in DOMAIN rows : i \in DOMAIN rows' /\ rows'[i] = rows[i],
           \A i \in DOMAIN written : i \in DOMAIN written' /\ written'[i] = written[i],
           \A i \in DOMAIN failures : i \in DOMAIN failures' /\ Failed'[i] = Failed[i],
           \A p \in took' \ took :
               /\ \E i \in DOMAIN rows' : p \in Below(rows'[i])
               /\ \/ \E i \in DOMAIN written' : p \in Below(written'[i])
                  \/ \E i \in DOMAIN failures' : p \in Below(Failed'[i])
    PROVE  TakenIsRecorded'
<1> SUFFICES ASSUME NEW p \in took'
             PROVE  /\ \E i \in DOMAIN rows' : p \in Below(rows'[i])
                    /\ \/ \E i \in DOMAIN written' : p \in Below(written'[i])
                       \/ \E i \in DOMAIN failures' : p \in Below(Failed'[i])
  BY DEF TakenIsRecorded, Below
<1>1. CASE p \in took
  <2>1. PICK i \in DOMAIN rows : p \in Below(rows[i])
    BY <1>1 DEF TakenIsRecorded
  <2>2. \/ \E j \in DOMAIN written : p \in Below(written[j])
        \/ \E j \in DOMAIN failures : p \in Below(Failed[j])
    BY <1>1 DEF TakenIsRecorded
  <2>3. QED
    BY <2>1, <2>2
<1>2. CASE p \notin took
  BY <1>2
<1>3. QED
  BY <1>1, <1>2

LEMMA NextTakenFits ==
    ASSUME TypeInv, TakenFits, [Next]_vars
    PROVE  TakenFits'
<1>1. CASE GoOn \/ NextFile \/ Others \/ UNCHANGED vars
  <2>1. UNCHANGED <<rows, written, failures, took>> /\ (pc' = "remove" => pc = "remove" /\ UNCHANGED File)
    BY <1>1 DEF GoOn, NextFile, Others, answer, world, vars, File
  <2>2. QED
    BY <2>1 DEF TakenFits, TakenIsRecorded, Failed, Below
<1>2. CASE PassOver \/ StartFails \/ Finish
  <2>1. UNCHANGED <<rows, written, failures, took>> /\ pc' # "remove"
    BY <1>2 DEF PassOver, Skip, StartFails, Finish, world
  <2>2. QED
    BY <2>1 DEF TakenFits, TakenIsRecorded, Failed, Below
<1>3. CASE GiveUp
  <2>1. PICK code \in Failures : pc \in InLoop /\ Fail(code) /\ UNCHANGED world
    BY <1>3 DEF GiveUp, InLoop
  <2>2. UNCHANGED <<rows, written, took>> /\ pc' # "remove"
    BY <2>1 DEF Fail, world
  <2>3. TakenIsRecorded'
    BY <2>1, <2>2, FailedGrows, RecordedStays DEF TakenFits, InLoop
  <2>4. QED
    BY <2>2, <2>3 DEF TakenFits
<1>4. CASE RemoveFails
  <2>1. ExitArchive \in Failures
    BY DEF Failures
  <2>2. UNCHANGED <<rows, written>> /\ pc' # "remove" /\ Fail(ExitArchive) /\ pc = "remove"
    BY <1>4 DEF RemoveFails, Fail
  <2>3. took' \subseteq took \cup Below(File)
    BY <1>4 DEF RemoveFails
  <2>4. \E i \in DOMAIN rows : rows[i] = File
    BY <2>2 DEF TakenFits
  <2>5. TakenIsRecorded'
    BY <2>1, <2>2, <2>3, <2>4, FailedGrows, RecordedStays DEF TakenFits, InLoop
  <2>6. QED
    BY <2>2, <2>5 DEF TakenFits
<1>5. CASE Insert
  <2>1. rows' = Append(rows, File) /\ UNCHANGED <<File, written, failures, took>> /\ pc = "insert"
    BY <1>5 DEF Insert, Goto, answer, File
  <2>2. /\ \A i \in DOMAIN rows : i \in DOMAIN rows' /\ rows'[i] = rows[i]
        /\ \E i \in DOMAIN rows' : rows'[i] = File
    <3>1. rows \in Seq(Paths)
      BY DEF TypeInv, TypeOK
    <3>2. File \in Paths
      BY <2>1, FileType DEF InLoop
    <3>3. QED
      BY <2>1, <3>1, <3>2, Grows
  <2>3. TakenIsRecorded'
    BY <2>1, <2>2, RecordedStays DEF TakenFits, Failed
  <2>4. QED
    BY <2>1, <2>2, <2>3 DEF TakenFits
<1>6. CASE Remove
  <2>1. /\ written' = Append(written, File) /\ took' \subseteq took \cup Below(File)
        /\ UNCHANGED <<rows, failures>> /\ pc = "remove" /\ pc' = "next"
    BY <1>6 DEF Remove
  <2>2. /\ \A i \in DOMAIN written : i \in DOMAIN written' /\ written'[i] = written[i]
        /\ \E i \in DOMAIN written' : written'[i] = File
    <3>1. written \in Seq(Paths)
      BY DEF TypeInv, TypeOK
    <3>2. File \in Paths
      BY <2>1, FileType DEF InLoop
    <3>3. QED
      BY <2>1, <3>1, <3>2, Grows
  <2>3. \E i \in DOMAIN rows : rows[i] = File
    BY <2>1 DEF TakenFits
  <2>4. TakenIsRecorded'
    BY <2>1, <2>2, <2>3, RecordedStays DEF TakenFits, Failed
  <2>5. QED
    BY <2>1, <2>4 DEF TakenFits
<1>7. QED
  BY StepCases, <1>1, <1>2, <1>3, <1>4, <1>5, <1>6

\* Whatever this invocation takes away has a record of its group and a line in
\* the payload, also where a removal stopped partway.
THEOREM TakenHasRecord == Spec => []TakenIsRecorded
<1>1. Init => TypeInv /\ TakenFits
  BY InitTypeInv DEF Init, TakenFits, TakenIsRecorded
<1>2. TypeInv /\ TakenFits /\ [Next]_vars => TypeInv' /\ TakenFits'
  BY NextTypeInv, NextTakenFits
<1>3. TakenFits => TakenIsRecorded
  BY DEF TakenFits
<1>4. QED
  BY <1>1, <1>2, <1>3, PTL DEF Spec

-----------------------------------------------------------------------------
(* The accounts: every path passed so far is answered, or is the one at hand.  *)

\* A list that grows by e counts one more e and nothing else.
LEMMA CountAppend ==
    ASSUME NEW S, NEW s \in Seq(S), NEW e \in S, NEW p
    PROVE  /\ Count(p, s) \in Nat
           /\ Count(p, Append(s, e)) = Count(p, s) + (IF e = p THEN 1 ELSE 0)
<1> DEFINE n == Len(s)
           C == {i \in DOMAIN s : s[i] = p}
           D == {i \in DOMAIN Append(s, e) : Append(s, e)[i] = p}
<1>1. n \in Nat /\ DOMAIN s = 1 .. n
  OBVIOUS
<1>2. IsFiniteSet(C)
  <2>1. IsFiniteSet(1 .. n)
    BY <1>1, FS_Interval
  <2>2. C \in SUBSET (1 .. n)
    BY <1>1
  <2>3. QED
    BY <2>1, <2>2, FS_Subset
<1>3. Cardinality(C) \in Nat /\ n + 1 \notin C
  BY <1>1, <1>2, FS_CardinalityType
<1>4. D = IF e = p THEN C \cup {n + 1} ELSE C
  BY <1>1
<1>5. Cardinality(C \cup {n + 1}) = Cardinality(C) + 1
  BY <1>2, <1>3, FS_AddElement
<1>6. Count(p, s) = Cardinality(C) /\ Count(p, Append(s, e)) = Cardinality(D)
  BY DEF Count
<1> HIDE DEF C, D
<1>7. CASE e = p
  BY <1>3, <1>4, <1>5, <1>6, <1>7
<1>8. CASE e # p
  BY <1>3, <1>4, <1>6, <1>8
<1>9. QED
  BY <1>7, <1>8

LEMMA CountNothing == \A p : Count(p, <<>>) = 0
BY FS_EmptySet DEF Count

Answers(p) == Count(p, written) + Count(p, Failed) + Count(p, skipped)
Pending(p) == IF pc \in InLoop /\ File = p THEN 1 ELSE 0
Passed == SubSeq(request.files, 1, at)

CountsFit == \A p \in Paths : Answers(p) + Pending(p) = Count(p, Passed)

EndFits == exit.payload = "supplied" =>
    at >= Len(request.files) \/ (request.onError = "abort" /\ failures # <<>>)

LEMMA FailedType ==
    ASSUME failures \in Seq(Paths \X Failures)
    PROVE  Failed \in Seq(Paths) /\ Len(Failed) = Len(failures)
BY DEF Failed

LEMMA FailedAppend ==
    ASSUME TypeInv, pc \in InLoop, NEW code \in Failures, Fail(code)
    PROVE  Failed' = Append(Failed, File)
<1> DEFINE entered == <<File, code>>
<1>1. failures \in Seq(Paths \X Failures) /\ entered \in Paths \X Failures /\ entered[1] = File
  BY FileType DEF TypeInv, TypeOK
<1>2. failures' = Append(failures, entered)
  BY DEF Fail
<1> HIDE DEF entered
<1>3. Failed \in Seq(Paths) /\ Len(Failed) = Len(failures) /\ File \in Paths
  BY <1>1, FailedType, FileType
<1>4. Failed' \in Seq(Paths) /\ Len(Failed') = Len(failures) + 1
  BY <1>1, <1>2 DEF Failed
<1>5. \A i \in 1 .. Len(failures) + 1 : Failed'[i] = Append(Failed, File)[i]
  BY <1>1, <1>2, <1>3 DEF Failed
<1>6. Append(Failed, File) \in Seq(Paths) /\ Len(Append(Failed, File)) = Len(failures) + 1
  BY <1>3
<1>7. QED
  BY <1>4, <1>5, <1>6, SeqEqual

LEMMA CountTypes ==
    ASSUME TypeInv, NEW p \in Paths
    PROVE  /\ Count(p, written) \in Nat /\ Count(p, Failed) \in Nat /\ Count(p, skipped) \in Nat
           /\ Passed \in Seq(Paths) /\ Count(p, Passed) \in Nat
<1>1. written \in Seq(Paths) /\ skipped \in Seq(Paths) /\ Failed \in Seq(Paths)
  BY FailedType DEF TypeInv, TypeOK
<1>2. request.files \in Seq(Paths) /\ at \in 0 .. Len(request.files)
  BY RequestType DEF TypeInv, TypeOK
<1>3. \A i \in 1 .. at : request.files[i] \in Paths
  BY <1>2
<1>4. Passed \in Seq(Paths)
  BY <1>2, <1>3, SubSeqProperties DEF Passed
<1>5. QED
  BY <1>1, <1>4, CountAppend

\* A step that answers the path at hand.
LEMMA Settles ==
    ASSUME TypeInv, CountsFit, pc \in InLoop, pc' \notin InLoop, UNCHANGED <<request, at>>,
           \A p \in Paths : Answers(p)' = Answers(p) + (IF File = p THEN 1 ELSE 0)
    PROVE  CountsFit'
<1> SUFFICES ASSUME NEW p \in Paths PROVE Answers(p)' + Pending(p)' = Count(p, Passed')
  BY DEF CountsFit
<1>1. Passed' = Passed /\ Pending(p)' = 0
  BY DEF Passed, Pending
<1>2. Answers(p) \in Nat
  BY CountTypes DEF Answers
<1>3. Answers(p) + Pending(p) = Count(p, Passed) /\ Pending(p) = IF File = p THEN 1 ELSE 0
  BY DEF CountsFit, Pending
<1>4. QED
  BY <1>1, <1>2, <1>3

LEMMA FailSettles ==
    ASSUME TypeInv, CountsFit, pc \in InLoop, NEW code \in Failures, Fail(code)
    PROVE  CountsFit'
<1>1. pc' \notin InLoop /\ UNCHANGED <<request, at, written, skipped>>
  BY DEF Fail, InLoop
<1>2. ASSUME NEW p \in Paths
      PROVE  Answers(p)' = Answers(p) + (IF File = p THEN 1 ELSE 0)
  <2>1. Failed \in Seq(Paths) /\ File \in Paths
    BY FailedType, FileType DEF TypeInv, TypeOK
  <2>2. Count(p, Failed') = Count(p, Failed) + (IF File = p THEN 1 ELSE 0)
    <3>1. Failed' = Append(Failed, File)
      BY FailedAppend
    <3>2. QED
      BY <2>1, <3>1, CountAppend
  <2>3. Answers(p)' = Count(p, written) + Count(p, Failed') + Count(p, skipped)
    BY <1>1 DEF Answers, Count
  <2>4. QED
    BY <2>2, <2>3, CountTypes DEF Answers
<1>3. QED
  BY <1>1, <1>2, Settles

LEMMA NextCountsFit ==
    ASSUME TypeInv, CountsFit, [Next]_vars
    PROVE  CountsFit'
<1>1. CASE GoOn \/ Others \/ UNCHANGED vars \/ Insert \/ StartFails \/ Finish
  <2>1. UNCHANGED <<request, at, written, failures, skipped>> /\ (pc' \in InLoop <=> pc \in InLoop)
    BY <1>1 DEF GoOn, Others, vars, Insert, Goto, StartFails, Finish, answer, InLoop
  <2>2. UNCHANGED <<Passed, Failed, File>>
    BY <2>1 DEF Passed, Failed, File
  <2>3. QED
    BY <2>1, <2>2 DEF CountsFit, Answers, Pending, Count
<1>2. CASE PassOver
  <2>1. /\ pc \in InLoop /\ pc' \notin InLoop /\ skipped' = Append(skipped, File)
        /\ UNCHANGED <<request, at, written, failures>>
    BY <1>2 DEF PassOver, Skip, InLoop
  <2>2. ASSUME NEW p \in Paths
        PROVE  Answers(p)' = Answers(p) + (IF File = p THEN 1 ELSE 0)
    <3>1. skipped \in Seq(Paths) /\ File \in Paths
      BY <2>1, FileType DEF TypeInv, TypeOK
    <3>2. Count(p, skipped') = Count(p, skipped) + (IF File = p THEN 1 ELSE 0)
      BY <2>1, <3>1, CountAppend
    <3>3. Answers(p)' = Count(p, written) + Count(p, Failed) + Count(p, skipped')
      BY <2>1 DEF Answers, Count, Failed
    <3>4. QED
      BY <3>2, <3>3, CountTypes DEF Answers
  <2>3. QED
    BY <2>1, <2>2, Settles
<1>3. CASE Remove
  <2>1. /\ pc \in InLoop /\ pc' \notin InLoop /\ written' = Append(written, File)
        /\ UNCHANGED <<request, at, skipped, failures>>
    BY <1>3 DEF Remove, InLoop
  <2>2. ASSUME NEW p \in Paths
        PROVE  Answers(p)' = Answers(p) + (IF File = p THEN 1 ELSE 0)
    <3>1. written \in Seq(Paths) /\ File \in Paths
      BY <2>1, FileType DEF TypeInv, TypeOK
    <3>2. Count(p, written') = Count(p, written) + (IF File = p THEN 1 ELSE 0)
      BY <2>1, <3>1, CountAppend
    <3>3. Answers(p)' = Count(p, written') + Count(p, Failed) + Count(p, skipped)
      BY <2>1 DEF Answers, Count, Failed
    <3>4. QED
      BY <3>2, <3>3, CountTypes DEF Answers
  <2>3. QED
    BY <2>1, <2>2, Settles
<1>4. CASE GiveUp \/ RemoveFails
  BY <1>4, FailSettles DEF GiveUp, RemoveFails, InLoop, Failures
<1>5. CASE NextFile
  <2>1. /\ pc \notin InLoop /\ pc' \in InLoop /\ at' = at + 1 /\ at < Len(request.files)
        /\ UNCHANGED <<request, written, failures, skipped>>
    BY <1>5 DEF NextFile, InLoop, answer
  <2>2. request.files \in Seq(Paths) /\ at \in 0 .. Len(request.files)
    BY RequestType DEF TypeInv, TypeOK
  <2>3. File' \in Paths /\ File' = request.files[at + 1]
    BY <2>1, <2>2 DEF File
  <2>4. Passed' = Append(Passed, File')
    <3>1. \A i \in 1 .. at + 1 : request.files[i] \in Paths
      BY <2>1, <2>2
    <3>2. /\ Passed' \in Seq(Paths) /\ Len(Passed') = at + 1
          /\ \A i \in 1 .. at + 1 : Passed'[i] = request.files[i]
      BY <2>1, <2>2, <3>1, SubSeqProperties DEF Passed
    <3>3. /\ Passed \in Seq(Paths) /\ Len(Passed) = at
          /\ \A i \in 1 .. at : Passed[i] = request.files[i]
      BY <2>1, <2>2, <3>1, SubSeqProperties DEF Passed
    <3>4. /\ Append(Passed, File') \in Seq(Paths) /\ Len(Append(Passed, File')) = at + 1
          /\ \A i \in 1 .. at + 1 : Append(Passed, File')[i] = request.files[i]
      BY <2>2, <2>3, <3>3
    <3>5. QED
      BY <3>2, <3>4, SeqEqual
  <2>5. ASSUME NEW p \in Paths PROVE Answers(p)' + Pending(p)' = Count(p, Passed')
    <3>1. Count(p, Passed') = Count(p, Passed) + (IF File' = p THEN 1 ELSE 0)
      BY <2>3, <2>4, CountTypes, CountAppend
    <3>2. Answers(p)' = Answers(p) /\ Answers(p) \in Nat
      <4>1. Answers(p)' = Answers(p)
        BY <2>1 DEF Answers, Count, Failed
      <4>2. Answers(p) \in Nat
        BY CountTypes DEF Answers
      <4>3. QED
        BY <4>1, <4>2
    <3>3. Answers(p) = Count(p, Passed)
      BY <2>1, <3>2 DEF CountsFit, Pending
    <3>4. Pending(p)' = IF File' = p THEN 1 ELSE 0
      BY <2>1 DEF Pending
    <3>5. QED
      BY <3>1, <3>2, <3>3, <3>4
  <2>6. QED
    BY <2>5 DEF CountsFit
<1>6. QED
  BY StepCases, <1>1, <1>2, <1>3, <1>4, <1>5

LEMMA NextEndFits ==
    ASSUME TypeInv, ExitFits, EndFits, [Next]_vars
    PROVE  EndFits'
<1>1. CASE GoOn \/ NextFile \/ Others \/ UNCHANGED vars
  BY <1>1 DEF GoOn, NextFile, Others, answer, vars, EndFits, ExitFits
<1>2. CASE PassOver \/ Insert \/ Remove
  BY <1>2 DEF PassOver, Skip, Insert, Goto, Remove, answer, EndFits, ExitFits
<1>3. ASSUME NEW code \in Failures, pc \in InLoop, Fail(code) PROVE EndFits'
  <2>1. failures' # <<>>
    BY <1>3, FileType DEF Fail, TypeInv, TypeOK
  <2>2. QED
    BY <1>3, <2>1 DEF Fail, EndFits, ExitFits, InLoop
<1>4. CASE StartFails \/ Finish
  BY <1>4 DEF StartFails, Finish, EndFits, TypeInv, TypeOK
<1>5. QED
  BY StepCases, <1>1, <1>2, <1>3, <1>4 DEF GiveUp, RemoveFails, InLoop, Failures

\* Once the command has answered, every path passed is archived, failed or
\* skipped, as often as it was passed, up to where an abort stopped.
THEOREM NoPathIsLost == Spec => []EveryPathIsAnswered
<1>1. Init => TypeInv /\ ExitFits /\ CountsFit /\ EndFits
  <2> SUFFICES ASSUME Init PROVE ExitFits /\ CountsFit /\ EndFits
    BY InitTypeInv
  <2>1. ExitFits /\ EndFits
    BY DEF Init, ExitFits, EndFits, Running
  <2>2. Passed = <<>> /\ Failed = <<>>
    BY SubSeqEmpty DEF Init, Passed, Failed
  <2>3. CountsFit
    BY <2>2, CountNothing DEF Init, CountsFit, Answers, Pending, InLoop
  <2>4. QED
    BY <2>1, <2>3
<1>2. TypeInv /\ ExitFits /\ CountsFit /\ EndFits /\ [Next]_vars
        => TypeInv' /\ ExitFits' /\ CountsFit' /\ EndFits'
  BY NextTypeInv, NextExitFits, NextCountsFit, NextEndFits
<1>3. TypeInv /\ ExitFits /\ CountsFit /\ EndFits => EveryPathIsAnswered
  <2> SUFFICES ASSUME TypeInv, CountsFit, EndFits, Answered PROVE EveryPathIsAnswered
    BY DEF EveryPathIsAnswered
  <2>1. ASSUME NEW p \in Paths
        PROVE  Count(p, written) + Count(p, Failed) + Count(p, skipped) = Count(p, Passed)
    BY CountTypes DEF CountsFit, Answers, Pending, Answered, InLoop
  <2>2. at < Len(request.files) => request.onError = "abort" /\ failures # <<>>
    BY RequestType DEF EndFits, Answered, TypeInv, TypeOK
  <2>3. QED
    BY <2>1, <2>2 DEF EveryPathIsAnswered, Passed
<1>4. QED
  BY <1>1, <1>2, <1>3, PTL DEF Spec

=============================================================================
