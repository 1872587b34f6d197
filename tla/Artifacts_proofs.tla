-------------------------- MODULE Artifacts_proofs --------------------------
(***************************************************************************)
(* Proofs, for any flags of the worker, of what Evaluator and Artifacts    *)
(* say of reports, blobs, the archive and the flag for failed tests: the   *)
(* parts of their invariants that do not rest on what a script makes of an *)
(* exit code.                                                              *)
(***************************************************************************)
EXTENDS Artifacts, TLAPS

(***************************************************************************)
(* The worker.                                                             *)
(***************************************************************************)

\* A stage stays the same while evaluate is in it,
LEMMA SameStage ==
    ASSUME UNCHANGED <<input, at>> PROVE Stage' = Stage
  BY DEF Stage

\* and what happens is remembered with it.
LEMMA HappensAdds ==
    ASSUME NEW o, Happens(o)
    PROVE  \E n : /\ seen' = (seen \ Forgotten(o)) \cup {n}
                  /\ n.stage = Stage /\ n.outcome = o
<1>1. PICK r \in PossibleIn(Stage) :
        seen' = (seen \ Forgotten(o)) \cup {[stage |-> Stage, event |-> r.event, outcome |-> o]}
  BY DEF Happens
<1> DEFINE n == [stage |-> Stage, event |-> r.event, outcome |-> o]
<1>2. n.stage = Stage /\ n.outcome = o
  OBVIOUS
<1> QED BY <1>1, <1>2

\* Only a build that succeeds is forgotten, with its own attempts.
LEMMA ForgottenAreBuilds ==
    ASSUME NEW o, NEW h \in Forgotten(o) PROVE Stage.do = "build" /\ h.stage = Stage
  BY DEF Forgotten

\* What evaluate returns.
LEMMA Returned ==
    ASSUME NEW status \in {"passed", "failed", "errored"}, NEW testsFailed \in BOOLEAN,
           result' = {[status |-> status, testsFailed |-> testsFailed]}
    PROVE  /\ result' # {} /\ result' \subseteq Results
           /\ \A r \in result' : r.status = status /\ r.testsFailed = testsFailed
  BY DEF Results

\* While evaluate runs nothing but a timeout is decided, and its end decides.
LEMMA EvaluateDecides ==
    ASSUME VerdictFollowsResult, result = {}, UNCHANGED <<verdict, final>>,
           result' \subseteq Results,
           \A r \in result' : (r.testsFailed <=> FailedTests') /\ (r.testsFailed => r.status = "failed"),
           result' = {} => ~FailedTests'
    PROVE  VerdictFollowsResult'
  BY DEF VerdictFollowsResult

\* No tests have failed while evaluate runs, nor by what happens to another tool.
LEMMA NoTestsFailed ==
    ASSUME VerdictFollowsResult, result = {},
           \A h \in seen' : h \in seen \/ h.stage.do # "tests" \/ h.outcome # "bad"
    PROVE  ~FailedTests'
  BY DEF VerdictFollowsResult, FailedTests

\* A stage that runs no target keeps the invariant, as does one that has not yet run it or
\* could not.
LEMMA StageKeepsIInv ==
    ASSUME IInv, result = {}, step \notin ReportSteps, step' \notin ReportSteps,
           UNCHANGED <<reportVars, verdict, final>>,
           \/ Stage.do # "pov" /\ \A h \in seen' : h \in seen \/ h.stage = Stage
           \/ /\ UNCHANGED seen /\ (result' = {} => Stage' = Stage)
              /\ \A r \in result' : r.status = "errored",
           VerdictFollowsResult'
    PROVE  IInv'
<1> USE DEF IInv, reportVars, uploadVars
<1>1. BlobsAreWhole'
  BY DEF BlobsAreWhole
<1>2. UploadsAreWhole'
  BY DEF UploadsAreWhole, ReportSteps
<1>3. ReportsInOrder' /\ FuzzOutOfLastRun'
  BY DEF ReportsInOrder, FuzzOutOfLastRun, ReportSteps
<1>4. RunsAreReported'
  <2>1. \A h \in seen : h.stage.do = "pov" => h.stage \in results \/ h.stage = Stage
    BY DEF RunsAreReported
  <2> QED BY <2>1 DEF RunsAreReported
<1>5. OthersEndInErrors'
  BY DEF OthersEndInErrors, ReportSteps
<1> QED BY <1>1, <1>2, <1>3, <1>4, <1>5

\* What has happened in a run, and that it is no longer at hand.
LEMMA RunKeepsTests ==
    ASSUME IInv, result = {}, Stage.do = "pov", UNCHANGED <<verdict, final>>,
           \/ result' = {}
           \/ \E status \in {"passed", "failed", "errored"} :
                result' = {[status |-> status, testsFailed |-> FALSE]},
           \A h \in seen' : h \in seen \/ h.stage = Stage
    PROVE  VerdictFollowsResult'
<1>1. ~FailedTests'
  BY NoTestsFailed DEF IInv
<1>2. CASE result' = {}
  BY <1>1, <1>2, EvaluateDecides DEF IInv
<1>3. ASSUME NEW status \in {"passed", "failed", "errored"},
             result' = {[status |-> status, testsFailed |-> FALSE]}
      PROVE  VerdictFollowsResult'
  <2>1. result' \subseteq Results /\ \A r \in result' : r.testsFailed = FALSE
    BY <1>3, Returned
  <2> QED BY <1>1, <1>3, <2>1, EvaluateDecides DEF IInv
<1> QED BY <1>2, <1>3

\* The stages other than the runs of a target, and the starts of all of them.
LEMMA StagesKeepIInv ==
    ASSUME IInv, UNCHANGED <<input, verdict, final>>,
           \/ Fetch \/ Check \/ BeginCommand \/ CommandRefused \/ EndBuild \/ BuildGivesUp
           \/ RunBreaks \/ EndApply \/ EndTests
    PROVE  IInv'
<1> USE DEF Evaluating
<1>1. ASSUME Stage.do # "pov", result = {}, step' \in {"idle", "running"},
             UNCHANGED reportVars,
             \A h \in seen' : h \in seen \/ h.stage = Stage,
             VerdictFollowsResult'
      PROVE  IInv'
  <2>1. step \notin ReportSteps
    BY <1>1 DEF IInv, ReportsInOrder
  <2>2. step' \notin ReportSteps
    BY <1>1 DEF ReportSteps
  <2> QED BY <1>1, <2>1, <2>2, StageKeepsIInv
<1>2. ASSUME result = {}, \A h \in seen' : h \in seen \/ h.stage.do # "tests" \/ h.outcome # "bad",
             \/ NextStage
             \/ \E status \in {"failed", "errored"} : Return(status, FALSE)
             \/ UNCHANGED result
      PROVE  VerdictFollowsResult'
  <2>1. ~FailedTests'
    BY <1>2, NoTestsFailed DEF IInv
  <2>2. CASE result' = {}
    BY <1>2, <2>1, <2>2, EvaluateDecides DEF IInv
  <2>3. ASSUME NEW status \in {"passed", "failed", "errored"},
               result' = {[status |-> status, testsFailed |-> FALSE]}
        PROVE  VerdictFollowsResult'
    <3>1. result' \subseteq Results /\ \A r \in result' : r.testsFailed = FALSE
      BY <2>3, Returned
    <3> QED BY <1>2, <2>1, <2>3, <3>1, EvaluateDecides DEF IInv
  <2> QED BY <1>2, <2>2, <2>3 DEF NextStage, Return
<1>3. ASSUME NEW o, Happens(o) PROVE \A h \in seen' : h \in seen \/ (h.stage = Stage /\ h.outcome = o)
  BY <1>3, HappensAdds
<1>4. CASE Fetch
  <2>1. Stage.do = "fetch" /\ result = {} /\ UNCHANGED <<reportVars, seen>>
    BY <1>4 DEF Fetch
  <2>2. VerdictFollowsResult'
    BY <1>2, <1>4, <2>1 DEF Fetch
  <2>3. step' \in {"idle", "running"}
    BY <1>4 DEF Fetch, NextStage, Return
  <2> QED BY <1>1, <2>1, <2>2, <2>3
<1>5. CASE Check \/ EndApply
  <2>1. PICK o \in Outcomes :
            /\ Happens(o)
            /\ NextStage \/ Return("failed", FALSE) \/ Return("errored", FALSE)
    BY <1>5 DEF Check, EndApply
  <2>2. Stage.do \in {"check", "apply"} /\ result = {} /\ UNCHANGED reportVars
    BY <1>5 DEF Check, EndApply
  <2>3. VerdictFollowsResult'
    BY <1>2, <1>3, <2>1, <2>2
  <2>4. step' \in {"idle", "running"}
    BY <2>1 DEF NextStage, Return
  <2> QED BY <1>1, <1>3, <2>1, <2>2, <2>3, <2>4
<1>6. CASE BeginCommand
  <2>1. /\ result = {} /\ step = "idle" /\ step' = "running" /\ Stage' = Stage
        /\ UNCHANGED <<result, reportVars, seen>>
    BY <1>6, SameStage DEF BeginCommand
  <2>2. VerdictFollowsResult'
    BY <1>2, <2>1
  <2> QED BY <2>1, <2>2, StageKeepsIInv DEF ReportSteps
<1>7. ASSUME \/ Return("errored", FALSE)
             \/ Return("failed", FALSE) /\ Stage.do # "pov",
             result = {}, step \in {"idle", "running"}, UNCHANGED <<reportVars, seen>>
      PROVE  IInv'
  <2>1. VerdictFollowsResult'
    BY <1>2, <1>7
  <2>2. step' = "idle"
    BY <1>7 DEF Return
  <2>3. \/ Stage.do # "pov"
        \/ result' # {} /\ \A r \in result' : r.status = "errored"
    BY <1>7, Returned DEF Return
  <2> QED BY <1>7, <2>1, <2>2, <2>3, StageKeepsIInv DEF ReportSteps
<1>8. CASE CommandRefused \/ RunBreaks
  BY <1>7, <1>8 DEF CommandRefused, RunBreaks
<1>9. CASE BuildGivesUp
  BY <1>7, <1>9 DEF BuildGivesUp, BuildReturns
<1>10. CASE EndBuild
  <2>1. PICK o \in Outcomes :
            /\ Happens(o)
            /\ \/ NextStage \/ Return("failed", FALSE) \/ Return("errored", FALSE)
               \/ step' = "idle" /\ UNCHANGED result
    BY <1>10 DEF EndBuild, BuildReturns
  <2>2. Stage.do = "build" /\ result = {} /\ UNCHANGED reportVars
    BY <1>10 DEF EndBuild
  <2>3. VerdictFollowsResult'
    BY <1>2, <1>3, <2>1, <2>2
  <2>4. step' \in {"idle", "running"}
    BY <2>1 DEF NextStage, Return
  <2> QED BY <1>1, <1>3, <2>1, <2>2, <2>3, <2>4
<1>11. CASE EndTests
  <2>1. PICK o \in Outcomes :
            /\ Happens(o)
            /\ \/ o = "ok" /\ NextStage
               \/ o = "bad" /\ Return("failed", TRUE)
               \/ o = "error" /\ Return("errored", FALSE)
    BY <1>11 DEF EndTests
  <2>2. Stage.do = "tests" /\ result = {} /\ UNCHANGED reportVars
    BY <1>11 DEF EndTests
  <2>3. VerdictFollowsResult'
    <3>1. CASE o # "bad"
      BY <1>2, <1>3, <2>1, <2>2, <3>1
    <3>2. CASE o = "bad"
      <4>1. PICK n : /\ seen' = (seen \ Forgotten(o)) \cup {n}
                     /\ n.stage = Stage /\ n.outcome = o
        BY <2>1, HappensAdds
      <4>2. FailedTests'
        BY <2>2, <3>2, <4>1 DEF FailedTests
      <4>3. result' = {[status |-> "failed", testsFailed |-> TRUE]}
        BY <2>1, <3>2 DEF Return
      <4>4. /\ result' # {} /\ result' \subseteq Results
            /\ \A r \in result' : r.status = "failed" /\ r.testsFailed = TRUE
        BY <4>3, Returned
      <4> QED BY <2>2, <4>2, <4>4, EvaluateDecides DEF IInv
    <3> QED BY <3>1, <3>2
  <2>4. step' \in {"idle", "running"}
    BY <2>1 DEF NextStage, Return
  <2> QED BY <1>1, <1>3, <2>1, <2>2, <2>3, <2>4
<1> QED BY <1>4, <1>5, <1>6, <1>8, <1>9, <1>10, <1>11

\* A run of the target ends.
LEMMA EndRunKeepsIInv ==
    ASSUME IInv, UNCHANGED <<input, verdict, final>>, EndRun PROVE IInv'
<1> USE DEF IInv, uploadVars
<1>1. PICK o \in Outcomes :
        /\ Happens(o) /\ RunWrites(o)
        /\ last' = o
        /\ step' \in {"stdout", "idle"}
  BY DEF EndRun
<1>2. /\ result = {} /\ Stage.do = "pov" /\ step = "running" /\ Stage' = Stage
      /\ UNCHANGED <<result, results, artifacts, uploadVars>>
  BY SameStage DEF EndRun, Evaluating
<1>3. PICK n : /\ seen' = (seen \ Forgotten(o)) \cup {n}
               /\ n.stage = Stage /\ n.outcome = o
  BY <1>1, HappensAdds
<1>4. \A h \in seen : h \in seen'
  BY <1>2, <1>3, ForgottenAreBuilds
<1>5. \A h \in seen' : h \in seen \/ h.stage = Stage
  BY <1>3
<1>6. BlobsAreWhole'
  BY <1>2 DEF BlobsAreWhole
<1>7. UploadsAreWhole'
  BY <1>2 DEF UploadsAreWhole
<1>8. ReportsInOrder'
  BY <1>1, <1>2 DEF ReportsInOrder, ReportSteps
<1>9. RunsAreReported'
  BY <1>2, <1>5 DEF RunsAreReported
<1>10. FuzzOutOfLastRun'
  <2>1. "error" = o => "error" \in OutcomesOf(Stage)'
    BY <1>2, <1>3 DEF OutcomesOf
  <2>2. o # "error" => fuzzOut' = {Stage}
    BY <1>1 DEF RunWrites
  <2>3. fuzzOut' \in {fuzzOut, {Stage}}
    BY <1>1 DEF RunWrites
  <2> QED BY <1>1, <1>2, <2>1, <2>2, <2>3 DEF FuzzOutOfLastRun, OutcomesOf
<1>11. OthersEndInErrors'
  BY <1>2 DEF OthersEndInErrors
<1>12. VerdictFollowsResult'
  BY <1>2, <1>5, RunKeepsTests
<1> QED BY <1>6, <1>7, <1>8, <1>9, <1>10, <1>11, <1>12

\* What an upload does to a container: it stores the whole blob.
LEMMA PutWhole ==
    ASSUME NEW blobs, \A b \in blobs : b = [name |-> b.name, content |-> b.name], NEW name
    PROVE  /\ \A b \in Put(blobs, name, name) : b = [name |-> b.name, content |-> b.name]
           /\ Whole(Put(blobs, name, name), name)
           /\ \A other : Whole(blobs, other) => Whole(Put(blobs, name, name), other)
<1> DEFINE c == [name |-> name, content |-> name]
<1>1. c.name = name /\ c.content = name
  OBVIOUS
<1>2. Put(blobs, name, name) = {b \in blobs : b.name # name} \cup {c}
  BY DEF Put
<1>3. \A b \in Put(blobs, name, name) : b = [name |-> b.name, content |-> b.name]
  BY <1>1, <1>2
<1>4. Whole(Put(blobs, name, name), name)
  BY <1>2 DEF Whole
<1>5. ASSUME NEW other, Whole(blobs, other) PROVE Whole(Put(blobs, name, name), other)
  <2> DEFINE d == [name |-> other, content |-> other]
  <2>1. d \in blobs /\ d.name = other
    BY <1>5 DEF Whole
  <2>2. other = name => d = c
    OBVIOUS
  <2>3. d \in Put(blobs, name, name)
    BY <1>2, <2>1, <2>2
  <2> QED BY <2>3 DEF Whole
<1> QED BY <1>3, <1>4, <1>5

\* Then a name that is there is that of the whole blob.
LEMMA ThereIsWhole ==
    ASSUME NEW blobs, \A b \in blobs : b = [name |-> b.name, content |-> b.name],
           NEW b \in blobs
    PROVE  Whole(blobs, b.name)
  BY DEF Whole

\* A step of RunPov after the run, that returns nothing yet: what the lemmas below share.
LEMMA ReportKeepsIInv ==
    ASSUME IInv, result = {}, step \in ReportSteps,
           UNCHANGED <<input, at, last, result, fuzzOut, seen, verdict, final>>,
           \A name : Whole(store, name) => Whole(store', name),
           \A a \in artifacts' : a \in artifacts
                \/ (a.stage = Stage /\ a.of \in fuzzOut /\ step' = "exit code"),
           artifacts \subseteq artifacts',
           results \subseteq results',
           step' \in ReportSteps,
           step = "exit code" => artifacts' = artifacts /\ step' = "exit code"
    PROVE  RunsAreReported' /\ FuzzOutOfLastRun' /\ OthersEndInErrors' /\ VerdictFollowsResult'
<1> USE DEF IInv
<1>1. Stage' = Stage /\ Stage.do = "pov"
  BY SameStage DEF ReportsInOrder
<1>2. RunsAreReported'
  BY <1>1 DEF RunsAreReported
<1>3. FuzzOutOfLastRun'
  BY <1>1 DEF FuzzOutOfLastRun, OutcomesOf
<1>4. VerdictFollowsResult'
  BY <1>1, RunKeepsTests
<1>5. OthersEndInErrors'
  <2>1. ASSUME NEW a \in artifacts, a.of # a.stage
        PROVE  /\ a.stage.do = "pov" /\ "error" \in OutcomesOf(a.stage)'
               /\ a.stage = Stage /\ last = "error" /\ step' = "exit code"
    BY <2>1 DEF OthersEndInErrors, OutcomesOf
  <2>2. ASSUME NEW a \in artifacts', a \notin artifacts, a.of # a.stage
        PROVE  /\ a.stage.do = "pov" /\ "error" \in OutcomesOf(a.stage)'
               /\ a.stage = Stage /\ last = "error" /\ step' = "exit code"
    <3>1. a.stage = Stage /\ a.of \in fuzzOut /\ step' = "exit code"
      BY <2>2
    <3>2. last = "error" /\ "error" \in OutcomesOf(Stage)
      BY <2>2, <3>1 DEF FuzzOutOfLastRun
    <3> QED BY <1>1, <3>1, <3>2 DEF OutcomesOf
  <2> QED BY <1>1, <2>1, <2>2 DEF OthersEndInErrors
<1> QED BY <1>2, <1>3, <1>4, <1>5

\* The blobs that messages name stay where they are.
LEMMA BlobsStay ==
    ASSUME BlobsAreWhole, \A name : Whole(store, name) => Whole(store', name),
           \A st \in results' : st \in results \/ (Stored("stdout", st) /\ Stored("stderr", st)),
           \A a \in artifacts' : a \in artifacts \/ Stored("fuzz.out", a.of)
    PROVE  BlobsAreWhole'
<1>1. \A st \in results', what \in {"stdout", "stderr"} : Whole(store, [what |-> what, of |-> st])
  BY DEF BlobsAreWhole, Stored
<1>2. \A a \in artifacts' : Whole(store, [what |-> "fuzz.out", of |-> a.of])
  BY DEF BlobsAreWhole, Stored
<1> QED BY <1>1, <1>2 DEF BlobsAreWhole

\* An attempt of an upload, and its end.
LEMMA UploadKeepsIInv ==
    ASSUME IInv, UNCHANGED <<input, verdict, final>>,
           UploadBegins \/ UploadAttemptFails \/ UploadEnds
    PROVE  IInv'
<1> USE DEF IInv, stageVars
<1>1. /\ result = {} /\ step \in {"stdout", "stderr", "fuzz.out"} /\ step \in ReportSteps
      /\ UNCHANGED <<at, last, result, results, artifacts, fuzzOut, seen>>
  BY DEF UploadBegins, UploadAttemptFails, UploadEnds, Uploading, Evaluating, ReportSteps
<1>2. Stage' = Stage
  BY <1>1, SameStage
<1>3. \A b \in store : b = [name |-> b.name, content |-> b.name]
  BY DEF UploadsAreWhole
<1>4. \/ store' = store
      \/ store' = Put(store, Blob, Blob)
  BY DEF UploadBegins, BeginUpload, UploadAttemptFails, AttemptFails, UploadEnds, FindUploaded,
         FinishUpload, Rewind, Rest, UploadsAreWhole
<1>5. /\ \A b \in store' : b = [name |-> b.name, content |-> b.name]
      /\ \A name : Whole(store, name) => Whole(store', name)
  BY <1>3, <1>4, PutWhole
<1>6. BlobsAreWhole'
  BY <1>1, <1>5, BlobsStay
<1>7. CASE UploadBegins \/ UploadAttemptFails
  <2>1. UNCHANGED step /\ Blob' = Blob
    <3>1. UNCHANGED step /\ UNCHANGED fuzzOut
      BY <1>1, <1>7 DEF UploadBegins, UploadAttemptFails
    <3> QED BY <1>2, <3>1 DEF Blob
  <2>2. \A u \in upload' : u.name = Blob
    <3>1. CASE UploadBegins
      BY <3>1 DEF UploadBegins, BeginUpload
    <3>2. CASE UploadAttemptFails
      <4>1. PICK u \in upload : upload' = {[u EXCEPT !.reader = "end"]}
        BY <3>2 DEF UploadAttemptFails, AttemptFails
      <4>2. u.name = Blob
        BY <4>1 DEF UploadsAreWhole
      <4>3. [u EXCEPT !.reader = "end"].name = u.name
        OBVIOUS
      <4> QED BY <4>1, <4>2, <4>3
    <3> QED BY <1>7, <3>1, <3>2
  <2>3. UploadsAreWhole'
    BY <1>1, <1>5, <2>1, <2>2 DEF UploadsAreWhole
  <2>4. ReportsInOrder'
    BY <1>1, <1>2, <1>5, <2>1 DEF ReportsInOrder, Stored
  <2>5. RunsAreReported' /\ FuzzOutOfLastRun' /\ OthersEndInErrors' /\ VerdictFollowsResult'
    BY <1>1, <1>5, <2>1, ReportKeepsIInv
  <2> QED BY <1>6, <2>3, <2>4, <2>5
<1>8. CASE UploadEnds
  <2>1. step' = AfterUpload(step) /\ (FindUploaded(Blob) \/ FinishUpload(Blob))
    BY <1>8 DEF UploadEnds
  <2>2. Whole(store', Blob) /\ upload' = {}
    <3>1. CASE FinishUpload(Blob)
      <4>1. store' = Put(store, Blob, Blob) /\ upload' = {}
        BY <3>1 DEF FinishUpload, Rewind, Rest, UploadsAreWhole
      <4> QED BY <1>3, <4>1, PutWhole
    <3>2. CASE FindUploaded(Blob)
      <4>1. upload' = {}
        BY <3>2 DEF FindUploaded
      <4>2. CASE store' = Put(store, Blob, Blob)
        BY <1>3, <4>1, <4>2, PutWhole
      <4>3. CASE store' = store /\ \E b \in store : b.name = Blob
        BY <1>3, <4>1, <4>3, ThereIsWhole
      <4> QED BY <3>2, <4>2, <4>3 DEF FindUploaded
    <3> QED BY <2>1, <3>1, <3>2
  <2>3. UploadsAreWhole'
    BY <1>5, <2>2 DEF UploadsAreWhole
  <2>4. step' \in ReportSteps \ {"stdout", "fuzz.out", "exit code"}
    BY <1>1, <2>1 DEF AfterUpload, ReportSteps
  <2>5. ReportsInOrder'
    <3>1. Stage.do = "pov"
      BY <1>1 DEF ReportsInOrder
    <3>2. CASE step = "stdout"
      <4>1. step' = "stderr" /\ Blob = [what |-> "stdout", of |-> Stage]
        BY <2>1, <3>2 DEF AfterUpload, Blob
      <4> QED BY <1>2, <2>2, <3>1, <4>1 DEF ReportsInOrder, Stored
    <3>3. CASE step = "stderr"
      <4>1. step' = "result" /\ Blob = [what |-> "stderr", of |-> Stage]
        BY <2>1, <3>3 DEF AfterUpload, Blob
      <4>2. Stored("stdout", Stage)
        BY <1>1, <3>3 DEF ReportsInOrder
      <4> QED BY <1>2, <1>5, <2>2, <3>1, <4>1, <4>2 DEF ReportsInOrder, Stored
    <3>4. CASE step = "fuzz.out"
      <4>1. step' = "artifact"
        BY <2>1, <3>4 DEF AfterUpload
      <4>2. \A st \in fuzzOut : Blob = [what |-> "fuzz.out", of |-> st]
        <5>1. \A st, other \in fuzzOut : st = other
          BY DEF FuzzOutOfLastRun
        <5>2. ASSUME NEW st \in fuzzOut PROVE WriterOf(fuzzOut) = st
          BY <5>1 DEF WriterOf
        <5> QED BY <3>4, <5>2 DEF Blob
      <4>3. Stored("stdout", Stage) /\ Stored("stderr", Stage) /\ Stage \in results
        BY <1>1, <3>4 DEF ReportsInOrder
      <4> QED BY <1>1, <1>2, <1>5, <2>2, <3>1, <4>1, <4>2, <4>3 DEF ReportsInOrder, Stored
    <3> QED BY <1>1, <3>2, <3>3, <3>4
  <2>6. RunsAreReported' /\ FuzzOutOfLastRun' /\ OthersEndInErrors' /\ VerdictFollowsResult'
    BY <1>1, <1>5, <2>4, ReportKeepsIInv
  <2> QED BY <1>6, <2>3, <2>5, <2>6
<1> QED BY <1>7, <1>8

\* The two messages of a run.
LEMMA QueueKeepsIInv ==
    ASSUME IInv, UNCHANGED <<input, verdict, final>>, QueueResult \/ QueueArtifact PROVE IInv'
<1> USE DEF IInv, uploadVars
<1>1. /\ result = {} /\ step \in {"result", "artifact"} /\ step \in ReportSteps
      /\ UNCHANGED <<at, last, result, fuzzOut, store, upload, seen>>
  BY DEF QueueResult, QueueArtifact, Evaluating, ReportSteps
<1>2. Stage' = Stage /\ Stage.do = "pov" /\ Stored("stdout", Stage) /\ Stored("stderr", Stage)
  BY <1>1, SameStage DEF ReportsInOrder
<1>3. \/ /\ step = "result" /\ results' = results \cup {Stage} /\ artifacts' = artifacts
         /\ step' \in {"exit code", "fuzz.out"}
      \/ /\ step = "artifact" /\ step' = "exit code" /\ results' = results
         /\ artifacts' = artifacts \cup [stage : {Stage}, of : fuzzOut]
  BY DEF QueueResult, QueueArtifact
<1>4. /\ \A a \in artifacts' : a \in artifacts
           \/ (a.stage = Stage /\ a.of \in fuzzOut /\ step = "artifact" /\ step' = "exit code")
      /\ artifacts \subseteq artifacts'
  BY <1>3
<1>5. BlobsAreWhole'
  <2>1. \A a \in artifacts' : a \in artifacts \/ Stored("fuzz.out", a.of)
    BY <1>1, <1>4 DEF ReportsInOrder
  <2> QED BY <1>1, <1>2, <1>3, <2>1, BlobsStay
<1>6. UploadsAreWhole'
  BY <1>1 DEF UploadsAreWhole
<1>7. ReportsInOrder'
  <2>1. Stage \in results'
    BY <1>1, <1>3 DEF ReportsInOrder
  <2> QED BY <1>1, <1>2, <1>3, <2>1 DEF ReportsInOrder, Stored, ReportSteps
<1>8. RunsAreReported' /\ FuzzOutOfLastRun' /\ OthersEndInErrors' /\ VerdictFollowsResult'
  <2>1. step' \in ReportSteps /\ step # "exit code" /\ results \subseteq results'
    BY <1>3 DEF ReportSteps
  <2> QED BY <1>1, <1>4, <2>1, ReportKeepsIInv
<1> QED BY <1>5, <1>6, <1>7, <1>8

\* RunPov returns: a report fails, or the last run is judged.
LEMMA RunEndsKeepsIInv ==
    ASSUME IInv, UNCHANGED <<input, verdict, final>>, UploadGivenUp \/ QueueFails \/ JudgeRun
    PROVE  IInv'
<1> USE DEF IInv, uploadVars, reportVars
<1>1. /\ result = {} /\ step \in ReportSteps /\ UNCHANGED <<fuzzOut, store, seen>>
      /\ upload' = {} \/ (upload' = upload /\ step \notin {"stdout", "stderr", "fuzz.out"})
  BY DEF UploadGivenUp, AbandonUpload, Uploading, QueueFails, JudgeRun, Evaluating, ReportSteps
<1>2. Stage.do = "pov"
  BY <1>1 DEF ReportsInOrder
<1>3. step' = "idle" /\ step' \notin ReportSteps
  BY DEF UploadGivenUp, QueueFails, JudgeRun, Return, NextStage, ReportSteps
<1>4. \/ Return("errored", FALSE)
      \/ /\ JudgeRun /\ last # "error" /\ step = "exit code"
         /\ NextStage \/ Return("failed", FALSE)
  BY DEF UploadGivenUp, QueueFails, JudgeRun
<1>5. \/ result' = {}
      \/ \E status \in {"passed", "failed", "errored"} :
            result' = {[status |-> status, testsFailed |-> FALSE]}
  BY <1>4 DEF NextStage, Return
<1>6. VerdictFollowsResult'
  BY <1>1, <1>2, <1>5, RunKeepsTests
<1>7. /\ \A st \in results' : st \in results \/ (st = Stage /\ step = "result")
      /\ results \subseteq results'
      /\ \A a \in artifacts' : a \in artifacts
            \/ (a.stage = Stage /\ a.of \in fuzzOut /\ step = "artifact")
      /\ artifacts \subseteq artifacts'
  BY DEF UploadGivenUp, QueueFails, JudgeRun
<1>8. BlobsAreWhole'
  BY <1>1, <1>7, BlobsStay DEF ReportsInOrder
<1>9. UploadsAreWhole'
  <2>1. upload' = {}
    BY <1>1 DEF UploadsAreWhole
  <2> QED BY <1>1, <2>1 DEF UploadsAreWhole
<1>10. ReportsInOrder' /\ FuzzOutOfLastRun'
  BY <1>1, <1>3 DEF ReportsInOrder, FuzzOutOfLastRun
<1>11. CASE Return("errored", FALSE)
  <2>1. result' # {} /\ \A r \in result' : r.status = "errored"
    BY <1>11, Returned DEF Return
  <2>2. RunsAreReported'
    BY <1>1, <1>7, <2>1 DEF RunsAreReported
  <2>3. OthersEndInErrors'
    <3>1. ASSUME NEW a \in artifacts', a.of # a.stage
          PROVE  a.stage.do = "pov" /\ "error" \in OutcomesOf(a.stage)
      <4>1. CASE a \in artifacts
        BY <3>1, <4>1 DEF OthersEndInErrors
      <4>2. CASE a.stage = Stage /\ a.of \in fuzzOut
        BY <1>1, <1>2, <3>1, <4>2 DEF FuzzOutOfLastRun
      <4> QED BY <1>7, <4>1, <4>2
    <3> QED BY <1>1, <2>1, <3>1 DEF OthersEndInErrors, OutcomesOf
  <2> QED BY <1>6, <1>8, <1>9, <1>10, <2>2, <2>3
<1>12. CASE JudgeRun /\ last # "error" /\ step = "exit code"
  <2>1. Stage \in results /\ UNCHANGED <<results, artifacts>>
    BY <1>1, <1>12 DEF JudgeRun, ReportsInOrder
  <2>2. \A h \in seen : h.stage.do = "pov" => h.stage \in results
    BY <1>1, <2>1 DEF RunsAreReported
  <2>3. \A a \in artifacts : a.of = a.stage
    BY <1>1, <1>12 DEF OthersEndInErrors
  <2>4. RunsAreReported' /\ OthersEndInErrors'
    BY <1>1, <2>1, <2>2, <2>3 DEF RunsAreReported, OthersEndInErrors
  <2> QED BY <1>6, <1>8, <1>9, <1>10, <2>4
<1> QED BY <1>4, <1>11, <1>12

\* Evaluate: it takes the result or a timeout for the verdict, and sends it.
LEMMA MainKeepsIInv ==
    ASSUME IInv, MainStep PROVE IInv'
<1> USE DEF IInv, stageVars, reportVars, uploadVars
<1>1. UNCHANGED <<input, at, step, last, result, results, artifacts, fuzzOut, store, upload, seen>>
  BY DEF MainStep
<1>2. Stage' = Stage /\ Blob' = Blob
  BY <1>1, SameStage DEF Blob
<1>3. BlobsAreWhole' /\ UploadsAreWhole' /\ ReportsInOrder' /\ RunsAreReported'
      /\ FuzzOutOfLastRun' /\ OthersEndInErrors'
  BY <1>1, <1>2
  DEF BlobsAreWhole, UploadsAreWhole, ReportsInOrder, Stored, RunsAreReported,
      FuzzOutOfLastRun, OthersEndInErrors, OutcomesOf
<1>4. ASSUME \A v \in verdict' \cup final' : v \in verdict \cup final
                \/ (v.status = "inconclusive" /\ v.testsFailed = FALSE)
                \/ v \in result
                \/ (v.status = "inconclusive" /\ \E r \in result : v.testsFailed = r.testsFailed)
      PROVE  VerdictFollowsResult'
  BY <1>1, <1>4 DEF VerdictFollowsResult, FailedTests
<1>5. CASE Start \/ SetupFails \/ SendFinal \/ SendFinalFails
  <2>1. verdict' \cup final' \subseteq verdict \cup final
    BY <1>5 DEF Start, SetupFails, SendFinal, SendFinalFails
  <2> QED BY <1>3, <1>4, <2>1
<1>6. CASE TimeOut
  <2> DEFINE v == [status |-> "inconclusive", testsFailed |-> FALSE]
  <2>1. verdict' = {v} /\ final' = final
    BY <1>6 DEF TimeOut
  <2>2. v.status = "inconclusive" /\ v.testsFailed = FALSE
    OBVIOUS
  <2> HIDE DEF v
  <2> QED BY <1>3, <1>4, <2>1, <2>2
<1>7. CASE ReceiveResult
  <2>1. final' = final
        /\ verdict' = {IF expired THEN [r EXCEPT !.status = "inconclusive"] ELSE r : r \in result}
    BY <1>7 DEF ReceiveResult
  <2>2. ASSUME NEW r \in result
        PROVE  /\ [r EXCEPT !.status = "inconclusive"].status = "inconclusive"
               /\ [r EXCEPT !.status = "inconclusive"].testsFailed = r.testsFailed
    BY DEF VerdictFollowsResult, Results
  <2>3. \A v \in verdict' : v \in result
            \/ (v.status = "inconclusive" /\ \E r \in result : v.testsFailed = r.testsFailed)
    BY <2>1, <2>2
  <2> QED BY <1>3, <1>4, <2>1, <2>3
<1> QED BY <1>5, <1>6, <1>7 DEF MainStep

\* Every step of the worker keeps its invariant.
LEMMA NextKeepsIInv == IInv /\ [Next]_vars => IInv'
<1> SUFFICES ASSUME IInv, [Next]_vars PROVE IInv'
  OBVIOUS
<1>1. CASE EvaluateStep
  <2>1. UNCHANGED <<input, verdict, final>>
    BY <1>1 DEF EvaluateStep
  <2> QED BY <1>1, <2>1, StagesKeepIInv, EndRunKeepsIInv, UploadKeepsIInv, QueueKeepsIInv,
             RunEndsKeepsIInv DEF EvaluateStep
<1>2. CASE MainStep
  BY <1>2, MainKeepsIInv
<1>3. CASE DeadlineExpires \/ UNCHANGED vars
  <2>1. UNCHANGED <<input, at, step, last, result, results, artifacts, fuzzOut, store, upload,
                    verdict, final, seen>>
    BY <1>3 DEF DeadlineExpires, vars, stageVars, reportVars, uploadVars
  <2>2. Stage' = Stage /\ Blob' = Blob
    BY <2>1, SameStage DEF Blob
  <2> QED BY <2>1, <2>2
        DEF IInv, BlobsAreWhole, UploadsAreWhole, ReportsInOrder, Stored, RunsAreReported,
            FuzzOutOfLastRun, OthersEndInErrors, OutcomesOf, VerdictFollowsResult, FailedTests
<1> QED BY <1>1, <1>2, <1>3 DEF Next

\* It holds when the worker starts.
LEMMA InitHoldsIInv == Init => IInv
  BY DEF Init, UploadsInit, IInv, BlobsAreWhole, UploadsAreWhole, ReportsInOrder, ReportSteps,
         RunsAreReported, FuzzOutOfLastRun, OthersEndInErrors, VerdictFollowsResult, FailedTests

(***************************************************************************)
(* The handlers of artifact messages.                                      *)
(***************************************************************************)

\* The worker takes back no artifact.
LEMMA ArtifactsStay ==
    ASSUME [Next]_vars PROVE artifacts \subseteq artifacts'
  BY DEF Next, EvaluateStep, Fetch, Check, BeginCommand, CommandRefused, EndBuild, BuildGivesUp,
         EndRun, RunBreaks, UploadBegins, UploadAttemptFails, UploadEnds, QueueResult,
         QueueArtifact, UploadGivenUp, QueueFails, JudgeRun, EndApply, EndTests, MainStep,
         DeadlineExpires, vars, reportVars

\* The archive keeps what it has, and what is told of it is true.
LEMMA HandleKeepsArchive ==
    ASSUME UploadsAreWhole, ArchiveInv, HandleArtifact PROVE ArchiveInv'
<1> USE DEF ArchiveInv, AuditedIsArchived
<1>1. PICK message \in artifacts :
        ArchiveArtifact(message) \/ AuditArtifact(message) \/ LeaveArtifact(message)
  BY DEF HandleArtifact
<1>2. UNCHANGED artifacts
  BY DEF HandleArtifact, vars, reportVars
<1>3. CASE ArchiveArtifact(message)
  <2>1. PICK b \in store :
            b.name = Name(message) /\ archive' = Put(archive, b.name, b.content)
    BY <1>3 DEF ArchiveArtifact
  <2>2. b.content = b.name
    <3>1. b = [name |-> b.name, content |-> b.name]
      BY DEF UploadsAreWhole
    <3>2. [name |-> b.name, content |-> b.name].content = b.name
      OBVIOUS
    <3> QED BY <3>1, <3>2
  <2>3. archive' = Put(archive, Name(message), Name(message))
    BY <2>1, <2>2
  <2>4. /\ \A c \in archive' : c = [name |-> c.name, content |-> c.name]
        /\ Whole(archive', Name(message))
        /\ \A other : Whole(archive, other) => Whole(archive', other)
    BY <2>3, PutWhole
  <2>5. archiving' = archiving \cup {message} /\ audited' = audited
    BY <1>3 DEF ArchiveArtifact
  <2>6. \A m \in archiving' : Whole(archive', Name(m))
    BY <2>4, <2>5
  <2> QED BY <1>1, <1>2, <2>4, <2>5, <2>6 DEF Name
<1>4. CASE AuditArtifact(message)
  BY <1>2, <1>4 DEF AuditArtifact, Name
<1>5. CASE LeaveArtifact(message)
  BY <1>2, <1>5 DEF LeaveArtifact, Name
<1> QED BY <1>1, <1>3, <1>4, <1>5

\* The invariants of the worker and of the archive hold together.
THEOREM Inductive == ArtifactsSpec => [](IInv /\ ArchiveInv)
<1>1. ArtifactsInit => IInv /\ ArchiveInv
  BY InitHoldsIInv DEF ArtifactsInit, ArchiveInv, AuditedIsArchived
<1>2. IInv /\ ArchiveInv /\ [ArtifactsNext]_<<vars, artifactVars>> => IInv' /\ ArchiveInv'
  <2> SUFFICES ASSUME IInv, ArchiveInv, [ArtifactsNext]_<<vars, artifactVars>>
               PROVE  IInv' /\ ArchiveInv'
    OBVIOUS
  <2>1. [Next]_vars
    BY DEF ArtifactsNext, HandleArtifact
  <2>2. CASE UNCHANGED artifactVars
    <3>1. artifacts \subseteq artifacts'
      BY <2>1, ArtifactsStay
    <3>2. ArchiveInv'
      BY <2>2, <3>1 DEF ArchiveInv, AuditedIsArchived, artifactVars, Name
    <3> QED BY <2>1, <3>2, NextKeepsIInv
  <2>3. CASE HandleArtifact
    BY <2>1, <2>3, NextKeepsIInv, HandleKeepsArchive DEF IInv
  <2> QED BY <2>2, <2>3 DEF ArtifactsNext
<1> QED BY <1>1, <1>2, PTL DEF ArtifactsSpec

\* The evidence of an evaluation is reported before a verdict rests on it, stored when it is
\* reported, and archived when the audit log says so.
THEOREM EvidenceIsNotLost == ArtifactsSpec => []EvidenceIsKept
<1>1. IInv => ReportsPrecedeVerdict
  <2> SUFFICES ASSUME IInv, NEW v \in final, v.status \in {"passed", "failed"},
                      NEW h \in seen, h.stage.do = "pov"
               PROVE  h.stage \in results
    BY DEF ReportsPrecedeVerdict
  <2>1. v \in result
    BY DEF IInv, VerdictFollowsResult
  <2> QED BY <2>1 DEF IInv, RunsAreReported
<1> QED BY <1>1, Inductive, PTL DEF IInv, ArchiveInv, EvidenceIsKept

\* The fuzz.out that goes with a verdict is that of the run it decided.
THEOREM FuzzOutIsTheRuns == ArtifactsSpec => []FuzzOutIsOfItsRun
<1>1. IInv => FuzzOutIsOfItsRun
  <2> SUFFICES ASSUME IInv, NEW a \in artifacts, a.of # a.stage
               PROVE  /\ "error" \in OutcomesOf(a.stage)
                      /\ \A v \in final : v.status \notin {"passed", "failed"}
    BY DEF FuzzOutIsOfItsRun
  <2>1. "error" \in OutcomesOf(a.stage) /\ \A r \in result : r.status = "errored"
    BY DEF IInv, OthersEndInErrors
  <2> QED BY <2>1 DEF IInv, VerdictFollowsResult
<1> QED BY <1>1, Inductive, PTL

\* A failed patch is reported with failed tests exactly when it is the tests that failed.
THEOREM FlagMeansTests == ArtifactsSpec => []TestsFailedMeansTests
<1>1. IInv => TestsFailedMeansTests
  BY DEF IInv, VerdictFollowsResult, TestsFailedMeansTests
<1> QED BY <1>1, Inductive, PTL
=============================================================================
