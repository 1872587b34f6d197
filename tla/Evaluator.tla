------------------------------ MODULE Evaluator ------------------------------
(***************************************************************************)
(* The evaluation worker of one pod ("worker eval").  Evaluate starts a    *)
(* goroutine that goes through the stages of the evaluation and waits for  *)
(* its error or for the deadline of eight hours, whichever comes first;    *)
(* then it sends the final message and the process exits, whatever the     *)
(* goroutine does at that time.                                            *)
(*                                                                         *)
(* The tools (git apply, the build, the fuzz target, the tests) report     *)
(* with an exit code: 0, 202 for "the submission is at fault", anything    *)
(* else for a problem of their own.  Here: "ok", "bad" and "error", and    *)
(* Scripts says which of them comes of what happens.                       *)
(***************************************************************************)
EXTENDS Uploads

CONSTANT Inputs     \* the combinations of command line flags that are used

\* base: --base-repo-url is given (delta scans); trigger: --trigger-url; patch:
\* --patch-url; skipTests: --skip-patch-tests.
ASSUME InputsAssumption ==
    \A i \in Inputs :
        /\ i \in [trigger : BOOLEAN, base : BOOLEAN, patch : BOOLEAN, skipTests : BOOLEAN]
        /\ i.trigger \/ i.patch

MaxBuilds == 4      \* retry.WithMaxRetries(3)
MaxRuns == 3        \* loopCount of a run that should not crash

\* The stages in the order evaluate, runBaseTests, runPovTests and runPatchTests
\* take them.
AllStages == <<
    [do |-> "fetch", on |-> "tooling"], [do |-> "fetch", on |-> "head"],
    [do |-> "check", on |-> "head"],    [do |-> "fetch", on |-> "trigger"],
    [do |-> "fetch", on |-> "base"],    [do |-> "build", on |-> "base"],
    [do |-> "pov", on |-> "base"],
    [do |-> "build", on |-> "head"],    [do |-> "pov", on |-> "head"],
    [do |-> "fetch", on |-> "patch"],   [do |-> "apply", on |-> "patch"],
    [do |-> "build", on |-> "patch"],   [do |-> "pov", on |-> "patch"],
    [do |-> "tests", on |-> "patch"] >>

Stages == {AllStages[k] : k \in DOMAIN AllStages}

Applies(i, st) ==
    \/ st.on = "tooling" \/ st.do = "check" \/ st = [do |-> "fetch", on |-> "head"]
    \/ st.on = "trigger" /\ i.trigger
    \/ st.on = "base" /\ i.trigger /\ i.base /\ ~i.patch
    \/ st.on = "head" /\ st.do \in {"build", "pov"} /\ i.trigger /\ ~i.patch
    \/ st.on = "patch" /\ i.patch /\ st.do \in {"fetch", "apply", "build"}
    \/ st.on = "patch" /\ i.patch /\ st.do = "pov" /\ i.trigger
    \/ st.on = "patch" /\ i.patch /\ st.do = "tests" /\ ~i.skipTests

\* What Evaluate makes of the error of evaluate: passed for nil, the status of a
\* StatusError, errored for any other error.
Results == [status : {"passed", "failed", "errored"}, testsFailed : BOOLEAN]

Verdicts == [status : {"passed", "failed", "errored", "inconclusive"}, testsFailed : BOOLEAN]

\* RunPov after the last run: what it uploads and queues, and the exit code at the end.
ReportSteps == {"stdout", "stderr", "result", "fuzz.out", "artifact", "exit code"}

VARIABLES
    input,      \* the flags
    at,         \* how far evaluate is in AllStages
    step,       \* in that stage: "idle", "running" a command, or what RunPov does after it
    tries,      \* commands of this stage that have ended
    last,       \* the outcome of the last pov run
    troubled,   \* a build attempt of this stage ended with "error"
    result,     \* {} or what evaluate returned
    expired,    \* the deadline of the context has passed
    main,       \* where Evaluate is
    verdict,    \* {} or its status and patchTestsFailed
    results,    \* the stages whose command result is in the queue
    artifacts,  \* the artifacts in the queue: a fuzz.out, with its stage in the message
    fuzzOut,    \* {} or the stage whose run wrote /tmp/fuzz.out
    final,      \* {} or the final message in the queue
    seen        \* history: what happened in each stage and the outcome of its commands

stageVars == <<at, step, tries, last, troubled>>
reportVars == <<results, artifacts, fuzzOut, uploadVars>>
vars == <<input, stageVars, result, expired, main, verdict, reportVars, final, seen>>

Init ==
    /\ input \in Inputs
    /\ at = 1
    /\ step = "idle"
    /\ tries = 0
    /\ last = "ok"
    /\ troubled = FALSE
    /\ result = {}
    /\ expired = FALSE
    /\ main = "starting"
    /\ verdict = {}
    /\ results = {}
    /\ artifacts = {}
    /\ fuzzOut = {}
    /\ UploadsInit
    /\ final = {}
    /\ seen = {}

\* Type correctness; a stage of BuildRetryEngine or RunPov never runs a command once more
\* than its limit allows.
TypeOK ==
    /\ input \in Inputs
    /\ at \in 1 .. Len(AllStages)
    /\ step \in {"idle", "running"} \cup ReportSteps
    /\ tries \in 0 .. MaxBuilds
    /\ last \in Outcomes
    /\ troubled \in BOOLEAN
    /\ result \subseteq Results
    /\ expired \in BOOLEAN
    /\ main \in {"starting", "waiting", "sending", "exit 0", "exit errored"}
    /\ verdict \subseteq Verdicts
    /\ results \subseteq Stages
    /\ artifacts \subseteq [stage : Stages, of : Stages]
    /\ fuzzOut \in SUBSET Stages /\ \A st, other \in fuzzOut : st = other
    /\ UploadsTypeOK([what : {"stdout", "stderr", "fuzz.out"}, of : Stages])
    /\ final \subseteq Verdicts
    /\ seen \subseteq [stage : Stages, event : Events, outcome : Outcomes]

-----------------------------------------------------------------------------
(* The goroutine: evaluate and the engine. *)

Evaluating ==
    /\ main \in {"waiting", "sending"}
    /\ result = {}

Stage == AllStages[at]

\* The stages evaluate has still to go through.
Ahead == {k \in at + 1 .. Len(AllStages) : Applies(input, AllStages[k])}

CrashExpected == Stage.on = "head"

\* A build that succeeds makes good the attempts before it.
Forgotten(o) == {h \in seen : Stage.do = "build" /\ o = "ok" /\ h.stage = Stage}

\* What may happen in a stage, with what the engine makes of it.
PossibleIn(st) ==
    CASE st.do = "check" -> CheckResults
      [] st.do = "build" -> BuildResults
      [] st.do = "pov" -> PovResults[st.on = "head"]
      [] st.do = "tests" -> TestsResults
      [] st.do = "apply" -> ApplyResults

\* Something happens in the stage, and the engine makes the outcome o of it.
Happens(o) ==
    \E r \in PossibleIn(Stage) :
        /\ r.outcome = o
        /\ seen' = (seen \ Forgotten(o))
                \cup {[stage |-> Stage, event |-> r.event, outcome |-> o]}

\* The stage returned nil; after the last one evaluate does.
NextStage ==
    /\ \/ /\ Ahead = {}
          /\ result' = {[status |-> "passed", testsFailed |-> FALSE]}
          /\ UNCHANGED at
       \/ /\ at' \in Ahead /\ \A k \in Ahead : at' <= k
          /\ result' = {}
    /\ step' = "idle"
    /\ tries' = 0
    /\ troubled' = FALSE
    /\ UNCHANGED last

\* evaluate returns, and its locals are gone.
Return(status, testsFailed) ==
    /\ result' = {[status |-> status, testsFailed |-> testsFailed]}
    /\ step' = "idle" /\ tries' = 0 /\ last' = "ok" /\ troubled' = FALSE
    /\ UNCHANGED at

\* fetchExtractRepo and fetchFile.
Fetch ==
    /\ Evaluating /\ Stage.do = "fetch"
    /\ NextStage \/ Return("errored", FALSE)
    /\ UNCHANGED <<reportVars, seen>>

\* Check: "bad" for an architecture, engine, sanitizer or harness that is not allowed.
Check ==
    /\ Evaluating /\ Stage.do = "check"
    /\ \E o \in Outcomes :
        /\ Happens(o)
        /\ \/ o = "ok" /\ NextStage
           \/ o = "bad" /\ Return("failed", FALSE)
           \/ o = "error" /\ Return("errored", FALSE)
    /\ UNCHANGED reportVars

\* Execute starts the command, unless the context is done.
BeginCommand ==
    /\ Evaluating /\ Stage.do \in {"apply", "build", "pov", "tests"}
    /\ step = "idle" /\ ~expired
    /\ step' = "running"
    /\ UNCHANGED <<at, tries, last, troubled, result, reportVars, seen>>

\* With the context done Execute returns its error (ApplyPatch looks at the patch first).
CommandRefused ==
    /\ Evaluating /\ Stage.do \in {"apply", "pov", "tests"}
    /\ step = "idle" /\ expired
    /\ \/ Return("errored", FALSE)
       \/ Stage.do = "apply" /\ Return("failed", FALSE)
    /\ UNCHANGED <<reportVars, seen>>

\* Mutant: the patch that was built last decides, whatever the attempts before it did.
BuildReturnsFailed(trouble) ==
    IF Stage.on = "patch" THEN Return("failed", FALSE) ELSE Return("errored", FALSE)

\* The attempts are used up: one error among them and the build is errored, else the
\* patch is at fault; runPovTests makes every failure an error.
BuildReturns(trouble) ==
    IF Stage.on = "patch" /\ ~trouble THEN Return("failed", FALSE) ELSE Return("errored", FALSE)

\* Mutant: the last attempt is not counted.
EndBuildOneMore ==
    /\ Evaluating /\ Stage.do = "build" /\ step = "running"
    /\ \E o \in Outcomes :
        /\ Happens(o)
        /\ \/ o = "ok" /\ NextStage
           \/ /\ o # "ok" /\ tries <= MaxBuilds
              /\ tries' = tries + 1
              /\ troubled' = (troubled \/ o = "error")
              /\ step' = "idle"
              /\ UNCHANGED <<at, last, result>>
           \/ /\ o # "ok" /\ tries > MaxBuilds
              /\ BuildReturns(troubled \/ o = "error")
    /\ UNCHANGED reportVars

\* Build, with the retries of BuildRetryEngine around it.  ErrAptUnreachable and
\* ErrMavenUnreachable are errors too.
EndBuild ==
    /\ Evaluating /\ Stage.do = "build" /\ step = "running"
    /\ \E o \in Outcomes :
        /\ Happens(o)
        /\ \/ o = "ok" /\ NextStage
           \/ /\ o # "ok" /\ tries + 1 < MaxBuilds
              /\ tries' = tries + 1
              /\ troubled' = (troubled \/ o = "error")
              /\ step' = "idle"
              /\ UNCHANGED <<at, last, result>>
           \/ /\ o # "ok" /\ tries + 1 = MaxBuilds
              /\ BuildReturns(troubled \/ o = "error")
    /\ UNCHANGED reportVars

\* The retry loop stops when the context is done, before an attempt or in its pause.
BuildGivesUp ==
    /\ Evaluating /\ Stage.do = "build"
    /\ step = "idle" /\ expired
    /\ BuildReturns(troubled)
    /\ UNCHANGED <<reportVars, seen>>

\* Mutant: it does after it has judged the run and found what is expected.
RunWritesSuccess(o) == fuzzOut' = IF o = "ok" THEN {Stage} ELSE fuzzOut

\* run_pov.sh puts the output of a run together in /tmp/fuzz.out, unless it ends before.
RunWrites(o) ==
    fuzzOut' \in IF o = "error" THEN {fuzzOut, {Stage}} ELSE {{Stage}}

\* Mutant: the loop does not end at the first crash.
EndRunGoesOn ==
    /\ Evaluating /\ Stage.do = "pov" /\ step = "running"
    /\ \E o \in Outcomes :
        /\ Happens(o) /\ RunWrites(o)
        /\ last' = o
        /\ tries' = tries + 1
        /\ step' = IF CrashExpected \/ tries' = MaxRuns THEN "stdout" ELSE "idle"
    /\ UNCHANGED <<at, troubled, result, results, artifacts, uploadVars>>

\* Mutant: the exit code is looked at before the output is uploaded and reported.
EndRunJudges ==
    /\ Evaluating /\ Stage.do = "pov" /\ step = "running"
    /\ \E o \in Outcomes :
        /\ Happens(o) /\ RunWrites(o)
        /\ last' = o
        /\ tries' = tries + 1
        /\ step' = IF o = "bad" THEN "exit code"
                   ELSE IF CrashExpected \/ tries' = MaxRuns THEN "stdout" ELSE "idle"
    /\ UNCHANGED <<at, troubled, result, results, artifacts, uploadVars>>

\* The loop of RunPov: one run when the target should crash, else three or up to the
\* first crash.  A run with another exit code does not end the loop, and a later run
\* hides it.
EndRun ==
    /\ Evaluating /\ Stage.do = "pov" /\ step = "running"
    /\ \E o \in Outcomes :
        /\ Happens(o) /\ RunWrites(o)
        /\ last' = o
        /\ tries' = tries + 1
        /\ step' = IF CrashExpected \/ o = "bad" \/ tries' = MaxRuns
                   THEN "stdout" ELSE "idle"
    /\ UNCHANGED <<at, troubled, result, results, artifacts, uploadVars>>

\* The command could not be run at all.
RunBreaks ==
    /\ Evaluating /\ Stage.do = "pov" /\ step = "running"
    /\ Return("errored", FALSE)
    /\ UNCHANGED <<reportVars, seen>>

WriterOf(files) == CHOOSE st \in files : TRUE

\* What is uploaded now: the output of the last run, or the file that is there.
Blob ==
    [what |-> step,
     of |-> IF step = "fuzz.out" THEN WriterOf(fuzzOut) ELSE Stage]

Uploading == Evaluating /\ step \in {"stdout", "stderr", "fuzz.out"}

AfterUpload(what) ==
    CASE what = "stdout" -> "stderr" [] what = "stderr" -> "result" [] OTHER -> "artifact"

UploadBegins ==
    /\ Uploading /\ BeginUpload(Blob)
    /\ UNCHANGED <<stageVars, result, results, artifacts, fuzzOut, seen>>

UploadAttemptFails ==
    /\ Uploading /\ AttemptFails(Blob)
    /\ UNCHANGED <<stageVars, result, results, artifacts, fuzzOut, seen>>

UploadEnds ==
    /\ Uploading
    /\ FindUploaded(Blob) \/ FinishUpload(Blob)
    /\ step' = AfterUpload(step)
    /\ UNCHANGED <<at, tries, last, troubled, result, results, artifacts, fuzzOut, seen>>

\* CommandResult, with the hashes of the output; then the Stat of fuzz.out.
QueueResult ==
    /\ Evaluating /\ step = "result"
    /\ results' = results \cup {Stage}
    /\ step' = IF fuzzOut = {} THEN "exit code" ELSE "fuzz.out"
    /\ UNCHANGED <<at, tries, last, troubled, result, artifacts, fuzzOut, uploadVars, seen>>

\* Artifact, with the context of this run and the hash of fuzz.out.
QueueArtifact ==
    /\ Evaluating /\ step = "artifact"
    /\ artifacts' = artifacts \cup [stage : {Stage}, of : fuzzOut]
    /\ step' = "exit code"
    /\ UNCHANGED <<at, tries, last, troubled, result, results, fuzzOut, uploadVars, seen>>

\* The retries of an upload end ...
UploadGivenUp ==
    /\ Uploading /\ AbandonUpload
    /\ Return("errored", FALSE)
    /\ UNCHANGED <<results, artifacts, fuzzOut, seen>>

\* ... or a message fails, and may be in the queue all the same.
QueueFails ==
    /\ Evaluating
    /\ \/ step = "result" /\ results' \in {results, results \cup {Stage}} /\ UNCHANGED artifacts
       \/ /\ step = "artifact" /\ UNCHANGED results
          /\ artifacts' \in {artifacts, artifacts \cup [stage : {Stage}, of : fuzzOut]}
    /\ Return("errored", FALSE)
    /\ UNCHANGED <<fuzzOut, uploadVars, seen>>

\* The switch at the end of RunPov.
JudgeRun ==
    /\ Evaluating /\ step = "exit code"
    /\ \/ last = "ok" /\ NextStage
       \/ last = "bad" /\ Return("failed", FALSE)
       \/ last = "error" /\ Return("errored", FALSE)
    /\ UNCHANGED <<reportVars, seen>>

\* ApplyPatch: "bad" for a patch that does not parse or apply, or that touches a
\* file of another language.
EndApply ==
    /\ Evaluating /\ Stage.do = "apply" /\ step = "running"
    /\ \E o \in Outcomes :
        /\ Happens(o)
        /\ \/ o = "ok" /\ NextStage
           \/ o = "bad" /\ Return("failed", FALSE)
           \/ o = "error" /\ Return("errored", FALSE)
    /\ UNCHANGED reportVars

\* Mutant: the failed tests are an ordinary failure.
EndTestsPlain ==
    /\ Evaluating /\ Stage.do = "tests" /\ step = "running"
    /\ \E o \in Outcomes :
        /\ Happens(o)
        /\ \/ o = "ok" /\ NextStage
           \/ o = "bad" /\ Return("failed", FALSE)
           \/ o = "error" /\ Return("errored", FALSE)
    /\ UNCHANGED reportVars

\* RunTests is the only one to set PatchTestsFailed.
EndTests ==
    /\ Evaluating /\ Stage.do = "tests" /\ step = "running"
    /\ \E o \in Outcomes :
        /\ Happens(o)
        /\ \/ o = "ok" /\ NextStage
           \/ o = "bad" /\ Return("failed", TRUE)
           \/ o = "error" /\ Return("errored", FALSE)
    /\ UNCHANGED reportVars

EvaluateStep ==
    /\ \/ Fetch \/ Check
       \/ BeginCommand \/ CommandRefused
       \/ EndBuild \/ BuildGivesUp
       \/ EndRun \/ RunBreaks
       \/ UploadBegins \/ UploadAttemptFails \/ UploadEnds
       \/ QueueResult \/ QueueArtifact \/ UploadGivenUp \/ QueueFails \/ JudgeRun
       \/ EndApply \/ EndTests
    /\ UNCHANGED <<input, expired, main, verdict, final>>

-----------------------------------------------------------------------------
(* The process and Evaluate. *)

\* The command of the worker makes its clients and calls Evaluate.
Start ==
    /\ main = "starting"
    /\ main' = "waiting"
    /\ UNCHANGED <<verdict, final>>

SetupFails ==
    /\ main = "starting"
    /\ main' = "exit errored"
    /\ UNCHANGED <<verdict, final>>

\* Mutant: Evaluate waits for evaluate only.
TimeOutAfterResult ==
    /\ main = "waiting" /\ expired /\ result # {}
    /\ verdict' = {[status |-> "inconclusive", testsFailed |-> FALSE]}
    /\ main' = "sending"
    /\ UNCHANGED final

\* The select of Evaluate: the deadline ...
TimeOut ==
    /\ main = "waiting" /\ expired
    /\ verdict' = {[status |-> "inconclusive", testsFailed |-> FALSE]}
    /\ main' = "sending"
    /\ UNCHANGED final

\* ... or the error of evaluate; it looks at the deadline again, and keeps
\* patchTestsFailed when it finds it exceeded.
ReceiveResult ==
    /\ main = "waiting" /\ result # {}
    /\ verdict' = {IF expired THEN [r EXCEPT !.status = "inconclusive"] ELSE r : r \in result}
    /\ main' = "sending"
    /\ UNCHANGED final

\* FinalMessage, on a context without the deadline; then the process exits.
SendFinal ==
    /\ main = "sending"
    /\ final' = verdict
    /\ main' = "exit 0"
    /\ UNCHANGED verdict

\* Mutant: the error of FinalMessage is only logged.
SendFinalErrorLost ==
    /\ main = "sending"
    /\ final' \in {{}, verdict}
    /\ main' = "exit 0"
    /\ UNCHANGED verdict

SendFinalFails ==
    /\ main = "sending"
    /\ final' \in {{}, verdict}
    /\ main' = "exit errored"
    /\ UNCHANGED verdict

MainStep ==
    /\ \/ Start \/ SetupFails
       \/ TimeOut \/ ReceiveResult
       \/ SendFinal \/ SendFinalFails
    /\ UNCHANGED <<input, stageVars, result, expired, reportVars, seen>>

DeadlineExpires ==
    /\ main \in {"waiting", "sending"} /\ ~expired
    /\ expired' = TRUE
    /\ UNCHANGED <<input, stageVars, result, main, verdict, reportVars, final, seen>>

Next == EvaluateStep \/ MainStep \/ DeadlineExpires

\* Evaluate makes progress and time passes.  Nothing is assumed of the goroutine: a
\* tool may hang for ever.
Fairness == WF_vars(MainStep) /\ WF_vars(DeadlineExpires)

Spec == Init /\ [][Next]_vars /\ Fairness

-----------------------------------------------------------------------------
(* Properties. *)

OutcomesOf(st) == {h.outcome : h \in {g \in seen : g.stage = st}}

EventsOf(st) == {h.event : h \in {g \in seen : g.stage = st}}

FailedTests == \E h \in seen : h.stage.do = "tests" /\ h.outcome = "bad"

\* A submission fails only through a fault of its own: never because a deadline, an
\* error of the infrastructure or the challenge's own build got in the way, and a patch
\* that does not build only if all its attempts said so; only what cannot be told from a
\* fault (LooksLikeAFault) may decide as one does, and that takes a patch or a run of a
\* target, which was killed from outside or whose output came late
\* (BuildRetryEngine.Build, runPovTests, Evaluate, build_cr.sh, run_pov.sh, run_tests.sh).
FailedHasAFault ==
    \A v \in final : v.status = "failed" =>
        \E h \in seen :
            /\ h.outcome = "bad"
            /\ h.event # "prevented"
            /\ h.event \in LooksLikeAFault => h.stage.on = "patch" \/ h.stage.do = "pov"
            /\ h.stage.do = "build" => h.stage.on = "patch" /\ OutcomesOf(h.stage) = {"bad"}

\* A failed patch is reported with failed tests exactly when it is the tests that
\* failed; with another status only an inconclusive one may carry the flag.
TestsFailedMeansTests ==
    \A v \in final :
        /\ v.status = "failed" => (v.testsFailed <=> FailedTests)
        /\ v.testsFailed => FailedTests /\ v.status \in {"failed", "inconclusive"}

\* A verdict that the runs of a target decided comes after the messages with their
\* output: passed and failed leave no run unreported (RunPov, FinalMessage).
ReportsPrecedeVerdict ==
    \A v \in final : v.status \in {"passed", "failed"} =>
        \A h \in seen : h.stage.do = "pov" => h.stage \in results

\* The messages of the worker name what is in the container: every blob of a command
\* result and of an artifact is there as a whole under its hash, whatever attempts of its
\* upload failed half-way (RunPov, Hashed, RetryUploader).
BlobsAreWhole ==
    /\ \A st \in results, what \in {"stdout", "stderr"} :
            Whole(store, [what |-> what, of |-> st])
    /\ \A a \in artifacts : Whole(store, [what |-> "fuzz.out", of |-> a.of])

\* The fuzz.out that goes with a verdict is that of the run it decided: every run writes
\* the same file, and a run that ended before it did leaves the file of an earlier stage,
\* which is only reported with a run that failed itself (RunPov, run_pov.sh).
FuzzOutIsOfItsRun ==
    \A a \in artifacts :
        \/ a.of = a.stage
        \/ "error" \in OutcomesOf(a.stage) /\ \A v \in final : v.status \notin {"passed", "failed"}

\* What a stage is there to find out: the challenge and the patch fit, the code is built,
\* the tests passed; the target crashed, or it ran and did not.  A run that was killed from
\* outside counts as a crash.
Achieved(st) ==
    CASE st.do = "fetch" -> TRUE
      [] st.do \in {"check", "apply"} -> EventsOf(st) = {"fits"}
      [] st.do = "build" -> "built" \in EventsOf(st)
      [] st.do = "tests" -> EventsOf(st) = {"passed"}
      [] st.do = "pov" /\ st.on = "head" ->
            EventsOf(st) # {} /\ EventsOf(st) \subseteq {"crash", "killed"}
      [] st.do = "pov" /\ st.on # "head" ->
            "crash" \notin EventsOf(st) /\ EventsOf(st) # {"prevented"}

\* A passed submission is what it claims: its crash was there on the head, not on the
\* base nor after the patch, where the target did run; its patch touched files of the
\* allowed languages only, applied, compiled and kept the tests passing - whatever exit
\* codes and output the engine and its scripts had to tell this from (run_pov.sh,
\* crash_interpret_config.py, build_cr.sh, run_tests.sh, ApplyPatch).  Only a run that is
\* killed from outside may pass for a crash, and only a crash that comes late may go
\* unnoticed.
PassedIsTrue ==
    [status |-> "passed", testsFailed |-> FALSE] \in final =>
        \A st \in Stages : Applies(input, st) => Achieved(st)

\* The worker ends, with a verdict sent or an error, even if a tool hangs for ever.
EvaluationEnds == <>(main \in {"exit 0", "exit errored"})

-----------------------------------------------------------------------------
(* The inductive invariant behind TestsFailedMeansTests, ReportsPrecedeVerdict,  *)
(* BlobsAreWhole and FuzzOutIsOfItsRun.                                          *)

Stored(what, st) == Whole(store, [what |-> what, of |-> st])

\* What is stored is what was hashed, and an upload is of what RunPov is about to report.
UploadsAreWhole ==
    /\ \A b \in store : b = [name |-> b.name, content |-> b.name]
    /\ \A u \in upload :
        result = {} /\ step \in {"stdout", "stderr", "fuzz.out"} /\ u.name = Blob

\* RunPov reports what it has uploaded, and judges a run it has reported.
ReportsInOrder ==
    /\ result = {} /\ step \in ReportSteps => Stage.do = "pov"
    /\ result = {} /\ step \in ReportSteps \ {"stdout"} => Stored("stdout", Stage)
    /\ result = {} /\ step \in ReportSteps \ {"stdout", "stderr"} => Stored("stderr", Stage)
    /\ result = {} /\ step = "artifact" => \A st \in fuzzOut : Stored("fuzz.out", st)
    /\ result = {} /\ step \in {"fuzz.out", "artifact", "exit code"} => Stage \in results

\* A run is reported, or it is the one at hand, or evaluate gave up.
RunsAreReported ==
    \A h \in seen : h.stage.do = "pov" =>
        \/ h.stage \in results
        \/ (result = {} => h.stage = Stage) /\ \A r \in result : r.status = "errored"

\* There is one fuzz.out; the last run that is not an error has written it.
FuzzOutOfLastRun ==
    /\ \A st, other \in fuzzOut : st = other
    /\ result = {} /\ step \in ReportSteps =>
        IF last = "error" THEN "error" \in OutcomesOf(Stage) ELSE fuzzOut = {Stage}

\* Another fuzz.out was reported with a run that ended in an error.
OthersEndInErrors ==
    \A a \in artifacts : a.of # a.stage =>
        /\ a.stage.do = "pov" /\ "error" \in OutcomesOf(a.stage)
        /\ result = {} => a.stage = Stage /\ last = "error" /\ step = "exit code"
        /\ \A r \in result : r.status = "errored"

\* The verdict is what evaluate returned, unless it is inconclusive.
VerdictFollowsResult ==
    /\ result \subseteq Results
    /\ \A r \in result : (r.testsFailed <=> FailedTests) /\ (r.testsFailed => r.status = "failed")
    /\ result = {} => ~FailedTests
    /\ \A v \in verdict \cup final :
        /\ v.status = "inconclusive" \/ v \in result
        /\ v.testsFailed => FailedTests /\ v.status \in {"failed", "inconclusive"}

\* The flags of the worker stay, and evaluate is in a stage that they ask for; a stage
\* without a command waits for nothing, and only a run has more to do after its command.
StageApplies ==
    /\ input \in Inputs /\ at \in 1 .. Len(AllStages) /\ Applies(input, Stage)
    /\ step \in {"idle", "running"} \cup ReportSteps
    /\ result = {} /\ Stage.do # "pov" => step \in {"idle", "running"}
    /\ result = {} /\ Stage.do \in {"fetch", "check"} => step = "idle"
    /\ result = {} /\ step \in {"fuzz.out", "artifact"} => fuzzOut # {}

\* What happened is something that the tool of its stage can make of some event, and the
\* flags ask for that stage.
SeenIsPossible ==
    \A h \in seen :
        /\ h \in [stage : Stages, event : Events, outcome : Outcomes]
        /\ Applies(input, h.stage) /\ h.stage.do # "fetch"
        /\ Result(h.event, h.outcome) \in PossibleIn(h.stage)

\* Nothing has happened in the stages to come, and those behind have succeeded: with
\* "ok" alone, or for a run that should not crash with "ok" once and never "bad".
Succeeded(st) ==
    /\ "ok" \in OutcomesOf(st) /\ "bad" \notin OutcomesOf(st)
    /\ st.do # "pov" \/ st.on = "head" => OutcomesOf(st) = {"ok"}

StagesInOrder ==
    \A k \in 1 .. Len(AllStages) :
        /\ k > at => OutcomesOf(AllStages[k]) = {}
        /\ k < at /\ Applies(input, AllStages[k]) /\ AllStages[k].do # "fetch" =>
                Succeeded(AllStages[k])

\* What the engine knows of the stage at hand, and the limits of its loops: a build is
\* tried again after failures only, and troubled tells an error among them; a target runs
\* again if it has not crashed, and not at all if it should.
StageAtHand ==
    result = {} =>
        /\ Stage.do \in {"fetch", "check", "apply", "tests"} => OutcomesOf(Stage) = {}
        /\ Stage.do = "build" =>
            /\ tries \in 0 .. MaxBuilds - 1
            /\ OutcomesOf(Stage) \subseteq IF troubled THEN {"bad", "error"} ELSE {"bad"}
        /\ Stage.do = "pov" /\ step \notin ReportSteps =>
            /\ tries \in 0 .. MaxRuns - 1
            /\ "bad" \notin OutcomesOf(Stage)
            /\ CrashExpected => OutcomesOf(Stage) = {}
        /\ Stage.do = "pov" /\ step \in ReportSteps =>
            /\ last \in OutcomesOf(Stage)
            /\ last # "bad" => "bad" \notin OutcomesOf(Stage)
            /\ CrashExpected => OutcomesOf(Stage) = {last}

\* The submission is at fault as far as the engine can tell.
Blamed ==
    \E h \in seen :
        /\ h.outcome = "bad"
        /\ h.stage.do = "build" => h.stage.on = "patch" /\ OutcomesOf(h.stage) = {"bad"}

\* A result is earned, but after the deadline a failure may just be an end of the retries.
ResultIsEarned ==
    /\ \A r \in result :
        /\ r.status = "passed" =>
            \A k \in 1 .. Len(AllStages) :
                Applies(input, AllStages[k]) /\ AllStages[k].do # "fetch" => Succeeded(AllStages[k])
        /\ r.status = "failed" => Blamed \/ expired
    /\ \A v \in verdict \cup final :
        /\ v.status # "inconclusive" => v \in result
        /\ v.status = "failed" => Blamed

\* The inductive invariant behind PassedIsTrue and FailedHasAFault.
JudgeInv ==
    /\ StageApplies
    /\ SeenIsPossible
    /\ StagesInOrder
    /\ StageAtHand
    /\ ResultIsEarned

IInv ==
    /\ BlobsAreWhole
    /\ UploadsAreWhole
    /\ ReportsInOrder
    /\ RunsAreReported
    /\ FuzzOutOfLastRun
    /\ OthersEndInErrors
    /\ VerdictFollowsResult
=============================================================================
