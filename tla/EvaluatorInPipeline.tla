------------------------ MODULE EvaluatorInPipeline ------------------------
(***************************************************************************)
(* The evaluation worker next to what the pipeline makes of it: it is one  *)
(* of the workers of EvalJobs, and its final message is what QueueMonitor  *)
(* stores.                                                                 *)
(***************************************************************************)
EXTENDS Artifacts

\* The job at hand; a job of the job runner counts as what it is started for.
Kind == IF input.patch THEN "patch" ELSE "pov"

Body(v) == [sub |-> Kind, status |-> v.status, testsFailed |-> v.testsFailed]

\* The worker as the pipeline sees it.
WorkerState ==
    IF main = "exit 0" THEN "exiting"
    ELSE IF main = "exit errored" THEN "failing" ELSE "evaluating"

Jobs == INSTANCE EvalJobs WITH
    POVs <- {"pov"}, Patches <- {"patch"}, Servers <- {"server"}, MessageIDs <- {"id"},
    row <- [s \in {"pov", "patch"} |-> "accepted"],
    tests <- [s \in {"pov", "patch"} |-> "null"],
    txs <- {},
    audited <- [s \in {"pov", "patch"} |-> {}],
    queue <- {[id |-> "id", body |-> Body(v), lease |-> {}] : v \in final},
    job <- [s \in {"pov", "patch"} |-> IF s = Kind THEN "running" ELSE "none"],
    worker <- [s \in {"pov", "patch"} |-> IF s = Kind THEN WorkerState ELSE "none"],
    evidence <- [s \in {"pov", "patch"} |->
                    IF s = Kind THEN {v.status : v \in final} ELSE {}]

\* The worker that EvalJobs assumes: it ends with one message and exit code 0 or with
\* a failure, its message in the queue or not.
WorkerOfThePipeline ==
    [][ \/ Jobs!SendFinalMessage(Kind, {"id"})
        \/ Jobs!WorkerErrs(Kind)
        \/ Jobs!FinalMessageUnacknowledged(Kind) ]_<<WorkerState, final>>

Monitor == INSTANCE QueueMonitor WITH
    POVs <- {"pov"}, Patches <- {"patch"}, Servers <- {"server"}, MessageIDs <- {"id"},
    row <- [s \in {"pov", "patch"} |-> "accepted"],
    tests <- [s \in {"pov", "patch"} |-> "null"],
    txs <- {},
    audited <- [s \in {"pov", "patch"} |-> {}],
    queue <- {[id |-> "id", body |-> Body(v), lease |-> {}] : v \in final},
    deliveries <- {}

\* internal/types/patch.go: "null indicates the tests have not been run".
NullMeansTestsNotRun ==
    \A v \in final :
        Monitor!TestsToStore(Body(v)) # "null" =>
            \E h \in seen : h.stage.do = "tests"
=============================================================================
