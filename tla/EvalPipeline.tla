---------------------------- MODULE EvalPipeline ----------------------------
(***************************************************************************)
(* The life of a submission, from its insert to its verdict: the handlers  *)
(* of the API, the evaluation job and its worker, the results queue, and   *)
(* the two components that decide the row, on every API server at once.    *)
(***************************************************************************)
EXTENDS QueueMonitor, JobController, SubmissionAPI, FiniteSets

CONSTANT MaxFaults      \* how many failures a behaviour may contain

ASSUME MaxFaultsAssumption == MaxFaults \in Nat

VARIABLE faults         \* the failures so far

vars == <<storeVars, monitorVars, jobVars, reconciles, apiVars, faults>>

Init ==
    /\ StoreInit
    /\ MonitorInit
    /\ JobsInit
    /\ ControllerInit
    /\ APIInit
    /\ faults = 0

\* Type correctness of every component's state.
TypeOK ==
    /\ StoreTypeOK
    /\ MonitorTypeOK
    /\ JobsTypeOK
    /\ ControllerTypeOK
    /\ APITypeOK
    /\ faults \in 0..MaxFaults

-----------------------------------------------------------------------------
(* What each component leaves to the others. *)

OnlyAPI == UNCHANGED <<monitorVars, reconciles>>

OnlyWorker == UNCHANGED <<storeVars, deliveries, reconciles, apiVars>>

OnlyMonitor == UNCHANGED <<jobVars, reconciles, apiVars>>

OnlyController == UNCHANGED <<monitorVars, apiVars>>

\* A team submits at any time; a submission belongs to one request.
Submit(p, s) ==
    /\ \E status \in InitialStatuses : InsertSubmission(p, s, status)
    /\ OnlyAPI
    /\ UNCHANGED faults

API(p) == APIStep(p) /\ OnlyAPI /\ UNCHANGED faults

Worker(s) == WorkerStep(s) /\ OnlyWorker /\ UNCHANGED faults

Monitor(p) == MonitorStep(p) /\ OnlyMonitor /\ UNCHANGED faults

Controller(p) == ControllerStep(p) /\ OnlyController /\ UNCHANGED faults

Visibility ==
    /\ \E m \in queue : VisibilityTimeout(m)
    /\ OnlyMonitor
    /\ UNCHANGED faults

\* A server dies with everything it was doing; it is restarted at once.
Crash(p) ==
    /\ requests' = {q \in requests : q.server # p}
    /\ deliveries' = {d \in deliveries : d.server # p}
    /\ reconciles' = {r \in reconciles : r.server # p}
    /\ Rollback({t \in txs : t.server = p})
    /\ UNCHANGED <<queue, jobVars, acked>>

Fault ==
    /\ faults < MaxFaults
    /\ faults' = faults + 1
    /\ \/ APIFault /\ OnlyAPI
       \/ WorkerFault /\ OnlyWorker
       \/ MonitorFault /\ OnlyMonitor
       \/ ControllerFault /\ OnlyController
       \/ \E p \in Servers : Crash(p)

Next ==
    \/ \E p \in Servers, s \in Submissions : Submit(p, s)
    \/ \E p \in Servers : API(p) \/ Monitor(p) \/ Controller(p)
    \/ \E s \in Submissions : Worker(s)
    \/ Visibility
    \/ Fault

Safety == Init /\ [][Next]_vars

\* Every loop keeps running, an evaluation ends (after eight hours at the latest)
\* and a hidden message comes back.  Nobody has to submit and nothing has to fail.
Fairness ==
    /\ \A p \in Servers :
        WF_vars(API(p)) /\ WF_vars(Monitor(p)) /\ WF_vars(Controller(p))
    /\ \A s \in Submissions : WF_vars(Worker(s))
    /\ WF_vars(Visibility)

Spec == Safety /\ Fairness

-----------------------------------------------------------------------------
(* Safety. *)

\* An evaluation that finished with exit code 0 is never forgotten: once its job is
\* complete, or removed, the row has left "accepted" or a final message is still in
\* the queue.  The last chance to decide the row otherwise, the failed job, is gone
\* then (worker exit code, MonitorResultsQueue, handleJobUpdate).
VerdictNotLost ==
    \A s \in Submissions :
        job[s] \in {"complete", "deleted"} /\ row[s] = "accepted"
            => \E m \in queue : m.body.sub = s

\* The audit log holds the verdict of every decided row, and each other result in it
\* is the work of a failure: the line is printed before the commit, so a transaction
\* that fails in between leaves a line behind (HandleFinalMessage, handleJobUpdate).
AuditTellsTheVerdict ==
    \A s \in Submissions :
        row[s] \in Verdicts =>
            /\ row[s] \in audited[s]
            /\ Cardinality(audited[s] \ {row[s]}) <= faults

\* The verdict of a patch and its functionality_tests_passing come from one writer:
\* only "failed" goes with failing tests, and a verdict that only a worker can have
\* reported goes with a value (the monitor stores both, the controller only the status).
TestsGoWithVerdict ==
    \A s \in Patches :
        /\ tests[s] = "false" => row[s] = "failed"
        /\ tests[s] # "null" => row[s] \in Verdicts
        /\ row[s] \in Verdicts \ {"errored"} => tests[s] # "null"

\* A 200 for an accepted submission means that its evaluation has been started, and
\* the submission of a request that is still to start it is still undecided.
AckMeansStarted ==
    /\ \A s \in acked : row[s] # "deadline_exceeded" => job[s] # "none"
    /\ \A q \in requests : q.step = "create job" => row[q.sub] = "accepted"

\* No two transactions have decided one row, and none has decided a decided row
\* (the WHERE status = 'accepted' of both writers, and the row lock).
OneWriterPerRow ==
    /\ \A t, u \in txs : t.sub = u.sub => t = u
    /\ \A t \in txs : row[t.sub] = "accepted"

\* A row leaves "accepted" once, for good, and with it functionality_tests_passing.
VerdictIsFinal ==
    [][\A s \in Submissions :
        row[s] \in Verdicts \cup {"deadline_exceeded"} =>
            row'[s] = row[s] /\ tests'[s] = tests[s]]_vars

-----------------------------------------------------------------------------
(* The inductive invariant behind VerdictNotLost and KeepsPromise. *)

\* A job exists only for a submission that was accepted in time, and a worker only
\* while its job runs.
JobsFollowRows ==
    \A s \in Submissions :
        /\ job[s] # "none" => row[s] \in {"accepted"} \cup Verdicts
        /\ worker[s] # "none" <=> job[s] = "running"
        /\ job[s] = "failed" => "errored" \in evidence[s]
        /\ row[s] \in Verdicts => row[s] \in evidence[s]

\* A submission has one request, and it starts at most one job.
RequestsPrecedeJobs ==
    /\ \A q \in requests :
        /\ q.status = "deadline_exceeded" =>
               row[q.sub] = "deadline_exceeded" /\ q.step # "create job"
        /\ q.status = "accepted" /\ q.step = "respond" => job[q.sub] # "none"
        /\ q.status = "accepted" /\ q.step # "respond" =>
               row[q.sub] = "accepted" /\ job[q.sub] = "none"
    /\ \A q1, q2 \in requests : q1.sub = q2.sub => q1 = q2

\* Messages, deliveries, reconciles and transactions carry verdicts that the
\* evaluation arrived at.
VerdictsHaveEvidence ==
    /\ \A m \in queue :
        job[m.body.sub] # "none" /\ m.body.status \in evidence[m.body.sub]
    /\ \A d \in deliveries :
        job[d.body.sub] # "none" /\ d.body.status \in evidence[d.body.sub]
    /\ \A r \in reconciles :
        /\ job[r.sub] \in {"complete", "failed", "deleted"}
        /\ r.step # "delete" => "errored" \in evidence[r.sub]

\* What a delivery will delete is the message it handles: a server handles one
\* message at a time, and no two messages share an identity.
LeasesMatchDeliveries ==
    /\ \A m, n \in queue : m.id = n.id => m = n
    /\ \A d1, d2 \in deliveries : d1.server = d2.server => d1 = d2
    /\ \A m \in queue, d \in deliveries :
        m.id = d.id /\ m.lease = {d.server} => m.body = d.body

\* Whoever is about to delete a message or a failed job found the row decided.
DeletedIsDecided ==
    /\ \A d \in deliveries : d.step = "delete" => row[d.body.sub] # "accepted"
    /\ \A r \in reconciles :
        r.step = "delete" => job[r.sub] \in {"complete", "deleted"} \/ row[r.sub] # "accepted"

\* A worker on its way to exit code 0 has its message in the queue, or has had it.
ExitingHasSent ==
    \A s \in Submissions :
        worker[s] = "exiting" /\ row[s] = "accepted" => \E m \in queue : m.body.sub = s

\* The inductive invariant: the handlers of the API, the workers, HandleFinalMessage and
\* handleJobUpdate all preserve the conjunction, and none of its parts on its own.
IInv ==
    /\ TypeOK
    /\ VerdictNotLost
    /\ OneWriterPerRow
    /\ AckMeansStarted
    /\ JobsFollowRows
    /\ RequestsPrecedeJobs
    /\ VerdictsHaveEvidence
    /\ LeasesMatchDeliveries
    /\ DeletedIsDecided
    /\ ExitingHasSent

-----------------------------------------------------------------------------
(* The inductive invariants behind AuditTellsTheVerdict and TestsGoWithVerdict. *)

\* The transactions that HandleFinalMessage or handleJobUpdate has in hand at a step;
\* the database may have ended them already.
InHand(step) ==
    {FinalTx(d) : d \in {e \in deliveries : e.step = step}}
        \cup {ErroredTx(r) : r \in {c \in reconciles : c.step = step}}

\* The results of s that are in the audit log, or will be although their transaction is
\* gone, and that no row and no open transaction accounts for.
Untold(s) ==
    {v \in Verdicts :
        /\ \/ v \in audited[s]
           \/ \E t \in InHand("audit") \ txs : t.sub = s /\ t.status = v
        /\ row[s] # v
        /\ ~ \E t \in txs : t.sub = s /\ t.status = v}

\* Each of those cost a failure, and what is about to be committed is in the log.
AuditInv ==
    /\ \A t \in InHand("commit") : t.status \in audited[t.sub]
    /\ \A s \in Submissions : row[s] \in Verdicts => row[s] \in audited[s]
    /\ \A s \in Submissions : Cardinality(Untold(s)) <= faults

\* What a transaction of a patch stores goes together.
TestsFit(t) ==
    /\ t.setTests = "false" => t.status = "failed"
    /\ t.sub \in Patches => t.setTests # "null" \/ t.status = "errored"

TestsInv == TestsGoWithVerdict /\ \A t \in txs : TestsFit(t)

-----------------------------------------------------------------------------
(* Liveness, and what the pipeline implements. *)

\* Whoever got a 200 for an accepted submission gets a verdict, whatever fails.
AckedIsDecided ==
    \A s \in Submissions : s \in acked /\ row[s] = "accepted" ~> row[s] \in Verdicts

\* Every job that was created is removed, and only after its row was decided or its
\* message is on the way.
JobsAreRemoved ==
    \A s \in Submissions : job[s] # "none" ~> job[s] = "deleted"

\* Every message is handled and deleted in the end.
QueueDrains == queue # {} ~> queue = {}

Promise == INSTANCE Verdict WITH status <- row, found <- evidence

\* Safety part of the promise: each step of the pipeline is a step of Verdict.
KeepsPromise == Promise!Safety

\* The promise with its liveness: what an evaluation arrived at decides the row.
FulfilsPromise == Promise!Spec

\* internal/types/submission_status.go: "All submissions marked accepted before the
\* deadline will be evaluated."
AcceptedIsEvaluated ==
    \A s \in Submissions : row[s] = "accepted" ~> evidence[s] # {}
=============================================================================
