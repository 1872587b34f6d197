------------------------------ MODULE EvalJobs ------------------------------
(***************************************************************************)
(* The Kubernetes job of a submission and the worker in its pod.  The job  *)
(* has a backoff limit of 0, so one failed pod fails it, but a pod failure *)
(* policy ignores disruptions: a pod that is evicted or preempted is       *)
(* replaced, and the evaluation runs again from its start.                 *)
(*                                                                         *)
(* The worker evaluates, sends its final message and exits: with 0 once    *)
(* the queue accepted the message, with a code for "errored" otherwise.    *)
(* Which verdict an evaluation arrives at is the business of Evaluator.    *)
(***************************************************************************)
EXTENDS ResultsQueue

\* none: not created; running: its pod is pending, running or being replaced;
\* complete, failed: the conditions JobComplete and JobFailed; deleted: gone.
JobStates == {"none", "running", "complete", "failed", "deleted"}

\* evaluating: before the final message; exiting, failing: on the way to exit code
\* 0, or another one; none: there is no pod.
WorkerStates == {"none", "evaluating", "exiting", "failing"}

VARIABLES
    job,        \* the evaluation job of each submission
    worker,     \* the worker in its pod
    evidence    \* history: the verdicts its evaluations arrived at, "errored" for
                \* a job that failed

jobVars == <<job, worker, evidence>>

JobsInit ==
    /\ job = [s \in Submissions |-> "none"]
    /\ worker = [s \in Submissions |-> "none"]
    /\ evidence = [s \in Submissions |-> {}]

JobsTypeOK ==
    /\ job \in [Submissions -> JobStates]
    /\ worker \in [Submissions -> WorkerStates]
    /\ evidence \in [Submissions -> SUBSET Verdicts]

-----------------------------------------------------------------------------

\* The job's name is made of the submission's own id: no other job has it.
CreateEvalJob(s) ==
    /\ job' = [job EXCEPT ![s] = "running"]
    /\ worker' = [worker EXCEPT ![s] = "evaluating"]
    /\ UNCHANGED evidence

WorkerBecomes(s, w) == worker' = [worker EXCEPT ![s] = w]

ArriveAt(s, v) == evidence' = [evidence EXCEPT ![s] = @ \cup {v}]

\* PatchTestsFailed is set by RunTests only, for a patch that failed them; it stays
\* set when the deadline then makes the verdict inconclusive.
FinalBodiesOf(s) ==
    {b \in FinalBodies :
        b.sub = s /\ (b.testsFailed => s \in Patches /\ b.status \in {"failed", "inconclusive"})}

\* Evaluate ends and the queue accepts the final message, as one message or, when
\* the SDK repeats a request whose response was lost, as two.
SendFinalMessage(s, copies) ==
    /\ worker[s] = "evaluating"
    /\ \E b \in FinalBodiesOf(s) :
        /\ Enqueue(copies, b)
        /\ ArriveAt(s, b.status)
    /\ WorkerBecomes(s, "exiting")
    /\ UNCHANGED job

\* The pod terminates; the job controller of Kubernetes sets the job's condition.
PodSucceeds(s) ==
    /\ worker[s] = "exiting"
    /\ job' = [job EXCEPT ![s] = "complete"]
    /\ WorkerBecomes(s, "none")
    /\ UNCHANGED <<queue, evidence>>

PodFails(s) ==
    /\ worker[s] = "failing"
    /\ job' = [job EXCEPT ![s] = "failed"]
    /\ ArriveAt(s, "errored")
    /\ WorkerBecomes(s, "none")
    /\ UNCHANGED queue

WorkerStep(s) ==
    \/ \E i \in MessageIDs : SendFinalMessage(s, {i})
    \/ PodSucceeds(s)
    \/ PodFails(s)

-----------------------------------------------------------------------------
(* Failures. *)

DuplicateFinalMessage(s) ==
    \E i, k \in MessageIDs : i # k /\ SendFinalMessage(s, {i, k})

\* The worker ends with an error without a message in the queue: it never reached
\* Evaluate, or FinalMessage returned an error.
WorkerErrs(s) ==
    /\ worker[s] = "evaluating"
    /\ WorkerBecomes(s, "failing")
    /\ UNCHANGED <<queue, job, evidence>>

\* FinalMessage returned an error although the message is in the queue.
FinalMessageUnacknowledged(s) ==
    /\ worker[s] = "evaluating"
    /\ \E i \in MessageIDs, b \in FinalBodiesOf(s) :
        /\ Enqueue({i}, b)
        /\ ArriveAt(s, b.status)
    /\ WorkerBecomes(s, "failing")
    /\ UNCHANGED job

\* The pod is killed in a way that is no disruption (out of memory, for one).
PodKilled(s) ==
    /\ worker[s] # "none"
    /\ job' = [job EXCEPT ![s] = "failed"]
    /\ ArriveAt(s, "errored")
    /\ WorkerBecomes(s, "none")
    /\ UNCHANGED queue

\* The pod is disrupted: the failure is ignored and a new pod starts over.
PodDisrupted(s) ==
    /\ worker[s] # "none"
    /\ WorkerBecomes(s, "evaluating")
    /\ UNCHANGED <<queue, job, evidence>>

WorkerFault ==
    \E s \in Submissions :
        \/ DuplicateFinalMessage(s)
        \/ WorkerErrs(s)
        \/ FinalMessageUnacknowledged(s)
        \/ PodKilled(s)
        \/ PodDisrupted(s)
=============================================================================
