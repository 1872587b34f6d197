---------------------------- MODULE SubmissionAPI ----------------------------
(***************************************************************************)
(* SubmitPOV and SubmitPatch of the competition API.  Both handlers insert *)
(* the row, then archive the file, then create the evaluation job, and     *)
(* answer.  Nothing takes the row back when a later step fails: the        *)
(* request gets a 500 and the row stays as it was inserted.                *)
(***************************************************************************)
EXTENDS EvalJobs

RequestSteps == {"archive", "create job", "respond"}

\* The status of a new row: the time of the request is before the deadline or not.
InitialStatuses == {"accepted", "deadline_exceeded"}

\* status is the handler's own copy of the row; it is what the response says.
Requests ==
    [server : Servers, sub : Submissions, status : InitialStatuses, step : RequestSteps]

VARIABLES
    requests,   \* requests past their insert
    acked       \* the submissions whose id a response with status 200 returned

apiVars == <<requests, acked>>

APIInit == requests = {} /\ acked = {}

APITypeOK ==
    /\ requests \subseteq Requests
    /\ acked \subseteq Submissions

-----------------------------------------------------------------------------

Proceed(q, step) == requests' = (requests \ {q}) \cup {[q EXCEPT !.step = step]}

EndRequest(q) == requests' = requests \ {q}

\* Past validation, upload and the deadline check.
InsertSubmission(p, s, status) ==
    /\ InsertRow(s, status)
    /\ requests' = requests \cup
           {[server |-> p, sub |-> s, status |-> status, step |-> "archive"]}
    /\ UNCHANGED <<jobVars, acked>>

ArchiveSubmission(q) ==
    /\ q.step = "archive"
    /\ Proceed(q, IF q.status = "accepted" THEN "create job" ELSE "respond")
    /\ UNCHANGED <<storeVars, jobVars, acked>>

\* The presigned URLs and the job.
StartEvaluation(q) ==
    /\ q.step = "create job"
    /\ CreateEvalJob(q.sub)
    /\ Proceed(q, "respond")
    /\ UNCHANGED <<storeVars, acked>>

Respond(q) ==
    /\ q.step = "respond"
    /\ acked' = acked \cup {q.sub}
    /\ EndRequest(q)
    /\ UNCHANGED <<storeVars, jobVars>>

APIStep(p) ==
    \E q \in requests :
        /\ q.server = p
        /\ ArchiveSubmission(q) \/ StartEvaluation(q) \/ Respond(q)

-----------------------------------------------------------------------------
(* Failures. *)

\* Mutant: an error of the archive or of the job client is only logged.
RequestFailureIgnored(q) ==
    /\ Proceed(q, "respond")
    /\ UNCHANGED <<storeVars, jobVars, acked>>

\* A step fails before it has an effect (a response nobody reads included).
RequestFails(q) ==
    /\ EndRequest(q)
    /\ UNCHANGED <<storeVars, jobVars, acked>>

\* Kubernetes created the job but its answer was lost.
StartUnacknowledged(q) ==
    /\ q.step = "create job"
    /\ CreateEvalJob(q.sub)
    /\ EndRequest(q)
    /\ UNCHANGED <<storeVars, acked>>

APIFault == \E q \in requests : RequestFails(q) \/ StartUnacknowledged(q)
=============================================================================
