------------------------------ MODULE JobRunner ------------------------------
(***************************************************************************)
(* The job runner: evaluations on demand, with a cache.  doJobWork looks   *)
(* for the newest row with the cache key of the request and, when there is *)
(* none, inserts one and creates its Kubernetes job before it commits.     *)
(* From then on the row is written by the messages of the worker, which    *)
(* append its reports (command results and artifacts) and store its        *)
(* verdict, and by the job controller when the job fails.                  *)
(*                                                                         *)
(* Each of those writes is one UPDATE, so the reception of a message, its  *)
(* handling and its deletion are one step here; QueueMonitor has them      *)
(* apart.  What matters is that the UPDATE of a row that is not committed  *)
(* matches nothing and that this is no error.                              *)
(***************************************************************************)
EXTENDS Naturals, Bags

CONSTANTS
    Keys,       \* cache keys
    Reports,    \* what an evaluation reports besides its verdict
    Verdicts,   \* verdicts of the worker
    MaxRequests,\* bound: jobs that are ever requested; a bulk request is one after another
    MaxJobs,    \* bound: rows that are ever inserted
    MaxFaults   \* bound: failures in a behaviour

ASSUME BoundsAssumption == MaxRequests \in Nat /\ MaxJobs \in Nat /\ MaxFaults \in Nat

ASSUME ValuesAssumption == "none" \notin Keys /\ Verdicts \cap {"absent", "accepted"} = {}

\* The id of a row; a later row has a greater one, as it has a later created_at.
JobIDs == 1 .. MaxJobs

Decided == Verdicts \cup {"errored"}

Messages ==
    [job : JobIDs, report : Reports] \cup [job : JobIDs, verdict : Verdicts]

VARIABLES
    status,     \* the committed rows' status, or "absent"
    reports,    \* and the reports in their results and artifacts columns
    key,        \* and their cache key; "none" for an id no row has
    requests,   \* calls of doJobWork in progress
    received,   \* and how many there have been
    answered,   \* jobs whose id a response returned
    job,        \* the Kubernetes jobs: "none", "running", "complete", "failed", "deleted"
    sent,       \* the reports the pod of each job has sent; {} without a pod
    exiting,    \* pods that have sent their final message
    queue,      \* the bag of messages not deleted yet
    reported,   \* history: the reports ever sent for each job
    early,      \* history: jobs of which the API handled something before their row
    faults      \* failures so far

rowVars == <<status, reports, key>>
podVars == <<job, sent, exiting, reported>>
vars == <<rowVars, requests, received, answered, podVars, queue, early, faults>>

Init ==
    /\ status = [j \in JobIDs |-> "absent"]
    /\ reports = [j \in JobIDs |-> {}]
    /\ key = [j \in JobIDs |-> "none"]
    /\ requests = {}
    /\ received = 0
    /\ answered = {}
    /\ job = [j \in JobIDs |-> "none"]
    /\ sent = [j \in JobIDs |-> {}]
    /\ exiting = {}
    /\ queue = EmptyBag
    /\ reported = [j \in JobIDs |-> {}]
    /\ early = {}
    /\ faults = 0

Steps == {"look", "insert", "create job", "commit", "respond"}

\* Type correctness.
TypeOK ==
    /\ status \in [JobIDs -> {"absent", "accepted"} \cup Decided]
    /\ reports \in [JobIDs -> SUBSET Reports]
    /\ key \in [JobIDs -> Keys \cup {"none"}]
    /\ requests \subseteq [id : 1 .. MaxRequests, key : Keys, step : Steps, job : 0 .. MaxJobs]
    /\ received \in 0 .. MaxRequests
    /\ answered \subseteq JobIDs
    /\ job \in [JobIDs -> {"none", "running", "complete", "failed", "deleted"}]
    /\ sent \in [JobIDs -> SUBSET Reports]
    /\ exiting \subseteq JobIDs
    /\ IsABag(queue) /\ BagToSet(queue) \subseteq Messages
    /\ reported \in [JobIDs -> SUBSET Reports]
    /\ early \subseteq JobIDs
    /\ faults \in 0 .. MaxFaults

-----------------------------------------------------------------------------
(* doJobWork. *)

Become(q, new) == requests' = (requests \ {q}) \cup new

\* The key stands for everything that was hashed into it; OverrideCache skips the look
\* into the cache.
Request(k, overrideCache) ==
    /\ received < MaxRequests
    /\ received' = received + 1
    /\ requests' = requests \cup
           {[id |-> received', key |-> k, step |-> IF overrideCache THEN "insert" ELSE "look",
             job |-> 0]}
    /\ UNCHANGED <<rowVars, answered, podVars, queue, early>>

Cached(k) == {j \in JobIDs : status[j] # "absent" /\ key[j] = k}

AnsweredBy(q, j) == [q EXCEPT !.step = "respond", !.job = j]

\* The SELECT of FirstOrCreate, Order("created_at desc").
Look(q) ==
    /\ q.step = "look"
    /\ \/ Cached(q.key) = {} /\ Become(q, {[q EXCEPT !.step = "insert"]})
       \/ \E j \in Cached(q.key) :
            /\ \A i \in Cached(q.key) : i <= j
            /\ Become(q, {AnsweredBy(q, j)})
    /\ UNCHANGED <<rowVars, received, answered, podVars, queue, early>>

\* Its INSERT: nobody else sees the row yet.
Insert(q) ==
    /\ q.step = "insert"
    /\ \E j \in JobIDs :
        /\ key[j] = "none"
        /\ \A i \in 1 .. j - 1 : key[i] # "none"
        /\ key' = [key EXCEPT ![j] = q.key]
        /\ Become(q, {[q EXCEPT !.step = "create job", !.job = j]})
    /\ UNCHANGED <<status, reports, received, answered, podVars, queue, early>>

\* Mutant: the row is committed before its job is created.
CommitFirst(q) ==
    /\ q.step = "create job"
    /\ status' = [status EXCEPT ![q.job] = "accepted"]
    /\ Become(q, {[q EXCEPT !.step = "respond"]})
    /\ UNCHANGED <<reports, key, received, answered, podVars, queue, early>>

CreateEvalJob(q) ==
    /\ q.step = "create job"
    /\ job' = [job EXCEPT ![q.job] = "running"]
    /\ Become(q, {[q EXCEPT !.step = "commit"]})
    /\ UNCHANGED <<rowVars, received, answered, sent, exiting, reported, queue, early>>

Commit(q) ==
    /\ q.step = "commit"
    /\ status' = [status EXCEPT ![q.job] = "accepted"]
    /\ Become(q, {[q EXCEPT !.step = "respond"]})
    /\ UNCHANGED <<reports, key, received, answered, podVars, queue, early>>

\* The response has the status and the reports of the row as they were looked up.
Respond(q) ==
    /\ q.step = "respond"
    /\ answered' = answered \cup {q.job}
    /\ Become(q, {})
    /\ UNCHANGED <<rowVars, received, podVars, queue, early>>

DoJobWork == \E q \in requests :
    Look(q) \/ Insert(q) \/ CreateEvalJob(q) \/ Commit(q) \/ Respond(q)

-----------------------------------------------------------------------------
(* The worker, Kubernetes and the two that write the row. *)

Evaluating(j) == job[j] = "running" /\ j \notin exiting

Send(m) == queue' = queue (+) SetToBag({m})

Report(j) ==
    /\ Evaluating(j)
    /\ \E r \in Reports \ sent[j] :
        /\ sent' = [sent EXCEPT ![j] = @ \cup {r}]
        /\ reported' = [reported EXCEPT ![j] = @ \cup {r}]
        /\ Send([job |-> j, report |-> r])
    /\ UNCHANGED <<rowVars, requests, received, answered, job, exiting, early>>

FinalMessage(j) ==
    /\ Evaluating(j)
    /\ \E v \in Verdicts : Send([job |-> j, verdict |-> v])
    /\ exiting' = exiting \cup {j}
    /\ UNCHANGED <<rowVars, requests, received, answered, job, sent, reported, early>>

PodEnds(j, condition) ==
    /\ job' = [job EXCEPT ![j] = condition]
    /\ sent' = [sent EXCEPT ![j] = {}]
    /\ exiting' = exiting \ {j}
    /\ UNCHANGED <<rowVars, requests, received, answered, reported, queue, early>>

PodSucceeds(j) ==
    /\ job[j] = "running" /\ j \in exiting
    /\ PodEnds(j, "complete")

Worker(j) == Report(j) \/ FinalMessage(j) \/ PodSucceeds(j)

\* Somebody writes to the row of j: early when there is none to write to.
Writes(j) == early' = IF status[j] = "absent" THEN early \cup {j} ELSE early

\* Mutant: reports are stored only while the job is undecided.
StoreReportUndecided(m) ==
    reports' = IF status[m.job] = "accepted"
               THEN [reports EXCEPT ![m.job] = @ \cup {m.report}] ELSE reports

\* HandleCommandResultMessage and HandleArtifactMessage append without a condition on
\* the status.  (A report that is appended twice is in the column twice.)
StoreReport(m) ==
    reports' = IF status[m.job] # "absent"
               THEN [reports EXCEPT ![m.job] = @ \cup {m.report}] ELSE reports

\* Mutant: the WHERE of the final message's UPDATE has only the id.
StoreVerdictAlways(j, v) ==
    status' = IF status[j] # "absent" THEN [status EXCEPT ![j] = v] ELSE status

StoreVerdict(j, v) ==
    status' = IF status[j] = "accepted" THEN [status EXCEPT ![j] = v] ELSE status

Handle(m) ==
    /\ Writes(m.job)
    /\ \/ m \in [job : JobIDs, report : Reports] /\ StoreReport(m) /\ UNCHANGED status
       \/ m \in [job : JobIDs, verdict : Verdicts]
            /\ StoreVerdict(m.job, m.verdict) /\ UNCHANGED reports
    /\ UNCHANGED <<key, requests, received, answered, podVars>>

HandleMessage ==
    \E m \in BagToSet(queue) : Handle(m) /\ queue' = queue (-) SetToBag({m})

\* Mutant: the failed job is deleted, and that is all.
ErroredForgotten(j) == UNCHANGED <<status, early>>

\* handleJobUpdate: a failed job makes an undecided row errored.
Errored(j) ==
    IF job[j] = "failed"
    THEN Writes(j) /\ StoreVerdict(j, "errored")
    ELSE UNCHANGED <<status, early>>

HandleJobUpdate(j) ==
    /\ job[j] \in {"failed", "complete"}
    /\ Errored(j)
    /\ job' = [job EXCEPT ![j] = "deleted"]
    /\ UNCHANGED <<reports, key, requests, received, answered, sent, exiting, reported, queue>>

-----------------------------------------------------------------------------
(* Failures. *)

\* An error, or the death of the server: the transaction is rolled back.
RequestFails(q) ==
    /\ Become(q, {})
    /\ UNCHANGED <<rowVars, received, answered, podVars, queue, early>>

\* Kubernetes created the job but the request failed; so the row is not committed.
CreateEvalJobUnacknowledged(q) ==
    /\ q.step = "create job"
    /\ job' = [job EXCEPT ![q.job] = "running"]
    /\ Become(q, {})
    /\ UNCHANGED <<rowVars, received, answered, sent, exiting, reported, queue, early>>

CommitUnacknowledged(q) ==
    /\ q.step = "commit"
    /\ status' = [status EXCEPT ![q.job] = "accepted"]
    /\ Become(q, {})
    /\ UNCHANGED <<reports, key, received, answered, podVars, queue, early>>

PodFails(j) ==
    /\ job[j] = "running"
    /\ PodEnds(j, "failed")

\* A new pod starts over.
PodDisrupted(j) ==
    /\ job[j] = "running"
    /\ PodEnds(j, "running")

\* The message is handled but not deleted, or the job updated but not deleted: both
\* will be handled again.
HandledAgain ==
    \/ \E m \in BagToSet(queue) : Handle(m) /\ UNCHANGED queue
    \/ \E j \in JobIDs :
        /\ job[j] = "failed"
        /\ Errored(j)
        /\ UNCHANGED <<reports, key, requests, received, answered, podVars, queue>>

Fault ==
    /\ faults < MaxFaults
    /\ faults' = faults + 1
    /\ \/ \E q \in requests :
            RequestFails(q) \/ CreateEvalJobUnacknowledged(q) \/ CommitUnacknowledged(q)
       \/ \E j \in JobIDs : PodFails(j) \/ PodDisrupted(j)
       \/ HandledAgain

Step ==
    \/ \E k \in Keys, overrideCache \in BOOLEAN : Request(k, overrideCache)
    \/ DoJobWork
    \/ \E j \in JobIDs : Worker(j) \/ HandleJobUpdate(j)
    \/ HandleMessage

Next == (Step /\ UNCHANGED faults) \/ Fault

Safety == Init /\ [][Next]_vars

\* Requests are handled to their end, evaluations end, and both loops run.
Fairness ==
    /\ WF_vars(DoJobWork /\ UNCHANGED faults)
    /\ \A j \in JobIDs :
        WF_vars(Worker(j) /\ UNCHANGED faults) /\ WF_vars(HandleJobUpdate(j) /\ UNCHANGED faults)
    /\ WF_vars(HandleMessage /\ UNCHANGED faults)

Spec == Safety /\ Fairness

-----------------------------------------------------------------------------

\* Nobody ever sees a row whose evaluation was not started, whatever fails: a row that
\* is committed, and so may answer requests from the cache for good, has a job
\* (the order in the transaction of doJobWork).
CommittedIsStarted == \A j \in JobIDs : status[j] # "absent" => job[j] # "none"

\* Everything a worker reported is in the row or in the queue, in whatever order the
\* messages come, unless the API handled a message before the row was committed
\* (HandleCommandResultMessage, HandleArtifactMessage).
ReportsNotLost ==
    \A j \in JobIDs \ early :
        \A r \in reported[j] : r \in reports[j] \/ BagIn([job |-> j, report |-> r], queue)

\* An evaluation that ended well decides its row, unless the API handled a message
\* before the row was committed: the UPDATE of HandleFinalMessage matches no row then,
\* and the message is deleted all the same.
JobVerdictNotLost ==
    \A j \in JobIDs \ early :
        status[j] = "accepted" /\ job[j] \in {"complete", "deleted"} =>
            \E v \in Verdicts : BagIn([job |-> j, verdict |-> v], queue)

\* A verdict is stored once: neither the job controller, nor a message that is handled
\* again, nor a second evaluation changes it.
JobVerdictIsFinal ==
    [][\A j \in JobIDs : status[j] \in Decided => status'[j] = status[j]]_vars

\* Whoever got the id of a job gets its verdict, with the same exception.
AnsweredIsDecided ==
    \A j \in JobIDs : j \in answered ~> status[j] \in Decided \/ j \in early

-----------------------------------------------------------------------------
(* The inductive invariant behind the safety properties. *)

\* Until it commits, a request has a row of its own that nobody else can see.
RequestsKnowTheirRow ==
    /\ \A q \in requests :
        /\ q.step \in {"create job", "commit", "respond"} => q.job \in JobIDs
        /\ q.step \in {"create job", "commit"} =>
               status[q.job] = "absent" /\ key[q.job] # "none"
        /\ q.step = "create job" => job[q.job] = "none"
        /\ q.step = "commit" => job[q.job] # "none"
    /\ \A q, r \in requests :
        q.step \in {"create job", "commit"} /\ r.step \in {"create job", "commit"}
            /\ q.job = r.job => q = r
    /\ \A j \in JobIDs : key[j] = "none" => status[j] = "absent" /\ job[j] = "none"
    /\ \A j \in exiting : job[j] = "running"

\* The verdict of a pod that has sent one is in the queue until it is handled.
VerdictOnItsWay ==
    \A j \in JobIDs \ early :
        (j \in exiting \/ job[j] \in {"complete", "deleted"})
            /\ status[j] \in {"absent", "accepted"} =>
                \E v \in Verdicts : BagIn([job |-> j, verdict |-> v], queue)

\* The inductive invariant of doJobWork, the worker's messages and handleJobUpdate.
IInv ==
    /\ TypeOK
    /\ CommittedIsStarted
    /\ ReportsNotLost
    /\ RequestsKnowTheirRow
    /\ VerdictOnItsWay
=============================================================================
