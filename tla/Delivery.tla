------------------------------ MODULE Delivery ------------------------------
(***************************************************************************)
(* Delivery of messages (tasks and SARIF broadcasts) to the CRSs of the    *)
(* teams.  CreateDeliveryJob starts one Kubernetes job for a message; its  *)
(* worker posts the message to all recipients at once and to each until it *)
(* accepts, or until two minutes after the deadline of the task.  Exit     *)
(* code 1 fails the job; a pod that is disrupted starts over, with all of  *)
(* its recipients.  Nobody in the API looks at the outcome.                *)
(***************************************************************************)
EXTENDS Naturals

CONSTANTS
    Messages,
    CRSs        \* the CRSs with task_me set

VARIABLES
    job,        \* per message: "none", "running", "complete", "failed"
    try,        \* what its pod is at, per CRS
    received,   \* how often each CRS has accepted it
    audited     \* the broadcast events of the audit log: <<CRS, event>>

deliveryVars == <<job, try, received, audited>>

\* "off": not a recipient; "first": to be tried at least once; "retry": tried in vain.
Tries == {"off", "first", "retry", "ok", "gave up"}

DeliveryInit ==
    /\ job = [m \in Messages |-> "none"]
    /\ try = [m \in Messages |-> [c \in CRSs |-> "off"]]
    /\ received = [m \in Messages |-> [c \in CRSs |-> 0]]
    /\ audited = [m \in Messages |-> {}]

DeliveryTypeOK ==
    /\ job \in [Messages -> {"none", "running", "complete", "failed"}]
    /\ try \in [Messages -> [CRSs -> Tries]]
    /\ received \in [Messages -> [CRSs -> Nat]]
    /\ audited \in [Messages -> SUBSET (CRSs \X {"succeeded", "failed"})]

Recipients(m) == {c \in CRSs : try[m][c] # "off"}

\* Teams whose CRS is not to be tasked are no targets.
CreateDeliveryJob(m, teams) ==
    /\ job' = [job EXCEPT ![m] = "running"]
    /\ try' = [try EXCEPT ![m] = [c \in CRSs |-> IF c \in teams THEN "first" ELSE "off"]]
    /\ UNCHANGED <<received, audited>>

\* The back-off is asked after an attempt: a new pod tries once whatever the time.
MayTry(m, c, over) ==
    /\ job[m] = "running"
    /\ try[m][c] = "first" \/ (try[m][c] = "retry" /\ ~over)

Become(m, c, new) == try' = [try EXCEPT ![m][c] = new]

Audit(m, c, event) == audited' = [audited EXCEPT ![m] = @ \cup {<<c, event>>}]

\* Mutant: a 2xx is taken for a failure.
AcceptsUnnoticed(m, c) ==
    /\ received' = [received EXCEPT ![m][c] = @ + 1]
    /\ Become(m, c, "retry")
    /\ UNCHANGED audited

\* The CRS answers 2xx.
Accepts(m, c) ==
    /\ received' = [received EXCEPT ![m][c] = @ + 1]
    /\ Become(m, c, "ok")
    /\ Audit(m, c, "succeeded")

\* It cannot be reached, or answers something else.
Refuses(m, c) ==
    /\ Become(m, c, "retry")
    /\ UNCHANGED <<received, audited>>

Deliver(m, c, over) ==
    /\ MayTry(m, c, over)
    /\ Accepts(m, c) \/ Refuses(m, c)
    /\ UNCHANGED job

\* Mutant: no limit on the duration of the retries.
GiveUpNever(m, c, over) == FALSE /\ UNCHANGED deliveryVars

GiveUp(m, c, over) ==
    /\ job[m] = "running"
    /\ try[m][c] = "retry" /\ over
    /\ Become(m, c, "gave up")
    /\ Audit(m, c, "failed")
    /\ UNCHANGED <<job, received>>

Settled(m) == \A c \in Recipients(m) : try[m][c] \in {"ok", "gave up"}

\* Mutant: the errors of the deliveries are not joined.
WorkerExitsWell(m) ==
    /\ job[m] = "running" /\ Settled(m)
    /\ job' = [job EXCEPT ![m] = "complete"]
    /\ UNCHANGED <<try, received, audited>>

\* Deliver waits for all; one failure is enough for exit code 1.
WorkerExits(m) ==
    /\ job[m] = "running" /\ Settled(m)
    /\ job' = [job EXCEPT ![m] =
           IF \E c \in CRSs : try[m][c] = "gave up" THEN "failed" ELSE "complete"]
    /\ UNCHANGED <<try, received, audited>>

\* The CRS has accepted but its answer is lost.
AnswerLost(m, c, over) ==
    /\ MayTry(m, c, over)
    /\ received' = [received EXCEPT ![m][c] = @ + 1]
    /\ Become(m, c, "retry")
    /\ UNCHANGED <<job, audited>>

\* A disrupted pod does not count against the job; neither do the first failures with
\* an exit code other than 1.
PodDisrupted(m) ==
    /\ job[m] = "running"
    /\ try' = [try EXCEPT ![m] = [c \in CRSs |-> IF @[c] = "off" THEN "off" ELSE "first"]]
    /\ UNCHANGED <<job, received, audited>>

\* The audit log and the job tell what the CRSs know: a completed job has delivered to
\* every recipient and says so, a failed one names a recipient it gave up, and no
\* success is told of a CRS that accepted nothing.
OutcomeIsTold ==
    \A m \in Messages :
        /\ job[m] = "complete" =>
               \A c \in Recipients(m) : received[m][c] > 0 /\ <<c, "succeeded">> \in audited[m]
        /\ job[m] = "failed" => \E c \in Recipients(m) : <<c, "failed">> \in audited[m]
        /\ \A c \in CRSs : <<c, "succeeded">> \in audited[m] => received[m][c] > 0

\* Every delivery ends, since the time for retries does (deliverOne), and is not started
\* again: of finitely many, none runs in the end.
DeliveryEnds == <>[](\A m \in Messages : job[m] # "running")
=============================================================================
