------------------------ MODULE EvalPipeline_proofs ------------------------
(***************************************************************************)
(* Proofs, for any sets of submissions, servers and message identities and *)
(* any number of faults, that EvalPipeline keeps its types, that IInv is   *)
(* inductive, and what follows from it.                                    *)
(***************************************************************************)
EXTENDS EvalPipeline, TLAPS

(***************************************************************************)
(* What the helpers that replace one record of a set do.                   *)
(***************************************************************************)

\* GoTo puts the delivery back at its next step, and touches no other.
LEMMA GoToReplaces ==
    ASSUME deliveries \subseteq Deliveries, NEW d \in deliveries, NEW step, GoTo(d, step)
    PROVE  \E n : /\ deliveries' = (deliveries \ {d}) \cup {n}
                  /\ n.server = d.server /\ n.id = d.id /\ n.body = d.body /\ n.step = step
<1> DEFINE n == [d EXCEPT !.step = step]
<1>1. n.server = d.server /\ n.id = d.id /\ n.body = d.body /\ n.step = step
  BY DEF Deliveries
<1>2. deliveries' = (deliveries \ {d}) \cup {n}
  BY DEF GoTo
<1> QED BY <1>1, <1>2

\* Advance does the same for a reconcile.
LEMMA AdvanceReplaces ==
    ASSUME reconciles \subseteq Reconciles, NEW r \in reconciles, NEW step, Advance(r, step)
    PROVE  \E n : /\ reconciles' = (reconciles \ {r}) \cup {n}
                  /\ n.server = r.server /\ n.sub = r.sub /\ n.step = step
<1> DEFINE n == [r EXCEPT !.step = step]
<1>1. n.server = r.server /\ n.sub = r.sub /\ n.step = step
  BY DEF Reconciles
<1>2. reconciles' = (reconciles \ {r}) \cup {n}
  BY DEF Advance
<1> QED BY <1>1, <1>2

\* Proceed does the same for a request.
LEMMA ProceedReplaces ==
    ASSUME requests \subseteq Requests, NEW q \in requests, NEW step, Proceed(q, step)
    PROVE  \E n : /\ requests' = (requests \ {q}) \cup {n}
                  /\ n.server = q.server /\ n.sub = q.sub
                  /\ n.status = q.status /\ n.step = step
<1> DEFINE n == [q EXCEPT !.step = step]
<1>1. /\ n.server = q.server /\ n.sub = q.sub
      /\ n.status = q.status /\ n.step = step
  BY DEF Requests
<1>2. requests' = (requests \ {q}) \cup {n}
  BY DEF Proceed
<1> QED BY <1>1, <1>2

\* Receive keeps the messages, one of them under a new lease.
LEMMA ReceiveReplaces ==
    ASSUME queue \subseteq Messages, NEW p, NEW m, Receive(p, m)
    PROVE  \E n : /\ queue' = (queue \ {m}) \cup {n}
                  /\ n.id = m.id /\ n.body = m.body /\ n.lease = {p}
<1> DEFINE n == [m EXCEPT !.lease = {p}]
<1>1. n.id = m.id /\ n.body = m.body /\ n.lease = {p}
  BY DEF Receive, Messages
<1>2. queue' = (queue \ {m}) \cup {n}
  BY DEF Receive
<1> QED BY <1>1, <1>2

\* BecomeVisible keeps the messages, one of them without its lease.
LEMMA BecomeVisibleReplaces ==
    ASSUME queue \subseteq Messages, NEW m, BecomeVisible(m)
    PROVE  \E n : /\ queue' = (queue \ {m}) \cup {n}
                  /\ n.id = m.id /\ n.body = m.body /\ n.lease = {}
<1> DEFINE n == [m EXCEPT !.lease = {}]
<1>1. n.id = m.id /\ n.body = m.body /\ n.lease = {}
  BY DEF BecomeVisible, Messages
<1>2. queue' = (queue \ {m}) \cup {n}
  BY DEF BecomeVisible
<1> QED BY <1>1, <1>2

\* What the transaction of a delivery says.
LEMMA FinalTxFields ==
    ASSUME NEW d \in Deliveries
    PROVE  /\ FinalTx(d) \in Transactions
           /\ FinalTx(d).sub = d.body.sub
           /\ FinalTx(d).status = d.body.status
           /\ FinalTx(d).server = d.server
           /\ FinalTx(d).role = "monitor"
           /\ FinalTx(d).setTests \in TestResults
  BY DEF Deliveries, FinalBodies, FinalTx, TestsToStore, Transactions, TestResults, Roles

\* What the transaction of a reconcile says.
LEMMA ErroredTxFields ==
    ASSUME NEW r \in Reconciles
    PROVE  /\ ErroredTx(r) \in Transactions
           /\ ErroredTx(r).sub = r.sub
           /\ ErroredTx(r).status = "errored"
           /\ ErroredTx(r).server = r.server
           /\ ErroredTx(r).role = "controller"
           /\ ErroredTx(r).setTests = "null"
  BY DEF Reconciles, ErroredTx, Transactions, TestResults, Roles, Verdicts

(***************************************************************************)
(* Types.                                                                  *)
(***************************************************************************)

\* The transaction helpers keep the tables well formed.
LEMMA CommitKeepsTypes ==
    ASSUME StoreTypeOK, NEW t \in Transactions, Commit(t) PROVE StoreTypeOK'
  BY DEF StoreTypeOK, Commit, Transactions, Statuses, TestResults

\* So does the audit line,
LEMMA AuditKeepsTypes ==
    ASSUME StoreTypeOK, NEW t \in Transactions, AuditResult(t) PROVE StoreTypeOK'
  BY DEF StoreTypeOK, AuditResult, Transactions

\* an UPDATE,
LEMMA UpdateKeepsTypes ==
    ASSUME StoreTypeOK, NEW t \in Transactions, UpdateMatches(t) PROVE StoreTypeOK'
  BY DEF StoreTypeOK, UpdateMatches

\* and a rollback.
LEMMA RollbackKeepsTypes ==
    ASSUME StoreTypeOK, NEW ts, Rollback(ts) PROVE StoreTypeOK'
  BY DEF StoreTypeOK, Rollback

\* Type correctness of the queue monitor's steps,
LEMMA MonitorKeepsTypes ==
    ASSUME TypeOK, NEW p \in Servers, MonitorStep(p)
    PROVE  StoreTypeOK' /\ MonitorTypeOK'
<1>1. CASE DequeueMessage(p)
  BY <1>1 DEF DequeueMessage, Receive, TypeOK, StoreTypeOK, MonitorTypeOK, QueueTypeOK,
              storeVars, Deliveries, DeliverySteps, Messages
<1>2. ASSUME NEW d \in deliveries, d.server = p,
             \/ FinalUpdateMatches(d) \/ FinalUpdateMisses(d) \/ FinalAudit(d)
             \/ FinalCommit(d) \/ FinalTxGone(d) \/ DeleteMessage(d)
      PROVE  StoreTypeOK' /\ MonitorTypeOK'
  <2>1. d \in Deliveries /\ FinalTx(d) \in Transactions
    BY FinalTxFields DEF TypeOK, MonitorTypeOK
  <2>2. StoreTypeOK'
    BY <1>2, <2>1, CommitKeepsTypes, AuditKeepsTypes, UpdateKeepsTypes
    DEF TypeOK, FinalUpdateMatches, FinalUpdateMisses, FinalAudit, FinalCommit, FinalTxGone,
        DeleteMessage, UpdateMisses, storeVars, StoreTypeOK
  <2>3. queue' \subseteq queue
    BY <1>2 DEF FinalUpdateMatches, FinalUpdateMisses, FinalAudit, FinalCommit, FinalTxGone,
                DeleteMessage, DeleteReceived
  <2>4. deliveries' \subseteq Deliveries
    BY <1>2, <2>1 DEF FinalUpdateMatches, FinalUpdateMisses, FinalAudit, FinalCommit,
                FinalTxGone, DeleteMessage, GoTo, Leave, TypeOK, MonitorTypeOK,
                Deliveries, DeliverySteps
  <2> QED BY <2>2, <2>3, <2>4 DEF TypeOK, MonitorTypeOK, QueueTypeOK
<1> QED BY <1>1, <1>2 DEF MonitorStep

\* of its failures,
LEMMA MonitorFaultKeepsTypes ==
    ASSUME TypeOK, MonitorFault
    PROVE  StoreTypeOK' /\ MonitorTypeOK'
<1>1. ASSUME NEW d \in deliveries,
             \/ HandlerFails(d) \/ CommitUnacknowledged(d) \/ DeleteFails(d) \/ FinalTxLost(d)
      PROVE  StoreTypeOK' /\ MonitorTypeOK'
  <2>1. FinalTx(d) \in Transactions
    BY FinalTxFields DEF TypeOK, MonitorTypeOK
  <2>2. StoreTypeOK'
    BY <1>1, <2>1, CommitKeepsTypes, RollbackKeepsTypes
    DEF TypeOK, HandlerFails, CommitUnacknowledged, DeleteFails, FinalTxLost, storeVars, StoreTypeOK
  <2>3. queue' = queue /\ deliveries' \subseteq deliveries
    BY <1>1 DEF HandlerFails, CommitUnacknowledged, DeleteFails, FinalTxLost, Leave
  <2> QED BY <2>2, <2>3 DEF TypeOK, MonitorTypeOK, QueueTypeOK
<1>2. ASSUME NEW m \in queue, HandlerOverruns(m)
      PROVE  StoreTypeOK' /\ MonitorTypeOK'
  BY <1>2 DEF HandlerOverruns, BecomeVisible, TypeOK, StoreTypeOK, storeVars,
              MonitorTypeOK, QueueTypeOK, Messages
<1> QED BY <1>1, <1>2 DEF MonitorFault

\* of the job controller's steps,
LEMMA ControllerKeepsTypes ==
    ASSUME TypeOK, NEW p \in Servers, ControllerStep(p)
    PROVE  StoreTypeOK' /\ JobsTypeOK' /\ ControllerTypeOK'
<1>1. ASSUME NEW s \in Submissions, ProcessJobUpdate(p, s)
      PROVE  StoreTypeOK' /\ JobsTypeOK' /\ ControllerTypeOK'
  BY <1>1 DEF ProcessJobUpdate, TypeOK, StoreTypeOK, JobsTypeOK, ControllerTypeOK,
              storeVars, jobVars, Reconciles, ReconcileSteps
<1>2. ASSUME NEW r \in reconciles,
             \/ ErroredUpdateMatches(r) \/ ErroredUpdateMisses(r) \/ ErroredAudit(r)
             \/ ErroredCommit(r) \/ ErroredTxGone(r) \/ DeleteJob(r)
      PROVE  StoreTypeOK' /\ JobsTypeOK' /\ ControllerTypeOK'
  <2>1. r \in Reconciles /\ ErroredTx(r) \in Transactions
    BY ErroredTxFields DEF TypeOK, ControllerTypeOK
  <2>2. StoreTypeOK'
    BY <1>2, <2>1, CommitKeepsTypes, AuditKeepsTypes, UpdateKeepsTypes
    DEF TypeOK, ErroredUpdateMatches, ErroredUpdateMisses, ErroredAudit, ErroredCommit,
        ErroredTxGone, DeleteJob, UpdateMisses, storeVars, StoreTypeOK
  <2>3. JobsTypeOK'
    BY <1>2 DEF TypeOK, ErroredUpdateMatches, ErroredUpdateMisses, ErroredAudit, ErroredCommit,
                ErroredTxGone, DeleteJob, jobVars, JobsTypeOK, JobStates
  <2>4. ControllerTypeOK'
    BY <1>2, <2>1 DEF ErroredUpdateMatches, ErroredUpdateMisses, ErroredAudit, ErroredCommit,
                ErroredTxGone, DeleteJob, Advance, Finish, TypeOK, ControllerTypeOK,
                Reconciles, ReconcileSteps
  <2> QED BY <2>2, <2>3, <2>4
<1> QED BY <1>1, <1>2 DEF ControllerStep

\* of its failures,
LEMMA ControllerFaultKeepsTypes ==
    ASSUME TypeOK, ControllerFault
    PROVE  StoreTypeOK' /\ JobsTypeOK' /\ ControllerTypeOK'
<1> SUFFICES ASSUME NEW r \in reconciles,
                    \/ ReconcileFails(r) \/ ErroredCommitUnacknowledged(r) \/ ErroredTxLost(r)
             PROVE  StoreTypeOK' /\ JobsTypeOK' /\ ControllerTypeOK'
  BY DEF ControllerFault
<1>1. ErroredTx(r) \in Transactions
  BY ErroredTxFields DEF TypeOK, ControllerTypeOK
<1>2. StoreTypeOK'
  BY <1>1, CommitKeepsTypes, RollbackKeepsTypes
  DEF TypeOK, ReconcileFails, ErroredCommitUnacknowledged, ErroredTxLost
<1>3. UNCHANGED jobVars /\ reconciles' \subseteq reconciles
  BY DEF ReconcileFails, ErroredCommitUnacknowledged, ErroredTxLost, Finish
<1> QED BY <1>2, <1>3 DEF TypeOK, JobsTypeOK, ControllerTypeOK, jobVars

\* of the worker and its failures,
LEMMA WorkerKeepsTypes ==
    ASSUME TypeOK, \/ \E s \in Submissions : WorkerStep(s)
                   \/ WorkerFault
    PROVE  QueueTypeOK' /\ JobsTypeOK'
<1> USE DEF TypeOK, MonitorTypeOK, QueueTypeOK, JobsTypeOK, JobStates, WorkerStates,
            WorkerBecomes, ArriveAt
<1>1. ASSUME NEW s \in Submissions, NEW copies \in SUBSET MessageIDs, NEW b \in FinalBodies,
             Enqueue(copies, b)
      PROVE  QueueTypeOK'
  BY <1>1 DEF Enqueue, Messages
<1>2. ASSUME NEW s \in Submissions, NEW copies \in SUBSET MessageIDs, SendFinalMessage(s, copies)
      PROVE  QueueTypeOK' /\ JobsTypeOK'
  BY <1>1, <1>2 DEF SendFinalMessage, FinalBodiesOf, FinalBodies
<1>3. ASSUME NEW s \in Submissions, FinalMessageUnacknowledged(s)
      PROVE  QueueTypeOK' /\ JobsTypeOK'
  <2>1. PICK i \in MessageIDs, b \in FinalBodiesOf(s) : Enqueue({i}, b) /\ ArriveAt(s, b.status)
    BY <1>3 DEF FinalMessageUnacknowledged
  <2>2. b \in FinalBodies /\ b.status \in Verdicts
    BY DEF FinalBodiesOf, FinalBodies
  <2>3. QueueTypeOK'
    BY <1>1, <2>1, <2>2
  <2> QED BY <1>3, <2>1, <2>2, <2>3 DEF FinalMessageUnacknowledged
<1>4. ASSUME NEW s \in Submissions,
             PodSucceeds(s) \/ PodFails(s) \/ WorkerErrs(s) \/ PodKilled(s) \/ PodDisrupted(s)
      PROVE  QueueTypeOK' /\ JobsTypeOK'
  BY <1>4 DEF PodSucceeds, PodFails, WorkerErrs, PodKilled, PodDisrupted, Verdicts
<1> QED BY <1>2, <1>3, <1>4 DEF WorkerStep, WorkerFault, DuplicateFinalMessage

\* and of the request handlers.
LEMMA APIKeepsTypes ==
    ASSUME TypeOK, \/ \E p \in Servers : APIStep(p)
                   \/ APIFault
    PROVE  StoreTypeOK' /\ JobsTypeOK' /\ APITypeOK'
<1> USE DEF TypeOK, StoreTypeOK, JobsTypeOK, APITypeOK, storeVars, jobVars
<1> SUFFICES ASSUME NEW q \in requests,
                    \/ ArchiveSubmission(q) \/ StartEvaluation(q) \/ Respond(q)
                    \/ RequestFails(q) \/ StartUnacknowledged(q)
             PROVE  StoreTypeOK' /\ JobsTypeOK' /\ APITypeOK'
  BY DEF APIStep, APIFault
<1>1. StoreTypeOK' /\ JobsTypeOK'
  BY DEF ArchiveSubmission, StartEvaluation, Respond, RequestFails, StartUnacknowledged,
         CreateEvalJob, JobStates, WorkerStates
<1>2. APITypeOK'
  BY DEF ArchiveSubmission, StartEvaluation, Respond, RequestFails, StartUnacknowledged,
         Proceed, EndRequest, Requests, RequestSteps
<1> QED BY <1>1, <1>2

\* Type correctness of a step of the whole pipeline.
LEMMA NextKeepsTypes == TypeOK /\ [Next]_vars => TypeOK'
<1> SUFFICES ASSUME TypeOK, [Next]_vars PROVE TypeOK'
  OBVIOUS
<1> USE DEF TypeOK, StoreTypeOK, MonitorTypeOK, QueueTypeOK, JobsTypeOK, ControllerTypeOK,
            APITypeOK, storeVars, monitorVars, jobVars, apiVars
<1>1. ASSUME NEW p \in Servers, NEW s \in Submissions, Submit(p, s) PROVE TypeOK'
  <2>1. PICK st \in InitialStatuses : InsertSubmission(p, s, st)
    BY <1>1 DEF Submit
  <2>2. StoreTypeOK' /\ JobsTypeOK'
    BY <2>1 DEF InsertSubmission, InsertRow, Statuses, InitialStatuses
  <2>3. APITypeOK'
    <3> DEFINE q == [server |-> p, sub |-> s, status |-> st, step |-> "archive"]
    <3>1. q \in Requests
      BY DEF Requests, RequestSteps
    <3>2. requests' = requests \cup {q} /\ acked' = acked
      BY <2>1 DEF InsertSubmission
    <3> HIDE DEF q
    <3> QED BY <3>1, <3>2
  <2> QED BY <1>1, <2>2, <2>3 DEF Submit, OnlyAPI
<1>2. ASSUME NEW p \in Servers, API(p) PROVE TypeOK'
  BY <1>2, APIKeepsTypes DEF API, OnlyAPI
<1>3. ASSUME NEW p \in Servers, Monitor(p) PROVE TypeOK'
  BY <1>3, MonitorKeepsTypes DEF Monitor, OnlyMonitor
<1>4. ASSUME NEW p \in Servers, Controller(p) PROVE TypeOK'
  BY <1>4, ControllerKeepsTypes DEF Controller, OnlyController
<1>5. ASSUME NEW s \in Submissions, Worker(s) PROVE TypeOK'
  BY <1>5, WorkerKeepsTypes DEF Worker, OnlyWorker
<1>6. CASE Visibility
  BY <1>6 DEF Visibility, VisibilityTimeout, BecomeVisible, OnlyMonitor, Messages
<1>7. CASE Fault
  <2>1. faults' \in 0..MaxFaults
    BY <1>7, MaxFaultsAssumption DEF Fault
  <2>2. CASE APIFault /\ OnlyAPI
    BY <2>1, <2>2, APIKeepsTypes DEF OnlyAPI
  <2>3. CASE WorkerFault /\ OnlyWorker
    BY <2>1, <2>3, WorkerKeepsTypes DEF OnlyWorker
  <2>4. CASE MonitorFault /\ OnlyMonitor
    BY <2>1, <2>4, MonitorFaultKeepsTypes DEF OnlyMonitor
  <2>5. CASE ControllerFault /\ OnlyController
    BY <2>1, <2>5, ControllerFaultKeepsTypes DEF OnlyController
  <2>6. ASSUME NEW p \in Servers, Crash(p) PROVE TypeOK'
    BY <2>1, <2>6 DEF Crash, Rollback
  <2> QED BY <1>7, <2>2, <2>3, <2>4, <2>5, <2>6 DEF Fault
<1>8. CASE UNCHANGED vars
  BY <1>8 DEF vars
<1> QED BY <1>1, <1>2, <1>3, <1>4, <1>5, <1>6, <1>7, <1>8 DEF Next

\* Every variable keeps the type its component gives it.
THEOREM TypeCorrect == Safety => []TypeOK
<1>1. Init => TypeOK
  BY MaxFaultsAssumption
  DEF Init, StoreInit, MonitorInit, QueueInit, JobsInit, ControllerInit, APIInit, TypeOK,
      StoreTypeOK, MonitorTypeOK, QueueTypeOK, JobsTypeOK, ControllerTypeOK, APITypeOK,
      Statuses, TestResults, JobStates, WorkerStates
<1> QED BY <1>1, NextKeepsTypes, PTL DEF Safety

(***************************************************************************)
(* The inductive invariant.                                                *)
(***************************************************************************)

\* What a request knows of its submission.
LEMMA RequestFacts ==
    ASSUME IInv, NEW q \in requests
    PROVE  /\ q.sub \in Submissions
           /\ q.status \in {"accepted", "deadline_exceeded"}
           /\ q.step \in RequestSteps
           /\ q.step = "create job" =>
                  q.status = "accepted" /\ row[q.sub] = "accepted" /\ job[q.sub] = "none"
           /\ q.step = "respond" /\ row[q.sub] # "deadline_exceeded" => job[q.sub] # "none"
           /\ row[q.sub] # "absent"
<1>1. q.sub \in Submissions /\ q.status \in {"accepted", "deadline_exceeded"} /\ q.step \in RequestSteps
  BY DEF IInv, TypeOK, APITypeOK, Requests, InitialStatuses
<1>2. CASE q.status = "accepted"
  BY <1>1, <1>2 DEF IInv, RequestsPrecedeJobs, JobsFollowRows, Verdicts
<1>3. CASE q.status = "deadline_exceeded"
  BY <1>1, <1>3 DEF IInv, RequestsPrecedeJobs
<1> QED BY <1>1, <1>2, <1>3

\* A commit decides an accepted row; the rest of the invariant goes with it.
LEMMA CommitDecides ==
    ASSUME IInv, NEW t \in txs, Commit(t),
           t.status \in evidence[t.sub], job[t.sub] # "none",
           UNCHANGED <<jobVars, apiVars, queue>>
    PROVE  /\ row'[t.sub] \in Verdicts
           /\ \A s \in Submissions : row'[s] = row[s] \/ (s = t.sub /\ row[s] = "accepted")
           /\ VerdictNotLost' /\ OneWriterPerRow' /\ AckMeansStarted' /\ JobsFollowRows'
           /\ RequestsPrecedeJobs' /\ ExitingHasSent'
<1> USE DEF IInv, TypeOK, jobVars, apiVars
<1>1. /\ t.sub \in Submissions /\ t.status \in Verdicts
      /\ row[t.sub] = "accepted"
      /\ row \in [Submissions -> Statuses]
  BY DEF StoreTypeOK, Transactions, OneWriterPerRow
<1>2. /\ row' = [row EXCEPT ![t.sub] = t.status]
      /\ txs' = txs \ {t}
  BY DEF Commit
<1>3. /\ row'[t.sub] = t.status
      /\ \A s \in Submissions : s # t.sub => row'[s] = row[s]
  BY <1>1, <1>2
<1>4. "accepted" \notin Verdicts /\ "absent" \notin Verdicts /\ "deadline_exceeded" \notin Verdicts
  BY DEF Verdicts
<1>5. VerdictNotLost' /\ ExitingHasSent'
  BY <1>1, <1>3, <1>4 DEF VerdictNotLost, ExitingHasSent
<1>6. OneWriterPerRow'
  BY <1>2, <1>3 DEF OneWriterPerRow, StoreTypeOK, Transactions
<1>7. JobsFollowRows'
  BY <1>1, <1>3, <1>4 DEF JobsFollowRows
<1>8. RequestsPrecedeJobs'
  <2>1. \A q \in requests : q.sub \in Submissions
    BY DEF APITypeOK, Requests
  <2> QED BY <2>1, <1>1, <1>3, <1>4 DEF RequestsPrecedeJobs
<1>9. AckMeansStarted'
  <2>1. \A q \in requests : q.sub \in Submissions
    BY DEF APITypeOK, Requests
  <2>2. \A q \in requests : q.step = "create job" => q.sub # t.sub
    BY <1>1, RequestFacts
  <2>3. acked \subseteq Submissions
    BY DEF APITypeOK
  <2> QED BY <2>1, <2>2, <2>3, <1>1, <1>3, <1>4 DEF AckMeansStarted
<1> QED BY <1>1, <1>3, <1>5, <1>6, <1>7, <1>8, <1>9

\* An UPDATE that matches takes the lock of an accepted row that nobody holds.
LEMMA UpdateLocks ==
    ASSUME OneWriterPerRow, NEW t, UpdateMatches(t)
    PROVE  OneWriterPerRow'
  BY DEF OneWriterPerRow, UpdateMatches, RowLocked

\* With fewer transactions there are no more writers of a row.
LEMMA FewerTransactions ==
    ASSUME OneWriterPerRow, UNCHANGED row, txs' \subseteq txs
    PROVE  OneWriterPerRow'
  BY DEF OneWriterPerRow

\* Leases keep matching when a delivery goes on, and when deliveries and messages go.
LEMMA DeliveryGoesOn ==
    ASSUME LeasesMatchDeliveries, UNCHANGED queue, NEW d \in deliveries, NEW n,
           deliveries' = (deliveries \ {d}) \cup {n},
           n.server = d.server, n.id = d.id, n.body = d.body
    PROVE  LeasesMatchDeliveries'
  BY DEF LeasesMatchDeliveries

\* Fewer deliveries and messages match as well.
LEMMA FewerDeliveries ==
    ASSUME LeasesMatchDeliveries, queue' \subseteq queue, deliveries' \subseteq deliveries
    PROVE  LeasesMatchDeliveries'
  BY DEF LeasesMatchDeliveries

\* A message that becomes visible again has no lease that could match a delivery.
LEMMA VisibleAgain ==
    ASSUME IInv, NEW m, BecomeVisible(m), UNCHANGED <<storeVars, deliveries, jobVars, reconciles>>
    PROVE  VerdictNotLost' /\ ExitingHasSent' /\ LeasesMatchDeliveries' /\ VerdictsHaveEvidence'
<1>1. PICK n : /\ queue' = (queue \ {m}) \cup {n}
               /\ n.id = m.id /\ n.body = m.body /\ n.lease = {}
  BY BecomeVisibleReplaces DEF IInv, TypeOK, MonitorTypeOK, QueueTypeOK
<1>2. m \in queue
  BY DEF BecomeVisible
<1>3. VerdictNotLost' /\ ExitingHasSent'
  BY <1>1, <1>2 DEF IInv, VerdictNotLost, ExitingHasSent, storeVars, jobVars
<1>4. VerdictsHaveEvidence'
  BY <1>1, <1>2 DEF IInv, VerdictsHaveEvidence, jobVars
<1>5. LeasesMatchDeliveries'
  <2>1. \A d \in deliveries : n.lease # {d.server}
    BY <1>1
  <2> QED BY <1>1, <1>2, <2>1 DEF IInv, LeasesMatchDeliveries
<1> QED BY <1>3, <1>4, <1>5

\* A step of the queue monitor keeps the invariant,
LEMMA MonitorKeepsIInv ==
    ASSUME IInv, NEW p \in Servers, Monitor(p) PROVE IInv'
<1> USE DEF IInv, OnlyMonitor, storeVars, jobVars, apiVars
<1>t. TypeOK'
  BY NextKeepsTypes DEF Next
<1>u. UNCHANGED <<jobVars, reconciles, apiVars>>
  BY DEF Monitor
<1>1. CASE DequeueMessage(p)
  <2>1. PICK m \in queue :
            /\ Receive(p, m)
            /\ deliveries' = deliveries \cup
                   {[server |-> p, id |-> m.id, body |-> m.body, step |-> "update"]}
    BY <1>1 DEF DequeueMessage
  <2>2. PICK n : /\ queue' = (queue \ {m}) \cup {n}
                 /\ n.id = m.id /\ n.body = m.body /\ n.lease = {p}
    BY <2>1, ReceiveReplaces DEF TypeOK, MonitorTypeOK, QueueTypeOK
  <2>3. UNCHANGED storeVars /\ \A d \in deliveries : d.server # p
    BY <1>1 DEF DequeueMessage
  <2>4. VerdictNotLost' /\ ExitingHasSent'
    BY <1>u, <2>2, <2>3 DEF VerdictNotLost, ExitingHasSent
  <2>5. LeasesMatchDeliveries'
    <3> DEFINE e == [server |-> p, id |-> m.id, body |-> m.body, step |-> "update"]
    <3>1. e.server = p /\ e.id = m.id /\ e.body = m.body
      OBVIOUS
    <3>2. \A d \in deliveries : n.lease # {d.server}
      BY <2>2, <2>3
    <3>3. \A k \in queue : k.id = m.id => k = m
      BY DEF LeasesMatchDeliveries
    <3> HIDE DEF e
    <3> QED BY <2>1, <2>2, <2>3, <3>1, <3>2, <3>3 DEF LeasesMatchDeliveries
  <2>6. VerdictsHaveEvidence' /\ DeletedIsDecided'
    BY <1>u, <2>1, <2>2, <2>3 DEF VerdictsHaveEvidence, DeletedIsDecided
  <2>7. OneWriterPerRow' /\ AckMeansStarted' /\ JobsFollowRows' /\ RequestsPrecedeJobs'
    BY <1>u, <2>3 DEF OneWriterPerRow, AckMeansStarted, JobsFollowRows, RequestsPrecedeJobs
  <2> QED BY <1>t, <2>4, <2>5, <2>6, <2>7
<1>2. ASSUME NEW d \in deliveries, FinalUpdateMatches(d) PROVE IInv'
  <2>1. PICK n : /\ deliveries' = (deliveries \ {d}) \cup {n}
                 /\ n.server = d.server /\ n.id = d.id /\ n.body = d.body /\ n.step = "audit"
    BY <1>2, GoToReplaces DEF FinalUpdateMatches, TypeOK, MonitorTypeOK
  <2>2. UNCHANGED <<row, queue>>
    BY <1>2 DEF FinalUpdateMatches, UpdateMatches
  <2>3. OneWriterPerRow'
    BY <1>2, UpdateLocks DEF FinalUpdateMatches
  <2>4. LeasesMatchDeliveries'
    BY <2>1, <2>2, DeliveryGoesOn
  <2>5. VerdictsHaveEvidence' /\ DeletedIsDecided'
    BY <1>u, <2>1, <2>2 DEF VerdictsHaveEvidence, DeletedIsDecided
  <2>6. VerdictNotLost' /\ AckMeansStarted' /\ JobsFollowRows' /\ RequestsPrecedeJobs' /\ ExitingHasSent'
    BY <1>u, <2>2
    DEF VerdictNotLost, AckMeansStarted, JobsFollowRows, RequestsPrecedeJobs, ExitingHasSent
  <2> QED BY <1>t, <2>3, <2>4, <2>5, <2>6
<1>3. ASSUME NEW d \in deliveries, FinalUpdateMisses(d) \/ FinalAudit(d) PROVE IInv'
  <2>1. UNCHANGED <<row, txs, queue>>
    BY <1>3 DEF FinalUpdateMisses, UpdateMisses, FinalAudit, AuditResult
  <2>2. PICK n : /\ deliveries' = (deliveries \ {d}) \cup {n}
                 /\ n.server = d.server /\ n.id = d.id /\ n.body = d.body
                 /\ n.step = "delete" => row[d.body.sub] # "accepted"
    <3>1. PICK step : GoTo(d, step) /\ (step = "delete" => row[d.body.sub] # "accepted")
      BY <1>3 DEF FinalUpdateMisses, UpdateMisses, FinalAudit
    <3> QED BY <3>1, GoToReplaces DEF TypeOK, MonitorTypeOK
  <2>3. OneWriterPerRow'
    BY <2>1, FewerTransactions
  <2>4. LeasesMatchDeliveries'
    BY <2>1, <2>2, DeliveryGoesOn
  <2>5. VerdictsHaveEvidence' /\ DeletedIsDecided'
    BY <1>u, <2>1, <2>2 DEF VerdictsHaveEvidence, DeletedIsDecided
  <2>6. VerdictNotLost' /\ AckMeansStarted' /\ JobsFollowRows' /\ RequestsPrecedeJobs' /\ ExitingHasSent'
    BY <1>u, <2>1
    DEF VerdictNotLost, AckMeansStarted, JobsFollowRows, RequestsPrecedeJobs, ExitingHasSent
  <2> QED BY <1>t, <2>3, <2>4, <2>5, <2>6
<1>4. ASSUME NEW d \in deliveries, FinalCommit(d) PROVE IInv'
  <2>1. PICK n : /\ deliveries' = (deliveries \ {d}) \cup {n}
                 /\ n.server = d.server /\ n.id = d.id /\ n.body = d.body
    BY <1>4, GoToReplaces DEF FinalCommit, TypeOK, MonitorTypeOK
  <2>2. FinalTx(d).sub = d.body.sub /\ FinalTx(d).status = d.body.status
    BY FinalTxFields DEF TypeOK, MonitorTypeOK
  <2>3. /\ row'[d.body.sub] \in Verdicts
        /\ \A s \in Submissions : row'[s] = row[s] \/ (s = d.body.sub /\ row[s] = "accepted")
        /\ VerdictNotLost' /\ OneWriterPerRow' /\ AckMeansStarted' /\ JobsFollowRows'
        /\ RequestsPrecedeJobs' /\ ExitingHasSent'
    BY <1>4, <1>u, <2>2, CommitDecides DEF FinalCommit, Commit, VerdictsHaveEvidence
  <2>4. LeasesMatchDeliveries'
    BY <1>4, <2>1, DeliveryGoesOn DEF FinalCommit
  <2>5. VerdictsHaveEvidence'
    BY <1>4, <1>u, <2>1 DEF VerdictsHaveEvidence, FinalCommit
  <2>6. DeletedIsDecided'
    <3>1. \A e \in deliveries : e.body.sub \in Submissions
      BY DEF TypeOK, MonitorTypeOK, Deliveries, FinalBodies
    <3>2. \A r \in reconciles : r.sub \in Submissions
      BY DEF TypeOK, ControllerTypeOK, Reconciles
    <3> QED BY <1>u, <2>1, <2>3, <3>1, <3>2 DEF DeletedIsDecided, Verdicts
  <2> QED BY <1>t, <2>3, <2>4, <2>5, <2>6
<1>5. ASSUME NEW d \in deliveries, FinalTxGone(d) PROVE IInv'
  <2>1. UNCHANGED <<storeVars, queue>> /\ deliveries' \subseteq deliveries
    BY <1>5 DEF FinalTxGone, Leave
  <2>2. LeasesMatchDeliveries'
    BY <2>1, FewerDeliveries
  <2>3. VerdictsHaveEvidence' /\ DeletedIsDecided'
    BY <1>u, <2>1 DEF VerdictsHaveEvidence, DeletedIsDecided
  <2>4. VerdictNotLost' /\ OneWriterPerRow' /\ AckMeansStarted' /\ JobsFollowRows'
        /\ RequestsPrecedeJobs' /\ ExitingHasSent'
    BY <1>u, <2>1 DEF VerdictNotLost, OneWriterPerRow, AckMeansStarted, JobsFollowRows,
                      RequestsPrecedeJobs, ExitingHasSent
  <2> QED BY <1>t, <2>2, <2>3, <2>4
<1>6. ASSUME NEW d \in deliveries, DeleteMessage(d) PROVE IInv'
  <2>1. /\ UNCHANGED storeVars
        /\ deliveries' \subseteq deliveries
        /\ queue' = {m \in queue : ~(m.id = d.id /\ m.lease = {d.server})}
    BY <1>6 DEF DeleteMessage, DeleteReceived, Leave
  <2>2. \A m \in queue \ queue' : m.body = d.body
    BY <2>1 DEF LeasesMatchDeliveries
  <2>3. row[d.body.sub] # "accepted"
    BY <1>6 DEF DeleteMessage, DeletedIsDecided
  <2>4. VerdictNotLost' /\ ExitingHasSent'
    BY <1>u, <2>1, <2>2, <2>3 DEF VerdictNotLost, ExitingHasSent
  <2>5. LeasesMatchDeliveries'
    BY <2>1, FewerDeliveries
  <2>6. VerdictsHaveEvidence' /\ DeletedIsDecided'
    BY <1>u, <2>1 DEF VerdictsHaveEvidence, DeletedIsDecided
  <2>7. OneWriterPerRow' /\ AckMeansStarted' /\ JobsFollowRows' /\ RequestsPrecedeJobs'
    BY <1>u, <2>1 DEF OneWriterPerRow, AckMeansStarted, JobsFollowRows, RequestsPrecedeJobs
  <2> QED BY <1>t, <2>4, <2>5, <2>6, <2>7
<1> QED BY <1>1, <1>2, <1>3, <1>4, <1>5, <1>6 DEF Monitor, MonitorStep

\* so does a failure of it,
LEMMA MonitorFaultKeepsIInv ==
    ASSUME IInv, TypeOK', MonitorFault, OnlyMonitor PROVE IInv'
<1> USE DEF IInv, OnlyMonitor, storeVars, jobVars, apiVars
<1>1. ASSUME NEW d \in deliveries, HandlerFails(d) \/ DeleteFails(d) \/ FinalTxLost(d)
      PROVE  IInv'
  <2>1. /\ UNCHANGED <<row, queue>>
        /\ txs' \subseteq txs /\ deliveries' \subseteq deliveries
    BY <1>1 DEF HandlerFails, DeleteFails, FinalTxLost, Rollback, Leave
  <2>2. LeasesMatchDeliveries'
    BY <2>1, FewerDeliveries
  <2>3. OneWriterPerRow'
    BY <2>1, FewerTransactions
  <2>4. VerdictsHaveEvidence' /\ DeletedIsDecided'
    BY <2>1 DEF VerdictsHaveEvidence, DeletedIsDecided
  <2>5. VerdictNotLost' /\ AckMeansStarted' /\ JobsFollowRows' /\ RequestsPrecedeJobs' /\ ExitingHasSent'
    BY <2>1
    DEF VerdictNotLost, AckMeansStarted, JobsFollowRows, RequestsPrecedeJobs, ExitingHasSent
  <2> QED BY <2>2, <2>3, <2>4, <2>5
<1>2. ASSUME NEW d \in deliveries, CommitUnacknowledged(d) PROVE IInv'
  <2>1. deliveries' \subseteq deliveries /\ UNCHANGED queue
    BY <1>2 DEF CommitUnacknowledged, Leave
  <2>2. FinalTx(d).sub = d.body.sub /\ FinalTx(d).status = d.body.status
    BY FinalTxFields DEF TypeOK, MonitorTypeOK
  <2>3. /\ row'[d.body.sub] \in Verdicts
        /\ \A s \in Submissions : row'[s] = row[s] \/ (s = d.body.sub /\ row[s] = "accepted")
        /\ VerdictNotLost' /\ OneWriterPerRow' /\ AckMeansStarted' /\ JobsFollowRows'
        /\ RequestsPrecedeJobs' /\ ExitingHasSent'
    BY <1>2, <2>1, <2>2, CommitDecides DEF CommitUnacknowledged, Commit, VerdictsHaveEvidence
  <2>4. LeasesMatchDeliveries'
    BY <2>1, FewerDeliveries
  <2>5. VerdictsHaveEvidence'
    BY <2>1 DEF VerdictsHaveEvidence
  <2>6. DeletedIsDecided'
    <3>1. \A e \in deliveries : e.body.sub \in Submissions
      BY DEF TypeOK, MonitorTypeOK, Deliveries, FinalBodies
    <3>2. \A r \in reconciles : r.sub \in Submissions
      BY DEF TypeOK, ControllerTypeOK, Reconciles
    <3> QED BY <2>1, <2>3, <3>1, <3>2 DEF DeletedIsDecided, Verdicts
  <2> QED BY <2>3, <2>4, <2>5, <2>6
<1>3. ASSUME NEW m \in queue, HandlerOverruns(m) PROVE IInv'
  <2>1. BecomeVisible(m) /\ UNCHANGED <<storeVars, deliveries, jobVars, reconciles, apiVars>>
    BY <1>3 DEF HandlerOverruns
  <2>2. VerdictNotLost' /\ ExitingHasSent' /\ LeasesMatchDeliveries' /\ VerdictsHaveEvidence'
    BY <2>1, VisibleAgain
  <2>3. OneWriterPerRow' /\ AckMeansStarted' /\ JobsFollowRows' /\ RequestsPrecedeJobs' /\ DeletedIsDecided'
    BY <2>1 DEF OneWriterPerRow, AckMeansStarted, JobsFollowRows, RequestsPrecedeJobs, DeletedIsDecided
  <2> QED BY <2>2, <2>3
<1> QED BY <1>1, <1>2, <1>3 DEF MonitorFault

\* and a visibility timeout.
LEMMA VisibilityKeepsIInv ==
    ASSUME IInv, Visibility PROVE IInv'
<1> USE DEF IInv, OnlyMonitor, storeVars, jobVars, apiVars
<1>1. TypeOK'
  BY NextKeepsTypes DEF Next
<1>2. PICK m \in queue : BecomeVisible(m)
  BY DEF Visibility, VisibilityTimeout
<1>3. UNCHANGED <<storeVars, deliveries, jobVars, reconciles, apiVars>>
  BY DEF Visibility, VisibilityTimeout
<1>4. VerdictNotLost' /\ ExitingHasSent' /\ LeasesMatchDeliveries' /\ VerdictsHaveEvidence'
  BY <1>2, <1>3, VisibleAgain
<1>5. OneWriterPerRow' /\ AckMeansStarted' /\ JobsFollowRows' /\ RequestsPrecedeJobs' /\ DeletedIsDecided'
  BY <1>3 DEF OneWriterPerRow, AckMeansStarted, JobsFollowRows, RequestsPrecedeJobs, DeletedIsDecided
<1> QED BY <1>1, <1>4, <1>5

\* What a step of the job controller that leaves the rows alone keeps.
LEMMA SameRowsSameJobs ==
    ASSUME IInv, UNCHANGED <<row, jobVars, monitorVars, apiVars>>
    PROVE  /\ VerdictNotLost' /\ AckMeansStarted' /\ JobsFollowRows' /\ RequestsPrecedeJobs'
           /\ LeasesMatchDeliveries' /\ ExitingHasSent'
  BY DEF IInv, jobVars, monitorVars, apiVars, VerdictNotLost, AckMeansStarted, JobsFollowRows,
         RequestsPrecedeJobs, LeasesMatchDeliveries, ExitingHasSent

\* A step of the job controller keeps the invariant,
LEMMA ControllerKeepsIInv ==
    ASSUME IInv, NEW p \in Servers, Controller(p) PROVE IInv'
<1> USE DEF IInv, OnlyController, storeVars, jobVars, apiVars, monitorVars
<1>t. TypeOK'
  BY NextKeepsTypes DEF Next
<1>u. UNCHANGED <<monitorVars, apiVars>>
  BY DEF Controller
<1>1. ASSUME NEW s \in Submissions, ProcessJobUpdate(p, s) PROVE IInv'
  <2>1. UNCHANGED <<storeVars, jobVars>>
    BY <1>1 DEF ProcessJobUpdate
  <2>2. PICK n : /\ reconciles' = reconciles \cup {n}
                 /\ n.sub = s
                 /\ n.step = IF job[s] = "failed" THEN "update" ELSE "delete"
    <3> DEFINE n == [server |-> p, sub |-> s,
                     step |-> IF job[s] = "failed" THEN "update" ELSE "delete"]
    <3>1. n.sub = s /\ n.step = IF job[s] = "failed" THEN "update" ELSE "delete"
      OBVIOUS
    <3>2. reconciles' = reconciles \cup {n}
      BY <1>1 DEF ProcessJobUpdate
    <3> QED BY <3>1, <3>2
  <2>3. VerdictsHaveEvidence' /\ DeletedIsDecided'
    BY <1>1, <1>u, <2>1, <2>2
    DEF ProcessJobUpdate, VerdictsHaveEvidence, DeletedIsDecided, JobsFollowRows
  <2>4. OneWriterPerRow'
    BY <2>1, FewerTransactions
  <2> QED BY <1>t, <1>u, <2>1, <2>3, <2>4, SameRowsSameJobs
<1>2. ASSUME NEW r \in reconciles,
             ErroredUpdateMatches(r) \/ ErroredUpdateMisses(r) \/ ErroredAudit(r)
      PROVE  IInv'
  <2>1. UNCHANGED <<row, jobVars>>
    BY <1>2 DEF ErroredUpdateMatches, UpdateMatches, ErroredUpdateMisses, UpdateMisses,
                ErroredAudit, AuditResult
  <2>2. PICK n : /\ reconciles' = (reconciles \ {r}) \cup {n}
                 /\ n.sub = r.sub
                 /\ n.step = "delete" => row[r.sub] # "accepted"
    <3>1. PICK step : Advance(r, step) /\ (step = "delete" => row[r.sub] # "accepted")
      BY <1>2 DEF ErroredUpdateMatches, ErroredUpdateMisses, UpdateMisses, ErroredAudit
    <3> QED BY <3>1, AdvanceReplaces DEF TypeOK, ControllerTypeOK
  <2>3. r.step # "delete"
    BY <1>2 DEF ErroredUpdateMatches, ErroredUpdateMisses, ErroredAudit
  <2>4. VerdictsHaveEvidence' /\ DeletedIsDecided'
    BY <1>u, <2>1, <2>2, <2>3 DEF VerdictsHaveEvidence, DeletedIsDecided
  <2>5. OneWriterPerRow'
    BY <1>2, <2>1, UpdateLocks, FewerTransactions
    DEF ErroredUpdateMatches, ErroredUpdateMisses, UpdateMisses, ErroredAudit, AuditResult
  <2> QED BY <1>t, <1>u, <2>1, <2>4, <2>5, SameRowsSameJobs
<1>3. ASSUME NEW r \in reconciles, ErroredCommit(r) PROVE IInv'
  <2>1. PICK n : /\ reconciles' = (reconciles \ {r}) \cup {n}
                 /\ n.sub = r.sub /\ n.step = "delete"
    BY <1>3, AdvanceReplaces DEF ErroredCommit, TypeOK, ControllerTypeOK
  <2>2. ErroredTx(r).sub = r.sub /\ ErroredTx(r).status = "errored"
    BY ErroredTxFields DEF TypeOK, ControllerTypeOK
  <2>3. "errored" \in evidence[r.sub] /\ job[r.sub] # "none" /\ UNCHANGED jobVars
    BY <1>3 DEF ErroredCommit, VerdictsHaveEvidence
  <2>4. /\ row'[r.sub] \in Verdicts
        /\ \A s \in Submissions : row'[s] = row[s] \/ (s = r.sub /\ row[s] = "accepted")
        /\ VerdictNotLost' /\ OneWriterPerRow' /\ AckMeansStarted' /\ JobsFollowRows'
        /\ RequestsPrecedeJobs' /\ ExitingHasSent'
    BY <1>3, <1>u, <2>2, <2>3, CommitDecides DEF ErroredCommit, Commit
  <2>5. LeasesMatchDeliveries'
    BY <1>u, FewerDeliveries
  <2>6. VerdictsHaveEvidence'
    BY <1>u, <2>1, <2>3 DEF VerdictsHaveEvidence
  <2>7. DeletedIsDecided'
    <3>1. \A e \in deliveries : e.body.sub \in Submissions
      BY DEF TypeOK, MonitorTypeOK, Deliveries, FinalBodies
    <3>2. \A c \in reconciles : c.sub \in Submissions
      BY DEF TypeOK, ControllerTypeOK, Reconciles
    <3> QED BY <1>u, <2>1, <2>3, <2>4, <3>1, <3>2 DEF DeletedIsDecided, Verdicts
  <2> QED BY <1>t, <2>4, <2>5, <2>6, <2>7
<1>4. ASSUME NEW r \in reconciles, ErroredTxGone(r) PROVE IInv'
  <2>1. UNCHANGED <<storeVars, jobVars>> /\ reconciles' \subseteq reconciles
    BY <1>4 DEF ErroredTxGone, Finish
  <2>2. VerdictsHaveEvidence' /\ DeletedIsDecided'
    BY <1>u, <2>1 DEF VerdictsHaveEvidence, DeletedIsDecided
  <2>3. OneWriterPerRow'
    BY <2>1, FewerTransactions
  <2> QED BY <1>t, <1>u, <2>1, <2>2, <2>3, SameRowsSameJobs
<1>5. ASSUME NEW r \in reconciles, DeleteJob(r) PROVE IInv'
  <2>1. /\ job' = [job EXCEPT ![r.sub] = "deleted"]
        /\ reconciles' \subseteq reconciles
        /\ UNCHANGED <<storeVars, worker, evidence>>
    BY <1>5 DEF DeleteJob, Finish
  <2>2. /\ r.sub \in Submissions
        /\ job \in [Submissions -> JobStates]
        /\ job[r.sub] \in {"complete", "failed", "deleted"}
        /\ job[r.sub] \in {"complete", "deleted"} \/ row[r.sub] # "accepted"
    BY <1>5 DEF DeleteJob, VerdictsHaveEvidence, DeletedIsDecided, TypeOK, ControllerTypeOK,
                Reconciles, JobsTypeOK
  <2>3. \A s \in Submissions : job'[s] = IF s = r.sub THEN "deleted" ELSE job[s]
    BY <2>1, <2>2
  <2>4. VerdictNotLost' /\ ExitingHasSent'
    BY <1>u, <2>1, <2>2, <2>3 DEF VerdictNotLost, ExitingHasSent
  <2>5. JobsFollowRows'
    BY <2>1, <2>2, <2>3 DEF JobsFollowRows
  <2>6. AckMeansStarted' /\ RequestsPrecedeJobs'
    <3>1. acked \subseteq Submissions /\ \A q \in requests : q.sub \in Submissions
      BY DEF TypeOK, APITypeOK, Requests
    <3> QED BY <1>u, <2>1, <2>2, <2>3, <3>1 DEF AckMeansStarted, RequestsPrecedeJobs
  <2>7. VerdictsHaveEvidence' /\ DeletedIsDecided'
    <3>1. /\ \A m \in queue : m.body.sub \in Submissions
          /\ \A e \in deliveries : e.body.sub \in Submissions
          /\ \A c \in reconciles : c.sub \in Submissions
      BY DEF TypeOK, MonitorTypeOK, QueueTypeOK, Messages, Deliveries, FinalBodies,
             ControllerTypeOK, Reconciles
    <3> QED BY <1>u, <2>1, <2>2, <2>3, <3>1 DEF VerdictsHaveEvidence, DeletedIsDecided
  <2>8. LeasesMatchDeliveries' /\ OneWriterPerRow'
    BY <1>u, <2>1, FewerDeliveries, FewerTransactions
  <2> QED BY <1>t, <2>4, <2>5, <2>6, <2>7, <2>8
<1> QED BY <1>1, <1>2, <1>3, <1>4, <1>5 DEF Controller, ControllerStep

\* and so does a failure of it.
LEMMA ControllerFaultKeepsIInv ==
    ASSUME IInv, TypeOK', ControllerFault, OnlyController PROVE IInv'
<1> USE DEF IInv, OnlyController, storeVars, jobVars, apiVars, monitorVars
<1>1. ASSUME NEW r \in reconciles, ReconcileFails(r) \/ ErroredTxLost(r) PROVE IInv'
  <2>1. /\ UNCHANGED <<row, jobVars>>
        /\ txs' \subseteq txs /\ reconciles' \subseteq reconciles
    BY <1>1 DEF ReconcileFails, ErroredTxLost, Rollback, Finish
  <2>2. VerdictsHaveEvidence' /\ DeletedIsDecided'
    BY <2>1 DEF VerdictsHaveEvidence, DeletedIsDecided
  <2> QED BY <2>1, <2>2, FewerTransactions, SameRowsSameJobs
<1>2. ASSUME NEW r \in reconciles, ErroredCommitUnacknowledged(r) PROVE IInv'
  <2>1. reconciles' \subseteq reconciles /\ UNCHANGED jobVars
    BY <1>2 DEF ErroredCommitUnacknowledged, Finish
  <2>2. ErroredTx(r).sub = r.sub /\ ErroredTx(r).status = "errored"
    BY ErroredTxFields DEF TypeOK, ControllerTypeOK
  <2>3. "errored" \in evidence[r.sub] /\ job[r.sub] # "none"
    BY <1>2 DEF ErroredCommitUnacknowledged, VerdictsHaveEvidence
  <2>4. /\ row'[r.sub] \in Verdicts
        /\ \A s \in Submissions : row'[s] = row[s] \/ (s = r.sub /\ row[s] = "accepted")
        /\ VerdictNotLost' /\ OneWriterPerRow' /\ AckMeansStarted' /\ JobsFollowRows'
        /\ RequestsPrecedeJobs' /\ ExitingHasSent'
    BY <1>2, <2>1, <2>2, <2>3, CommitDecides DEF ErroredCommitUnacknowledged, Commit
  <2>5. VerdictsHaveEvidence' /\ LeasesMatchDeliveries'
    BY <2>1, FewerDeliveries DEF VerdictsHaveEvidence
  <2>6. DeletedIsDecided'
    <3>1. \A e \in deliveries : e.body.sub \in Submissions
      BY DEF TypeOK, MonitorTypeOK, Deliveries, FinalBodies
    <3>2. \A c \in reconciles : c.sub \in Submissions
      BY DEF TypeOK, ControllerTypeOK, Reconciles
    <3> QED BY <2>1, <2>4, <3>1, <3>2 DEF DeletedIsDecided, Verdicts
  <2> QED BY <2>4, <2>5, <2>6
<1> QED BY <1>1, <1>2 DEF ControllerFault

\* New messages: each has its own identity and no lease.
LEMMA EnqueueAdds ==
    ASSUME NEW copies, NEW body, Enqueue(copies, body)
    PROVE  /\ queue \subseteq queue'
           /\ \A m \in queue : m.id \notin copies
           /\ \A n \in queue' \ queue : n.body = body /\ n.id \in copies /\ n.lease = {}
           /\ \A n, k \in queue' \ queue : n.id = k.id => n = k
           /\ copies # {} => \E n \in queue' : n.body = body
<1> DEFINE New == {[id |-> i, body |-> body, lease |-> {}] : i \in copies}
<1>1. queue' = queue \cup New /\ \A m \in queue : m.id \notin copies
  BY DEF Enqueue
<1>2. \A n \in New : n.body = body /\ n.id \in copies /\ n.lease = {}
  OBVIOUS
<1>3. \A n, k \in New : n.id = k.id => n = k
  OBVIOUS
<1>4. copies # {} => \E n \in New : n.body = body
  <2>1. ASSUME NEW i \in copies PROVE \E n \in New : n.body = body
    <3>1. [id |-> i, body |-> body, lease |-> {}] \in New
      OBVIOUS
    <3> QED BY <1>2, <3>1
  <2> QED BY <2>1
<1> HIDE DEF New
<1> QED BY <1>1, <1>2, <1>3, <1>4

\* The worker hands its verdict over and stops evaluating.
LEMMA MessageSent ==
    ASSUME IInv, TypeOK', OnlyWorker,
           NEW s \in Submissions, NEW copies, copies # {}, NEW b \in FinalBodiesOf(s),
           NEW w \in {"exiting", "failing"},
           Enqueue(copies, b), ArriveAt(s, b.status),
           worker[s] = "evaluating", WorkerBecomes(s, w), UNCHANGED job
    PROVE  IInv'
<1> USE DEF IInv, OnlyWorker, storeVars, apiVars
<1>1. /\ queue \subseteq queue'
      /\ \A m \in queue : m.id \notin copies
      /\ \A n \in queue' \ queue : n.body = b /\ n.id \in copies /\ n.lease = {}
      /\ \A n, k \in queue' \ queue : n.id = k.id => n = k
      /\ \E n \in queue' : n.body = b
  BY EnqueueAdds
<1>2. b.sub = s
  BY DEF FinalBodiesOf
<1>3. /\ worker \in [Submissions -> WorkerStates]
      /\ evidence \in [Submissions -> SUBSET Verdicts]
  BY DEF TypeOK, JobsTypeOK
<1>4. /\ \A x \in Submissions : worker'[x] = IF x = s THEN w ELSE worker[x]
      /\ \A x \in Submissions : evidence[x] \subseteq evidence'[x]
      /\ b.status \in evidence'[s]
  BY <1>3 DEF WorkerBecomes, ArriveAt
<1>5. job[s] = "running"
  BY DEF JobsFollowRows
<1>6. VerdictNotLost' /\ ExitingHasSent'
  BY <1>1, <1>2, <1>4 DEF VerdictNotLost, ExitingHasSent
<1>7. JobsFollowRows'
  BY <1>4, <1>5 DEF JobsFollowRows
<1>8. VerdictsHaveEvidence'
  <2>1. /\ \A m \in queue : m.body.sub \in Submissions
        /\ \A d \in deliveries : d.body.sub \in Submissions
        /\ \A r \in reconciles : r.sub \in Submissions
    BY DEF TypeOK, MonitorTypeOK, QueueTypeOK, Messages, Deliveries, FinalBodies,
           ControllerTypeOK, Reconciles
  <2> QED BY <1>1, <1>2, <1>4, <1>5, <2>1 DEF VerdictsHaveEvidence
<1>9. LeasesMatchDeliveries'
  <2>1. \A n \in queue' \ queue, d \in deliveries : n.lease # {d.server}
    BY <1>1
  <2> QED BY <1>1, <2>1 DEF LeasesMatchDeliveries
<1>10. OneWriterPerRow' /\ AckMeansStarted' /\ RequestsPrecedeJobs' /\ DeletedIsDecided'
  BY DEF OneWriterPerRow, AckMeansStarted, RequestsPrecedeJobs, DeletedIsDecided
<1> QED BY <1>6, <1>7, <1>8, <1>9, <1>10

\* The pod ends and its job with it.
LEMMA PodEnds ==
    ASSUME IInv, TypeOK', OnlyWorker, UNCHANGED queue,
           NEW s \in Submissions, worker[s] # "none", WorkerBecomes(s, "none"),
           NEW st \in {"complete", "failed"}, job' = [job EXCEPT ![s] = st],
           \/ st = "complete" /\ worker[s] = "exiting" /\ UNCHANGED evidence
           \/ st = "failed" /\ ArriveAt(s, "errored")
    PROVE  IInv'
<1> USE DEF IInv, OnlyWorker, storeVars, apiVars
<1>1. /\ worker \in [Submissions -> WorkerStates]
      /\ job \in [Submissions -> JobStates]
      /\ evidence \in [Submissions -> SUBSET Verdicts]
  BY DEF TypeOK, JobsTypeOK
<1>2. /\ \A x \in Submissions : worker'[x] = IF x = s THEN "none" ELSE worker[x]
      /\ \A x \in Submissions : job'[x] = IF x = s THEN st ELSE job[x]
      /\ \A x \in Submissions : evidence[x] \subseteq evidence'[x]
      /\ st = "failed" => "errored" \in evidence'[s]
  BY <1>1 DEF WorkerBecomes, ArriveAt
<1>3. job[s] = "running"
  BY DEF JobsFollowRows
<1>4. VerdictNotLost' /\ ExitingHasSent'
  BY <1>2 DEF VerdictNotLost, ExitingHasSent
<1>5. JobsFollowRows'
  BY <1>2, <1>3 DEF JobsFollowRows
<1>6. /\ \A m \in queue : m.body.sub \in Submissions
      /\ \A d \in deliveries : d.body.sub \in Submissions
      /\ \A r \in reconciles : r.sub \in Submissions /\ r.sub # s
  BY <1>3 DEF TypeOK, MonitorTypeOK, QueueTypeOK, Messages, Deliveries, FinalBodies,
         ControllerTypeOK, Reconciles, VerdictsHaveEvidence
<1>7. VerdictsHaveEvidence' /\ DeletedIsDecided'
  BY <1>2, <1>3, <1>6 DEF VerdictsHaveEvidence, DeletedIsDecided
<1>8. AckMeansStarted' /\ RequestsPrecedeJobs'
  <2>1. acked \subseteq Submissions /\ \A q \in requests : q.sub \in Submissions
    BY DEF TypeOK, APITypeOK, Requests
  <2>2. \A x \in Submissions : job'[x] = "none" <=> job[x] = "none"
    BY <1>2, <1>3
  <2>3. AckMeansStarted'
    BY <2>1, <2>2 DEF AckMeansStarted
  <2>4. RequestsPrecedeJobs'
    BY <2>1, <2>2 DEF RequestsPrecedeJobs
  <2> QED BY <2>3, <2>4
<1>9. OneWriterPerRow' /\ LeasesMatchDeliveries'
  BY FewerTransactions, FewerDeliveries
<1> QED BY <1>4, <1>5, <1>7, <1>8, <1>9

\* A step of a worker keeps the invariant.
LEMMA WorkerKeepsIInv ==
    ASSUME IInv, TypeOK', OnlyWorker,
           \/ \E s \in Submissions : WorkerStep(s)
           \/ WorkerFault
    PROVE  IInv'
<1>1. ASSUME NEW s \in Submissions, NEW copies, copies # {}, SendFinalMessage(s, copies)
      PROVE  IInv'
  BY <1>1, MessageSent DEF SendFinalMessage
<1>2. ASSUME NEW s \in Submissions, FinalMessageUnacknowledged(s) PROVE IInv'
  BY <1>2, MessageSent DEF FinalMessageUnacknowledged
<1>3. ASSUME NEW s \in Submissions, PodSucceeds(s) PROVE IInv'
  BY <1>3, PodEnds DEF PodSucceeds
<1>4. ASSUME NEW s \in Submissions, PodFails(s) \/ PodKilled(s) PROVE IInv'
  BY <1>4, PodEnds DEF PodFails, PodKilled
<1>5. ASSUME NEW s \in Submissions, WorkerErrs(s) \/ PodDisrupted(s) PROVE IInv'
  <2> USE DEF IInv, OnlyWorker, storeVars, apiVars
  <2>1. PICK w \in {"evaluating", "failing"} : WorkerBecomes(s, w)
    BY <1>5 DEF WorkerErrs, PodDisrupted
  <2>2. worker[s] # "none" /\ UNCHANGED <<queue, job, evidence>>
    BY <1>5 DEF WorkerErrs, PodDisrupted
  <2>3. \A x \in Submissions : worker'[x] = IF x = s THEN w ELSE worker[x]
    BY <2>1 DEF WorkerBecomes, TypeOK, JobsTypeOK
  <2>4. JobsFollowRows' /\ ExitingHasSent'
    BY <2>2, <2>3 DEF JobsFollowRows, ExitingHasSent
  <2>5. /\ VerdictNotLost' /\ OneWriterPerRow' /\ AckMeansStarted' /\ RequestsPrecedeJobs'
        /\ VerdictsHaveEvidence' /\ LeasesMatchDeliveries' /\ DeletedIsDecided'
    BY <2>2 DEF VerdictNotLost, OneWriterPerRow, AckMeansStarted, RequestsPrecedeJobs,
                VerdictsHaveEvidence, LeasesMatchDeliveries, DeletedIsDecided
  <2> QED BY <2>4, <2>5
<1> QED BY <1>1, <1>2, <1>3, <1>4, <1>5 DEF WorkerStep, WorkerFault, DuplicateFinalMessage

\* The job of a request that is about to create it.
LEMMA JobCreated ==
    ASSUME IInv, OnlyAPI, NEW q \in requests, q.step = "create job",
           CreateEvalJob(q.sub), UNCHANGED storeVars
    PROVE  /\ \A s \in Submissions : job'[s] = IF s = q.sub THEN "running" ELSE job[s]
           /\ q.sub \in Submissions /\ job[q.sub] = "none" /\ row[q.sub] = "accepted"
           /\ q.status = "accepted"
           /\ VerdictNotLost' /\ OneWriterPerRow' /\ JobsFollowRows' /\ VerdictsHaveEvidence'
           /\ LeasesMatchDeliveries' /\ DeletedIsDecided' /\ ExitingHasSent'
<1> USE DEF IInv, OnlyAPI, storeVars, monitorVars
<1>1. /\ worker \in [Submissions -> WorkerStates]
      /\ job \in [Submissions -> JobStates]
      /\ q.sub \in Submissions
  BY DEF TypeOK, JobsTypeOK, APITypeOK, Requests
<1>2. row[q.sub] = "accepted" /\ job[q.sub] = "none" /\ q.status = "accepted"
  BY RequestFacts
<1>3. /\ \A s \in Submissions : job'[s] = IF s = q.sub THEN "running" ELSE job[s]
      /\ \A s \in Submissions : worker'[s] = IF s = q.sub THEN "evaluating" ELSE worker[s]
      /\ evidence' = evidence
  BY <1>1 DEF CreateEvalJob
<1>4. VerdictNotLost' /\ ExitingHasSent'
  BY <1>3 DEF VerdictNotLost, ExitingHasSent
<1>5. JobsFollowRows'
  BY <1>2, <1>3 DEF JobsFollowRows
<1>6. /\ \A m \in queue : m.body.sub \in Submissions
      /\ \A d \in deliveries : d.body.sub \in Submissions
      /\ \A r \in reconciles : r.sub \in Submissions /\ r.sub # q.sub
  BY <1>2 DEF TypeOK, MonitorTypeOK, QueueTypeOK, Messages, Deliveries, FinalBodies,
         ControllerTypeOK, Reconciles, VerdictsHaveEvidence
<1>7. VerdictsHaveEvidence' /\ DeletedIsDecided'
  BY <1>3, <1>6 DEF VerdictsHaveEvidence, DeletedIsDecided
<1>8. OneWriterPerRow' /\ LeasesMatchDeliveries'
  BY FewerTransactions, FewerDeliveries
<1> QED BY <1>1, <1>2, <1>3, <1>4, <1>5, <1>7, <1>8

\* What a step that only moves requests keeps.
LEMMA OnlyRequestsMove ==
    ASSUME IInv, UNCHANGED <<storeVars, monitorVars, jobVars, reconciles>>
    PROVE  /\ VerdictNotLost' /\ OneWriterPerRow' /\ JobsFollowRows' /\ VerdictsHaveEvidence'
           /\ LeasesMatchDeliveries' /\ DeletedIsDecided' /\ ExitingHasSent'
  BY DEF IInv, storeVars, monitorVars, jobVars, VerdictNotLost, OneWriterPerRow, JobsFollowRows,
         VerdictsHaveEvidence, LeasesMatchDeliveries, DeletedIsDecided, ExitingHasSent

\* One request goes on; n is what becomes of it.
LEMMA RequestProceeds ==
    ASSUME RequestsPrecedeJobs, UNCHANGED row, NEW q \in requests, NEW n,
           requests' = (requests \ {q}) \cup {n}, n.sub = q.sub,
           \A o \in requests \ {q} : job'[o.sub] = job[o.sub],
           n.status = "deadline_exceeded" =>
               row[n.sub] = "deadline_exceeded" /\ n.step = "respond",
           n.status = "accepted" =>
               \/ n.step = "respond" /\ job'[n.sub] # "none"
               \/ n.step # "respond" /\ row[n.sub] = "accepted" /\ job'[n.sub] = "none"
    PROVE  RequestsPrecedeJobs'
<1>1. \A o, k \in requests' : o.sub = k.sub => o = k
  <2>1. \A o, k \in requests : o.sub = k.sub => o = k
    BY DEF RequestsPrecedeJobs
  <2>2. \A o \in requests' : o = n \/ (o \in requests /\ o.sub # n.sub)
    BY <2>1
  <2> QED BY <2>1, <2>2
<1>2. \A o \in requests' :
        /\ o.status = "deadline_exceeded" =>
               row'[o.sub] = "deadline_exceeded" /\ o.step # "create job"
        /\ o.status = "accepted" /\ o.step = "respond" => job'[o.sub] # "none"
        /\ o.status = "accepted" /\ o.step # "respond" =>
               row'[o.sub] = "accepted" /\ job'[o.sub] = "none"
  BY DEF RequestsPrecedeJobs
<1> QED BY <1>1, <1>2 DEF RequestsPrecedeJobs

\* A step of a request handler keeps the invariant, and so does a failure of it.
LEMMA APIKeepsIInv ==
    ASSUME IInv, TypeOK', OnlyAPI,
           \/ \E p \in Servers : APIStep(p)
           \/ APIFault
    PROVE  IInv'
<1> USE DEF IInv, OnlyAPI, storeVars, jobVars, monitorVars
<1>1. /\ \A q \in requests : q.sub \in Submissions
      /\ acked \subseteq Submissions
  BY DEF TypeOK, APITypeOK, Requests
<1>2. ASSUME NEW q \in requests, ArchiveSubmission(q) PROVE IInv'
  <2>1. UNCHANGED <<storeVars, jobVars, acked>> /\ q.step = "archive"
    BY <1>2 DEF ArchiveSubmission
  <2>2. PICK step : /\ Proceed(q, step)
                    /\ \/ step = "create job" /\ q.status = "accepted"
                       \/ step = "respond" /\ q.status = "deadline_exceeded"
    BY <1>2, RequestFacts DEF ArchiveSubmission
  <2>3. PICK n : /\ requests' = (requests \ {q}) \cup {n}
                 /\ n.sub = q.sub /\ n.status = q.status /\ n.step = step
    <3>1. Proceed(q, step)
      BY <2>2
    <3>2. requests \subseteq Requests
      BY DEF TypeOK, APITypeOK
    <3> QED BY <3>1, <3>2, ProceedReplaces
  <2>4. /\ n.status = "accepted" => row[n.sub] = "accepted" /\ job[n.sub] = "none"
        /\ n.status = "accepted" => n.step = "create job"
        /\ n.status = "deadline_exceeded" => row[n.sub] = "deadline_exceeded" /\ n.step = "respond"
    BY <2>1, <2>2, <2>3 DEF RequestsPrecedeJobs
  <2>5. RequestsPrecedeJobs'
    BY <2>1, <2>3, <2>4, RequestProceeds
  <2>6. AckMeansStarted'
    BY <2>1, <2>2, <2>3, <2>4 DEF AckMeansStarted
  <2> QED BY <2>1, <2>5, <2>6, OnlyRequestsMove
<1>3. ASSUME NEW q \in requests, StartEvaluation(q) PROVE IInv'
  <2>1. UNCHANGED <<storeVars, acked>> /\ q.step = "create job" /\ CreateEvalJob(q.sub)
    BY <1>3 DEF StartEvaluation
  <2>2. PICK n : /\ requests' = (requests \ {q}) \cup {n}
                 /\ n.sub = q.sub /\ n.status = q.status /\ n.step = "respond"
    BY <1>3, ProceedReplaces DEF StartEvaluation, TypeOK, APITypeOK
  <2>3. /\ \A s \in Submissions : job'[s] = IF s = q.sub THEN "running" ELSE job[s]
        /\ q.status = "accepted"
    BY <2>1, JobCreated
  <2>4. \A o \in requests \ {q} : o.sub # q.sub
    BY DEF RequestsPrecedeJobs
  <2>5. RequestsPrecedeJobs'
    <3>1. job'[n.sub] = "running" /\ n.status = "accepted" /\ n.step = "respond"
      BY <1>1, <2>2, <2>3
    <3>2. \A o \in requests \ {q} : job'[o.sub] = job[o.sub]
      BY <1>1, <2>3, <2>4
    <3> QED BY <2>1, <2>2, <3>1, <3>2, RequestProceeds
  <2>6. AckMeansStarted'
    BY <1>1, <2>1, <2>2, <2>3, <2>4 DEF AckMeansStarted
  <2> QED BY <2>1, <2>5, <2>6, JobCreated
<1>4. ASSUME NEW q \in requests, StartUnacknowledged(q) PROVE IInv'
  <2>1. /\ UNCHANGED <<storeVars, acked>> /\ q.step = "create job" /\ CreateEvalJob(q.sub)
        /\ requests' = requests \ {q}
    BY <1>4 DEF StartUnacknowledged, EndRequest
  <2>2. \A s \in Submissions : job'[s] = IF s = q.sub THEN "running" ELSE job[s]
    BY <2>1, JobCreated
  <2>3. RequestsPrecedeJobs' /\ AckMeansStarted'
    BY <1>1, <2>1, <2>2 DEF RequestsPrecedeJobs, AckMeansStarted
  <2> QED BY <2>1, <2>3, JobCreated
<1>5. ASSUME NEW q \in requests, Respond(q) \/ RequestFails(q) PROVE IInv'
  <2>1. /\ UNCHANGED <<storeVars, jobVars>>
        /\ requests' = requests \ {q}
        /\ acked' = acked \/ (acked' = acked \cup {q.sub} /\ q.step = "respond")
    BY <1>5 DEF Respond, RequestFails, EndRequest
  <2>2. RequestsPrecedeJobs'
    BY <2>1 DEF RequestsPrecedeJobs
  <2>3. AckMeansStarted'
    BY <2>1, RequestFacts DEF AckMeansStarted
  <2> QED BY <2>1, <2>2, <2>3, OnlyRequestsMove
<1> QED BY <1>2, <1>3, <1>4, <1>5 DEF APIStep, APIFault

\* A new submission keeps the invariant.
LEMMA SubmitKeepsIInv ==
    ASSUME IInv, NEW p \in Servers, NEW s \in Submissions, Submit(p, s) PROVE IInv'
<1> USE DEF IInv, OnlyAPI, jobVars, monitorVars
<1>1. TypeOK'
  BY NextKeepsTypes DEF Next
<1>2. PICK st \in InitialStatuses : InsertSubmission(p, s, st)
  BY DEF Submit
<1>3. /\ row[s] = "absent"
      /\ \A x \in Submissions : x # s => row'[x] = row[x]
      /\ row'[s] = st /\ st \in {"accepted", "deadline_exceeded"}
      /\ UNCHANGED <<txs, jobVars, monitorVars, reconciles, acked>>
  BY <1>2 DEF InsertSubmission, InsertRow, InitialStatuses, Submit, TypeOK, StoreTypeOK
<1>4. job[s] = "none" /\ worker[s] = "none"
  BY <1>3 DEF JobsFollowRows, Verdicts
<1>5. PICK n : /\ requests' = requests \cup {n}
               /\ n.sub = s /\ n.status = st /\ n.step = "archive"
  <2> DEFINE n == [server |-> p, sub |-> s, status |-> st, step |-> "archive"]
  <2>1. n.sub = s /\ n.status = st /\ n.step = "archive"
    OBVIOUS
  <2>2. requests' = requests \cup {n}
    BY <1>2 DEF InsertSubmission
  <2> QED BY <2>1, <2>2
<1>6. \A q \in requests : q.sub \in Submissions /\ q.sub # s
  BY <1>3, RequestFacts
<1>7. /\ acked \subseteq Submissions /\ s \notin acked
      /\ \A t \in txs : t.sub \in Submissions /\ t.sub # s
      /\ \A m \in queue : m.body.sub \in Submissions
      /\ \A d \in deliveries : d.body.sub \in Submissions /\ d.body.sub # s
      /\ \A r \in reconciles : r.sub \in Submissions /\ r.sub # s
  BY <1>3, <1>4
  DEF TypeOK, StoreTypeOK, Transactions, MonitorTypeOK, QueueTypeOK, Messages, Deliveries,
      FinalBodies, ControllerTypeOK, Reconciles, APITypeOK, AckMeansStarted, OneWriterPerRow,
      VerdictsHaveEvidence
<1>8. VerdictNotLost' /\ ExitingHasSent'
  BY <1>3, <1>4 DEF VerdictNotLost, ExitingHasSent
<1>9. OneWriterPerRow'
  BY <1>3, <1>7 DEF OneWriterPerRow
<1>10. JobsFollowRows'
  BY <1>3, <1>4 DEF JobsFollowRows, Verdicts
<1>11. RequestsPrecedeJobs'
  BY <1>3, <1>4, <1>5, <1>6 DEF RequestsPrecedeJobs
<1>12. AckMeansStarted'
  BY <1>3, <1>5, <1>6, <1>7 DEF AckMeansStarted
<1>13. VerdictsHaveEvidence' /\ LeasesMatchDeliveries'
  BY <1>3, FewerDeliveries DEF VerdictsHaveEvidence
<1>14. DeletedIsDecided'
  BY <1>3, <1>7 DEF DeletedIsDecided
<1> QED BY <1>1, <1>8, <1>9, <1>10, <1>11, <1>12, <1>13, <1>14

\* A crash of a server keeps the invariant.
LEMMA CrashKeepsIInv ==
    ASSUME IInv, TypeOK', NEW p \in Servers, Crash(p) PROVE IInv'
<1> USE DEF IInv, jobVars
<1>1. /\ UNCHANGED <<row, queue, jobVars, acked>>
      /\ requests' \subseteq requests /\ deliveries' \subseteq deliveries
      /\ reconciles' \subseteq reconciles /\ txs' \subseteq txs
  BY DEF Crash, Rollback
<1>2. VerdictNotLost' /\ JobsFollowRows' /\ ExitingHasSent'
  BY <1>1 DEF VerdictNotLost, JobsFollowRows, ExitingHasSent
<1>3. OneWriterPerRow' /\ LeasesMatchDeliveries'
  BY <1>1, FewerTransactions, FewerDeliveries
<1>4. RequestsPrecedeJobs' /\ AckMeansStarted'
  BY <1>1 DEF RequestsPrecedeJobs, AckMeansStarted
<1>5. VerdictsHaveEvidence' /\ DeletedIsDecided'
  BY <1>1 DEF VerdictsHaveEvidence, DeletedIsDecided
<1> QED BY <1>2, <1>3, <1>4, <1>5

\* The invariant is inductive: every step of the pipeline keeps it,
LEMMA NextKeepsIInv == IInv /\ [Next]_vars => IInv'
<1> SUFFICES ASSUME IInv, [Next]_vars PROVE IInv'
  OBVIOUS
<1>1. TypeOK'
  BY NextKeepsTypes DEF IInv
<1>2. ASSUME NEW p \in Servers, NEW s \in Submissions, Submit(p, s) PROVE IInv'
  BY <1>2, SubmitKeepsIInv
<1>3. ASSUME NEW p \in Servers, API(p) \/ Monitor(p) \/ Controller(p) PROVE IInv'
  BY <1>1, <1>3, APIKeepsIInv, MonitorKeepsIInv, ControllerKeepsIInv DEF API
<1>4. ASSUME NEW s \in Submissions, Worker(s) PROVE IInv'
  BY <1>1, <1>4, WorkerKeepsIInv DEF Worker
<1>5. CASE Visibility
  BY <1>5, VisibilityKeepsIInv
<1>6. CASE Fault
  BY <1>1, <1>6, APIKeepsIInv, WorkerKeepsIInv, MonitorFaultKeepsIInv, ControllerFaultKeepsIInv,
     CrashKeepsIInv DEF Fault
<1>7. CASE UNCHANGED vars
  BY <1>1, <1>7
  DEF vars, storeVars, monitorVars, jobVars, apiVars, IInv, VerdictNotLost, OneWriterPerRow,
      AckMeansStarted, JobsFollowRows, RequestsPrecedeJobs, VerdictsHaveEvidence,
      LeasesMatchDeliveries, DeletedIsDecided, ExitingHasSent
<1> QED BY <1>2, <1>3, <1>4, <1>5, <1>6, <1>7 DEF Next

\* and it holds at the start.
LEMMA InitHoldsIInv == Init => IInv
<1> SUFFICES ASSUME Init PROVE IInv
  OBVIOUS
<1> USE DEF Init, StoreInit, MonitorInit, QueueInit, JobsInit, ControllerInit, APIInit
<1>1. TypeOK
  BY MaxFaultsAssumption
  DEF TypeOK, StoreTypeOK, MonitorTypeOK, QueueTypeOK, JobsTypeOK, ControllerTypeOK, APITypeOK,
      Statuses, TestResults, JobStates, WorkerStates
<1>2. VerdictNotLost /\ JobsFollowRows /\ ExitingHasSent
  BY DEF VerdictNotLost, JobsFollowRows, ExitingHasSent, Verdicts
<1>3. OneWriterPerRow /\ AckMeansStarted /\ RequestsPrecedeJobs
  BY DEF OneWriterPerRow, AckMeansStarted, RequestsPrecedeJobs
<1>4. VerdictsHaveEvidence /\ LeasesMatchDeliveries /\ DeletedIsDecided
  BY DEF VerdictsHaveEvidence, LeasesMatchDeliveries, DeletedIsDecided
<1> QED BY <1>1, <1>2, <1>3, <1>4 DEF IInv

\* The invariant of every reachable state, with whatever failures.
THEOREM Inductive == Safety => []IInv
  BY InitHoldsIInv, NextKeepsIInv, PTL DEF Safety

\* A finished evaluation is never forgotten (the message outlives the job until the
\* row is decided).
THEOREM NothingIsLost == Safety => []VerdictNotLost
  BY Inductive, PTL DEF IInv

\* At most one transaction is about to decide a row, and the row is still undecided.
THEOREM WritersExclude == Safety => []OneWriterPerRow
  BY Inductive, PTL DEF IInv

\* A 200 for an accepted submission means that its evaluation was started.
THEOREM AckIsHonest == Safety => []AckMeansStarted
  BY Inductive, PTL DEF IInv

(***************************************************************************)
(* What a step does to the rows, and the promise of Verdict.               *)
(***************************************************************************)

Quiet == UNCHANGED <<row, tests, evidence>>

Inserts ==
    \E s \in Submissions, st \in InitialStatuses : InsertRow(s, st) /\ UNCHANGED evidence

Commits ==
    \E t \in txs : Commit(t) /\ t.status \in evidence[t.sub] /\ UNCHANGED evidence

Arrives ==
    \E s \in Submissions, v \in Verdicts :
        worker[s] # "none" /\ ArriveAt(s, v) /\ UNCHANGED <<row, tests>>

Effect == Quiet \/ Inserts \/ Commits \/ Arrives

\* What the queue monitor can do to the rows and to the evidence: decide one row.
LEMMA MonitorEffect ==
    ASSUME IInv, OnlyMonitor,
           \/ \E p \in Servers : MonitorStep(p)
           \/ MonitorFault
           \/ \E m \in queue : VisibilityTimeout(m)
    PROVE  Quiet \/ Commits
<1> USE DEF OnlyMonitor, jobVars, storeVars
<1>1. ASSUME NEW d \in deliveries, FinalCommit(d) \/ CommitUnacknowledged(d) PROVE Commits
  <2>1. Commit(FinalTx(d)) /\ FinalTx(d) \in txs
    BY <1>1 DEF FinalCommit, CommitUnacknowledged, Commit
  <2>2. FinalTx(d).status \in evidence[FinalTx(d).sub]
    BY FinalTxFields DEF IInv, TypeOK, MonitorTypeOK, VerdictsHaveEvidence
  <2> QED BY <2>1, <2>2 DEF Commits
<1>2. ASSUME NEW d \in deliveries,
             \/ FinalUpdateMatches(d) \/ FinalUpdateMisses(d) \/ FinalAudit(d) \/ FinalTxGone(d)
             \/ DeleteMessage(d) \/ HandlerFails(d) \/ DeleteFails(d) \/ FinalTxLost(d)
      PROVE  Quiet
  BY <1>2 DEF FinalUpdateMatches, UpdateMatches, FinalUpdateMisses, UpdateMisses, FinalAudit,
              AuditResult, FinalTxGone, DeleteMessage, HandlerFails, DeleteFails, FinalTxLost,
              Rollback, Quiet
<1>3. ASSUME NEW m \in queue, HandlerOverruns(m) \/ VisibilityTimeout(m) PROVE Quiet
  BY <1>3 DEF HandlerOverruns, VisibilityTimeout, Quiet
<1>4. ASSUME NEW p \in Servers, DequeueMessage(p) PROVE Quiet
  BY <1>4 DEF DequeueMessage, Quiet
<1> QED BY <1>1, <1>2, <1>3, <1>4 DEF MonitorStep, MonitorFault

\* The same of the job controller.
LEMMA ControllerEffect ==
    ASSUME IInv, \/ \E p \in Servers : ControllerStep(p)
                 \/ ControllerFault
    PROVE  Quiet \/ Commits
<1> USE DEF jobVars, storeVars
<1>1. ASSUME NEW r \in reconciles, ErroredCommit(r) \/ ErroredCommitUnacknowledged(r) PROVE Commits
  <2>1. Commit(ErroredTx(r)) /\ ErroredTx(r) \in txs /\ UNCHANGED evidence
    BY <1>1 DEF ErroredCommit, ErroredCommitUnacknowledged, Commit
  <2>2. ErroredTx(r).status \in evidence[ErroredTx(r).sub]
    BY <1>1, ErroredTxFields
    DEF ErroredCommit, ErroredCommitUnacknowledged, IInv, TypeOK, ControllerTypeOK,
        VerdictsHaveEvidence
  <2> QED BY <2>1, <2>2 DEF Commits
<1>2. ASSUME NEW r \in reconciles,
             \/ ErroredUpdateMatches(r) \/ ErroredUpdateMisses(r) \/ ErroredAudit(r)
             \/ ErroredTxGone(r) \/ DeleteJob(r) \/ ReconcileFails(r) \/ ErroredTxLost(r)
      PROVE  Quiet
  BY <1>2 DEF ErroredUpdateMatches, UpdateMatches, ErroredUpdateMisses, UpdateMisses, ErroredAudit,
              AuditResult, ErroredTxGone, DeleteJob, ReconcileFails, ErroredTxLost, Rollback, Quiet
<1>3. ASSUME NEW p \in Servers, NEW s \in Submissions, ProcessJobUpdate(p, s) PROVE Quiet
  BY <1>3 DEF ProcessJobUpdate, Quiet
<1> QED BY <1>1, <1>2, <1>3 DEF ControllerStep, ControllerFault

\* A worker only adds to the evidence.
LEMMA WorkerEffect ==
    ASSUME IInv, OnlyWorker, \/ \E s \in Submissions : WorkerStep(s)
                             \/ WorkerFault
    PROVE  Quiet \/ Arrives
<1> USE DEF OnlyWorker, storeVars
<1>1. ASSUME NEW s \in Submissions, NEW copies, SendFinalMessage(s, copies) PROVE Arrives
  BY <1>1 DEF SendFinalMessage, FinalBodiesOf, FinalBodies, Arrives
<1>2. ASSUME NEW s \in Submissions, FinalMessageUnacknowledged(s) PROVE Arrives
  BY <1>2 DEF FinalMessageUnacknowledged, FinalBodiesOf, FinalBodies, Arrives
<1>3. ASSUME NEW s \in Submissions, PodFails(s) \/ PodKilled(s) PROVE Arrives
  BY <1>3 DEF PodFails, PodKilled, Arrives, Verdicts
<1>4. ASSUME NEW s \in Submissions, PodSucceeds(s) \/ WorkerErrs(s) \/ PodDisrupted(s) PROVE Quiet
  BY <1>4 DEF PodSucceeds, WorkerErrs, PodDisrupted, Quiet
<1> QED BY <1>1, <1>2, <1>3, <1>4 DEF WorkerStep, WorkerFault, DuplicateFinalMessage

\* The request handlers only make rows.
LEMMA APIEffect ==
    ASSUME \/ \E p \in Servers : APIStep(p)
           \/ APIFault
    PROVE  Quiet
  BY DEF APIStep, APIFault, ArchiveSubmission, StartEvaluation, Respond, RequestFails,
         StartUnacknowledged, CreateEvalJob, storeVars, jobVars, Quiet

\* A step inserts a row, decides one with a verdict of its evaluation, brings an
\* evaluation to a verdict, or does nothing to any of that.
LEMMA StepEffect == IInv /\ [Next]_vars => Effect
<1> SUFFICES ASSUME IInv, [Next]_vars PROVE Effect
  OBVIOUS
<1> USE DEF Effect
<1>1. ASSUME NEW p \in Servers, NEW s \in Submissions, Submit(p, s) PROVE Effect
  BY <1>1 DEF Submit, InsertSubmission, jobVars, Inserts
<1>2. ASSUME NEW p \in Servers, API(p) PROVE Effect
  BY <1>2, APIEffect DEF API
<1>3. ASSUME NEW p \in Servers, Monitor(p) PROVE Effect
  BY <1>3, MonitorEffect DEF Monitor
<1>4. ASSUME NEW p \in Servers, Controller(p) PROVE Effect
  BY <1>4, ControllerEffect DEF Controller
<1>5. ASSUME NEW s \in Submissions, Worker(s) PROVE Effect
  BY <1>5, WorkerEffect DEF Worker
<1>6. CASE Visibility
  BY <1>6, MonitorEffect DEF Visibility
<1>7. ASSUME NEW p \in Servers, Crash(p) PROVE Effect
  BY <1>7 DEF Crash, Rollback, jobVars, Quiet
<1>8. CASE Fault
  BY <1>7, <1>8, APIEffect, WorkerEffect, MonitorEffect, ControllerEffect DEF Fault
<1>9. CASE UNCHANGED vars
  BY <1>9 DEF vars, storeVars, jobVars, Quiet
<1> QED BY <1>1, <1>2, <1>3, <1>4, <1>5, <1>6, <1>8, <1>9 DEF Next

\* What a commit does to the row and the tests of its submission, and to no other.
LEMMA CommitEffect ==
    ASSUME IInv, NEW t \in txs, Commit(t)
    PROVE  /\ t.sub \in Submissions /\ row[t.sub] = "accepted" /\ t.status \in Verdicts
           /\ row' = [row EXCEPT ![t.sub] = t.status]
           /\ \A s \in Submissions : s # t.sub => row'[s] = row[s] /\ tests'[s] = tests[s]
  BY DEF IInv, TypeOK, StoreTypeOK, Transactions, OneWriterPerRow, Commit

\* A verdict, and functionality_tests_passing with it, is final; so is
\* "deadline_exceeded".
THEOREM VerdictsAreFinal == Safety => VerdictIsFinal
<1> DEFINE Final == \A s \in Submissions :
        row[s] \in Verdicts \cup {"deadline_exceeded"} =>
            row'[s] = row[s] /\ tests'[s] = tests[s]
<1>1. IInv /\ [Next]_vars => Final
  <2> SUFFICES ASSUME IInv, [Next]_vars, NEW s \in Submissions,
                      row[s] \in Verdicts \cup {"deadline_exceeded"}
               PROVE  row'[s] = row[s] /\ tests'[s] = tests[s]
    OBVIOUS
  <2>1. CASE Quiet \/ Arrives
    BY <2>1 DEF Quiet, Arrives
  <2>2. CASE Inserts
    BY <2>2 DEF Inserts, InsertRow, IInv, TypeOK, StoreTypeOK, Verdicts
  <2>3. CASE Commits
    BY <2>3, CommitEffect DEF Commits, Verdicts
  <2> QED BY <2>1, <2>2, <2>3, StepEffect DEF Effect
<1> QED BY <1>1, Inductive, PTL DEF Safety, VerdictIsFinal

\* The pipeline implements the safety part of what Verdict promises of a submission.
THEOREM PipelineKeepsPromise == Safety => KeepsPromise
<1>1. Init => Promise!Init
  BY DEF Init, StoreInit, JobsInit, Promise!Init
<1>2. IInv /\ [Next]_vars => [Promise!Next]_(Promise!vars)
  <2> SUFFICES ASSUME IInv, [Next]_vars PROVE [Promise!Next]_(Promise!vars)
    OBVIOUS
  <2>1. CASE Quiet
    BY <2>1 DEF Quiet, Promise!vars
  <2>2. CASE Inserts
    BY <2>2 DEF Inserts, InsertRow, InitialStatuses, Promise!Next, Promise!Submit
  <2>3. CASE Commits
    <3>1. PICK t \in txs : Commit(t) /\ t.status \in evidence[t.sub] /\ UNCHANGED evidence
      BY <2>3 DEF Commits
    <3> QED BY <3>1, CommitEffect DEF Promise!Next, Promise!Decide
  <2>4. CASE Arrives
    <3>1. PICK s \in Submissions, v \in Verdicts :
              worker[s] # "none" /\ ArriveAt(s, v) /\ UNCHANGED <<row, tests>>
      BY <2>4 DEF Arrives
    <3>2. row[s] \in {"accepted"} \cup Verdicts
      BY <3>1 DEF IInv, JobsFollowRows
    <3> QED BY <3>1, <3>2 DEF ArriveAt, Promise!Next, Promise!Evaluate
  <2> QED BY <2>1, <2>2, <2>3, <2>4, StepEffect DEF Effect
<1> QED BY <1>1, <1>2, Inductive, PTL DEF Safety, KeepsPromise, Promise!Safety
=============================================================================
