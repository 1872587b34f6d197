---------------------- MODULE EvalPipelineAudit_proofs ----------------------
(***************************************************************************)
(* Proofs, for any sets of submissions, servers and message identities and *)
(* any number of faults, of what EvalPipeline says of the audit log and of *)
(* functionality_tests_passing.                                            *)
(***************************************************************************)
EXTENDS EvalPipeline_proofs, FiniteSetTheorems

(***************************************************************************)
(* What a step does to the tables and to the transactions in hand.         *)
(***************************************************************************)

Audit == InHand("audit")

ToCommit == InHand("commit")

Idle ==
    /\ UNCHANGED storeVars
    /\ Audit' \subseteq Audit /\ ToCommit' \subseteq ToCommit

Opens ==
    \E t \in Transactions :
        /\ txs' = txs \cup {t} /\ UNCHANGED <<row, tests, audited>>
        /\ TestsFit(t)
        /\ Audit' \subseteq Audit \cup {t} /\ ToCommit' \subseteq ToCommit

Tells ==
    \E t \in Audit :
        /\ AuditResult(t)
        /\ Audit' \subseteq Audit /\ ToCommit' \subseteq ToCommit \cup {t}

Decides ==
    \E t \in txs \cap ToCommit :
        /\ Commit(t)
        /\ Audit' \subseteq Audit /\ ToCommit' \subseteq ToCommit

Creates ==
    /\ \E s \in Submissions, status \in InitialStatuses : InsertRow(s, status)
    /\ Audit' \subseteq Audit /\ ToCommit' \subseteq ToCommit

\* At most one transaction of a row is lost, as there is at most one.
Loses ==
    /\ txs' \subseteq txs /\ UNCHANGED <<row, tests, audited>>
    /\ Audit' \subseteq Audit /\ ToCommit' \subseteq ToCommit

StoreMove == Idle \/ Opens \/ Tells \/ Decides \/ Creates

\* A transaction in hand is that of a delivery or of a reconcile at that step.
LEMMA InHandMembers ==
    ASSUME NEW step, NEW t
    PROVE  t \in InHand(step) <=>
               \/ \E d \in deliveries : d.step = step /\ t = FinalTx(d)
               \/ \E r \in reconciles : r.step = step /\ t = ErroredTx(r)
  BY DEF InHand

\* The same after a step.
LEMMA InHandMembersNext ==
    ASSUME NEW step, NEW t
    PROVE  t \in InHand(step)' <=>
               \/ \E d \in deliveries' : d.step = step /\ t = FinalTx(d)
               \/ \E r \in reconciles' : r.step = step /\ t = ErroredTx(r)
  BY DEF InHand

\* Who ends a handler, or starts one, has no transaction in hand that was not there.
LEMMA FewerInHand ==
    ASSUME NEW step,
           \A d \in deliveries' : d \in deliveries \/ d.step # step,
           \A r \in reconciles' : r \in reconciles \/ r.step # step
    PROVE  InHand(step)' \subseteq InHand(step)
  BY InHandMembers, InHandMembersNext

\* A delivery that goes on takes its transaction to its next step.
LEMMA DeliveryInHand ==
    ASSUME TypeOK, NEW d \in deliveries, NEW next, GoTo(d, next), UNCHANGED reconciles, NEW step
    PROVE  InHand(step)' \subseteq
               InHand(step) \cup (IF step = next THEN {FinalTx(d)} ELSE {})
<1>1. PICK n : /\ deliveries' = (deliveries \ {d}) \cup {n}
               /\ n.server = d.server /\ n.id = d.id /\ n.body = d.body /\ n.step = next
  BY GoToReplaces DEF TypeOK, MonitorTypeOK
<1>2. FinalTx(n) = FinalTx(d)
  BY <1>1 DEF FinalTx, TestsToStore
<1> QED BY <1>1, <1>2, InHandMembers, InHandMembersNext

\* So does a reconcile.
LEMMA ReconcileInHand ==
    ASSUME TypeOK, NEW r \in reconciles, NEW next, Advance(r, next), UNCHANGED deliveries, NEW step
    PROVE  InHand(step)' \subseteq
               InHand(step) \cup (IF step = next THEN {ErroredTx(r)} ELSE {})
<1>1. PICK n : /\ reconciles' = (reconciles \ {r}) \cup {n}
               /\ n.server = r.server /\ n.sub = r.sub /\ n.step = next
  BY AdvanceReplaces DEF TypeOK, ControllerTypeOK
<1>2. ErroredTx(n) = ErroredTx(r)
  BY <1>1 DEF ErroredTx
<1> QED BY <1>1, <1>2, InHandMembers, InHandMembersNext

\* What the monitor stores in functionality_tests_passing goes with its verdict.
LEMMA FinalTxFits ==
    ASSUME NEW d \in Deliveries PROVE TestsFit(FinalTx(d))
  BY DEF Deliveries, FinalBodies, FinalTx, TestsToStore, TestsFit

\* The job controller stores nothing there, and only "errored".
LEMMA ErroredTxFits ==
    ASSUME NEW r \in Reconciles PROVE TestsFit(ErroredTx(r))
  BY DEF Reconciles, ErroredTx, TestsFit

\* A step of the queue monitor,
LEMMA MonitorMoves ==
    ASSUME TypeOK, NEW p \in Servers, MonitorStep(p), OnlyMonitor PROVE StoreMove
<1> USE DEF StoreMove, Audit, ToCommit, OnlyMonitor
<1>1. CASE DequeueMessage(p)
  <2>1. /\ UNCHANGED storeVars
        /\ \E e : deliveries' = deliveries \cup {e} /\ e.step = "update"
    <3>1. PICK m \in queue : deliveries' = deliveries \cup
              {[server |-> p, id |-> m.id, body |-> m.body, step |-> "update"]}
      BY <1>1 DEF DequeueMessage
    <3> DEFINE e == [server |-> p, id |-> m.id, body |-> m.body, step |-> "update"]
    <3>2. deliveries' = deliveries \cup {e} /\ e.step = "update"
      BY <3>1
    <3>3. UNCHANGED storeVars
      BY <1>1 DEF DequeueMessage
    <3> QED BY <3>2, <3>3
  <2> QED BY <2>1, FewerInHand DEF Idle
<1>2. ASSUME NEW d \in deliveries, FinalUpdateMatches(d) PROVE Opens
  <2>1. d \in Deliveries /\ FinalTx(d) \in Transactions /\ TestsFit(FinalTx(d))
    BY FinalTxFields, FinalTxFits DEF TypeOK, MonitorTypeOK
  <2>2. GoTo(d, "audit") /\ UpdateMatches(FinalTx(d))
    BY <1>2 DEF FinalUpdateMatches
  <2>3. Audit' \subseteq Audit \cup {FinalTx(d)} /\ ToCommit' \subseteq ToCommit
    BY <2>2, DeliveryInHand
  <2> QED BY <2>1, <2>2, <2>3 DEF Opens, UpdateMatches
<1>3. ASSUME NEW d \in deliveries, FinalUpdateMisses(d) PROVE Idle
  <2>1. GoTo(d, "delete") /\ UNCHANGED storeVars
    BY <1>3 DEF FinalUpdateMisses, UpdateMisses
  <2> QED BY <2>1, DeliveryInHand DEF Idle
<1>4. ASSUME NEW d \in deliveries, FinalAudit(d) PROVE Tells
  <2>1. GoTo(d, "commit") /\ AuditResult(FinalTx(d)) /\ FinalTx(d) \in Audit
    BY <1>4, InHandMembers DEF FinalAudit
  <2>2. Audit' \subseteq Audit /\ ToCommit' \subseteq ToCommit \cup {FinalTx(d)}
    BY <2>1, DeliveryInHand
  <2> QED BY <2>1, <2>2 DEF Tells
<1>5. ASSUME NEW d \in deliveries, FinalCommit(d) PROVE Decides
  <2>1. GoTo(d, "delete") /\ Commit(FinalTx(d)) /\ FinalTx(d) \in ToCommit
    BY <1>5, InHandMembers DEF FinalCommit
  <2>2. Audit' \subseteq Audit /\ ToCommit' \subseteq ToCommit
    BY <2>1, DeliveryInHand
  <2> QED BY <2>1, <2>2 DEF Decides, Commit
<1>6. ASSUME NEW d \in deliveries, FinalTxGone(d) \/ DeleteMessage(d) PROVE Idle
  <2>1. UNCHANGED storeVars /\ deliveries' \subseteq deliveries
    BY <1>6 DEF FinalTxGone, DeleteMessage, Leave
  <2> QED BY <2>1, FewerInHand DEF Idle
<1> QED BY <1>1, <1>2, <1>3, <1>4, <1>5, <1>6 DEF MonitorStep

\* of the job controller,
LEMMA ControllerMoves ==
    ASSUME TypeOK, NEW p \in Servers, ControllerStep(p), OnlyController PROVE StoreMove
<1> USE DEF StoreMove, Audit, ToCommit, OnlyController, monitorVars
<1>1. ASSUME NEW s \in Submissions, ProcessJobUpdate(p, s) PROVE Idle
  <2>1. /\ UNCHANGED storeVars
        /\ \E c : reconciles' = reconciles \cup {c} /\ c.step \in {"update", "delete"}
    <3> DEFINE c == [server |-> p, sub |-> s,
                     step |-> IF job[s] = "failed" THEN "update" ELSE "delete"]
    <3>1. reconciles' = reconciles \cup {c} /\ UNCHANGED storeVars
      BY <1>1 DEF ProcessJobUpdate
    <3>2. c.step \in {"update", "delete"}
      OBVIOUS
    <3> QED BY <3>1, <3>2
  <2> QED BY <2>1, FewerInHand DEF Idle
<1>2. ASSUME NEW r \in reconciles, ErroredUpdateMatches(r) PROVE Opens
  <2>1. r \in Reconciles /\ ErroredTx(r) \in Transactions /\ TestsFit(ErroredTx(r))
    BY ErroredTxFields, ErroredTxFits DEF TypeOK, ControllerTypeOK
  <2>2. Advance(r, "audit") /\ UpdateMatches(ErroredTx(r))
    BY <1>2 DEF ErroredUpdateMatches
  <2>3. Audit' \subseteq Audit \cup {ErroredTx(r)} /\ ToCommit' \subseteq ToCommit
    BY <2>2, ReconcileInHand
  <2> QED BY <2>1, <2>2, <2>3 DEF Opens, UpdateMatches
<1>3. ASSUME NEW r \in reconciles, ErroredUpdateMisses(r) PROVE Idle
  <2>1. Advance(r, "delete") /\ UNCHANGED storeVars
    BY <1>3 DEF ErroredUpdateMisses, UpdateMisses
  <2> QED BY <2>1, ReconcileInHand DEF Idle
<1>4. ASSUME NEW r \in reconciles, ErroredAudit(r) PROVE Tells
  <2>1. Advance(r, "commit") /\ AuditResult(ErroredTx(r)) /\ ErroredTx(r) \in Audit
    BY <1>4, InHandMembers DEF ErroredAudit
  <2>2. Audit' \subseteq Audit /\ ToCommit' \subseteq ToCommit \cup {ErroredTx(r)}
    BY <2>1, ReconcileInHand
  <2> QED BY <2>1, <2>2 DEF Tells
<1>5. ASSUME NEW r \in reconciles, ErroredCommit(r) PROVE Decides
  <2>1. Advance(r, "delete") /\ Commit(ErroredTx(r)) /\ ErroredTx(r) \in ToCommit
    BY <1>5, InHandMembers DEF ErroredCommit
  <2>2. Audit' \subseteq Audit /\ ToCommit' \subseteq ToCommit
    BY <2>1, ReconcileInHand
  <2> QED BY <2>1, <2>2 DEF Decides, Commit
<1>6. ASSUME NEW r \in reconciles, ErroredTxGone(r) \/ DeleteJob(r) PROVE Idle
  <2>1. UNCHANGED storeVars /\ reconciles' \subseteq reconciles
    BY <1>6 DEF ErroredTxGone, DeleteJob, Finish
  <2> QED BY <2>1, FewerInHand DEF Idle
<1> QED BY <1>1, <1>2, <1>3, <1>4, <1>5, <1>6 DEF ControllerStep

\* and of anything that fails.
LEMMA FaultMoves ==
    ASSUME TypeOK, Fault PROVE Decides \/ Loses
<1> USE DEF Audit, ToCommit
<1>1. ASSUME OnlyMonitor, NEW d \in deliveries,
             HandlerFails(d) \/ DeleteFails(d) \/ FinalTxLost(d)
      PROVE  Loses
  <2>1. /\ txs' \subseteq txs /\ UNCHANGED <<row, tests, audited>>
        /\ deliveries' \subseteq deliveries /\ UNCHANGED reconciles
    BY <1>1 DEF HandlerFails, DeleteFails, FinalTxLost, Rollback, Leave, storeVars, OnlyMonitor
  <2> QED BY <2>1, FewerInHand DEF Loses
<1>2. ASSUME OnlyMonitor, NEW d \in deliveries, CommitUnacknowledged(d) PROVE Decides
  <2>1. /\ Commit(FinalTx(d)) /\ FinalTx(d) \in ToCommit
        /\ deliveries' \subseteq deliveries /\ UNCHANGED reconciles
    BY <1>2, InHandMembers DEF CommitUnacknowledged, Leave, OnlyMonitor
  <2> QED BY <2>1, FewerInHand DEF Decides, Commit
<1>3. ASSUME OnlyController, NEW r \in reconciles, ReconcileFails(r) \/ ErroredTxLost(r)
      PROVE  Loses
  <2>1. /\ txs' \subseteq txs /\ UNCHANGED <<row, tests, audited>>
        /\ reconciles' \subseteq reconciles /\ UNCHANGED deliveries
    BY <1>3 DEF ReconcileFails, ErroredTxLost, Rollback, Finish, OnlyController, monitorVars
  <2> QED BY <2>1, FewerInHand DEF Loses
<1>4. ASSUME OnlyController, NEW r \in reconciles, ErroredCommitUnacknowledged(r) PROVE Decides
  <2>1. /\ Commit(ErroredTx(r)) /\ ErroredTx(r) \in ToCommit
        /\ reconciles' \subseteq reconciles /\ UNCHANGED deliveries
    BY <1>4, InHandMembers DEF ErroredCommitUnacknowledged, Finish, OnlyController, monitorVars
  <2> QED BY <2>1, FewerInHand DEF Decides, Commit
<1>5. ASSUME NEW p \in Servers, Crash(p) PROVE Loses
  <2>1. /\ txs' \subseteq txs /\ UNCHANGED <<row, tests, audited>>
        /\ deliveries' \subseteq deliveries /\ reconciles' \subseteq reconciles
    BY <1>5 DEF Crash, Rollback
  <2> QED BY <2>1, FewerInHand DEF Loses
<1>6. ASSUME UNCHANGED <<storeVars, deliveries, reconciles>> PROVE Loses
  BY <1>6, FewerInHand DEF Loses, storeVars
<1>7. CASE APIFault /\ OnlyAPI
  BY <1>6, <1>7 DEF APIFault, RequestFails, StartUnacknowledged, OnlyAPI, monitorVars, storeVars
<1>8. CASE WorkerFault /\ OnlyWorker
  BY <1>6, <1>8 DEF OnlyWorker
<1>9. ASSUME OnlyMonitor, NEW m \in queue, HandlerOverruns(m) PROVE Loses
  BY <1>6, <1>9 DEF HandlerOverruns, OnlyMonitor
<1> QED BY <1>1, <1>2, <1>3, <1>4, <1>5, <1>7, <1>8, <1>9 DEF Fault, MonitorFault, ControllerFault

\* Every step moves the tables in one of these ways; only a failure loses a transaction.
LEMMA EveryMove ==
    ASSUME TypeOK, [Next]_vars
    PROVE  \/ StoreMove /\ faults' = faults
           \/ (Decides \/ Loses) /\ faults' = faults + 1
<1> USE DEF Audit, ToCommit
<1>1. ASSUME UNCHANGED <<storeVars, deliveries, reconciles>> PROVE Idle
  BY <1>1, FewerInHand DEF Idle
<1>2. ASSUME NEW p \in Servers, NEW s \in Submissions, Submit(p, s)
      PROVE  Creates /\ faults' = faults
  <2>1. /\ \E status \in InitialStatuses : InsertRow(s, status)
        /\ UNCHANGED <<deliveries, reconciles, faults>>
    BY <1>2 DEF Submit, InsertSubmission, OnlyAPI, monitorVars
  <2> QED BY <2>1, FewerInHand DEF Creates
<1>3. ASSUME NEW p \in Servers, API(p) PROVE Idle /\ faults' = faults
  <2>1. UNCHANGED <<storeVars, deliveries, reconciles, faults>>
    BY <1>3 DEF API, APIStep, ArchiveSubmission, StartEvaluation, Respond, OnlyAPI, monitorVars
  <2> QED BY <1>1, <2>1
<1>4. ASSUME NEW p \in Servers, Monitor(p) PROVE StoreMove /\ faults' = faults
  BY <1>4, MonitorMoves DEF Monitor
<1>5. ASSUME NEW p \in Servers, Controller(p) PROVE StoreMove /\ faults' = faults
  BY <1>5, ControllerMoves DEF Controller
<1>6. ASSUME NEW s \in Submissions, Worker(s) PROVE Idle /\ faults' = faults
  BY <1>1, <1>6 DEF Worker, OnlyWorker
<1>7. ASSUME Visibility PROVE Idle /\ faults' = faults
  <2>1. UNCHANGED <<storeVars, deliveries, reconciles, faults>>
    BY <1>7 DEF Visibility, VisibilityTimeout, OnlyMonitor
  <2> QED BY <1>1, <2>1
<1>8. CASE Fault
  BY <1>8, FaultMoves DEF Fault
<1>9. ASSUME UNCHANGED vars PROVE Idle /\ faults' = faults
  <2>1. UNCHANGED <<storeVars, deliveries, reconciles, faults>>
    BY <1>9 DEF vars, monitorVars
  <2> QED BY <1>1, <2>1
<1> QED BY <1>2, <1>3, <1>4, <1>5, <1>6, <1>7, <1>8, <1>9 DEF Next, StoreMove

(***************************************************************************)
(* functionality_tests_passing.                                            *)
(***************************************************************************)

\* A step keeps what a verdict and its tests have to do with each other.
LEMMA MoveKeepsTests ==
    ASSUME IInv, TestsInv, StoreMove \/ Loses PROVE TestsInv'
<1> USE DEF TestsInv, TestsFit
<1>1. CASE Idle \/ Loses \/ Opens \/ Tells
  <2>1. UNCHANGED <<row, tests>>
    BY <1>1 DEF Idle, Loses, Opens, Tells, AuditResult, storeVars
  <2>2. TestsGoWithVerdict'
    BY <2>1 DEF TestsGoWithVerdict
  <2>3. \A t \in txs' : t \in txs \/ TestsFit(t)
    BY <1>1 DEF Idle, Loses, Opens, Tells, AuditResult, storeVars
  <2> QED BY <2>2, <2>3
<1>2. CASE Decides
  <2>1. PICK t \in txs : Commit(t)
    BY <1>2 DEF Decides
  <2>2. /\ t.sub \in Submissions /\ row[t.sub] = "accepted" /\ t.status \in Verdicts
        /\ row' = [row EXCEPT ![t.sub] = t.status]
        /\ \A s \in Submissions : s # t.sub => row'[s] = row[s] /\ tests'[s] = tests[s]
    BY <2>1, CommitEffect
  <2>3. tests'[t.sub] = IF t.setTests = "null" THEN tests[t.sub] ELSE t.setTests
    BY <2>1, <2>2 DEF Commit, IInv, TypeOK, StoreTypeOK
  <2>4. row'[t.sub] = t.status
    BY <2>2 DEF IInv, TypeOK, StoreTypeOK
  <2>5. t.sub \in Patches => tests[t.sub] = "null"
    BY <2>2 DEF TestsGoWithVerdict, Verdicts
  <2>6. ASSUME NEW s \in Patches
        PROVE  /\ tests'[s] = "false" => row'[s] = "failed"
               /\ tests'[s] # "null" => row'[s] \in Verdicts
               /\ row'[s] \in Verdicts \ {"errored"} => tests'[s] # "null"
    <3>1. CASE s = t.sub
      BY <2>2, <2>3, <2>4, <2>5, <3>1
    <3>2. CASE s # t.sub
      BY <2>2, <3>2 DEF TestsGoWithVerdict, Submissions
    <3> QED BY <3>1, <3>2
  <2>7. TestsGoWithVerdict'
    BY <2>6 DEF TestsGoWithVerdict
  <2>8. txs' \subseteq txs
    BY <2>1 DEF Commit
  <2> QED BY <2>7, <2>8
<1>3. CASE Creates
  <2>1. PICK s \in Submissions, status \in InitialStatuses : InsertRow(s, status)
    BY <1>3 DEF Creates
  <2>2. /\ row[s] = "absent" /\ row'[s] = status /\ status \notin Verdicts
        /\ \A u \in Submissions : u # s => row'[u] = row[u]
        /\ UNCHANGED <<tests, txs>>
    BY <2>1 DEF InsertRow, InitialStatuses, IInv, TypeOK, StoreTypeOK, Verdicts
  <2>3. s \in Patches => tests[s] = "null"
    BY <2>2 DEF TestsGoWithVerdict, Verdicts
  <2>4. TestsGoWithVerdict'
    BY <2>2, <2>3 DEF TestsGoWithVerdict, Submissions
  <2> QED BY <2>2, <2>4
<1> QED BY <1>1, <1>2, <1>3 DEF StoreMove

\* The verdict of a patch and its functionality_tests_passing come from one writer.
THEOREM TestsComeWithVerdict == Safety => []TestsGoWithVerdict
<1>1. Init => TestsInv
  BY DEF Init, StoreInit, TestsInv, TestsGoWithVerdict, Submissions, Verdicts
<1>2. IInv /\ TestsInv /\ [Next]_vars => TestsInv'
  BY EveryMove, MoveKeepsTests DEF IInv, StoreMove
<1> QED BY <1>1, <1>2, Inductive, PTL DEF Safety, TestsInv

(***************************************************************************)
(* The audit log.                                                          *)
(***************************************************************************)

\* The results of a row are finitely many,
LEMMA ResultsAreFinite ==
    ASSUME NEW A, A \subseteq Verdicts PROVE IsFiniteSet(A)
<1>1. IsFiniteSet(Verdicts)
  <2>1. IsFiniteSet({"passed"})
    BY FS_Singleton
  <2>2. IsFiniteSet({"passed"} \cup {"failed"})
    BY <2>1, FS_AddElement
  <2>3. IsFiniteSet(({"passed"} \cup {"failed"}) \cup {"errored"})
    BY <2>2, FS_AddElement
  <2>4. IsFiniteSet((({"passed"} \cup {"failed"}) \cup {"errored"}) \cup {"inconclusive"})
    BY <2>3, FS_AddElement
  <2>5. Verdicts = (({"passed"} \cup {"failed"}) \cup {"errored"}) \cup {"inconclusive"}
    BY DEF Verdicts
  <2> QED BY <2>4, <2>5
<1> QED BY <1>1, FS_Subset

\* so a set of them that gains at most one has at most one more,
LEMMA OneMore ==
    ASSUME NEW A, NEW B, NEW x, IsFiniteSet(A), A \subseteq B \cup {x}, IsFiniteSet(B),
           NEW n \in Nat, Cardinality(B) <= n
    PROVE  Cardinality(A) <= n + 1
<1>1. /\ IsFiniteSet(B \cup {x})
      /\ Cardinality(B \cup {x}) = IF x \in B THEN Cardinality(B) ELSE Cardinality(B) + 1
  BY FS_AddElement
<1>2. Cardinality(A) <= Cardinality(B \cup {x})
  BY <1>1, FS_Subset
<1>3. Cardinality(A) \in Nat /\ Cardinality(B) \in Nat
  BY FS_CardinalityType
<1> QED BY <1>1, <1>2, <1>3

\* and one that gains nothing no more.
LEMMA NoMore ==
    ASSUME NEW A, NEW B, A \subseteq B, IsFiniteSet(B), NEW n \in Nat, Cardinality(B) <= n
    PROVE  Cardinality(A) <= n
<1>1. IsFiniteSet(A) /\ Cardinality(A) <= Cardinality(B)
  BY FS_Subset
<1>2. Cardinality(A) \in Nat /\ Cardinality(B) \in Nat
  BY <1>1, FS_CardinalityType
<1> QED BY <1>1, <1>2

\* A transaction in hand is one.
LEMMA InHandTypes ==
    ASSUME TypeOK, NEW step PROVE InHand(step) \subseteq Transactions
  BY FinalTxFields, ErroredTxFields, InHandMembers
  DEF TypeOK, MonitorTypeOK, ControllerTypeOK

\* What a result in the log needs to be accounted for.
LEMMA UntoldMembers ==
    ASSUME NEW s, NEW v
    PROVE  v \in Untold(s) <=>
               /\ v \in Verdicts
               /\ v \in audited[s] \/ \E t \in Audit \ txs : t.sub = s /\ t.status = v
               /\ row[s] # v
               /\ \A t \in txs : ~(t.sub = s /\ t.status = v)
  BY DEF Untold, Audit

\* The same after a step.
LEMMA UntoldMembersNext ==
    ASSUME NEW s, NEW v
    PROVE  v \in Untold(s)' <=>
               /\ v \in Verdicts
               /\ v \in audited'[s] \/ \E t \in Audit' \ txs' : t.sub = s /\ t.status = v
               /\ row'[s] # v
               /\ \A t \in txs' : ~(t.sub = s /\ t.status = v)
  BY DEF Untold, Audit

\* No step but a loss leaves a line that nothing accounts for:
LEMMA MoveTellsNothing ==
    ASSUME IInv, AuditInv, StoreMove, NEW s \in Submissions
    PROVE  Untold(s)' \subseteq Untold(s)
<1> SUFFICES ASSUME NEW v, v \in Untold(s)' PROVE v \in Untold(s)
  OBVIOUS
<1> USE UntoldMembers, UntoldMembersNext
<1>1. CASE Idle
  BY <1>1 DEF Idle, storeVars
<1>2. CASE Opens
  BY <1>2 DEF Opens
<1>3. CASE Tells
  <2>1. PICK t \in Audit : AuditResult(t) /\ Audit' \subseteq Audit
    BY <1>3 DEF Tells
  <2>2. /\ v \in audited'[s] => v \in audited[s] \/ (t.sub = s /\ t.status = v)
        /\ UNCHANGED <<row, txs>>
    BY <2>1 DEF AuditResult, IInv, TypeOK, StoreTypeOK
  <2> QED BY <2>1, <2>2
<1>4. CASE Decides
  <2>1. PICK t \in txs : Commit(t) /\ Audit' \subseteq Audit
    BY <1>4 DEF Decides
  <2>2. /\ t.sub \in Submissions /\ row[t.sub] = "accepted" /\ row'[t.sub] = t.status
        /\ \A u \in Submissions : u # t.sub => row'[u] = row[u]
        /\ txs' = txs \ {t} /\ UNCHANGED audited
    BY <2>1, CommitEffect DEF Commit, IInv, TypeOK, StoreTypeOK
  <2>3. v # "accepted"
    BY DEF Verdicts
  <2> QED BY <2>1, <2>2, <2>3
<1>5. CASE Creates
  <2>1. PICK u \in Submissions, status \in InitialStatuses : InsertRow(u, status)
    BY <1>5 DEF Creates
  <2>2. /\ row[u] = "absent" /\ UNCHANGED <<txs, audited>> /\ Audit' \subseteq Audit
        /\ \A w \in Submissions : w # u => row'[w] = row[w]
    BY <1>5, <2>1 DEF Creates, InsertRow, IInv, TypeOK, StoreTypeOK
  <2>3. v # "absent"
    BY DEF Verdicts
  <2> QED BY <2>2, <2>3
<1> QED BY <1>1, <1>2, <1>3, <1>4, <1>5 DEF StoreMove

\* and a loss one for each row, that of its one transaction.
LEMMA LossTellsOne ==
    ASSUME IInv, Loses, NEW s \in Submissions
    PROVE  \E x : Untold(s)' \subseteq Untold(s) \cup {x}
<1>1. \E x : \A t \in txs : t.sub = s => t.status = x
  BY DEF IInv, OneWriterPerRow
<1>2. PICK x : \A t \in txs : t.sub = s => t.status = x
  BY <1>1
<1>3. ASSUME NEW v, v \in Untold(s)', v # x PROVE v \in Untold(s)
  BY <1>2, <1>3, UntoldMembers, UntoldMembersNext DEF Loses
<1> QED BY <1>3

\* A step keeps the two lines of a decision in the log.
LEMMA MoveKeepsLines ==
    ASSUME IInv, AuditInv, StoreMove \/ Loses
    PROVE  /\ \A t \in ToCommit' : t.status \in audited'[t.sub]
           /\ \A s \in Submissions : row'[s] \in Verdicts => row'[s] \in audited'[s]
<1>1. \A t \in ToCommit : t.status \in audited[t.sub]
  BY DEF AuditInv, ToCommit
<1>2. \A s \in Submissions : row[s] \in Verdicts => row[s] \in audited[s]
  BY DEF AuditInv
<1>3. CASE Idle \/ Opens \/ Loses
  <2>1. UNCHANGED <<row, audited>> /\ ToCommit' \subseteq ToCommit
    BY <1>3 DEF Idle, Opens, Loses, storeVars
  <2> QED BY <1>1, <1>2, <2>1
<1>4. CASE Tells
  <2>1. PICK t \in Audit : AuditResult(t) /\ ToCommit' \subseteq ToCommit \cup {t}
    BY <1>4 DEF Tells
  <2>2. t.sub \in Submissions
    BY InHandTypes DEF IInv, Audit, Transactions
  <2>3. /\ \A u \in Submissions : audited[u] \subseteq audited'[u]
        /\ t.status \in audited'[t.sub] /\ UNCHANGED row
    BY <2>1, <2>2 DEF AuditResult, IInv, TypeOK, StoreTypeOK
  <2>4. \A c \in ToCommit : c.sub \in Submissions
    BY InHandTypes DEF IInv, ToCommit, Transactions
  <2> QED BY <1>1, <1>2, <2>1, <2>3, <2>4
<1>5. CASE Decides
  <2>1. PICK t \in txs \cap ToCommit : Commit(t) /\ ToCommit' \subseteq ToCommit
    BY <1>5 DEF Decides
  <2>2. /\ t.sub \in Submissions /\ row'[t.sub] = t.status
        /\ \A u \in Submissions : u # t.sub => row'[u] = row[u]
        /\ UNCHANGED audited
    BY <2>1, CommitEffect DEF Commit, IInv, TypeOK, StoreTypeOK
  <2> QED BY <1>1, <1>2, <2>1, <2>2
<1>6. CASE Creates
  <2>1. PICK u \in Submissions, status \in InitialStatuses : InsertRow(u, status)
    BY <1>6 DEF Creates
  <2>2. /\ row'[u] = status /\ status \notin Verdicts /\ UNCHANGED audited
        /\ \A w \in Submissions : w # u => row'[w] = row[w]
        /\ ToCommit' \subseteq ToCommit
    BY <1>6, <2>1 DEF Creates, InsertRow, InitialStatuses, IInv, TypeOK, StoreTypeOK, Verdicts
  <2> QED BY <1>1, <1>2, <2>2
<1> QED BY <1>3, <1>4, <1>5, <1>6 DEF StoreMove

\* A step keeps the invariant of the audit log.
LEMMA NextKeepsAudit == IInv /\ AuditInv /\ [Next]_vars => AuditInv'
<1> SUFFICES ASSUME IInv, AuditInv, [Next]_vars PROVE AuditInv'
  OBVIOUS
<1>1. TypeOK /\ faults \in Nat
  BY DEF IInv, TypeOK
<1>2. \/ StoreMove /\ faults' = faults
      \/ (Decides \/ Loses) /\ faults' = faults + 1
  BY <1>1, EveryMove
<1>3. ASSUME NEW s \in Submissions PROVE (Cardinality(Untold(s)) <= faults)'
  <2>1. /\ IsFiniteSet(Untold(s)) /\ Cardinality(Untold(s)) <= faults
    BY ResultsAreFinite DEF Untold, AuditInv
  <2>2. IsFiniteSet(Untold(s)')
    BY ResultsAreFinite DEF Untold
  <2>3. CASE StoreMove /\ faults' = faults
    BY <1>1, <2>1, <2>3, MoveTellsNothing, NoMore
  <2>4. CASE Decides /\ faults' = faults + 1
    <3>1. Untold(s)' \subseteq Untold(s)
      BY <2>4, MoveTellsNothing DEF StoreMove
    <3> QED BY <1>1, <2>1, <2>2, <2>4, <3>1, OneMore
  <2>5. CASE Loses /\ faults' = faults + 1
    BY <1>1, <2>1, <2>2, <2>5, LossTellsOne, OneMore
  <2> QED BY <1>2, <2>3, <2>4, <2>5
<1>4. /\ \A t \in ToCommit' : t.status \in audited'[t.sub]
      /\ \A s \in Submissions : row'[s] \in Verdicts => row'[s] \in audited'[s]
  BY <1>2, MoveKeepsLines DEF StoreMove
<1> QED BY <1>3, <1>4 DEF AuditInv, ToCommit

\* The audit log holds the verdict of every decided row, and each other result in it is
\* the work of a failure.
THEOREM AuditTellsTruth == Safety => []AuditTellsTheVerdict
<1>1. Init => AuditInv
  <2> SUFFICES ASSUME Init PROVE AuditInv
    OBVIOUS
  <2>1. InHand("commit") = {} /\ InHand("audit") = {}
    BY DEF Init, MonitorInit, ControllerInit, InHand
  <2>2. \A s \in Submissions : row[s] = "absent" /\ audited[s] = {}
    BY DEF Init, StoreInit
  <2>3. \A s \in Submissions : Untold(s) = {}
    BY <2>1, <2>2 DEF Untold
  <2>4. \A s \in Submissions : Cardinality(Untold(s)) <= faults
    BY <2>3, FS_EmptySet DEF Init
  <2> QED BY <2>1, <2>2, <2>4 DEF AuditInv, Verdicts
<1>2. IInv /\ AuditInv => AuditTellsTheVerdict
  <2> SUFFICES ASSUME IInv, AuditInv, NEW s \in Submissions, row[s] \in Verdicts
               PROVE  /\ row[s] \in audited[s]
                      /\ Cardinality(audited[s] \ {row[s]}) <= faults
    BY DEF AuditTellsTheVerdict
  <2>1. \A t \in txs : t.sub # s
    BY DEF IInv, OneWriterPerRow, Verdicts
  <2>2. audited[s] \ {row[s]} \subseteq Untold(s)
    BY <2>1 DEF Untold, IInv, TypeOK, StoreTypeOK
  <2>3. IsFiniteSet(Untold(s)) /\ Cardinality(Untold(s)) <= faults /\ faults \in Nat
    BY ResultsAreFinite DEF Untold, AuditInv, IInv, TypeOK
  <2>4. Cardinality(audited[s] \ {row[s]}) <= faults
    BY <2>2, <2>3, NoMore
  <2> QED BY <2>4 DEF AuditInv
<1> QED BY <1>1, <1>2, NextKeepsAudit, Inductive, PTL DEF Safety
=============================================================================
