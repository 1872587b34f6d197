---------------------------- MODULE JobController ----------------------------
(***************************************************************************)
(* The job controller of the API servers: it reconciles the evaluation     *)
(* jobs that Kubernetes reports as finished.  The informer's work queue    *)
(* never gives one job to two workers of one controller, but the workers   *)
(* run on context.Background(): those of a deposed leader finish what they *)
(* hold while the next leader already works, so two servers may reconcile  *)
(* one job.                                                                *)
(***************************************************************************)
EXTENDS EvalJobs

ReconcileSteps == {"update", "audit", "commit", "delete"}

Reconciles == [server : Servers, sub : Submissions, step : ReconcileSteps]

VARIABLE reconciles     \* calls of handleJobUpdate in progress

ControllerInit == reconciles = {}

ControllerTypeOK == reconciles \subseteq Reconciles

-----------------------------------------------------------------------------

Advance(r, step) == reconciles' = (reconciles \ {r}) \cup {[r EXCEPT !.step = step]}

Finish(r) == reconciles' = reconciles \ {r}

\* Mutant: a failed job makes the submission "failed", as if it had been judged.
FailedTx(r) ==
    [sub |-> r.sub, server |-> r.server, role |-> "controller",
     status |-> "failed", setTests |-> "null"]

ErroredTx(r) ==
    [sub |-> r.sub, server |-> r.server, role |-> "controller",
     status |-> "errored", setTests |-> "null"]

ControllerTxs(r) == TxsOf(r.server, "controller", r.sub)

\* Mutants: a failed job is only deleted; only complete jobs are cleaned up.
ProcessJobUpdateDeletes(p, s) ==
    /\ job[s] \in {"failed", "complete"}
    /\ \A r \in reconciles : ~(r.server = p /\ r.sub = s)
    /\ reconciles' = reconciles \cup {[server |-> p, sub |-> s, step |-> "delete"]}
    /\ UNCHANGED <<storeVars, jobVars>>

ProcessJobUpdateComplete(p, s) ==
    /\ job[s] = "complete"
    /\ \A r \in reconciles : ~(r.server = p /\ r.sub = s)
    /\ reconciles' = reconciles \cup {[server |-> p, sub |-> s, step |-> "delete"]}
    /\ UNCHANGED <<storeVars, jobVars>>

\* A worker takes the key of a job the informer shows as finished.  A failed job
\* goes through the transaction first, a complete one is only deleted.  (A job with
\* neither condition is left alone.)
ProcessJobUpdate(p, s) ==
    /\ job[s] \in {"failed", "complete"}
    /\ \A r \in reconciles : ~(r.server = p /\ r.sub = s)
    /\ reconciles' = reconciles \cup
           {[server |-> p, sub |-> s,
             step |-> IF job[s] = "failed" THEN "update" ELSE "delete"]}
    /\ UNCHANGED <<storeVars, jobVars>>

ErroredUpdateMatches(r) ==
    /\ r.step = "update"
    /\ UpdateMatches(ErroredTx(r))
    /\ Advance(r, "audit")
    /\ UNCHANGED jobVars

\* "event previously handled": on to the deletion of the job.
ErroredUpdateMisses(r) ==
    /\ r.step = "update"
    /\ UpdateMisses(r.sub)
    /\ Advance(r, "delete")
    /\ UNCHANGED jobVars

ErroredAudit(r) ==
    /\ r.step = "audit"
    /\ AuditResult(ErroredTx(r))
    /\ Advance(r, "commit")
    /\ UNCHANGED jobVars

ErroredCommit(r) ==
    /\ r.step = "commit"
    /\ Commit(ErroredTx(r))
    /\ Advance(r, "delete")
    /\ UNCHANGED jobVars

\* The transaction is gone: its next statement, or its commit, returns an error.
ErroredTxGone(r) ==
    /\ r.step \in {"audit", "commit"}
    /\ ErroredTx(r) \notin txs
    /\ Finish(r)
    /\ UNCHANGED <<storeVars, jobVars>>

\* Deleting a job that is already gone is an error; the key is retried and then
\* forgotten because the informer no longer has it.
DeleteJob(r) ==
    /\ r.step = "delete"
    /\ job' = [job EXCEPT ![r.sub] = "deleted"]
    /\ Finish(r)
    /\ UNCHANGED <<storeVars, worker, evidence>>

ControllerStep(p) ==
    \/ \E s \in Submissions : ProcessJobUpdate(p, s)
    \/ \E r \in reconciles :
        /\ r.server = p
        /\ \/ ErroredUpdateMatches(r)
           \/ ErroredUpdateMisses(r)
           \/ ErroredAudit(r)
           \/ ErroredCommit(r)
           \/ ErroredTxGone(r)
           \/ DeleteJob(r)

-----------------------------------------------------------------------------
(* Failures: the key goes back to the work queue with AddRateLimited. *)

ReconcileFails(r) ==
    /\ Rollback(ControllerTxs(r))
    /\ Finish(r)
    /\ UNCHANGED jobVars

ErroredCommitUnacknowledged(r) ==
    /\ r.step = "commit"
    /\ Commit(ErroredTx(r))
    /\ Finish(r)
    /\ UNCHANGED jobVars

\* The database ends the transaction; the worker does not know it yet.
ErroredTxLost(r) ==
    /\ ErroredTx(r) \in txs
    /\ Rollback({ErroredTx(r)})
    /\ UNCHANGED <<jobVars, reconciles>>

ControllerFault ==
    \E r \in reconciles :
        \/ ReconcileFails(r)
        \/ ErroredCommitUnacknowledged(r)
        \/ ErroredTxLost(r)
=============================================================================
