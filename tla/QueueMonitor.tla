---------------------------- MODULE QueueMonitor ----------------------------
(***************************************************************************)
(* MonitorResultsQueue of each API server: one loop that receives a        *)
(* message, handles it and deletes it.  A final message is handled by the  *)
(* transaction of HandleFinalMessage.  An error of the handler leaves the  *)
(* message in the queue, to be delivered again when its visibility         *)
(* timeout ends; there is no limit on how often.                           *)
(***************************************************************************)
EXTENDS ResultsQueue

DeliverySteps == {"update", "audit", "commit", "delete"}

\* A message in the hands of a server's loop.
Deliveries ==
    [server : Servers, id : MessageIDs, body : FinalBodies, step : DeliverySteps]

VARIABLE deliveries

monitorVars == <<queue, deliveries>>

MonitorInit == QueueInit /\ deliveries = {}

MonitorTypeOK == QueueTypeOK /\ deliveries \subseteq Deliveries

-----------------------------------------------------------------------------

GoTo(d, step) == deliveries' = (deliveries \ {d}) \cup {[d EXCEPT !.step = step]}

Leave(d) == deliveries' = deliveries \ {d}

MonitorTxs(d) == TxsOf(d.server, "monitor", d.body.sub)

\* Mutant: testsFailed is stored, not its negation.
TestsToStoreInverted(b) ==
    IF b.sub \in Patches
    THEN IF b.status = "failed" /\ b.testsFailed THEN "true" ELSE "false"
    ELSE "null"

\* The patch branch stores !testsFailed, where testsFailed counts only for "failed".
TestsToStore(b) ==
    IF b.sub \in Patches
    THEN IF b.status = "failed" /\ b.testsFailed THEN "false" ELSE "true"
    ELSE "null"

FinalTx(d) ==
    [sub |-> d.body.sub, server |-> d.server, role |-> "monitor",
     status |-> d.body.status, setTests |-> TestsToStore(d.body)]

\* Dequeue gets one message; the loop handles one message at a time.
DequeueMessage(p) ==
    /\ \A d \in deliveries : d.server # p
    /\ \E m \in queue :
        /\ Receive(p, m)
        /\ deliveries' = deliveries \cup
               {[server |-> p, id |-> m.id, body |-> m.body, step |-> "update"]}
    /\ UNCHANGED storeVars

\* Mutant: the result is not audited.
FinalUpdateMatchesUnaudited(d) ==
    /\ d.step = "update"
    /\ UpdateMatches(FinalTx(d))
    /\ GoTo(d, "commit")
    /\ UNCHANGED queue

FinalUpdateMatches(d) ==
    /\ d.step = "update"
    /\ UpdateMatches(FinalTx(d))
    /\ GoTo(d, "audit")
    /\ UNCHANGED queue

\* Mutant: RowsAffected = 0 is an error.
FinalUpdateMissIsError(d) ==
    /\ d.step = "update"
    /\ UpdateMisses(d.body.sub)
    /\ Leave(d)
    /\ UNCHANGED queue

\* RowsAffected = 0: the closure returns nil and the message will be deleted.
FinalUpdateMisses(d) ==
    /\ d.step = "update"
    /\ UpdateMisses(d.body.sub)
    /\ GoTo(d, "delete")
    /\ UNCHANGED queue

FinalAudit(d) ==
    /\ d.step = "audit"
    /\ AuditResult(FinalTx(d))
    /\ GoTo(d, "commit")
    /\ UNCHANGED queue

FinalCommit(d) ==
    /\ d.step = "commit"
    /\ Commit(FinalTx(d))
    /\ GoTo(d, "delete")
    /\ UNCHANGED queue

\* Mutant: the error of the transaction is dropped, and the message deleted.
FinalTxGoneUnnoticed(d) ==
    /\ d.step \in {"audit", "commit"}
    /\ FinalTx(d) \notin txs
    /\ GoTo(d, "delete")
    /\ UNCHANGED <<storeVars, queue>>

\* The transaction is gone: its next statement, or its commit, returns an error.
FinalTxGone(d) ==
    /\ d.step \in {"audit", "commit"}
    /\ FinalTx(d) \notin txs
    /\ Leave(d)
    /\ UNCHANGED <<storeVars, queue>>

DeleteMessage(d) ==
    /\ d.step = "delete"
    /\ DeleteReceived(d.server, d.id)
    /\ Leave(d)
    /\ UNCHANGED storeVars

\* The message comes back once the handler that hid it has stopped: the handler's
\* context ends five seconds before the visibility timeout.
VisibilityTimeout(m) ==
    /\ \A d \in deliveries : ~(d.id = m.id /\ m.lease = {d.server})
    /\ BecomeVisible(m)
    /\ UNCHANGED <<storeVars, deliveries>>

MonitorStep(p) ==
    \/ DequeueMessage(p)
    \/ \E d \in deliveries :
        /\ d.server = p
        /\ \/ FinalUpdateMatches(d)
           \/ FinalUpdateMisses(d)
           \/ FinalAudit(d)
           \/ FinalCommit(d)
           \/ FinalTxGone(d)
           \/ DeleteMessage(d)

-----------------------------------------------------------------------------
(* Failures. *)

\* Mutant: the message is deleted whatever the handler returns.
HandlerFailureDeletes(d) ==
    /\ d.step \in {"update", "audit", "commit"}
    /\ Rollback(MonitorTxs(d))
    /\ DeleteReceived(d.server, d.id)
    /\ Leave(d)

\* A statement or the commit fails (for an UPDATE that fails the closure returns the
\* outer, nil, err; the COMMIT of the aborted transaction then reports the rollback).
HandlerFails(d) ==
    /\ d.step \in {"update", "audit", "commit"}
    /\ Rollback(MonitorTxs(d))
    /\ Leave(d)
    /\ UNCHANGED queue

\* The commit takes effect but its response is lost: the handler returns an error.
CommitUnacknowledged(d) ==
    /\ d.step = "commit"
    /\ Commit(FinalTx(d))
    /\ Leave(d)
    /\ UNCHANGED queue

\* The delete fails, so does Dequeue; the loop goes on with the next message.
DeleteFails(d) ==
    /\ d.step = "delete"
    /\ Leave(d)
    /\ UNCHANGED <<storeVars, queue>>

\* The handler outlives its context by more than the five seconds left for that.
HandlerOverruns(m) ==
    /\ \E d \in deliveries : d.id = m.id /\ m.lease = {d.server}
    /\ BecomeVisible(m)
    /\ UNCHANGED <<storeVars, deliveries>>

\* The database ends the transaction; the handler does not know it yet.
FinalTxLost(d) ==
    /\ FinalTx(d) \in txs
    /\ Rollback({FinalTx(d)})
    /\ UNCHANGED <<queue, deliveries>>

MonitorFault ==
    \/ \E d \in deliveries :
        \/ HandlerFails(d)
        \/ CommitUnacknowledged(d)
        \/ DeleteFails(d)
        \/ FinalTxLost(d)
    \/ \E m \in queue : HandlerOverruns(m)
=============================================================================
