--------------------------- MODULE SubmissionStore ---------------------------
(***************************************************************************)
(* The submission tables of the PostgreSQL database and the audit stream,  *)
(* as the two writers of a verdict use them: the results queue monitor     *)
(* (HandleFinalMessage) and the Kubernetes job controller                  *)
(* (handleJobUpdate).  Both run the same transaction:                      *)
(*                                                                         *)
(*   UPDATE ... SET status = v WHERE id = s AND status = 'accepted';       *)
(*   if a row came back, emit its result to the audit log;  COMMIT         *)
(*                                                                         *)
(* The UPDATE locks the row until the transaction ends, and a second       *)
(* UPDATE of the row waits for that and then evaluates WHERE on what was   *)
(* committed.  The audit line leaves the process BEFORE the commit and is  *)
(* not taken back when the commit fails.                                   *)
(***************************************************************************)
EXTENDS Naturals

CONSTANTS
    POVs,       \* rows of pov_submission
    Patches,    \* rows of patch_submission
    Servers     \* API server processes, each with its own database connections

Submissions == POVs \cup Patches

Verdicts == {"passed", "failed", "errored", "inconclusive"}

Statuses == {"absent", "accepted", "deadline_exceeded"} \cup Verdicts

\* functionality_tests_passing, a nullable boolean.
TestResults == {"null", "true", "false"}

\* Which component of a server process owns a transaction.
Roles == {"monitor", "controller"}

\* An open transaction whose UPDATE matched the row of sub.  setTests is what it
\* stores in functionality_tests_passing, "null" when it leaves it alone.
Transactions ==
    [sub : Submissions, server : Servers, role : Roles,
     status : Verdicts, setTests : TestResults]

VARIABLES
    row,        \* the committed status of each submission
    tests,      \* the committed functionality_tests_passing
    txs,        \* open transactions that hold a row lock
    audited     \* the results the audit log holds of each submission

storeVars == <<row, tests, txs, audited>>

StoreInit ==
    /\ row = [s \in Submissions |-> "absent"]
    /\ tests = [s \in Submissions |-> "null"]
    /\ txs = {}
    /\ audited = [s \in Submissions |-> {}]

StoreTypeOK ==
    /\ row \in [Submissions -> Statuses]
    /\ tests \in [Submissions -> TestResults]
    /\ txs \subseteq Transactions
    /\ audited \in [Submissions -> SUBSET Verdicts]

-----------------------------------------------------------------------------

RowLocked(s) == \E t \in txs : t.sub = s

TxsOf(server, role, s) ==
    {t \in txs : t.server = server /\ t.role = role /\ t.sub = s}

\* Mutant: an UPDATE without status = 'accepted' in its WHERE.
UpdateMatchesAnyStatus(t) ==
    /\ ~RowLocked(t.sub)
    /\ txs' = txs \cup {t}
    /\ UNCHANGED <<row, tests, audited>>

\* The UPDATE matched the row: RowsAffected = 1 and the row is locked.
UpdateMatches(t) ==
    /\ ~RowLocked(t.sub)
    /\ row[t.sub] = "accepted"
    /\ txs' = txs \cup {t}
    /\ UNCHANGED <<row, tests, audited>>

\* The UPDATE matched nothing: RowsAffected = 0 and the transaction is empty.
UpdateMisses(s) ==
    /\ ~RowLocked(s)
    /\ row[s] # "accepted"
    /\ UNCHANGED storeVars

\* AuditLogSubmissionResult prints the row RETURNING gave back; that the transaction
\* is still open was last seen by the statement before it.
AuditResult(t) ==
    /\ audited' = [audited EXCEPT ![t.sub] = @ \cup {t.status}]
    /\ UNCHANGED <<row, tests, txs>>

Commit(t) ==
    /\ t \in txs
    /\ row' = [row EXCEPT ![t.sub] = t.status]
    /\ tests' = [tests EXCEPT ![t.sub] =
                    IF t.setTests = "null" THEN @ ELSE t.setTests]
    /\ txs' = txs \ {t}
    /\ UNCHANGED audited

\* A failed statement or commit, a lost connection, or a process that died.
Rollback(ts) ==
    /\ txs' = txs \ ts
    /\ UNCHANGED <<row, tests, audited>>

\* db.Create of a new submission, a statement of its own.
InsertRow(s, status) ==
    /\ row[s] = "absent"
    /\ row' = [row EXCEPT ![s] = status]
    /\ UNCHANGED <<tests, txs, audited>>
=============================================================================
