-------------------------- MODULE OtherSubmissions --------------------------
(***************************************************************************)
(* What a team submits for a task besides POVs, patches and bundles: SARIF *)
(* reports, freeform submissions and assessments of broadcast reports.     *)
(* They are not evaluated, so a handler only puts them on record: a row in *)
(* the table, a file in the archive, a line in the audit log, and then the *)
(* answer.  It may end with an error between any two of these.  Requests   *)
(* that are refused (a body that does not parse or validate, a SARIF       *)
(* report that does not follow its schema, an assessment of a report on    *)
(* another task) leave no trace.                                           *)
(***************************************************************************)
CONSTANT SubIDs     \* the rows that are ever inserted; each by a request of its own

Kinds == {"sarif", "freeform", "assessment"}

Steps == {"none", "insert", "archive", "log", "answer", "answered", "failed"}

VARIABLES
    late,       \* the deadline of the task has passed
    handler,    \* of the request for each row: what is next, and whether it came in late
    table,      \* the status in the row
    archived,   \* rows whose file is in the archive, and the audit log says so
    logged      \* rows whose submission is in the audit log

subVars == <<handler, table, archived, logged>>

SubsInit ==
    /\ late = FALSE
    /\ handler = [i \in SubIDs |-> [step |-> "none", kind |-> "none", late |-> FALSE]]
    /\ table = [i \in SubIDs |-> "absent"]
    /\ archived = {}
    /\ logged = {}

SubsTypeOK ==
    /\ late \in BOOLEAN
    /\ handler \in [SubIDs -> [step : Steps, kind : Kinds \cup {"none"}, late : BOOLEAN]]
    /\ table \in [SubIDs -> {"absent", "accepted", "deadline_exceeded"}]
    /\ archived \subseteq SubIDs
    /\ logged \subseteq SubIDs

-----------------------------------------------------------------------------

\* The request gets its time and passes the checks.
Receive(i, kind) ==
    /\ handler[i].step = "none"
    /\ handler' = [handler EXCEPT ![i] = [step |-> "insert", kind |-> kind, late |-> late]]
    /\ UNCHANGED <<late, table, archived, logged>>

Proceed(i, step, next) ==
    /\ handler[i].step = step
    /\ handler' = [handler EXCEPT ![i].step = next]

Insert(i, next) ==
    /\ Proceed(i, "insert", next)
    /\ table' = [table EXCEPT ![i] =
           IF handler[i].late THEN "deadline_exceeded" ELSE "accepted"]
    /\ UNCHANGED <<late, archived, logged>>

\* Mutant: the error of ArchiveFile is not looked at.
ArchiveFileUnchecked(i, next) ==
    /\ Proceed(i, "archive", next)
    /\ archived' \in {archived, archived \cup {i}}
    /\ UNCHANGED <<late, table, logged>>

\* Uploads the file under its hash (see Uploads) and tells the audit log.
ArchiveFile(i, next) ==
    /\ Proceed(i, "archive", next)
    /\ archived' = archived \cup {i}
    /\ UNCHANGED <<late, table, logged>>

Log(i, next) ==
    /\ Proceed(i, "log", next)
    /\ logged' = logged \cup {i}
    /\ UNCHANGED <<late, table, archived>>

Answer(i) ==
    /\ Proceed(i, "answer", "answered")
    /\ UNCHANGED <<late, table, archived, logged>>

SubmitSarif(i) ==
    \/ Receive(i, "sarif")
    \/ /\ handler[i].kind = "sarif"
       /\ Insert(i, "archive") \/ ArchiveFile(i, "log") \/ Log(i, "answer") \/ Answer(i)

SubmitFreeform(i) ==
    \/ Receive(i, "freeform")
    \/ /\ handler[i].kind = "freeform"
       /\ Insert(i, "archive") \/ ArchiveFile(i, "log") \/ Log(i, "answer") \/ Answer(i)

\* There is no file.
SubmitSarifAssessment(i) ==
    \/ Receive(i, "assessment")
    \/ /\ handler[i].kind = "assessment"
       /\ Insert(i, "log") \/ Log(i, "answer") \/ Answer(i)

\* A statement or an upload fails, or the server dies.  What is on record stays.
SubmissionFails(i) ==
    /\ handler[i].step \in {"insert", "archive", "log", "answer"}
    /\ handler' = [handler EXCEPT ![i].step = "failed"]
    /\ UNCHANGED <<late, table, archived, logged>>

Submit(i) ==
    SubmitSarif(i) \/ SubmitFreeform(i) \/ SubmitSarifAssessment(i) \/ SubmissionFails(i)

-----------------------------------------------------------------------------

\* Ids cannot be guessed: a team knows those it was told.  The answer to an assessment
\* has none.
Told ==
    {i \in SubIDs : handler[i].step = "answered" /\ handler[i].kind # "assessment"}

InTable(kind) == {i \in SubIDs : handler[i].kind = kind /\ table[i] # "absent"}

\* What is on record of a submission by the step its handler is at.
SubmissionInOrder(i) ==
    LET step == handler[i].step
    IN  /\ handler[i].kind = "none" <=> step = "none"
        /\ step \in {"archive", "log", "answer", "answered"} => table[i] # "absent"
        /\ step \in {"log", "answer", "answered"} =>
               handler[i].kind = "assessment" \/ i \in archived
        /\ step \in {"answer", "answered"} => i \in logged
=============================================================================
