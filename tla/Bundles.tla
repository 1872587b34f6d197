------------------------------- MODULE Bundles -------------------------------
(***************************************************************************)
(* The bundles of one team and one task: SubmitBundle, PatchBundle,        *)
(* GetBundle and DeleteBundle.  A PATCH works on the copy of the row that  *)
(* the middleware read when the request came in, and saves all of it:      *)
(* between the two, other requests may save or delete the same bundle.     *)
(* Requests of other teams, and those with a body that does not parse, are *)
(* refused before they touch a row and leave no trace.                     *)
(*                                                                         *)
(* A bundle refers to other rows of its team and task: the submissions of  *)
(* OtherSubmissions, which are being made meanwhile, and POVs, patches and *)
(* broadcast SARIF reports, which are there from the start.                *)
(***************************************************************************)
EXTENDS OtherSubmissions

CONSTANTS
    BundleIDs,
    RequestIDs, \* GET, PATCH and DELETE requests in progress at one time
    LinkFields, \* pov_id, patch_id, ...: the fields that refer to another row
    Owned,      \* ids of POVs, patches and broadcasts of this team and this task
    Foreign     \* any other ids

Values == Owned \cup Foreign \cup SubIDs

ASSUME ValuesAssumption == {"null", "undefined"} \cap Values = {}

Fields == LinkFields \cup {"description"}

Contents == [Fields -> Values \cup {"null"}]

\* deleted: DeletedAt is set; such a row is invisible to every query but an upsert.
Rows ==
    [status : {"absent", "accepted", "deadline_exceeded"}, fields : Contents,
     deleted : BOOLEAN]

Methods == {"GET", "PATCH", "DELETE"}

\* read: the copy the middleware made of the row, {} before that.
Requests ==
    [id : RequestIDs, bundle : BundleIDs, method : Methods, read : SUBSET Rows]

VARIABLES
    rows,       \* the table
    requests    \* requests that came in before it

vars == <<rows, late, requests, subVars>>

Init ==
    /\ SubsInit
    /\ \E empty \in Contents :
        /\ \A f \in Fields : empty[f] = "null"
        /\ rows = [b \in BundleIDs |->
                      [status |-> "absent", fields |-> empty, deleted |-> FALSE]]
    /\ requests = {}

\* Type correctness.
TypeOK ==
    /\ SubsTypeOK
    /\ rows \in [BundleIDs -> Rows]
    /\ requests \subseteq Requests

-----------------------------------------------------------------------------
(* The body of a request: each field is undefined, null or a value. *)

Bodies == [Fields -> Values \cup {"null", "undefined"}]

Apply(body, fields) ==
    [f \in Fields |-> IF body[f] = "undefined" THEN fields[f] ELSE body[f]]

Set(fields) == {f \in Fields : fields[f] # "null"}

\* CountNotNull of the update, or of the body of a new bundle, is at least 2.
EnoughFields(fields) == \E f, g \in Set(fields) : f # g

\* Ids cannot be guessed: the ids of submissions in a body are those the team was told.
Nameable(body) == \A f \in Fields : body[f] \in SubIDs => body[f] \in Told

DefinedLinks(body) == {f \in LinkFields : body[f] \notin {"undefined", "null"}}

\* The rows the query for a field looks for.
Linkable(f) ==
    CASE f = "submitted_sarif_id" -> InTable("sarif")
      [] f = "freeform_id" -> InTable("freeform")
      [] OTHER -> Owned

\* The query looks at the ids of the body only.  Without any it is "SELECT ;", whose
\* result cannot be scanned: the request fails.
RelationsValid(body) ==
    /\ DefinedLinks(body) # {}
    /\ \A f \in DefinedLinks(body) : body[f] \in Linkable(f)

-----------------------------------------------------------------------------

SubmitBundle(b) ==
    /\ rows[b].status = "absent"
    /\ \E body \in Contents :
        /\ Nameable(body) /\ EnoughFields(body)
        /\ RelationsValid(body)
        /\ rows' = [rows EXCEPT ![b] =
               [status |-> IF late THEN "deadline_exceeded" ELSE "accepted",
                fields |-> body, deleted |-> FALSE]]
    /\ UNCHANGED <<late, requests>>

\* Mutant: the deadline is not checked.
ComeInAnyTime(r, b, method) ==
    /\ rows[b].status # "absent"
    /\ \A q \in requests : q.id # r
    /\ requests' = requests \cup {[id |-> r, bundle |-> b, method |-> method, read |-> {}]}
    /\ UNCHANGED <<rows, late>>

\* The request gets its time, which is what the deadline is checked against, but for a
\* GET.  Nobody knows the id of a bundle before its row is there.
ComeIn(r, b, method) ==
    /\ late => method = "GET"
    /\ rows[b].status # "absent"
    /\ \A q \in requests : q.id # r
    /\ requests' = requests \cup {[id |-> r, bundle |-> b, method |-> method, read |-> {}]}
    /\ UNCHANGED <<rows, late>>

\* Mutant: the query also finds deleted rows.
ReadUnscoped(q) ==
    /\ q.read = {}
    /\ requests' = (requests \ {q}) \cup {[q EXCEPT !.read = {rows[q.bundle]}]}
    /\ UNCHANGED <<rows, late>>

\* PopulateFromIDParam.
Read(q) ==
    /\ q.read = {}
    /\ ~rows[q.bundle].deleted
    /\ requests' = (requests \ {q}) \cup {[q EXCEPT !.read = {rows[q.bundle]}]}
    /\ UNCHANGED <<rows, late>>

\* The answer is made of the copy.
GetBundle(q) ==
    /\ q.method = "GET"
    /\ q.read # {}
    /\ requests' = requests \ {q}
    /\ UNCHANGED <<rows, late>>

\* Mutant: only the columns the body defines are updated.
PatchColumns(q) ==
    /\ q.method = "PATCH"
    /\ \E copy \in q.read, body \in Bodies :
        /\ Nameable(body) /\ EnoughFields(Apply(body, copy.fields))
        /\ RelationsValid(body)
        /\ rows' = [rows EXCEPT ![q.bundle].fields = Apply(body, @)]
    /\ requests' = requests \ {q}
    /\ UNCHANGED late

\* The rest of the handler.  Save writes every column of the copy; when the UPDATE
\* finds the row deleted, GORM falls back to an upsert, and that writes them too,
\* deleted_at included.
PatchBundle(q) ==
    /\ q.method = "PATCH"
    /\ \E copy \in q.read, body \in Bodies :
        /\ Nameable(body) /\ EnoughFields(Apply(body, copy.fields))
        /\ RelationsValid(body)
        /\ rows' = [rows EXCEPT ![q.bundle] =
               [copy EXCEPT !.fields = Apply(body, copy.fields)]]
    /\ requests' = requests \ {q}
    /\ UNCHANGED late

\* A soft delete.
DeleteBundle(q) ==
    /\ q.method = "DELETE"
    /\ q.read # {}
    /\ rows' = [rows EXCEPT ![q.bundle].deleted = TRUE]
    /\ requests' = requests \ {q}
    /\ UNCHANGED late

\* 404 for a deleted bundle, 400 or 404 for a body that does not pass the checks, 500
\* for a failed statement, or a crash: the row is as it was.
Refuse(q) ==
    /\ requests' = requests \ {q}
    /\ UNCHANGED <<rows, late>>

BundleStep ==
    \/ \E b \in BundleIDs : SubmitBundle(b)
    \/ \E r \in RequestIDs, b \in BundleIDs, method \in Methods : ComeIn(r, b, method)
    \/ \E q \in requests :
           Read(q) \/ GetBundle(q) \/ PatchBundle(q) \/ DeleteBundle(q) \/ Refuse(q)

DeadlinePasses ==
    /\ ~late
    /\ late' = TRUE
    /\ UNCHANGED <<rows, requests, subVars>>

Next ==
    \/ BundleStep /\ UNCHANGED subVars
    \/ (\E i \in SubIDs : Submit(i)) /\ UNCHANGED <<rows, requests>>
    \/ DeadlinePasses

Spec == Init /\ [][Next]_vars

-----------------------------------------------------------------------------

EnoughForABundle(r) == r.status # "absent" => EnoughFields(r.fields)

\* A bundle always has at least two fields, however many requests that each leave two
\* save their copies of it at the same time (ValidateFieldCount, CountNotNull, Save).
BundlesHaveEnough ==
    /\ \A b \in BundleIDs : EnoughForABundle(rows[b])
    /\ \A q \in requests : \A r \in q.read : EnoughForABundle(r)

\* What is archived and in the audit log of it.
OnRecord(f) ==
    IF f \in {"submitted_sarif_id", "freeform_id"}
    THEN Linkable(f) \cap archived \cap logged
    ELSE Linkable(f)

RefersToRecords(r) ==
    r.status # "absent" =>
        \A f \in LinkFields : r.fields[f] \in OnRecord(f) \cup {"null"}

\* What a bundle refers to are rows of its own team and task, of the right kind, which
\* are archived and in the audit log, although an update checks only what its own body
\* names, the query asks for no more than the row, and the row is there first
\* (CheckAndSetRelations, and the order of SubmitSarif and SubmitFreeform).
BundlesReferToRecords ==
    /\ \A b \in BundleIDs : RefersToRecords(rows[b])
    /\ \A q \in requests : \A r \in q.read : RefersToRecords(r)

\* Requests that write are about bundles that came in time, and all of them have copies
\* of undeleted rows.
RequestsAreInTime ==
    /\ \A b \in BundleIDs :
        /\ rows[b].status = "deadline_exceeded" => late
        /\ rows[b].deleted => rows[b].status # "absent"
    /\ \A q \in requests :
        /\ rows[q.bundle].status # "absent"
        /\ q.method # "GET" => rows[q.bundle].status = "accepted"
        /\ \A r \in q.read : r.status = rows[q.bundle].status /\ ~r.deleted

\* The inductive invariant: what the handlers of bundles keep together.
IInv ==
    /\ TypeOK
    /\ BundlesHaveEnough
    /\ BundlesReferToRecords
    /\ RequestsAreInTime
    /\ \A i \in SubIDs : SubmissionInOrder(i)

\* A bundle that came after the deadline is never changed or deleted: whoever knows
\* its id is late as well (the deadline checks of PatchBundle and DeleteBundle).
LateBundlesAreFixed ==
    [][\A b \in BundleIDs :
        rows[b].status = "deadline_exceeded" => rows'[b] = rows[b]]_vars

\* A deleted bundle stays as it is, but for the requests that read it before it was
\* deleted (the soft delete against PopulateFromIDParam and Save).
DeletedIsOutOfReach ==
    [][\A b \in BundleIDs :
        rows[b].deleted /\ rows'[b] # rows[b] =>
            \E q \in requests : q.bundle = b /\ \E r \in q.read : ~r.deleted]_vars
=============================================================================
