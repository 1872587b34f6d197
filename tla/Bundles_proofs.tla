--------------------------- MODULE Bundles_proofs ---------------------------
(***************************************************************************)
(* Bundles keep their promises for any number of bundles and of requests   *)
(* that are handled at the same time.  The invariant speaks of the copies  *)
(* that requests hold as well as of the rows, because a PATCH puts its     *)
(* copy in the place of the row.                                           *)
(***************************************************************************)
EXTENDS Bundles, TLAPS

InOrder == SubsTypeOK /\ \A i \in SubIDs : SubmissionInOrder(i)

Sound(r) == r \in Rows /\ EnoughForABundle(r) /\ RefersToRecords(r)

-----------------------------------------------------------------------------
(* Submissions. *)

\* The checks of a body ask for rows only, but a team that can name a submission was
\* told of it, and then the rest is on record as well.
LEMMA NamedIsOnRecord ==
    ASSUME InOrder, NEW f, NEW id \in Linkable(f), id \in SubIDs => id \in Told
    PROVE  id \in OnRecord(f)
<1>1. CASE f \in {"submitted_sarif_id", "freeform_id"}
  <2>1. Linkable(f) \subseteq SubIDs
    BY <1>1 DEF Linkable, InTable
  <2>2. handler[id].step = "answered" /\ handler[id].kind # "assessment"
    BY <2>1 DEF Told
  <2>3. id \in archived /\ id \in logged
    BY <2>1, <2>2 DEF InOrder, SubmissionInOrder
  <2> QED BY <1>1, <2>3 DEF OnRecord
<1>2. CASE f \notin {"submitted_sarif_id", "freeform_id"}
  BY <1>2 DEF OnRecord
<1> QED BY <1>1, <1>2

\* A step of the handler of submission i that respects the order and takes nothing back
\* keeps all submissions in order, and whatever is on record on record.
LEMMA MoveKeepsRecords ==
    ASSUME InOrder, NEW i \in SubIDs,
           NEW step \in Steps \ {"none"}, NEW kind \in Kinds, NEW early \in BOOLEAN,
           NEW status \in {"absent", "accepted", "deadline_exceeded"},
           late' = late,
           handler' = [handler EXCEPT ![i] = [step |-> step, kind |-> kind, late |-> early]],
           table' = [table EXCEPT ![i] = status],
           archived' \in {archived, archived \cup {i}},
           logged' \in {logged, logged \cup {i}},
           handler[i].step # "none" => handler[i].kind = kind,
           table[i] # "absent" => status # "absent",
           step \in {"archive", "log", "answer", "answered"} => status # "absent",
           step \in {"log", "answer", "answered"} => kind = "assessment" \/ i \in archived',
           step \in {"answer", "answered"} => i \in logged'
    PROVE  InOrder' /\ \A f : OnRecord(f) \subseteq OnRecord(f)'
<1> DEFINE new == [step |-> step, kind |-> kind, late |-> early]
<1>1. new \in [step : Steps, kind : Kinds \cup {"none"}, late : BOOLEAN]
  OBVIOUS
<1>2. SubsTypeOK'
  <2>1. handler' \in [SubIDs -> [step : Steps, kind : Kinds \cup {"none"}, late : BOOLEAN]]
    BY <1>1 DEF InOrder, SubsTypeOK
  <2>2. table' \in [SubIDs -> {"absent", "accepted", "deadline_exceeded"}]
    BY DEF InOrder, SubsTypeOK
  <2>3. late' \in BOOLEAN /\ archived' \subseteq SubIDs /\ logged' \subseteq SubIDs
    BY DEF InOrder, SubsTypeOK
  <2> QED BY <2>1, <2>2, <2>3 DEF SubsTypeOK
<1>3. handler'[i] = new /\ table'[i] = status
  BY DEF InOrder, SubsTypeOK
<1>4. \A k \in SubIDs : k # i => handler'[k] = handler[k] /\ table'[k] = table[k]
  BY DEF InOrder, SubsTypeOK
<1>5. archived \subseteq archived' /\ logged \subseteq logged'
  OBVIOUS
<1>6. ASSUME NEW k \in SubIDs PROVE SubmissionInOrder(k)'
  <2>1. CASE k = i
    <3>1. kind # "none" /\ step # "none"
      BY DEF Kinds
    <3> QED BY <1>3, <2>1, <3>1 DEF SubmissionInOrder
  <2>2. CASE k # i
    BY <1>4, <1>5, <2>2 DEF InOrder, SubmissionInOrder
  <2> QED BY <2>1, <2>2
<1>7. ASSUME NEW what \in Kinds PROVE InTable(what) \subseteq InTable(what)'
  <2> SUFFICES ASSUME NEW k \in SubIDs, handler[k].kind = what, table[k] # "absent"
               PROVE  handler'[k].kind = what /\ table'[k] # "absent"
    BY DEF InTable
  <2>1. CASE k = i
    <3>1. handler[i].step # "none"
      BY <2>1 DEF InOrder, SubmissionInOrder, Kinds
    <3> QED BY <1>3, <2>1, <3>1
  <2>2. CASE k # i
    BY <1>4, <2>2
  <2> QED BY <2>1, <2>2
<1>8. ASSUME NEW f PROVE OnRecord(f) \subseteq OnRecord(f)'
  <2>1. InTable("sarif") \subseteq InTable("sarif")'
        /\ InTable("freeform") \subseteq InTable("freeform")'
    BY <1>7 DEF Kinds
  <2>2. Linkable(f) \subseteq Linkable(f)'
    BY <2>1 DEF Linkable
  <2> QED BY <1>5, <2>2 DEF OnRecord
<1> QED BY <1>2, <1>6, <1>8 DEF InOrder

\* Each step of each handler is such a step.
LEMMA SubmitKeepsRecords ==
    ASSUME InOrder, NEW i \in SubIDs, Submit(i)
    PROVE  InOrder' /\ \A f : OnRecord(f) \subseteq OnRecord(f)'
<1> DEFINE h == handler[i]
           Became(step, kind, early) ==
               handler' = [handler EXCEPT ![i] = [step |-> step, kind |-> kind, late |-> early]]
           Goal == InOrder' /\ \A f : OnRecord(f) \subseteq OnRecord(f)'
<1> HIDE DEF Goal
<1>1. /\ h \in [step : Steps, kind : Kinds \cup {"none"}, late : BOOLEAN]
      /\ table = [table EXCEPT ![i] = table[i]]
      /\ table[i] \in {"absent", "accepted", "deadline_exceeded"}
      /\ SubmissionInOrder(i)
  BY DEF InOrder, SubsTypeOK
<1>2. ASSUME NEW kind \in Kinds, Receive(i, kind) PROVE Goal
  <2>1. /\ Became("insert", kind, late) /\ late' = late /\ table' = table
        /\ archived' = archived /\ logged' = logged /\ h.step = "none"
    BY <1>2 DEF Receive
  <2>2. late \in BOOLEAN /\ "insert" \in Steps \ {"none"}
        /\ "insert" \notin {"archive", "log", "answer", "answered"}
    BY DEF InOrder, SubsTypeOK, Steps
  <2>3. table' = [table EXCEPT ![i] = table[i]]
    BY <1>1, <2>1
  <2> QED BY <1>1, <2>1, <2>2, <2>3, MoveKeepsRecords DEF Goal
<1>3. ASSUME NEW step \in Steps \ {"none"}, NEW next \in Steps, Proceed(i, step, next)
      PROVE  /\ Became(next, h.kind, h.late)
             /\ h.kind \in Kinds /\ h.late \in BOOLEAN /\ h.step = step
  <2>1. handler' = [handler EXCEPT ![i].step = next] /\ h.step = step
    BY <1>3 DEF Proceed
  <2>2. [h EXCEPT !.step = next] = [step |-> next, kind |-> h.kind, late |-> h.late]
    BY <1>1
  <2>3. handler' = [handler EXCEPT ![i] = [h EXCEPT !.step = next]]
    BY <2>1
  <2>4. h.kind \in Kinds /\ h.late \in BOOLEAN
    BY <1>1, <1>3, <2>1 DEF SubmissionInOrder
  <2>5. Became(next, h.kind, h.late)
    BY <2>2, <2>3
  <2> QED BY <2>1, <2>4, <2>5
<1>4. ASSUME NEW next \in {"archive", "log"}, Insert(i, next),
             next = "log" => h.kind = "assessment"
      PROVE  Goal
  <2>1. Proceed(i, "insert", next) /\ late' = late /\ archived' = archived /\ logged' = logged
    BY <1>4 DEF Insert
  <2>2. next \in Steps \ {"none"} /\ "insert" \in Steps \ {"none"}
    BY DEF Steps
  <2>3. Became(next, h.kind, h.late) /\ h.kind \in Kinds /\ h.late \in BOOLEAN
    BY <1>3, <2>1, <2>2
  <2>4. PICK status \in {"accepted", "deadline_exceeded"} : table' = [table EXCEPT ![i] = status]
    BY <1>4 DEF Insert
  <2> QED BY <1>4, <2>1, <2>2, <2>3, <2>4, MoveKeepsRecords DEF Goal
<1>5. ASSUME ArchiveFile(i, "log") PROVE Goal
  <2>1. /\ Proceed(i, "archive", "log") /\ late' = late /\ table' = table /\ logged' = logged
        /\ archived' = archived \cup {i}
    BY <1>5 DEF ArchiveFile
  <2>2. "log" \in Steps \ {"none"} /\ "archive" \in Steps \ {"none"}
    BY DEF Steps
  <2>3. /\ Became("log", h.kind, h.late)
        /\ h.kind \in Kinds /\ h.late \in BOOLEAN /\ h.step = "archive"
    BY <1>3, <2>1, <2>2
  <2>4. table[i] # "absent" /\ i \in archived'
    BY <1>1, <2>1, <2>3 DEF SubmissionInOrder
  <2>5. table' = [table EXCEPT ![i] = table[i]]
    BY <1>1, <2>1
  <2> QED BY <1>1, <2>1, <2>2, <2>3, <2>4, <2>5, MoveKeepsRecords DEF Goal
<1>6. ASSUME Log(i, "answer") PROVE Goal
  <2>1. /\ Proceed(i, "log", "answer") /\ late' = late /\ table' = table
        /\ archived' = archived /\ logged' = logged \cup {i}
    BY <1>6 DEF Log
  <2>2. "answer" \in Steps \ {"none"} /\ "log" \in Steps \ {"none"}
    BY DEF Steps
  <2>3. /\ Became("answer", h.kind, h.late)
        /\ h.kind \in Kinds /\ h.late \in BOOLEAN /\ h.step = "log"
    BY <1>3, <2>1, <2>2
  <2>4. table[i] # "absent" /\ (h.kind = "assessment" \/ i \in archived') /\ i \in logged'
    BY <1>1, <2>1, <2>3 DEF SubmissionInOrder
  <2>5. table' = [table EXCEPT ![i] = table[i]]
    BY <1>1, <2>1
  <2> QED BY <1>1, <2>1, <2>2, <2>3, <2>4, <2>5, MoveKeepsRecords DEF Goal
<1>7. ASSUME Answer(i) PROVE Goal
  <2>1. /\ Proceed(i, "answer", "answered") /\ late' = late /\ table' = table
        /\ archived' = archived /\ logged' = logged
    BY <1>7 DEF Answer
  <2>2. "answered" \in Steps \ {"none"} /\ "answer" \in Steps \ {"none"}
    BY DEF Steps
  <2>3. /\ Became("answered", h.kind, h.late)
        /\ h.kind \in Kinds /\ h.late \in BOOLEAN /\ h.step = "answer"
    BY <1>3, <2>1, <2>2
  <2>4. table[i] # "absent" /\ (h.kind = "assessment" \/ i \in archived') /\ i \in logged'
    BY <1>1, <2>1, <2>3 DEF SubmissionInOrder
  <2>5. table' = [table EXCEPT ![i] = table[i]]
    BY <1>1, <2>1
  <2> QED BY <1>1, <2>1, <2>2, <2>3, <2>4, <2>5, MoveKeepsRecords DEF Goal
<1>8. ASSUME SubmissionFails(i) PROVE Goal
  <2>1. /\ h.step \in {"insert", "archive", "log", "answer"}
        /\ Proceed(i, h.step, "failed") /\ late' = late /\ table' = table
        /\ archived' = archived /\ logged' = logged
    BY <1>8 DEF SubmissionFails, Proceed
  <2>2. "failed" \in Steps \ {"none"} /\ h.step \in Steps \ {"none"}
        /\ "failed" \notin {"archive", "log", "answer", "answered"}
    BY <2>1 DEF Steps
  <2>3. Became("failed", h.kind, h.late) /\ h.kind \in Kinds /\ h.late \in BOOLEAN
    BY <1>3, <2>1, <2>2
  <2>4. table' = [table EXCEPT ![i] = table[i]]
    BY <1>1, <2>1
  <2> QED BY <1>1, <2>1, <2>2, <2>3, <2>4, MoveKeepsRecords DEF Goal
<1>9. "sarif" \in Kinds /\ "freeform" \in Kinds /\ "assessment" \in Kinds
  BY DEF Kinds
<1>10. ASSUME SubmitSarif(i) PROVE Goal
  BY <1>2, <1>4, <1>5, <1>6, <1>7, <1>9, <1>10 DEF SubmitSarif
<1>11. ASSUME SubmitFreeform(i) PROVE Goal
  BY <1>2, <1>4, <1>5, <1>6, <1>7, <1>9, <1>11 DEF SubmitFreeform
<1>12. ASSUME SubmitSarifAssessment(i) PROVE Goal
  BY <1>2, <1>4, <1>6, <1>7, <1>9, <1>12 DEF SubmitSarifAssessment
<1> QED BY <1>8, <1>10, <1>11, <1>12 DEF Submit, Goal

\* Whoever leaves the submissions alone leaves them on record.
LEMMA RecordsStay ==
    ASSUME UNCHANGED subVars, late' \in BOOLEAN, InOrder
    PROVE  InOrder' /\ \A f : OnRecord(f)' = OnRecord(f)
<1>1. SubsTypeOK'
  BY DEF subVars, InOrder, SubsTypeOK
<1>2. ASSUME NEW i \in SubIDs PROVE SubmissionInOrder(i)'
  BY DEF subVars, InOrder, SubmissionInOrder
<1>3. \A f : OnRecord(f)' = OnRecord(f)
  BY DEF subVars, OnRecord, Linkable, InTable
<1> QED BY <1>1, <1>2, <1>3 DEF InOrder

-----------------------------------------------------------------------------
(* Bundles. *)

\* A new row whose body passed the checks is what a row of a bundle should be.
LEMMA NewRowIsSound ==
    ASSUME InOrder,
           NEW status \in {"accepted", "deadline_exceeded"}, NEW body \in Contents,
           Nameable(body), EnoughFields(body), RelationsValid(body)
    PROVE  Sound([status |-> status, fields |-> body, deleted |-> FALSE])
<1> DEFINE r == [status |-> status, fields |-> body, deleted |-> FALSE]
<1>1. r \in Rows /\ EnoughForABundle(r)
  BY DEF Rows, EnoughForABundle
<1>2. ASSUME NEW f \in LinkFields PROVE r.fields[f] \in OnRecord(f) \cup {"null"}
  <2>1. f \in Fields /\ body[f] \in Values \cup {"null"}
    BY DEF Contents, Fields
  <2>2. body[f] = "null" \/ f \in DefinedLinks(body)
    BY <2>1, ValuesAssumption DEF DefinedLinks
  <2>3. CASE f \in DefinedLinks(body)
    <3>1. body[f] \in Linkable(f) /\ (body[f] \in SubIDs => body[f] \in Told)
      BY <2>1, <2>3 DEF RelationsValid, Nameable
    <3>2. body[f] \in OnRecord(f)
      BY <3>1, NamedIsOnRecord
    <3> QED BY <3>2
  <2> QED BY <2>2, <2>3
<1> QED BY <1>1, <1>2 DEF RefersToRecords, Sound

\* So is a copy whose update passed the checks, though they look at the ids of the body
\* only: the other fields are the copy's.
LEMMA UpdatedRowIsSound ==
    ASSUME InOrder, NEW copy \in Rows, copy.status # "absent", RefersToRecords(copy),
           NEW body \in Bodies, Nameable(body),
           EnoughFields(Apply(body, copy.fields)), RelationsValid(body)
    PROVE  Sound([copy EXCEPT !.fields = Apply(body, copy.fields)])
<1> DEFINE content == Apply(body, copy.fields)
           r == [copy EXCEPT !.fields = content]
<1>1. \A f \in Fields :
        /\ content[f] = IF body[f] = "undefined" THEN copy.fields[f] ELSE body[f]
        /\ body[f] \in Values \cup {"null", "undefined"}
        /\ copy.fields[f] \in Values \cup {"null"}
  BY DEF Apply, Bodies, Rows, Contents
<1>2. content \in Contents
  <2>1. \A f \in Fields : content[f] \in Values \cup {"null"}
    BY <1>1
  <2>2. content = [f \in Fields |-> content[f]]
    BY DEF Apply
  <2> QED BY <2>1, <2>2 DEF Contents
<1>3. r \in Rows /\ r.status = copy.status /\ r.fields = content
  BY <1>2 DEF Rows
<1>4. ASSUME NEW f \in LinkFields PROVE content[f] \in OnRecord(f) \cup {"null"}
  <2>1. f \in Fields
    BY DEF Fields
  <2>2. CASE body[f] = "undefined"
    BY <1>1, <2>1, <2>2 DEF RefersToRecords
  <2>3. CASE body[f] = "null"
    BY <1>1, <2>1, <2>3
  <2>4. CASE body[f] \notin {"undefined", "null"}
    <3>1. body[f] \in Linkable(f) /\ (body[f] \in SubIDs => body[f] \in Told)
      BY <2>1, <2>4 DEF RelationsValid, DefinedLinks, Nameable
    <3>2. body[f] \in OnRecord(f)
      BY <3>1, NamedIsOnRecord
    <3> QED BY <1>1, <2>1, <2>4, <3>2
  <2> QED BY <2>2, <2>3, <2>4
<1> QED BY <1>3, <1>4 DEF EnoughForABundle, RefersToRecords, Sound

\* The parts of the invariant that are about bundles.
Rest == rows \in [BundleIDs -> Rows] /\ requests \subseteq Requests

LEMMA Parts ==
    IInv <=> InOrder /\ Rest /\ BundlesHaveEnough /\ BundlesReferToRecords /\ RequestsAreInTime
BY DEF IInv, TypeOK, InOrder, Rest

\* A request that puts a sound row in the place of row b, and goes away, keeps the
\* invariant.
LEMMA SoundRowKeepsIInv ==
    ASSUME IInv, NEW b \in BundleIDs, NEW r, Sound(r),
           rows' = [rows EXCEPT ![b] = r], requests' \subseteq requests, late' = late,
           UNCHANGED subVars,
           rows[b].status = "absent" \/ rows[b].status = r.status,
           r.status # "absent", r.status = "deadline_exceeded" => late
    PROVE  IInv'
<1>1. rows' \in [BundleIDs -> Rows] /\ rows'[b] = r
      /\ \A c \in BundleIDs : c # b => rows'[c] = rows[c]
  BY Parts DEF Sound, Rest
<1>2. InOrder' /\ \A f : OnRecord(f)' = OnRecord(f)
  <2>1. late' \in BOOLEAN
    BY Parts DEF InOrder, SubsTypeOK
  <2> QED BY <2>1, Parts, RecordsStay
<1>3. Rest'
  BY <1>1, Parts DEF Rest
<1>4. BundlesHaveEnough'
  BY <1>1, Parts DEF Sound, BundlesHaveEnough
<1>5. BundlesReferToRecords'
  <2>1. ASSUME NEW c \in BundleIDs, NEW f \in LinkFields, rows'[c].status # "absent"
        PROVE  rows'[c].fields[f] \in OnRecord(f) \cup {"null"}
    BY <1>1, <2>1, Parts DEF Sound, BundlesReferToRecords, RefersToRecords
  <2>2. ASSUME NEW q \in requests', NEW s \in q.read, NEW f \in LinkFields,
               s.status # "absent"
        PROVE  s.fields[f] \in OnRecord(f) \cup {"null"}
    BY <2>2, Parts DEF BundlesReferToRecords, RefersToRecords
  <2> QED BY <1>2, <2>1, <2>2 DEF BundlesReferToRecords, RefersToRecords
<1>6. RequestsAreInTime'
  <2>1. ASSUME NEW c \in BundleIDs
        PROVE  /\ rows'[c].status = "deadline_exceeded" => late'
               /\ rows'[c].deleted => rows'[c].status # "absent"
    BY <1>1, <2>1, Parts DEF RequestsAreInTime
  <2>2. ASSUME NEW q \in requests'
        PROVE  /\ rows'[q.bundle].status # "absent"
               /\ q.method # "GET" => rows'[q.bundle].status = "accepted"
               /\ \A s \in q.read : s.status = rows'[q.bundle].status /\ ~s.deleted
    <3>1. q \in requests /\ q.bundle \in BundleIDs
      BY <2>2, Parts DEF Rest, Requests
    <3>2. /\ rows[q.bundle].status # "absent"
          /\ q.method # "GET" => rows[q.bundle].status = "accepted"
          /\ \A s \in q.read : s.status = rows[q.bundle].status /\ ~s.deleted
      BY <3>1, Parts DEF RequestsAreInTime
    <3>3. rows'[q.bundle].status = rows[q.bundle].status
      BY <1>1, <3>1, <3>2
    <3> QED BY <3>2, <3>3
  <2> QED BY <2>1, <2>2 DEF RequestsAreInTime
<1> QED BY <1>2, <1>3, <1>4, <1>5, <1>6 DEF IInv, TypeOK, InOrder, Rest

\* A step that leaves the rows alone, and takes nothing off the record, keeps what is
\* said of them; a new copy of a row is as good as the row.
LEMMA SameRowsKeepIInv ==
    ASSUME IInv, InOrder', \A f : OnRecord(f) \subseteq OnRecord(f)',
           rows' = rows, late => late', requests' \subseteq Requests,
           \A q \in requests' :
               /\ rows[q.bundle].status # "absent"
               /\ q.method # "GET" => rows[q.bundle].status = "accepted"
               /\ \A s \in q.read : s = rows[q.bundle] \/ \E o \in requests : s \in o.read
               /\ \A s \in q.read : s.status = rows[q.bundle].status /\ ~s.deleted
    PROVE  IInv'
<1>1. Rest'
  BY Parts DEF Rest
<1>2. \A q \in requests' : q.bundle \in BundleIDs
  BY DEF Requests
<1>3. BundlesHaveEnough'
  BY <1>2, Parts DEF BundlesHaveEnough, EnoughForABundle
<1>4. BundlesReferToRecords'
  BY <1>2, Parts DEF BundlesReferToRecords, RefersToRecords
<1>5. RequestsAreInTime'
  BY <1>2, Parts DEF RequestsAreInTime
<1> QED BY <1>1, <1>3, <1>4, <1>5 DEF IInv, TypeOK, InOrder, Rest

\* The invariant is inductive: one step per action.
LEMMA NextKeepsIInv == IInv /\ [Next]_vars => IInv'
<1> SUFFICES ASSUME IInv, [Next]_vars PROVE IInv'
  OBVIOUS
<1>1. InOrder /\ Rest /\ BundlesHaveEnough /\ BundlesReferToRecords /\ RequestsAreInTime
  BY Parts
<1>2. ASSUME UNCHANGED subVars, late' \in BOOLEAN
      PROVE  InOrder' /\ \A f : OnRecord(f) \subseteq OnRecord(f)'
  BY <1>1, <1>2, RecordsStay
<1>3. late \in BOOLEAN
  BY <1>1 DEF InOrder, SubsTypeOK
<1>4. \A q \in requests :
        /\ q \in Requests /\ rows[q.bundle].status # "absent"
        /\ q.method # "GET" => rows[q.bundle].status = "accepted"
        /\ \A s \in q.read : s.status = rows[q.bundle].status /\ ~s.deleted
  BY <1>1 DEF Rest, RequestsAreInTime
<1>5. ASSUME UNCHANGED subVars, NEW b \in BundleIDs, SubmitBundle(b) PROVE IInv'
  <2> DEFINE status == IF late THEN "deadline_exceeded" ELSE "accepted"
  <2>1. PICK body \in Contents :
          /\ Nameable(body) /\ EnoughFields(body)
          /\ RelationsValid(body)
          /\ rows' = [rows EXCEPT ![b] =
                 [status |-> status, fields |-> body, deleted |-> FALSE]]
    BY <1>5 DEF SubmitBundle
  <2>2. status \in {"accepted", "deadline_exceeded"} /\ (status = "deadline_exceeded" => late)
    OBVIOUS
  <2>3. Sound([status |-> status, fields |-> body, deleted |-> FALSE])
    BY <1>1, <2>1, <2>2, NewRowIsSound
  <2>4. rows[b].status = "absent" /\ requests' = requests /\ late' = late
    BY <1>5 DEF SubmitBundle
  <2> QED BY <1>5, <2>1, <2>2, <2>3, <2>4, SoundRowKeepsIInv
<1>6. ASSUME UNCHANGED subVars, NEW i \in RequestIDs, NEW b \in BundleIDs,
             NEW method \in Methods, ComeIn(i, b, method)
      PROVE  IInv'
  <2> DEFINE new == [id |-> i, bundle |-> b, method |-> method, read |-> {}]
  <2>1. new \in Requests /\ requests' = requests \cup {new} /\ rows' = rows /\ late' = late
    BY <1>6 DEF ComeIn, Requests
  <2>2. rows[b].status # "absent" /\ (method # "GET" => rows[b].status = "accepted")
    BY <1>1, <1>6 DEF ComeIn, RequestsAreInTime, Rest, Rows
  <2>3. requests' \subseteq Requests
    BY <1>1, <2>1 DEF Rest
  <2>4. InOrder' /\ \A f : OnRecord(f) \subseteq OnRecord(f)'
    BY <1>2, <1>3, <1>6, <2>1
  <2>5. \A q \in requests' : q \in requests \/ q = new
    BY <2>1
  <2> HIDE DEF new
  <2>6. new.bundle = b /\ new.method = method /\ new.read = {}
    BY DEF new
  <2>7. \A q \in requests' :
          /\ rows[q.bundle].status # "absent"
          /\ q.method # "GET" => rows[q.bundle].status = "accepted"
          /\ \A s \in q.read : s = rows[q.bundle] \/ \E o \in requests : s \in o.read
          /\ \A s \in q.read : s.status = rows[q.bundle].status /\ ~s.deleted
    BY <1>4, <2>2, <2>5, <2>6
  <2> QED BY <2>1, <2>3, <2>4, <2>7, SameRowsKeepIInv
<1>7. ASSUME UNCHANGED subVars, NEW q \in requests, Read(q) PROVE IInv'
  <2> DEFINE new == [q EXCEPT !.read = {rows[q.bundle]}]
  <2>1. q \in Requests /\ rows[q.bundle] \in Rows
    BY <1>1 DEF Rest, Requests
  <2>2. /\ new \in Requests /\ new.bundle = q.bundle /\ new.read = {rows[q.bundle]}
        /\ new.method = q.method
    BY <2>1 DEF Requests
  <2>3. requests' = (requests \ {q}) \cup {new} /\ rows' = rows /\ late' = late
        /\ ~rows[q.bundle].deleted
    BY <1>7 DEF Read
  <2> HIDE DEF new
  <2>4. requests' \subseteq Requests
    BY <1>1, <2>2, <2>3 DEF Rest
  <2>5. InOrder' /\ \A f : OnRecord(f) \subseteq OnRecord(f)'
    BY <1>2, <1>3, <1>7, <2>3
  <2>6. \A o \in requests' :
          /\ rows[o.bundle].status # "absent"
          /\ o.method # "GET" => rows[o.bundle].status = "accepted"
          /\ \A s \in o.read : s = rows[o.bundle] \/ \E w \in requests : s \in w.read
          /\ \A s \in o.read : s.status = rows[o.bundle].status /\ ~s.deleted
    BY <1>4, <2>2, <2>3
  <2> QED BY <2>3, <2>4, <2>5, <2>6, SameRowsKeepIInv
<1>8. ASSUME UNCHANGED subVars, NEW q \in requests, PatchBundle(q) PROVE IInv'
  <2>1. PICK copy \in q.read, body \in Bodies :
          /\ Nameable(body) /\ EnoughFields(Apply(body, copy.fields))
          /\ RelationsValid(body)
          /\ rows' = [rows EXCEPT ![q.bundle] =
                 [copy EXCEPT !.fields = Apply(body, copy.fields)]]
    BY <1>8 DEF PatchBundle
  <2>2. q.bundle \in BundleIDs /\ copy \in Rows
    BY <1>1, <2>1 DEF Rest, Requests
  <2>3. q.method = "PATCH" /\ requests' = requests \ {q} /\ late' = late
    BY <1>8 DEF PatchBundle
  <2>4. copy.status = "accepted" /\ rows[q.bundle].status = "accepted" /\ RefersToRecords(copy)
    BY <1>1, <1>4, <2>1, <2>3 DEF BundlesReferToRecords
  <2> DEFINE r == [copy EXCEPT !.fields = Apply(body, copy.fields)]
  <2>5. Sound(r)
    BY <1>1, <2>1, <2>2, <2>4, UpdatedRowIsSound
  <2>6. r.status = "accepted"
    BY <2>2, <2>4 DEF Rows
  <2> QED BY <1>8, <2>1, <2>2, <2>3, <2>4, <2>5, <2>6, SoundRowKeepsIInv
<1>9. ASSUME UNCHANGED subVars, NEW q \in requests, DeleteBundle(q) PROVE IInv'
  <2> DEFINE r == [rows[q.bundle] EXCEPT !.deleted = TRUE]
  <2>1. q.bundle \in BundleIDs /\ rows[q.bundle] \in Rows
    BY <1>1 DEF Rest, Requests
  <2>2. q.method = "DELETE" /\ requests' = requests \ {q} /\ late' = late
    BY <1>9 DEF DeleteBundle
  <2>3. rows[q.bundle].status = "accepted"
    BY <1>4, <2>2
  <2>4. rows' = [rows EXCEPT ![q.bundle] = r]
    BY <1>1, <1>9, <2>1 DEF DeleteBundle, Rest
  <2>5. r \in Rows /\ r.status = "accepted" /\ r.fields = rows[q.bundle].fields
    BY <2>1, <2>3 DEF Rows
  <2>6. Sound(r)
    BY <1>1, <2>1, <2>3, <2>5
       DEF Sound, EnoughForABundle, RefersToRecords, BundlesHaveEnough, BundlesReferToRecords
  <2> QED BY <1>9, <2>1, <2>2, <2>3, <2>4, <2>5, <2>6, SoundRowKeepsIInv
<1>10. ASSUME InOrder', \A f : OnRecord(f) \subseteq OnRecord(f)',
              rows' = rows, late => late', requests' \subseteq requests
       PROVE  IInv'
  <2>1. requests' \subseteq Requests
    BY <1>4, <1>10
  <2> QED BY <1>4, <1>10, <2>1, SameRowsKeepIInv
<1>11. ASSUME UNCHANGED subVars, NEW q \in requests, GetBundle(q) \/ Refuse(q) PROVE IInv'
  <2>1. requests' \subseteq requests /\ rows' = rows /\ late' = late
    BY <1>11 DEF GetBundle, Refuse
  <2> QED BY <1>2, <1>3, <1>10, <1>11, <2>1
<1>12. ASSUME NEW i \in SubIDs, Submit(i), UNCHANGED <<rows, requests>> PROVE IInv'
  <2>1. InOrder' /\ \A f : OnRecord(f) \subseteq OnRecord(f)'
    BY <1>1, <1>12, SubmitKeepsRecords
  <2>2. late' = late
    BY <1>12 DEF Submit, SubmitSarif, SubmitFreeform, SubmitSarifAssessment, SubmissionFails,
                 Receive, Insert, ArchiveFile, Log, Answer
  <2> QED BY <1>10, <1>12, <2>1, <2>2
<1>13. CASE DeadlinePasses
  BY <1>2, <1>10, <1>13 DEF DeadlinePasses
<1>14. CASE UNCHANGED vars
  BY <1>2, <1>3, <1>10, <1>14 DEF vars
<1>15. CASE BundleStep /\ UNCHANGED subVars
  BY <1>5, <1>6, <1>7, <1>8, <1>9, <1>11, <1>15 DEF BundleStep
<1> QED BY <1>12, <1>13, <1>14, <1>15 DEF Next

\* The invariant holds in every state, for any number of bundles, submissions and
\* requests.
THEOREM Inductive == Spec => []IInv
<1>1. Init => IInv
  <2> SUFFICES ASSUME Init PROVE IInv
    OBVIOUS
  <2>1. PICK empty \in Contents :
          rows = [b \in BundleIDs |->
                     [status |-> "absent", fields |-> empty, deleted |-> FALSE]]
    BY DEF Init
  <2>2. [status |-> "absent", fields |-> empty, deleted |-> FALSE] \in Rows
    BY DEF Rows
  <2>3. InOrder
    BY DEF Init, SubsInit, InOrder, SubsTypeOK, SubmissionInOrder, Steps
  <2>4. Rest
    BY <2>1, <2>2 DEF Init, Rest
  <2>5. \A b \in BundleIDs : rows[b].status = "absent" /\ ~rows[b].deleted
    BY <2>1
  <2>6. BundlesHaveEnough /\ BundlesReferToRecords /\ RequestsAreInTime
    BY <2>5 DEF Init, BundlesHaveEnough, BundlesReferToRecords,
              RequestsAreInTime, EnoughForABundle, RefersToRecords
  <2> QED BY <2>3, <2>4, <2>6, Parts
<1> QED BY <1>1, NextKeepsIInv, PTL DEF Spec

\* No bundle ever has fewer than two fields.
THEOREM EnoughInEveryBundle == Spec => []BundlesHaveEnough
<1>1. IInv => BundlesHaveEnough
  BY DEF IInv
<1> QED BY <1>1, Inductive, PTL

\* No bundle ever refers to anything of another team or task, or to a submission that
\* is not archived and in the audit log.
THEOREM NoForeignReferences == Spec => []BundlesReferToRecords
<1>1. IInv => BundlesReferToRecords
  BY DEF IInv
<1> QED BY <1>1, Inductive, PTL

\* Nobody changes or deletes a bundle that came after the deadline.
THEOREM LateBundlesStay == Spec => LateBundlesAreFixed
<1> DEFINE Fixed == \A b \in BundleIDs :
                        rows[b].status = "deadline_exceeded" => rows'[b] = rows[b]
<1>1. IInv /\ [Next]_vars => [Fixed]_vars
  <2> SUFFICES ASSUME IInv, Next, NEW c \in BundleIDs, rows[c].status = "deadline_exceeded"
               PROVE  rows'[c] = rows[c]
    BY DEF vars
  <2>1. \A q \in requests : q.bundle = c => q.method = "GET"
    BY DEF IInv, RequestsAreInTime
  <2>2. rows \in [BundleIDs -> Rows]
    BY DEF IInv, TypeOK
  <2>3. ASSUME NEW b \in BundleIDs, SubmitBundle(b) PROVE rows'[c] = rows[c]
    BY <2>2, <2>3 DEF SubmitBundle
  <2>4. ASSUME NEW q \in requests, PatchBundle(q) \/ DeleteBundle(q)
        PROVE  rows'[c] = rows[c]
    BY <2>1, <2>2, <2>4 DEF PatchBundle, DeleteBundle
  <2>5. ASSUME rows' # rows
        PROVE  \/ \E b \in BundleIDs : SubmitBundle(b)
               \/ \E q \in requests : PatchBundle(q) \/ DeleteBundle(q)
    BY <2>5 DEF Next, BundleStep, ComeIn, Read, GetBundle, Refuse, DeadlinePasses
  <2> QED BY <2>3, <2>4, <2>5
<1> QED BY <1>1, Inductive, PTL DEF Spec, LateBundlesAreFixed

\* A deleted bundle is changed only by a request that had read it before.
THEOREM DeletedBundlesStay == Spec => DeletedIsOutOfReach
<1> DEFINE OutOfReach == \A b \in BundleIDs :
               rows[b].deleted /\ rows'[b] # rows[b] =>
                   \E q \in requests : q.bundle = b /\ \E r \in q.read : ~r.deleted
<1>1. IInv /\ [Next]_vars => [OutOfReach]_vars
  <2> SUFFICES ASSUME IInv, Next, NEW c \in BundleIDs, rows[c].deleted, rows'[c] # rows[c]
               PROVE  \E q \in requests : q.bundle = c /\ \E r \in q.read : ~r.deleted
    BY DEF vars
  <2>1. rows \in [BundleIDs -> Rows] /\ RequestsAreInTime
    BY DEF IInv, TypeOK
  <2>2. ASSUME NEW q \in requests, PatchBundle(q) \/ DeleteBundle(q)
        PROVE  \E s \in requests : s.bundle = c /\ \E r \in s.read : ~r.deleted
    <3>1. q.bundle = c
      BY <2>1, <2>2 DEF PatchBundle, DeleteBundle
    <3>2. PICK r : r \in q.read
      BY <2>2 DEF PatchBundle, DeleteBundle
    <3>3. ~r.deleted
      BY <2>1, <3>2 DEF RequestsAreInTime
    <3> QED BY <3>1, <3>2, <3>3
  <2>3. ASSUME NEW b \in BundleIDs, SubmitBundle(b) PROVE FALSE
    BY <2>1, <2>3 DEF SubmitBundle, RequestsAreInTime
  <2>4. \/ \E b \in BundleIDs : SubmitBundle(b)
        \/ \E q \in requests : PatchBundle(q) \/ DeleteBundle(q)
    BY DEF Next, BundleStep, ComeIn, Read, GetBundle, Refuse, DeadlinePasses
  <2> QED BY <2>2, <2>3, <2>4
<1> QED BY <1>1, Inductive, PTL DEF Spec, DeletedIsOutOfReach
=============================================================================
