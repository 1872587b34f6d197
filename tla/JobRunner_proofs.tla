-------------------------- MODULE JobRunner_proofs --------------------------
(***************************************************************************)
(* Proofs about the job runner, for any number of requests, keys, rows,    *)
(* reports and failures: a committed row has a job, nothing that a worker  *)
(* sends after the commit is lost, and a verdict is stored once.           *)
(***************************************************************************)
EXTENDS JobRunner, TLAPS

\* What one message more or less does to the queue.
LEMMA Sending ==
    ASSUME NEW Q, IsABag(Q), NEW m
    PROVE  /\ IsABag(Q (+) SetToBag({m}))
           /\ BagToSet(Q (+) SetToBag({m})) = BagToSet(Q) \cup {m}
BY DEF IsABag, BagToSet, SetToBag, (+)

LEMMA Deleting ==
    ASSUME NEW Q, IsABag(Q), NEW m \in BagToSet(Q)
    PROVE  /\ IsABag(Q (-) SetToBag({m}))
           /\ BagToSet(Q (-) SetToBag({m})) \subseteq BagToSet(Q)
           /\ \A n \in BagToSet(Q) : n # m => n \in BagToSet(Q (-) SetToBag({m}))
BY DEF IsABag, BagToSet, SetToBag, (-)

-----------------------------------------------------------------------------
(* Each action keeps the invariant.  That the counter of failures stays in bounds is *)
(* assumed, as it is Next that takes care of it.                                     *)

LEMMA Start == Init => IInv
<1> SUFFICES ASSUME Init PROVE IInv
  OBVIOUS
<1> USE DEF Init
<1>1. TypeOK
  BY BoundsAssumption DEF TypeOK, IsABag, BagToSet, EmptyBag, SetToBag
<1>2. CommittedIsStarted /\ ReportsNotLost /\ RequestsKnowTheirRow /\ VerdictOnItsWay
  BY DEF CommittedIsStarted, ReportsNotLost, RequestsKnowTheirRow, VerdictOnItsWay
<1> QED BY <1>1, <1>2 DEF IInv

\* Steps of a request that change neither a row nor a pod nor the queue.
LEMMA Requesting ==
    ASSUME IInv, faults' \in 0 .. MaxFaults,
           \/ \E k \in Keys, overrideCache \in BOOLEAN : Request(k, overrideCache)
           \/ \E q \in requests : Look(q) \/ Respond(q) \/ RequestFails(q)
    PROVE  IInv'
<1> USE DEF IInv
<1>0. UNCHANGED <<rowVars, podVars, queue, early>>
  BY DEF Request, Look, Respond, RequestFails
<1>1. TypeOK' /\ RequestsKnowTheirRow'
  <2>1. CASE \E k \in Keys, overrideCache \in BOOLEAN : Request(k, overrideCache)
    <3> PICK k \in Keys, overrideCache \in BOOLEAN : Request(k, overrideCache)
      BY <2>1
    <3> DEFINE new == [id |-> received', key |-> k,
                       step |-> IF overrideCache THEN "insert" ELSE "look", job |-> 0]
    <3>1. requests' = requests \cup {new} /\ new.step \in {"insert", "look"}
      BY DEF Request
    <3>2. received' \in 1 .. MaxRequests /\ UNCHANGED answered
      BY BoundsAssumption DEF Request, TypeOK
    <3>3. new \in [id : 1 .. MaxRequests, key : Keys, step : Steps, job : 0 .. MaxJobs]
      BY <3>2, BoundsAssumption DEF Steps
    <3>4. TypeOK'
      BY <1>0, <3>1, <3>2, <3>3 DEF TypeOK, rowVars, podVars
    <3>5. RequestsKnowTheirRow'
      BY <1>0, <3>1 DEF RequestsKnowTheirRow, rowVars, podVars
    <3> QED BY <3>4, <3>5
  <2>2. ASSUME NEW q \in requests, Look(q) PROVE TypeOK' /\ RequestsKnowTheirRow'
    <3> PICK new : /\ requests' = (requests \ {q}) \cup {new}
                   /\ \/ new = [q EXCEPT !.step = "insert"]
                      \/ \E j \in Cached(q.key) : new = AnsweredBy(q, j)
      BY <2>2 DEF Look, Become
    <3>1. new \in [id : 1 .. MaxRequests, key : Keys, step : Steps, job : 0 .. MaxJobs]
      <4>1. q \in [id : 1 .. MaxRequests, key : Keys, step : Steps, job : 0 .. MaxJobs]
        BY DEF TypeOK
      <4>2. \A j \in Cached(q.key) : j \in 0 .. MaxJobs
        BY BoundsAssumption DEF Cached, JobIDs
      <4>3. [q EXCEPT !.step = "insert"]
                \in [id : 1 .. MaxRequests, key : Keys, step : Steps, job : 0 .. MaxJobs]
        BY <4>1 DEF Steps
      <4>4. ASSUME NEW j \in 0 .. MaxJobs
            PROVE  AnsweredBy(q, j)
                       \in [id : 1 .. MaxRequests, key : Keys, step : Steps, job : 0 .. MaxJobs]
        BY <4>1 DEF Steps, AnsweredBy
      <4> QED BY <4>2, <4>3, <4>4
    <3>2. new.step \in {"insert", "respond"}
      BY DEF TypeOK, AnsweredBy
    <3>3. new.step = "respond" => new.job \in JobIDs
      BY DEF TypeOK, AnsweredBy, Cached
    <3>4. TypeOK'
      BY <1>0, <2>2, <3>1 DEF Look, TypeOK, rowVars, podVars
    <3>5. RequestsKnowTheirRow'
      BY <1>0, <3>2, <3>3 DEF RequestsKnowTheirRow, rowVars, podVars
    <3> QED BY <3>4, <3>5
  <2>3. ASSUME NEW q \in requests, Respond(q) \/ RequestFails(q)
        PROVE TypeOK' /\ RequestsKnowTheirRow'
    <3>1. requests' = requests \ {q} /\ answered' \subseteq JobIDs /\ UNCHANGED received
      BY <2>3 DEF Respond, RequestFails, Become, TypeOK, RequestsKnowTheirRow
    <3>2. TypeOK'
      BY <1>0, <3>1 DEF TypeOK, rowVars, podVars
    <3>3. RequestsKnowTheirRow'
      BY <1>0, <3>1 DEF RequestsKnowTheirRow, rowVars, podVars
    <3> QED BY <3>2, <3>3
  <2> QED BY <2>1, <2>2, <2>3
<1>2. CommittedIsStarted' /\ ReportsNotLost' /\ VerdictOnItsWay'
  BY <1>0 DEF CommittedIsStarted, ReportsNotLost, VerdictOnItsWay, rowVars, podVars
<1> QED BY <1>1, <1>2

\* The row of a request is inserted, and its job created, before anybody sees the row.
LEMMA Inserting ==
    ASSUME IInv, faults' \in 0 .. MaxFaults, NEW q \in requests, Insert(q)
    PROVE  IInv'
<1> USE DEF IInv
<1> PICK j \in JobIDs :
        /\ key[j] = "none"
        /\ key' = [key EXCEPT ![j] = q.key]
        /\ requests' = (requests \ {q}) \cup {[q EXCEPT !.step = "create job", !.job = j]}
  BY DEF Insert, Become
<1> DEFINE new == [q EXCEPT !.step = "create job", !.job = j]
<1>0. UNCHANGED <<status, reports, received, answered, podVars, queue, early>>
  BY DEF Insert
<1>1. q \in [id : 1 .. MaxRequests, key : Keys, step : Steps, job : 0 .. MaxJobs]
  BY DEF TypeOK
<1>2. /\ new \in [id : 1 .. MaxRequests, key : Keys, step : Steps, job : 0 .. MaxJobs]
      /\ new.step = "create job" /\ new.job = j
  <2>1. j \in 0 .. MaxJobs
    BY BoundsAssumption DEF JobIDs
  <2>2. new = [AnsweredBy(q, j) EXCEPT !.step = "create job"]
    BY <1>1 DEF AnsweredBy
  <2>3. AnsweredBy(q, j) \in [id : 1 .. MaxRequests, key : Keys, step : Steps, job : 0 .. MaxJobs]
        /\ AnsweredBy(q, j).job = j
    BY <1>1, <2>1 DEF AnsweredBy, Steps
  <2> QED BY <2>2, <2>3 DEF Steps
<1>3. key' \in [JobIDs -> Keys \cup {"none"}] /\ key'[j] # "none"
  BY <1>1, ValuesAssumption DEF TypeOK
<1>4. \A i \in JobIDs : i # j => key'[i] = key[i]
  BY DEF TypeOK
<1>5. TypeOK'
  BY <1>0, <1>2, <1>3 DEF TypeOK, podVars
<1>6. RequestsKnowTheirRow'
  <2> HIDE DEF new
  <2>1. requests' = (requests \ {q}) \cup {new}
    BY DEF new
  <2>2. \A r \in requests : r.step \in {"create job", "commit"} => r.job \in JobIDs /\ r.job # j
    BY DEF RequestsKnowTheirRow
  <2>3. status[j] = "absent" /\ job[j] = "none"
    BY DEF RequestsKnowTheirRow
  <2>4. ASSUME NEW r \in requests'
        PROVE
            /\ r.step \in {"create job", "commit", "respond"} => r.job \in JobIDs
            /\ r.step \in {"create job", "commit"} =>
                   status'[r.job] = "absent" /\ key'[r.job] # "none"
            /\ r.step = "create job" => job'[r.job] = "none"
            /\ r.step = "commit" => job'[r.job] # "none"
    <3>1. CASE r = new
      BY <1>0, <1>2, <1>3, <2>3, <3>1 DEF podVars
    <3>2. CASE r \in requests
      BY <1>0, <1>4, <2>2, <3>2 DEF RequestsKnowTheirRow, podVars
    <3> QED BY <2>1, <3>1, <3>2
  <2>5. \A r, u \in requests' :
            r.step \in {"create job", "commit"} /\ u.step \in {"create job", "commit"}
                /\ r.job = u.job => r = u
    BY <1>2, <2>1, <2>2 DEF RequestsKnowTheirRow
  <2> QED
    BY <1>0, <1>3, <1>4, <2>4, <2>5 DEF RequestsKnowTheirRow, podVars
<1>7. CommittedIsStarted' /\ ReportsNotLost' /\ VerdictOnItsWay'
  BY <1>0 DEF CommittedIsStarted, ReportsNotLost, VerdictOnItsWay, podVars
<1> QED BY <1>5, <1>6, <1>7

LEMMA Starting ==
    ASSUME IInv, faults' \in 0 .. MaxFaults, NEW q \in requests,
           CreateEvalJob(q) \/ CreateEvalJobUnacknowledged(q)
    PROVE  IInv'
<1> USE DEF IInv
<1>0. /\ q.step = "create job"
      /\ job' = [job EXCEPT ![q.job] = "running"]
      /\ UNCHANGED <<rowVars, received, answered, sent, exiting, reported, queue, early>>
  BY DEF CreateEvalJob, CreateEvalJobUnacknowledged
<1>1. /\ q.job \in JobIDs /\ job[q.job] = "none"
      /\ status[q.job] = "absent" /\ key[q.job] # "none" /\ q.job \notin exiting
  BY <1>0 DEF RequestsKnowTheirRow
<1>2. PICK new : new \subseteq {[q EXCEPT !.step = "commit"]}
                 /\ requests' = (requests \ {q}) \cup new
  BY DEF CreateEvalJob, CreateEvalJobUnacknowledged, Become
<1>3. \A n \in new :
         /\ n \in [id : 1 .. MaxRequests, key : Keys, step : Steps, job : 0 .. MaxJobs]
         /\ n.step = "commit" /\ n.job = q.job
  BY <1>2 DEF TypeOK, Steps
<1>4. \A m, n \in new : m = n
  BY <1>2
<1>5. job'[q.job] = "running" /\ \A j \in JobIDs : j # q.job => job'[j] = job[j]
  BY <1>0, <1>1 DEF TypeOK
<1>6. TypeOK'
  BY <1>0, <1>2, <1>3 DEF TypeOK, rowVars
<1>7. RequestsKnowTheirRow'
  <2>1. \A r \in requests \ {q} : r.step \in {"create job", "commit"} => r.job # q.job
    BY <1>0 DEF RequestsKnowTheirRow
  <2>2. ASSUME NEW r \in requests'
        PROVE
            /\ r.step \in {"create job", "commit", "respond"} => r.job \in JobIDs
            /\ r.step \in {"create job", "commit"} =>
                   status'[r.job] = "absent" /\ key'[r.job] # "none"
            /\ r.step = "create job" => job'[r.job] = "none"
            /\ r.step = "commit" => job'[r.job] # "none"
    <3>1. CASE r \in new
      BY <1>0, <1>1, <1>3, <1>5, <3>1 DEF rowVars
    <3>2. CASE r \in requests \ {q}
      BY <1>0, <1>1, <1>5, <2>1, <3>2 DEF RequestsKnowTheirRow, rowVars
    <3> QED BY <1>2, <3>1, <3>2
  <2>3. \A r, u \in requests' :
            r.step \in {"create job", "commit"} /\ u.step \in {"create job", "commit"}
                /\ r.job = u.job => r = u
    <3>1. \A r \in requests \ {q}, u \in new : r.step \in {"create job", "commit"} => r.job # u.job
      BY <1>3, <2>1
    <3>2. \A r, u \in requests \ {q} :
            r.step \in {"create job", "commit"} /\ u.step \in {"create job", "commit"}
                /\ r.job = u.job => r = u
      BY DEF RequestsKnowTheirRow
    <3>3. requests' = (requests \ {q}) \cup new
      BY <1>2
    <3> HIDE DEF IInv
    <3> QED BY <1>4, <3>1, <3>2, <3>3
  <2>4. \A j \in JobIDs : key'[j] = "none" => status'[j] = "absent" /\ job'[j] = "none"
    BY <1>0, <1>1, <1>5 DEF RequestsKnowTheirRow, rowVars
  <2>5. \A j \in exiting' : job'[j] = "running"
    BY <1>0, <1>1, <1>5 DEF RequestsKnowTheirRow, TypeOK
  <2> QED BY <2>2, <2>3, <2>4, <2>5 DEF RequestsKnowTheirRow
<1>8. CommittedIsStarted'
  BY <1>0, <1>5 DEF CommittedIsStarted, rowVars
<1>9. ReportsNotLost'
  BY <1>0 DEF ReportsNotLost, rowVars
<1>10. VerdictOnItsWay'
  BY <1>0, <1>5 DEF VerdictOnItsWay, rowVars
<1> QED BY <1>6, <1>7, <1>8, <1>9, <1>10

LEMMA Committing ==
    ASSUME IInv, faults' \in 0 .. MaxFaults, NEW q \in requests,
           Commit(q) \/ CommitUnacknowledged(q)
    PROVE  IInv'
<1> USE DEF IInv
<1>0. /\ q.step = "commit"
      /\ status' = [status EXCEPT ![q.job] = "accepted"]
      /\ UNCHANGED <<reports, key, received, answered, podVars, queue, early>>
  BY DEF Commit, CommitUnacknowledged
<1>1. /\ q.job \in JobIDs /\ job[q.job] # "none"
      /\ status[q.job] = "absent" /\ key[q.job] # "none"
  BY <1>0 DEF RequestsKnowTheirRow
<1>2. PICK new : new \subseteq {[q EXCEPT !.step = "respond"]}
                 /\ requests' = (requests \ {q}) \cup new
  BY DEF Commit, CommitUnacknowledged, Become
<1>3. \A n \in new :
         /\ n \in [id : 1 .. MaxRequests, key : Keys, step : Steps, job : 0 .. MaxJobs]
         /\ n.step = "respond" /\ n.job = q.job
  BY <1>2 DEF TypeOK, Steps
<1>4. status'[q.job] = "accepted" /\ \A j \in JobIDs : j # q.job => status'[j] = status[j]
  BY <1>0, <1>1 DEF TypeOK
<1>5. TypeOK'
  BY <1>0, <1>2, <1>3 DEF TypeOK, podVars
<1>6. RequestsKnowTheirRow'
  <2>1. \A r \in requests \ {q} : r.step \in {"create job", "commit"} => r.job # q.job
    BY <1>0 DEF RequestsKnowTheirRow
  <2>2. ASSUME NEW r \in requests'
        PROVE
            /\ r.step \in {"create job", "commit", "respond"} => r.job \in JobIDs
            /\ r.step \in {"create job", "commit"} =>
                   status'[r.job] = "absent" /\ key'[r.job] # "none"
            /\ r.step = "create job" => job'[r.job] = "none"
            /\ r.step = "commit" => job'[r.job] # "none"
    <3>1. CASE r \in new
      BY <1>0, <1>1, <1>3, <1>4, <3>1 DEF podVars
    <3>2. CASE r \in requests \ {q}
      BY <1>0, <1>1, <1>4, <2>1, <3>2 DEF RequestsKnowTheirRow, podVars
    <3> QED BY <1>2, <3>1, <3>2
  <2>3. \A r, u \in requests' :
            r.step \in {"create job", "commit"} /\ u.step \in {"create job", "commit"}
                /\ r.job = u.job => r = u
    BY <1>2, <1>3, <2>1 DEF RequestsKnowTheirRow
  <2>4. \A j \in JobIDs : key'[j] = "none" => status'[j] = "absent" /\ job'[j] = "none"
    BY <1>0, <1>1, <1>4 DEF RequestsKnowTheirRow, podVars
  <2>5. \A j \in exiting' : job'[j] = "running"
    BY <1>0 DEF RequestsKnowTheirRow, podVars
  <2> QED BY <2>2, <2>3, <2>4, <2>5 DEF RequestsKnowTheirRow
<1>7. CommittedIsStarted'
  BY <1>0, <1>1, <1>4 DEF CommittedIsStarted, podVars
<1>8. ReportsNotLost'
  BY <1>0 DEF ReportsNotLost, podVars
<1>9. VerdictOnItsWay'
  BY <1>0, <1>1, <1>4 DEF VerdictOnItsWay, podVars
<1> QED BY <1>5, <1>6, <1>7, <1>8, <1>9

\* What a worker sends is in the queue, and its pod ends with one condition.
LEMMA Reporting ==
    ASSUME IInv, faults' \in 0 .. MaxFaults, NEW j \in JobIDs, Report(j)
    PROVE  IInv'
<1> USE DEF IInv
<1> PICK r \in Reports :
        /\ sent' = [sent EXCEPT ![j] = @ \cup {r}]
        /\ reported' = [reported EXCEPT ![j] = @ \cup {r}]
        /\ queue' = queue (+) SetToBag({[job |-> j, report |-> r]})
  BY DEF Report, Send
<1>0. UNCHANGED <<rowVars, requests, received, answered, job, exiting, early>>
  BY DEF Report
<1>1. [job |-> j, report |-> r] \in Messages
  BY DEF Messages
<1>2. IsABag(queue') /\ BagToSet(queue') = BagToSet(queue) \cup {[job |-> j, report |-> r]}
  BY Sending DEF TypeOK
<1>3. TypeOK'
  BY <1>0, <1>1, <1>2 DEF TypeOK, rowVars
<1>4. RequestsKnowTheirRow' /\ CommittedIsStarted'
  BY <1>0 DEF RequestsKnowTheirRow, CommittedIsStarted, rowVars
<1>5. ReportsNotLost'
  BY <1>0, <1>2 DEF ReportsNotLost, BagIn, TypeOK, rowVars
<1>6. VerdictOnItsWay'
  BY <1>0, <1>2 DEF VerdictOnItsWay, BagIn, rowVars
<1> QED BY <1>3, <1>4, <1>5, <1>6

LEMMA Finishing ==
    ASSUME IInv, faults' \in 0 .. MaxFaults, NEW j \in JobIDs, FinalMessage(j)
    PROVE  IInv'
<1> USE DEF IInv
<1> PICK v \in Verdicts : queue' = queue (+) SetToBag({[job |-> j, verdict |-> v]})
  BY DEF FinalMessage, Send
<1>0. /\ exiting' = exiting \cup {j} /\ job[j] = "running"
      /\ UNCHANGED <<rowVars, requests, received, answered, job, sent, reported, early>>
  BY DEF FinalMessage, Evaluating
<1>1. [job |-> j, verdict |-> v] \in Messages
  BY DEF Messages
<1>2. IsABag(queue') /\ BagToSet(queue') = BagToSet(queue) \cup {[job |-> j, verdict |-> v]}
  BY Sending DEF TypeOK
<1>3. TypeOK'
  BY <1>0, <1>1, <1>2 DEF TypeOK, rowVars
<1>4. RequestsKnowTheirRow' /\ CommittedIsStarted'
  BY <1>0 DEF RequestsKnowTheirRow, CommittedIsStarted, rowVars
<1>5. ReportsNotLost'
  BY <1>0, <1>2 DEF ReportsNotLost, BagIn, rowVars
<1>6. VerdictOnItsWay'
  BY <1>0, <1>2 DEF VerdictOnItsWay, BagIn, rowVars
<1> QED BY <1>3, <1>4, <1>5, <1>6

LEMMA Ending ==
    ASSUME IInv, faults' \in 0 .. MaxFaults, NEW j \in JobIDs,
           PodSucceeds(j) \/ PodFails(j) \/ PodDisrupted(j)
    PROVE  IInv'
<1> USE DEF IInv
<1> PICK condition \in {"complete", "failed", "running"} :
        /\ condition = "complete" => j \in exiting
        /\ job' = [job EXCEPT ![j] = condition]
        /\ sent' = [sent EXCEPT ![j] = {}]
        /\ exiting' = exiting \ {j}
  BY DEF PodSucceeds, PodFails, PodDisrupted, PodEnds
<1>0. /\ job[j] = "running"
      /\ UNCHANGED <<rowVars, requests, received, answered, reported, queue, early>>
  BY DEF PodSucceeds, PodFails, PodDisrupted, PodEnds
<1>1. job'[j] = condition /\ \A i \in JobIDs : i # j => job'[i] = job[i]
  BY DEF TypeOK
<1>2. TypeOK'
  BY <1>0 DEF TypeOK, rowVars
<1>3. RequestsKnowTheirRow'
  <2>1. \A q \in requests : q.step = "create job" => q.job # j
    BY <1>0 DEF RequestsKnowTheirRow
  <2>2. key[j] # "none"
    BY <1>0 DEF RequestsKnowTheirRow
  <2> QED BY <1>0, <1>1, <2>1, <2>2 DEF RequestsKnowTheirRow, TypeOK, rowVars
<1>4. CommittedIsStarted'
  BY <1>0, <1>1 DEF CommittedIsStarted, rowVars
<1>5. ReportsNotLost'
  BY <1>0 DEF ReportsNotLost, rowVars
<1>6. VerdictOnItsWay'
  BY <1>0, <1>1 DEF VerdictOnItsWay, rowVars
<1> QED BY <1>2, <1>3, <1>4, <1>5, <1>6

\* A message is stored in its row, or its job is in early; it may stay in the queue.
LEMMA Storing ==
    ASSUME IInv, faults' \in 0 .. MaxFaults, NEW m \in BagToSet(queue), Handle(m),
           UNCHANGED queue \/ queue' = queue (-) SetToBag({m})
    PROVE  IInv'
<1> USE DEF IInv
<1>0. UNCHANGED <<key, requests, received, answered, podVars>>
  BY DEF Handle
<1>1. /\ IsABag(queue') /\ BagToSet(queue') \subseteq BagToSet(queue)
      /\ \A n \in BagToSet(queue) : n # m => n \in BagToSet(queue')
  BY Deleting DEF TypeOK
<1>2. m \in Messages /\ m.job \in JobIDs
  BY DEF TypeOK, Messages
<1>3. /\ early \subseteq early' /\ early' \subseteq JobIDs
      /\ status[m.job] = "absent" => m.job \in early'
  BY <1>2 DEF Handle, Writes, TypeOK
<1>4. /\ status' \in [JobIDs -> {"absent", "accepted"} \cup Decided]
      /\ \A j \in JobIDs :
            status'[j] # status[j] => status[j] = "accepted" /\ status'[j] \in Verdicts
  <2>1. CASE UNCHANGED status
    BY <2>1 DEF TypeOK
  <2>2. CASE m \in [job : JobIDs, verdict : Verdicts] /\ StoreVerdict(m.job, m.verdict)
    BY <2>2, <1>2 DEF StoreVerdict, TypeOK, Decided
  <2> QED BY <2>1, <2>2 DEF Handle
<1>5. /\ reports' \in [JobIDs -> SUBSET Reports]
      /\ \A j \in JobIDs : reports[j] \subseteq reports'[j]
  <2>1. CASE UNCHANGED reports
    BY <2>1 DEF TypeOK
  <2>2. CASE m \in [job : JobIDs, report : Reports] /\ StoreReport(m)
    BY <2>2, <1>2 DEF StoreReport, TypeOK
  <2> QED BY <2>1, <2>2 DEF Handle
<1>6. TypeOK'
  BY <1>0, <1>1, <1>3, <1>4, <1>5 DEF TypeOK, podVars
<1>7. RequestsKnowTheirRow'
  BY <1>0, <1>4 DEF RequestsKnowTheirRow, podVars
<1>8. CommittedIsStarted'
  BY <1>0, <1>4 DEF CommittedIsStarted, podVars
<1>9. ReportsNotLost'
  <2> SUFFICES ASSUME NEW j \in JobIDs \ early', NEW r \in reported'[j]
               PROVE  r \in reports'[j] \/ BagIn([job |-> j, report |-> r], queue')
    BY DEF ReportsNotLost
  <2>1. r \in reports[j] \/ [job |-> j, report |-> r] \in BagToSet(queue)
    BY <1>0, <1>3 DEF ReportsNotLost, BagIn, podVars
  <2>2. CASE r \in reports[j]
    BY <1>5, <2>2
  <2>3. CASE m = [job |-> j, report |-> r]
    <3>1. status[j] # "absent"
      BY <1>3, <2>3
    <3>2. m \notin [job : JobIDs, verdict : Verdicts]
      BY <2>3
    <3>3. StoreReport(m)
      BY <3>2 DEF Handle
    <3> QED BY <2>3, <3>1, <3>3 DEF StoreReport, TypeOK
  <2>4. CASE [job |-> j, report |-> r] \in BagToSet(queue) /\ m # [job |-> j, report |-> r]
    BY <1>1, <2>4 DEF BagIn
  <2> QED BY <2>1, <2>2, <2>3, <2>4
<1>10. VerdictOnItsWay'
  <2> SUFFICES ASSUME NEW j \in JobIDs \ early',
                      j \in exiting' \/ job'[j] \in {"complete", "deleted"},
                      status'[j] \in {"absent", "accepted"}
               PROVE  \E v \in Verdicts : BagIn([job |-> j, verdict |-> v], queue')
    BY DEF VerdictOnItsWay
  <2>1. status'[j] = status[j]
    BY <1>4, ValuesAssumption
  <2>2. PICK v \in Verdicts : [job |-> j, verdict |-> v] \in BagToSet(queue)
    BY <1>0, <1>3, <2>1 DEF VerdictOnItsWay, BagIn, podVars
  <2>3. m # [job |-> j, verdict |-> v]
    <3> SUFFICES ASSUME m = [job |-> j, verdict |-> v] PROVE FALSE
      OBVIOUS
    <3>1. m \notin [job : JobIDs, report : Reports]
      OBVIOUS
    <3>2. StoreVerdict(j, v)
      BY <3>1 DEF Handle
    <3>3. status[j] = "accepted"
      BY <1>3, <2>1
    <3> QED BY <2>1, <3>2, <3>3, ValuesAssumption DEF StoreVerdict, TypeOK
  <2> QED BY <1>1, <2>2, <2>3 DEF BagIn
<1> QED BY <1>6, <1>7, <1>8, <1>9, <1>10

\* The controller errs an undecided row before it deletes the failed job.
LEMMA Erring ==
    ASSUME IInv, faults' \in 0 .. MaxFaults, NEW j \in JobIDs,
           \/ HandleJobUpdate(j)
           \/ /\ job[j] = "failed"
              /\ Errored(j)
              /\ UNCHANGED <<reports, key, requests, received, answered, podVars, queue>>
    PROVE  IInv'
<1> USE DEF IInv
<1>0. UNCHANGED <<reports, key, requests, received, answered, sent, exiting, reported, queue>>
  BY DEF HandleJobUpdate, podVars
<1>1. /\ job[j] \in {"failed", "complete"} /\ Errored(j)
      /\ UNCHANGED job \/ job' = [job EXCEPT ![j] = "deleted"]
  BY DEF HandleJobUpdate, podVars
<1>2. /\ early \subseteq early' /\ early' \subseteq JobIDs
      /\ job[j] = "failed" => status'[j] \notin {"absent", "accepted"} \/ j \in early'
      /\ status' \in [JobIDs -> {"absent", "accepted"} \cup Decided]
      /\ \A i \in JobIDs :
            status'[i] # status[i] => status[i] = "accepted" /\ status'[i] = "errored"
  <2>1. CASE job[j] # "failed"
    BY <1>1, <2>1 DEF Errored, TypeOK
  <2>2. CASE job[j] = "failed"
    <3>1. Writes(j) /\ StoreVerdict(j, "errored")
      BY <1>1, <2>2 DEF Errored
    <3>2. early' = early \cup {j} \/ (status[j] # "absent" /\ early' = early)
      BY <3>1 DEF Writes
    <3>3. CASE status[j] = "accepted"
      BY <3>1, <3>2, <3>3, ValuesAssumption DEF StoreVerdict, TypeOK, Decided
    <3>4. CASE status[j] # "accepted"
      BY <3>1, <3>2, <3>4 DEF StoreVerdict, TypeOK
    <3> QED BY <3>3, <3>4
  <2> QED BY <2>1, <2>2
<1>3. /\ job' \in [JobIDs -> {"none", "running", "complete", "failed", "deleted"}]
      /\ \A i \in JobIDs : job'[i] # job[i] => i = j /\ job'[i] = "deleted"
  BY <1>1 DEF TypeOK
<1>4. TypeOK'
  BY <1>0, <1>2, <1>3 DEF TypeOK
<1>5. RequestsKnowTheirRow'
  <2>1. \A q \in requests' :
            /\ q.step \in {"create job", "commit", "respond"} => q.job \in JobIDs
            /\ q.step \in {"create job", "commit"} =>
                   status'[q.job] = "absent" /\ key'[q.job] # "none"
            /\ q.step = "create job" => job'[q.job] = "none"
            /\ q.step = "commit" => job'[q.job] # "none"
    <3> SUFFICES ASSUME NEW q \in requests
                 PROVE  /\ q.step \in {"create job", "commit", "respond"} => q.job \in JobIDs
                        /\ q.step \in {"create job", "commit"} =>
                               status'[q.job] = "absent" /\ key[q.job] # "none"
                        /\ q.step = "create job" => job'[q.job] = "none"
                        /\ q.step = "commit" => job'[q.job] # "none"
      BY <1>0
    <3>1. q.step \in {"create job", "commit", "respond"} => q.job \in JobIDs
      BY DEF RequestsKnowTheirRow
    <3>2. q.step \in {"create job", "commit"} =>
              status'[q.job] = "absent" /\ key[q.job] # "none"
      BY <1>2 DEF RequestsKnowTheirRow
    <3>3. q.step = "create job" => job'[q.job] = "none"
      BY <1>1, <1>3 DEF RequestsKnowTheirRow
    <3>4. q.step = "commit" => job'[q.job] # "none"
      BY <1>3 DEF RequestsKnowTheirRow
    <3> QED BY <3>1, <3>2, <3>3, <3>4
  <2>2. \A i \in JobIDs : key'[i] = "none" => status'[i] = "absent" /\ job'[i] = "none"
    BY <1>0, <1>1, <1>2, <1>3 DEF RequestsKnowTheirRow
  <2>3. \A i \in exiting' : job'[i] = "running"
    BY <1>0, <1>1, <1>3 DEF RequestsKnowTheirRow, TypeOK
  <2> QED BY <1>0, <2>1, <2>2, <2>3 DEF RequestsKnowTheirRow
<1>6. CommittedIsStarted'
  BY <1>2, <1>3 DEF CommittedIsStarted
<1>7. ReportsNotLost'
  BY <1>0, <1>2 DEF ReportsNotLost
<1>8. VerdictOnItsWay'
  BY <1>0, <1>1, <1>2, <1>3 DEF VerdictOnItsWay
<1> QED BY <1>4, <1>5, <1>6, <1>7, <1>8

-----------------------------------------------------------------------------

LEMMA Stepping == IInv /\ [Next]_vars => IInv'
<1> SUFFICES ASSUME IInv, [Next]_vars PROVE IInv'
  OBVIOUS
<1>1. CASE UNCHANGED vars
  BY <1>1 DEF vars, rowVars, podVars, IInv, TypeOK, CommittedIsStarted, ReportsNotLost,
              RequestsKnowTheirRow, VerdictOnItsWay
<1>2. CASE Next
  <2>1. faults' \in 0 .. MaxFaults
    BY <1>2, BoundsAssumption DEF Next, Fault, IInv, TypeOK
  <2>2. CASE \E k \in Keys, overrideCache \in BOOLEAN : Request(k, overrideCache)
    BY <2>1, <2>2, Requesting
  <2>3. CASE DoJobWork
    BY <2>1, <2>3, Requesting, Inserting, Starting, Committing DEF DoJobWork
  <2>4. ASSUME NEW j \in JobIDs, Worker(j) PROVE IInv'
    BY <2>1, <2>4, Reporting, Finishing, Ending DEF Worker
  <2>5. ASSUME NEW j \in JobIDs, HandleJobUpdate(j) PROVE IInv'
    BY <2>1, <2>5, Erring
  <2>6. CASE HandleMessage
    BY <2>1, <2>6, Storing DEF HandleMessage
  <2>7. ASSUME NEW q \in requests,
               RequestFails(q) \/ CreateEvalJobUnacknowledged(q) \/ CommitUnacknowledged(q)
        PROVE  IInv'
    BY <2>1, <2>7, Requesting, Starting, Committing
  <2>8. ASSUME NEW j \in JobIDs, PodFails(j) \/ PodDisrupted(j) PROVE IInv'
    BY <2>1, <2>8, Ending
  <2>9. CASE HandledAgain
    BY <2>1, <2>9, Storing, Erring DEF HandledAgain
  <2> QED BY <1>2, <2>2, <2>3, <2>4, <2>5, <2>6, <2>7, <2>8, <2>9 DEF Next, Step, Fault
<1> QED BY <1>1, <1>2

\* The inductive invariant, for any number of requests, keys, rows, reports and failures.
THEOREM Inductive == Spec => []IInv
<1> QED BY Start, Stepping, PTL DEF Spec, Safety

\* A row that can be found in the cache always has a job (doJobWork's transaction).
THEOREM CommittedRowsAreStarted == Spec => []CommittedIsStarted
<1>1. IInv => CommittedIsStarted
  BY DEF IInv
<1> QED BY <1>1, Inductive, PTL

\* No report of a worker is lost once its row is there (the report handlers).
THEOREM ReportsAreKept == Spec => []ReportsNotLost
<1>1. IInv => ReportsNotLost
  BY DEF IInv
<1> QED BY <1>1, Inductive, PTL

\* No verdict is lost once its row is there (HandleFinalMessage, handleJobUpdate).
THEOREM VerdictsAreKept == Spec => []JobVerdictNotLost
<1>1. IInv => JobVerdictNotLost
  BY DEF IInv, VerdictOnItsWay, JobVerdictNotLost
<1> QED BY <1>1, Inductive, PTL

\* A stored verdict never changes: neither another message nor the controller writes a
\* decided row, and a commit only writes one nobody has seen.
THEOREM VerdictsAreStoredOnce == Spec => JobVerdictIsFinal
<1>1. IInv /\ [Next]_vars =>
          [\A j \in JobIDs : status[j] \in Decided => status'[j] = status[j]]_vars
  <2> SUFFICES ASSUME IInv, Next, NEW j \in JobIDs, status[j] \in Decided
               PROVE  status'[j] = status[j]
    BY DEF vars
  <2>0. status \in [JobIDs -> {"absent", "accepted"} \cup Decided]
        /\ status[j] \notin {"absent", "accepted"}
    BY ValuesAssumption DEF IInv, TypeOK, Decided
  <2>1. ASSUME NEW q \in requests, Commit(q) \/ CommitUnacknowledged(q)
        PROVE  status'[j] = status[j]
    <3>1. status' = [status EXCEPT ![q.job] = "accepted"] /\ q.step = "commit"
      BY <2>1 DEF Commit, CommitUnacknowledged
    <3>2. q.job # j
      BY <2>0, <3>1 DEF IInv, RequestsKnowTheirRow
    <3> QED BY <2>0, <3>1, <3>2
  <2>2. ASSUME NEW q \in requests,
               \/ Look(q) \/ Insert(q) \/ CreateEvalJob(q) \/ Respond(q)
               \/ RequestFails(q) \/ CreateEvalJobUnacknowledged(q)
        PROVE  status'[j] = status[j]
    BY <2>2 DEF Look, Insert, CreateEvalJob, Respond, RequestFails,
                CreateEvalJobUnacknowledged, rowVars
  <2>3. ASSUME NEW i \in JobIDs, Worker(i) \/ PodFails(i) \/ PodDisrupted(i)
        PROVE  status'[j] = status[j]
    BY <2>3 DEF Worker, Report, FinalMessage, PodSucceeds, PodFails, PodDisrupted, PodEnds,
                rowVars
  <2>4. ASSUME NEW m \in BagToSet(queue), Handle(m) PROVE status'[j] = status[j]
    BY <2>0, <2>4 DEF Handle, StoreVerdict
  <2>5. ASSUME NEW i \in JobIDs, Errored(i) PROVE status'[j] = status[j]
    BY <2>0, <2>5 DEF Errored, StoreVerdict
  <2>6. ASSUME NEW k \in Keys, NEW overrideCache \in BOOLEAN, Request(k, overrideCache)
        PROVE  status'[j] = status[j]
    BY <2>6 DEF Request, rowVars
  <2> QED BY <2>1, <2>2, <2>3, <2>4, <2>5, <2>6
          DEF Next, Step, Fault, DoJobWork, HandleMessage, HandleJobUpdate, HandledAgain
<1> QED BY <1>1, Inductive, PTL DEF Spec, Safety, JobVerdictIsFinal
=============================================================================
