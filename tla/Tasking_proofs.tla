--------------------------- MODULE Tasking_proofs ---------------------------
(***************************************************************************)
(* Proofs about tasks, broadcasts and their delivery, for any number of    *)
(* scans, alerts, CRSs and failures.  A step is one of a scan, of a hook   *)
(* or of a delivery, and leaves the two others alone but for the creation  *)
(* of a job; so there is a lemma for each of the three.                    *)
(***************************************************************************)
EXTENDS Tasking, TLAPS

LEMMA MessageIsInMessages ==
    /\ \A s \in ScanIDs : <<"scan", s>> \in Messages
    /\ \A h \in HookIDs : <<"hook", h>> \in Messages
    /\ \A s \in ScanIDs, h \in HookIDs : <<"scan", s>> # <<"hook", h>>
    /\ \A m \in Messages :
        \/ \E s \in ScanIDs : m = <<"scan", s>>
        \/ \E h \in HookIDs : m = <<"hook", h>>
BY MessagesAssumption

LEMMA Start0 == Init => IInv
<1> SUFFICES ASSUME Init PROVE IInv
  OBVIOUS
<1> USE DEF Init, DeliveryInit
<1>1. TypeOK
  <2>1. DeliveryTypeOK
    BY DEF DeliveryTypeOK, Tries
  <2>2. scan \in [ScanIDs -> [step : ScanSteps, round : {"none", "main", "generate"},
                              teams : SUBSET CRSs, archived : BOOLEAN]]
    BY DEF ScanSteps
  <2>3. hook \in [HookIDs -> [step : HookSteps, task : 0 .. MaxScans, page : 0 .. Pages]]
    BY BoundsAssumption DEF HookSteps
  <2> QED BY <2>1, <2>2, <2>3, BoundsAssumption DEF TypeOK
<1>2. \A s \in ScanIDs : ScanInOrder(s)
  BY MessageIsInMessages DEF ScanInOrder, At
<1>3. \A h \in HookIDs : HookInOrder(h) /\ ~ Owns(h)
  BY MessageIsInMessages DEF HookInOrder, Owns
<1>4. ReportsAreOwned
  BY <1>3 DEF ReportsAreOwned
<1>5. DeliveriesAddUp
  BY BoundsAssumption DEF DeliveriesAddUp, TriesAreTold, CountsAddUp, JobAddsUp, Recipients
<1> QED BY <1>1, <1>2, <1>3, <1>4, <1>5 DEF IInv

-----------------------------------------------------------------------------
(* Deliveries. *)

LEMMA FaultsCount ==
    ASSUME faults \in 0 .. MaxFaults, faults' \in 0 .. MaxFaults,
           faults' = faults \/ faults' = faults + 1
    PROVE  faults \in Nat /\ faults' \in Nat /\ faults <= faults' /\ (faults # 0 => faults' # 0)
BY BoundsAssumption

\* What every step of a pod keeps, besides the invariant: who is a recipient, and which
\* messages have a job.
SameDeliveries ==
    /\ \A n \in Messages : job'[n] = "none" <=> job[n] = "none"
    /\ \A n \in Messages, c \in CRSs : try'[n][c] = "off" <=> try[n][c] = "off"

\* An attempt at one CRS, which accepts more than before: what becomes of it.
Attempt(m, c, more) ==
    /\ job[m] = "running" /\ try[m][c] \in {"first", "retry"} /\ UNCHANGED job
    /\ DeliveryTypeOK'
    /\ try'[m][c] \in {"ok", "retry", "gave up"}
    /\ received'[m][c] = received[m][c] + more
    /\ <<c, "succeeded">> \in audited'[m] =>
           try'[m][c] = "ok" \/ <<c, "succeeded">> \in audited[m]
    /\ try'[m][c] = "ok" => more = 1 /\ <<c, "succeeded">> \in audited'[m]
    /\ try'[m][c] = "gave up" => <<c, "failed">> \in audited'[m]
    /\ \A n \in Messages, d \in CRSs :
        n # m \/ d # c =>
            /\ try'[n][d] = try[n][d] /\ received'[n][d] = received[n][d]
            /\ <<d, "succeeded">> \in audited'[n] => <<d, "succeeded">> \in audited[n]
    /\ \A n \in Messages : audited[n] \subseteq audited'[n]

LEMMA Counts ==
    ASSUME DeliveryTypeOK, NEW m \in Messages, NEW c \in CRSs
    PROVE  received[m][c] \in Nat
BY DEF DeliveryTypeOK

LEMMA AttemptAddsUp ==
    ASSUME NEW m \in Messages, NEW c \in CRSs, NEW more \in {0, 1},
           DeliveryTypeOK, DeliveriesAddUp, Attempt(m, c, more),
           faults \in Nat, faults' \in Nat, faults <= faults',
           more = 1 /\ try'[m][c] # "ok" => faults' = faults + 1
    PROVE  DeliveryTypeOK' /\ DeliveriesAddUp' /\ SameDeliveries
<1>1. /\ job[m] = "running" /\ try[m][c] \in {"first", "retry"} /\ job' = job
      /\ try'[m][c] \in {"ok", "retry", "gave up"}
      /\ <<c, "succeeded">> \in audited'[m] =>
             try'[m][c] = "ok" \/ <<c, "succeeded">> \in audited[m]
      /\ try'[m][c] = "ok" => <<c, "succeeded">> \in audited'[m]
      /\ try'[m][c] = "gave up" => <<c, "failed">> \in audited'[m]
  BY DEF Attempt
<1>2. /\ received'[m][c] = received[m][c] + more
      /\ try'[m][c] = "ok" => more = 1
      /\ try[m][c] # "ok"
  BY DEF Attempt
<1>3. \A n \in Messages, d \in CRSs :
          n # m \/ d # c => try'[n][d] = try[n][d] /\ received'[n][d] = received[n][d]
  BY DEF Attempt
<1>4. \A n \in Messages, d \in CRSs :
          /\ <<d, "succeeded">> \in audited[n] => <<d, "succeeded">> \in audited'[n]
          /\ <<d, "failed">> \in audited[n] => <<d, "failed">> \in audited'[n]
          /\ n # m \/ d # c =>
                 (<<d, "succeeded">> \in audited'[n] => <<d, "succeeded">> \in audited[n])
  BY DEF Attempt
<1>5. ASSUME NEW n \in Messages, NEW d \in CRSs PROVE TriesAreTold(n, d)'
  <2>1. TriesAreTold(n, d) /\ received[n][d] \in Nat
    BY Counts DEF DeliveriesAddUp
  <2>2. CASE n = m /\ d = c
    <3>1. /\ more = 1 => received'[m][c] # 0
          /\ more = 0 => received'[m][c] = received[m][c]
      BY <1>2, <2>1, <2>2
    <3>2. <<c, "succeeded">> \in audited'[m] => received'[m][c] # 0
      BY <1>1, <1>2, <2>1, <2>2, <3>1 DEF TriesAreTold
    <3> QED BY <1>1, <2>2, <3>2 DEF TriesAreTold
  <2>3. CASE n # m \/ d # c
    BY <1>3, <1>4, <2>1, <2>3 DEF TriesAreTold
  <2> QED BY <2>2, <2>3
<1>6. ASSUME NEW n \in Messages, NEW d \in CRSs PROVE CountsAddUp(n, d)'
  <2>1. CountsAddUp(n, d) /\ received[n][d] \in Nat
    BY Counts DEF DeliveriesAddUp
  <2>2. CASE n = m /\ d = c
    BY <1>2, <2>1, <2>2 DEF CountsAddUp
  <2>3. CASE n # m \/ d # c
    BY <1>3, <2>1, <2>3 DEF CountsAddUp
  <2> QED BY <2>2, <2>3
<1>7. ASSUME NEW n \in Messages PROVE JobAddsUp(n)'
  <2>1. CASE n = m
    BY <1>1, <2>1 DEF JobAddsUp
  <2>2. CASE n # m
    <3>1. \A d \in CRSs : try'[n][d] = try[n][d]
      BY <1>3, <2>2
    <3>2. JobAddsUp(n)
      BY DEF DeliveriesAddUp
    <3> QED BY <1>1, <3>1, <3>2 DEF JobAddsUp, Recipients
  <2> QED BY <2>1, <2>2
<1>8. DeliveriesAddUp'
  BY <1>5, <1>6, <1>7 DEF DeliveriesAddUp
<1>9. SameDeliveries
  BY <1>1, <1>3 DEF SameDeliveries
<1>10. DeliveryTypeOK'
  BY DEF Attempt
<1> QED BY <1>8, <1>9, <1>10

LEMMA Attempting ==
    ASSUME DeliveryTypeOK, NEW m \in Messages, NEW c \in CRSs, NEW over
    PROVE  /\ Deliver(m, c, over) => \/ Attempt(m, c, 1) /\ try'[m][c] = "ok"
                                     \/ Attempt(m, c, 0)
           /\ GiveUp(m, c, over) => Attempt(m, c, 0)
           /\ AnswerLost(m, c, over) => Attempt(m, c, 1)
<1> USE DEF DeliveryTypeOK
<1>0. received[m][c] \in Nat
  BY Counts
<1>1. ASSUME MayTry(m, c, over), Accepts(m, c), UNCHANGED job
      PROVE  Attempt(m, c, 1) /\ try'[m][c] = "ok"
  <2>1. received' = [received EXCEPT ![m][c] = @ + 1] /\ try' = [try EXCEPT ![m][c] = "ok"]
        /\ audited' = [audited EXCEPT ![m] = @ \cup {<<c, "succeeded">>}]
    BY <1>1 DEF Accepts, Become, Audit
  <2>2. received' \in [Messages -> [CRSs -> Nat]]
    BY <1>0, <2>1
  <2>3. try' \in [Messages -> [CRSs -> Tries]]
    BY <2>1 DEF Tries
  <2>4. audited' \in [Messages -> SUBSET (CRSs \X {"succeeded", "failed"})]
    BY <2>1
  <2> QED BY <1>1, <2>1, <2>2, <2>3, <2>4 DEF Attempt, MayTry
<1>2. ASSUME MayTry(m, c, over), Refuses(m, c), UNCHANGED job
      PROVE  Attempt(m, c, 0)
  <2>1. try' = [try EXCEPT ![m][c] = "retry"] /\ UNCHANGED <<received, audited>>
    BY <1>2 DEF Refuses, Become
  <2>2. try' \in [Messages -> [CRSs -> Tries]]
    BY <2>1 DEF Tries
  <2> QED BY <1>0, <1>2, <2>1, <2>2 DEF Attempt, MayTry
<1>3. ASSUME GiveUp(m, c, over)
      PROVE  Attempt(m, c, 0)
  <2>1. try' = [try EXCEPT ![m][c] = "gave up"] /\ UNCHANGED <<received, job>>
        /\ audited' = [audited EXCEPT ![m] = @ \cup {<<c, "failed">>}]
        /\ job[m] = "running" /\ try[m][c] = "retry"
    BY <1>3 DEF GiveUp, Become, Audit
  <2>2. try' \in [Messages -> [CRSs -> Tries]]
    BY <2>1 DEF Tries
  <2>3. audited' \in [Messages -> SUBSET (CRSs \X {"succeeded", "failed"})]
    <3>1. <<c, "failed">> \in CRSs \X {"succeeded", "failed"}
      OBVIOUS
    <3> QED BY <2>1, <3>1
  <2>4. /\ audited'[m] = audited[m] \cup {<<c, "failed">>}
        /\ \A n \in Messages : n # m => audited'[n] = audited[n]
    BY <2>1
  <2>5. /\ \A n \in Messages : audited[n] \subseteq audited'[n]
        /\ \A n \in Messages, d \in CRSs :
            <<d, "succeeded">> \in audited'[n] => <<d, "succeeded">> \in audited[n]
        /\ <<c, "failed">> \in audited'[m]
    BY <2>4
  <2>6. /\ try'[m][c] = "gave up"
        /\ \A n \in Messages, d \in CRSs : n # m \/ d # c => try'[n][d] = try[n][d]
    BY <2>1
  <2>7. received'[m][c] = received[m][c] + 0
    <3>1. received' = received
      BY <2>1
    <3> QED BY <1>0, <3>1
  <2>8. DeliveryTypeOK'
    BY <2>1, <2>2, <2>3
  <2>9. \A n \in Messages, d \in CRSs :
            n # m \/ d # c =>
                /\ try'[n][d] = try[n][d] /\ received'[n][d] = received[n][d]
                /\ <<d, "succeeded">> \in audited'[n] => <<d, "succeeded">> \in audited[n]
    BY <2>1, <2>5, <2>6
  <2>10. <<c, "succeeded">> \in audited'[m] => <<c, "succeeded">> \in audited[m]
    BY <2>5
  <2>11. job[m] = "running" /\ try[m][c] \in {"first", "retry"} /\ UNCHANGED job
    BY <2>1
  <2>12. try'[m][c] = "gave up"
    BY <2>6
  <2> HIDE DEF DeliveryTypeOK
  <2> QED BY <2>5, <2>7, <2>8, <2>9, <2>10, <2>11, <2>12 DEF Attempt
<1>4. ASSUME AnswerLost(m, c, over)
      PROVE  Attempt(m, c, 1)
  <2>1. received' = [received EXCEPT ![m][c] = @ + 1] /\ try' = [try EXCEPT ![m][c] = "retry"]
        /\ UNCHANGED <<job, audited>> /\ MayTry(m, c, over)
    BY <1>4 DEF AnswerLost, Become
  <2>2. received' \in [Messages -> [CRSs -> Nat]]
    BY <1>0, <2>1
  <2>3. try' \in [Messages -> [CRSs -> Tries]]
    BY <2>1 DEF Tries
  <2> QED BY <2>1, <2>2, <2>3 DEF Attempt, MayTry
<1> QED BY <1>1, <1>2, <1>3, <1>4 DEF Deliver

LEMMA Exiting ==
    ASSUME DeliveryTypeOK, DeliveriesAddUp, NEW m \in Messages, WorkerExits(m), faults' = faults
    PROVE  DeliveryTypeOK' /\ DeliveriesAddUp' /\ SameDeliveries
<1> DEFINE end == IF \E c \in CRSs : try[m][c] = "gave up" THEN "failed" ELSE "complete"
<1>1. job[m] = "running" /\ Settled(m) /\ UNCHANGED <<try, received, audited>>
      /\ job' = [job EXCEPT ![m] = end]
  BY DEF WorkerExits
<1>2. DeliveryTypeOK'
  BY <1>1 DEF DeliveryTypeOK
<1>3. /\ \A n \in Messages : n # m => job'[n] = job[n]
      /\ \/ job'[m] = "failed" /\ \E c \in CRSs : try[m][c] = "gave up"
         \/ job'[m] = "complete" /\ \A c \in CRSs : try[m][c] # "gave up"
  <2>1. job'[m] = end /\ \A n \in Messages : n # m => job'[n] = job[n]
    BY <1>1 DEF DeliveryTypeOK
  <2>2. CASE \E c \in CRSs : try[m][c] = "gave up"
    BY <2>1, <2>2
  <2>3. CASE ~ \E c \in CRSs : try[m][c] = "gave up"
    BY <2>1, <2>3
  <2> QED BY <2>2, <2>3
<1> HIDE DEF end
<1>4. SameDeliveries
  BY <1>1, <1>3 DEF SameDeliveries
<1>5. ASSUME NEW n \in Messages, NEW d \in CRSs PROVE (TriesAreTold(n, d) /\ CountsAddUp(n, d))'
  <2>1. TriesAreTold(n, d) /\ CountsAddUp(n, d)
    BY DEF DeliveriesAddUp
  <2>2. TriesAreTold(n, d)'
    BY <1>1, <2>1 DEF TriesAreTold
  <2>3. received'[n][d] = received[n][d] /\ try'[n][d] = try[n][d]
    BY <1>1
  <2>4. CountsAddUp(n, d)'
    BY <2>1, <2>3 DEF CountsAddUp
  <2> QED BY <2>2, <2>4
<1>6. ASSUME NEW n \in Messages PROVE JobAddsUp(n)'
  <2>1. JobAddsUp(n)
    BY DEF DeliveriesAddUp
  <2>2. CASE n = m
    <3>1. \A c \in Recipients(m) : try[m][c] = "ok" \/ try[m][c] = "gave up"
      BY <1>1 DEF Settled
    <3>2. Recipients(m)' = Recipients(m) /\ Recipients(m) \subseteq CRSs
      BY <1>1 DEF Recipients
    <3> QED BY <1>1, <1>3, <2>2, <3>1, <3>2 DEF JobAddsUp
  <2>3. CASE n # m
    BY <1>1, <1>3, <2>1, <2>3 DEF JobAddsUp, Recipients
  <2> QED BY <2>2, <2>3
<1> QED BY <1>2, <1>4, <1>5, <1>6 DEF DeliveriesAddUp

LEMMA Disrupted ==
    ASSUME DeliveryTypeOK, DeliveriesAddUp, NEW m \in Messages, PodDisrupted(m),
           faults \in Nat, faults' = faults + 1
    PROVE  DeliveryTypeOK' /\ DeliveriesAddUp' /\ SameDeliveries
<1>1. /\ job[m] = "running" /\ UNCHANGED <<job, received, audited>>
      /\ try' = [try EXCEPT ![m] = [c \in CRSs |-> IF @[c] = "off" THEN "off" ELSE "first"]]
  BY DEF PodDisrupted
<1>2. DeliveryTypeOK'
  BY <1>1 DEF DeliveryTypeOK, Tries
<1>3. /\ \A c \in CRSs : try'[m][c] = IF try[m][c] = "off" THEN "off" ELSE "first"
      /\ \A n \in Messages : n # m => try'[n] = try[n]
  BY <1>1 DEF DeliveryTypeOK
<1>4. SameDeliveries
  BY <1>1, <1>3 DEF SameDeliveries
<1>5. ASSUME NEW n \in Messages, NEW d \in CRSs PROVE TriesAreTold(n, d)'
  <2>1. TriesAreTold(n, d)
    BY DEF DeliveriesAddUp
  <2>2. received' = received /\ audited' = audited
    BY <1>1
  <2> QED BY <1>3, <2>1, <2>2 DEF TriesAreTold
<1>6. ASSUME NEW n \in Messages, NEW d \in CRSs PROVE CountsAddUp(n, d)'
  <2>1. CountsAddUp(n, d) /\ received[n][d] \in Nat
    BY Counts DEF DeliveriesAddUp
  <2>2. received'[n][d] = received[n][d]
    BY <1>1
  <2> QED BY <2>1, <2>2 DEF CountsAddUp
<1>7. ASSUME NEW n \in Messages PROVE JobAddsUp(n)'
  <2>1. JobAddsUp(n)
    BY DEF DeliveriesAddUp
  <2> QED BY <1>1, <1>3, <2>1 DEF JobAddsUp, Recipients
<1> QED BY <1>2, <1>4, <1>5, <1>6, <1>7 DEF DeliveriesAddUp

\* What a step of a worker, or a failure of one, does.
LEMMA Delivering ==
    ASSUME DeliveryTypeOK, DeliveriesAddUp, faults \in Nat, NEW m \in Messages,
           \/ Worker(m) /\ faults' = faults
           \/ PodDisrupted(m) /\ faults' = faults + 1
           \/ (\E c \in CRSs : AnswerLost(m, c, Over(m))) /\ faults' = faults + 1
    PROVE  DeliveryTypeOK' /\ DeliveriesAddUp' /\ SameDeliveries
<1>1. ASSUME NEW c \in CRSs, Deliver(m, c, Over(m)), faults' = faults
      PROVE  DeliveryTypeOK' /\ DeliveriesAddUp' /\ SameDeliveries
  <2>1. (Attempt(m, c, 1) /\ try'[m][c] = "ok") \/ Attempt(m, c, 0)
    BY <1>1, Attempting
  <2>2. faults' \in Nat /\ faults <= faults'
    BY <1>1
  <2> QED BY <2>1, <2>2, AttemptAddsUp
<1>2. ASSUME NEW c \in CRSs, GiveUp(m, c, Over(m)), faults' = faults
      PROVE  DeliveryTypeOK' /\ DeliveriesAddUp' /\ SameDeliveries
  <2>1. Attempt(m, c, 0)
    BY <1>2, Attempting
  <2>2. faults' \in Nat /\ faults <= faults'
    BY <1>2
  <2> QED BY <2>1, <2>2, AttemptAddsUp
<1>3. ASSUME NEW c \in CRSs, AnswerLost(m, c, Over(m)), faults' = faults + 1
      PROVE  DeliveryTypeOK' /\ DeliveriesAddUp' /\ SameDeliveries
  <2>1. Attempt(m, c, 1)
    BY <1>3, Attempting
  <2>2. faults' \in Nat /\ faults <= faults'
    BY <1>3
  <2> QED BY <1>3, <2>1, <2>2, AttemptAddsUp
<1> QED BY <1>1, <1>2, <1>3, Exiting, Disrupted DEF Worker

LEMMA Creating ==
    ASSUME DeliveryTypeOK, DeliveriesAddUp, NEW m \in Messages, NEW teams,
           job[m] = "none", CreateDeliveryJob(m, teams), faults' = faults
    PROVE  /\ DeliveryTypeOK' /\ DeliveriesAddUp'
           /\ job'[m] = "running" /\ \A n \in Messages : n # m => job'[n] = job[n]
           /\ \A n \in Messages : n # m => try'[n] = try[n]
           /\ \A c \in CRSs : try'[m][c] # "off" => c \in teams
<1>1. /\ job' = [job EXCEPT ![m] = "running"] /\ UNCHANGED <<received, audited>>
      /\ try' = [try EXCEPT ![m] = [c \in CRSs |-> IF c \in teams THEN "first" ELSE "off"]]
  BY DEF CreateDeliveryJob
<1>2. DeliveryTypeOK'
  BY <1>1 DEF DeliveryTypeOK, Tries
<1>3. /\ job'[m] = "running" /\ \A n \in Messages : n # m => job'[n] = job[n]
      /\ \A c \in CRSs : try'[m][c] = IF c \in teams THEN "first" ELSE "off"
      /\ \A n \in Messages : n # m => try'[n] = try[n]
  BY <1>1 DEF DeliveryTypeOK
<1>4. \A c \in CRSs : try[m][c] = "off"
  BY DEF DeliveriesAddUp, JobAddsUp, Recipients
<1>5. ASSUME NEW n \in Messages, NEW d \in CRSs PROVE TriesAreTold(n, d)'
  <2>1. TriesAreTold(n, d)
    BY DEF DeliveriesAddUp
  <2>2. received' = received /\ audited' = audited
    BY <1>1
  <2> QED BY <1>3, <1>4, <2>1, <2>2 DEF TriesAreTold
<1>6. ASSUME NEW n \in Messages, NEW d \in CRSs PROVE CountsAddUp(n, d)'
  <2>1. CountsAddUp(n, d)
    BY DEF DeliveriesAddUp
  <2>2. received'[n][d] = received[n][d]
    BY <1>1
  <2>3. try'[n][d] # "ok" => try[n][d] # "ok"
    BY <1>3, <1>4
  <2> QED BY <2>1, <2>2, <2>3 DEF CountsAddUp
<1>7. ASSUME NEW n \in Messages PROVE JobAddsUp(n)'
  <2>1. JobAddsUp(n)
    BY DEF DeliveriesAddUp
  <2> QED BY <1>3, <2>1 DEF JobAddsUp, Recipients
<1> QED BY <1>2, <1>3, <1>5, <1>6, <1>7 DEF DeliveriesAddUp

LEMMA Waiting ==
    ASSUME DeliveryTypeOK, DeliveriesAddUp, UNCHANGED deliveryVars,
           faults \in Nat, faults' \in Nat, faults <= faults'
    PROVE  DeliveryTypeOK' /\ DeliveriesAddUp' /\ SameDeliveries
<1>1. job' = job /\ try' = try /\ received' = received /\ audited' = audited
  BY DEF deliveryVars
<1>2. DeliveryTypeOK' /\ SameDeliveries
  BY <1>1 DEF DeliveryTypeOK, SameDeliveries
<1>3. ASSUME NEW n \in Messages PROVE JobAddsUp(n)'
  BY <1>1 DEF DeliveriesAddUp, JobAddsUp, Recipients
<1>4. ASSUME NEW n \in Messages, NEW d \in CRSs PROVE TriesAreTold(n, d)'
  BY <1>1 DEF DeliveriesAddUp, TriesAreTold
<1>5. ASSUME NEW n \in Messages, NEW d \in CRSs PROVE CountsAddUp(n, d)'
  <2>1. CountsAddUp(n, d) /\ received[n][d] \in Nat
    BY Counts DEF DeliveriesAddUp
  <2>2. received'[n][d] = received[n][d] /\ try'[n][d] = try[n][d]
    BY <1>1
  <2> QED BY <2>1, <2>2 DEF CountsAddUp
<1> QED BY <1>2, <1>3, <1>4, <1>5 DEF DeliveriesAddUp

-----------------------------------------------------------------------------
(* Scans. *)

\* The types of scans, of hooks and of the rest.
ScanTypeOK ==
    /\ scan \in [ScanIDs -> [step : ScanSteps, round : {"none", "main", "generate"},
                             teams : SUBSET CRSs, archived : BOOLEAN]]
    /\ rows \in Seq(ScanIDs)
    /\ reaction \in [ScanIDs -> {"none", "+1", "eyes"}]

HookTypeOK ==
    /\ hook \in [HookIDs -> [step : HookSteps, task : 0 .. MaxScans, page : 0 .. Pages]]
    /\ sarifs \subseteq ScanIDs

RestTypeOK ==
    clock \in [ScanIDs -> {"open", "past", "over"}] /\ listed \in 0 .. Pages

LEMMA Types ==
    /\ TypeOK <=> /\ DeliveryTypeOK /\ ScanTypeOK /\ HookTypeOK /\ RestTypeOK
                  /\ faults \in 0 .. MaxFaults
    /\ TypeOK' <=> /\ DeliveryTypeOK' /\ ScanTypeOK' /\ HookTypeOK' /\ RestTypeOK'
                   /\ faults' \in 0 .. MaxFaults
BY DEF TypeOK, ScanTypeOK, HookTypeOK, RestTypeOK

LEMMA RowsGrow ==
    ASSUME rows \in Seq(ScanIDs), NEW s \in ScanIDs, rows' = Append(rows, s)
    PROVE  Range(rows)' = Range(rows) \cup {s}
<1>1. DOMAIN rows' = DOMAIN rows \cup {Len(rows) + 1} /\ rows'[Len(rows) + 1] = s
  OBVIOUS
<1>2. \A i \in DOMAIN rows : rows'[i] = rows[i]
  OBVIOUS
<1> QED BY <1>1, <1>2 DEF Range

\* The state of a scan that matters to nobody else.
Untouched(s) ==
    /\ scan'[s] = scan[s] /\ reaction'[s] = reaction[s]
    /\ job'[<<"scan", s>>] = "none" <=> job[<<"scan", s>>] = "none"
    /\ \A c \in CRSs : try'[<<"scan", s>>][c] = "off" <=> try[<<"scan", s>>][c] = "off"

LEMMA OtherScans ==
    ASSUME NEW s \in ScanIDs, ScanInOrder(s), Untouched(s),
           Range(rows) \subseteq Range(rows'), faults # 0 => faults' # 0
    PROVE  ScanInOrder(s)'
BY DEF ScanInOrder, Untouched, At

\* Hooks look at the round of a scan only.
LEMMA OtherHooks ==
    ASSUME \A h \in HookIDs : HookInOrder(h), ReportsAreOwned,
           UNCHANGED hookVars, HookTypeOK,
           \A s \in ScanIDs : scan[s].round = "main" => scan'[s].round = "main",
           \A h \in HookIDs : job'[<<"hook", h>>] = "none" <=> job[<<"hook", h>>] = "none"
    PROVE  (\A h \in HookIDs : HookInOrder(h)') /\ ReportsAreOwned'
<1>1. hook' = hook /\ sarifs' = sarifs
  BY DEF hookVars
<1>2. \A h \in HookIDs : Owns(h)' <=> Owns(h)
  BY <1>1 DEF Owns
<1>3. \A h \in HookIDs : hook[h].task # 0 => hook[h].task \in ScanIDs
  BY BoundsAssumption DEF HookTypeOK, ScanIDs
<1>4. \A h \in HookIDs : HookInOrder(h)'
  BY <1>1, <1>2, <1>3 DEF HookInOrder
<1>5. ReportsAreOwned'
  BY <1>1, <1>2 DEF ReportsAreOwned
<1> QED BY <1>4, <1>5

\* It is enough to look at the scan that moves.
LEMMA ScanMoves ==
    ASSUME IInv, NEW s \in ScanIDs, ScanTypeOK', ScanInOrder(s)',
           scan[s].round = "main" => scan'[s].round = "main",
           \A t \in ScanIDs : t # s => Untouched(t),
           \A h \in HookIDs : job'[<<"hook", h>>] = "none" <=> job[<<"hook", h>>] = "none",
           Range(rows) \subseteq Range(rows'), UNCHANGED <<hookVars, restVars>>,
           DeliveryTypeOK', DeliveriesAddUp', faults' \in 0 .. MaxFaults,
           faults # 0 => faults' # 0
    PROVE  IInv'
<1>1. \A t \in ScanIDs : ScanInOrder(t)'
  BY OtherScans DEF IInv
<1>2. (\A h \in HookIDs : HookInOrder(h)') /\ ReportsAreOwned'
  <2>1. \A t \in ScanIDs : scan[t].round = "main" => scan'[t].round = "main"
    BY DEF Untouched
  <2>2. (\A h \in HookIDs : HookInOrder(h)) /\ ReportsAreOwned /\ HookTypeOK
    BY Types DEF IInv
  <2>3. UNCHANGED hookVars
    OBVIOUS
  <2> QED BY <2>1, <2>2, <2>3, OtherHooks
<1>3. HookTypeOK' /\ RestTypeOK'
  BY Types DEF IInv, HookTypeOK, RestTypeOK, hookVars, restVars
<1> QED BY <1>1, <1>2, <1>3, Types DEF IInv

\* ... and, when it creates no job, at its record, the task table and the reaction.
LEMMA ScanMovesAlone ==
    ASSUME IInv, NEW s \in ScanIDs, NEW r, ScanTypeOK', ScanInOrder(s)',
           scan' = [scan EXCEPT ![s] = r], scan[s].round = "main" => r.round = "main",
           \A t \in ScanIDs : t # s => reaction'[t] = reaction[t],
           Range(rows) \subseteq Range(rows'), UNCHANGED <<hookVars, restVars, deliveryVars>>,
           faults' \in 0 .. MaxFaults, faults' = faults \/ faults' = faults + 1
    PROVE  IInv'
<1>1. scan'[s] = r /\ \A t \in ScanIDs : t # s => scan'[t] = scan[t]
  BY Types DEF IInv, ScanTypeOK
<1>2. job' = job /\ try' = try
  BY DEF deliveryVars
<1>3. \A t \in ScanIDs : t # s => Untouched(t)
  BY <1>1, <1>2 DEF Untouched
<1>4. DeliveryTypeOK /\ DeliveriesAddUp /\ UNCHANGED deliveryVars
  BY Types DEF IInv
<1>5. faults \in Nat /\ faults' \in Nat /\ faults <= faults' /\ (faults # 0 => faults' # 0)
  BY BoundsAssumption, Types DEF IInv
<1>6. DeliveryTypeOK' /\ DeliveriesAddUp'
  BY <1>4, <1>5, Waiting
<1>7. /\ \A h \in HookIDs : job'[<<"hook", h>>] = "none" <=> job[<<"hook", h>>] = "none"
      /\ UNCHANGED <<hookVars, restVars>>
  BY <1>2
<1>8. scan[s].round = "main" => scan'[s].round = "main"
  BY <1>1
<1> QED BY <1>3, <1>5, <1>6, <1>7, <1>8, ScanMoves

LEMMA Starting ==
    ASSUME IInv, NEW s \in ScanIDs, NEW round \in {"main", "generate"},
           NEW teams \in SUBSET CRSs, Start(s, round, teams), faults' = faults
    PROVE  IInv'
<1> DEFINE r == [step |-> "prepare", round |-> round, teams |-> teams, archived |-> FALSE]
<1>1. /\ At(s, "none") /\ scan' = [scan EXCEPT ![s] = r]
      /\ UNCHANGED <<rows, reaction, hookVars, restVars, deliveryVars>>
  BY DEF Start
<1>2. ScanTypeOK /\ ScanInOrder(s)
  BY Types DEF IInv
<1>3. scan'[s] = r
  BY <1>1, <1>2 DEF ScanTypeOK
<1>4. ScanTypeOK'
  BY <1>1, <1>2 DEF ScanTypeOK, ScanSteps
<1>5. \A c \in CRSs : try[<<"scan", s>>][c] = "off"
  <2>1. job[<<"scan", s>>] = "none"
    BY <1>1, <1>2 DEF ScanInOrder, At
  <2> QED BY <2>1, MessageIsInMessages DEF IInv, DeliveriesAddUp, JobAddsUp, Recipients
<1>6. ScanInOrder(s)'
  <2>1. reaction' = reaction /\ rows' = rows /\ job' = job /\ try' = try
    BY <1>1 DEF deliveryVars
  <2> QED BY <1>1, <1>2, <1>3, <1>5, <2>1 DEF ScanInOrder, At
<1>7. scan[s].round # "main"
  BY <1>1, <1>2 DEF ScanInOrder, At
<1>8. faults' \in 0 .. MaxFaults
  BY Types DEF IInv
<1> HIDE DEF r
<1> QED BY <1>1, <1>4, <1>6, <1>7, <1>8, ScanMovesAlone

LEMMA Inserting ==
    ASSUME IInv, NEW s \in ScanIDs, InsertTask(s), faults' = faults
    PROVE  IInv'
<1> DEFINE r == [scan[s] EXCEPT !.step = "archive"]
<1>1. /\ At(s, "prepare") /\ scan' = [scan EXCEPT ![s] = r] /\ rows' = Append(rows, s)
      /\ UNCHANGED <<reaction, hookVars, restVars, deliveryVars>>
  BY DEF InsertTask
<1>2. ScanTypeOK /\ ScanInOrder(s)
  BY Types DEF IInv
<1>3. scan'[s] = r
  BY <1>1, <1>2 DEF ScanTypeOK
<1>4. r.step = "archive" /\ r.round = scan[s].round /\ r.teams = scan[s].teams
      /\ r.archived = scan[s].archived
      /\ r \in [step : ScanSteps, round : {"none", "main", "generate"},
                teams : SUBSET CRSs, archived : BOOLEAN]
  BY <1>2 DEF ScanTypeOK, ScanSteps
<1> HIDE DEF r
<1>5. Range(rows)' = Range(rows) \cup {s}
  BY <1>1, <1>2, RowsGrow DEF ScanTypeOK
<1>6. ScanTypeOK'
  BY <1>1, <1>2, <1>4 DEF ScanTypeOK
<1>7. ScanInOrder(s)'
  <2>1. reaction' = reaction /\ job' = job /\ try' = try
    BY <1>1 DEF deliveryVars
  <2> QED BY <1>1, <1>2, <1>3, <1>4, <1>5, <2>1 DEF ScanInOrder, At
<1>8. faults' \in 0 .. MaxFaults
  BY Types DEF IInv
<1> QED BY <1>1, <1>4, <1>5, <1>6, <1>7, <1>8, ScanMovesAlone

\* The end of a scan, which may react to the event.
LEMMA EndingScan ==
    ASSUME IInv, NEW s \in ScanIDs, scan' = [scan EXCEPT ![s].step = "done"],
           reaction' \in [ScanIDs -> {"none", "+1", "eyes"}],
           \A t \in ScanIDs : t # s => reaction'[t] = reaction[t],
           reaction'[s] = "+1" => reaction[s] = "+1" \/ At(s, "react"),
           ~ At(s, "none"), UNCHANGED <<rows, hookVars, restVars, deliveryVars>>,
           faults' \in 0 .. MaxFaults, faults' = faults \/ faults' = faults + 1
    PROVE  IInv'
<1> DEFINE r == [scan[s] EXCEPT !.step = "done"]
<1>1. scan' = [scan EXCEPT ![s] = r]
  OBVIOUS
<1>2. ScanTypeOK /\ ScanInOrder(s)
  BY Types DEF IInv
<1>3. scan'[s] = r
  BY <1>1, <1>2 DEF ScanTypeOK
<1>4. r.step = "done" /\ r.round = scan[s].round /\ r.teams = scan[s].teams
      /\ r.archived = scan[s].archived
      /\ r \in [step : ScanSteps, round : {"none", "main", "generate"},
                teams : SUBSET CRSs, archived : BOOLEAN]
  BY <1>2 DEF ScanTypeOK, ScanSteps
<1> HIDE DEF r
<1>5. ScanTypeOK'
  BY <1>1, <1>2, <1>4 DEF ScanTypeOK
<1>6. faults # 0 => faults' # 0
  BY BoundsAssumption, Types DEF IInv
<1>7. ScanInOrder(s)'
  <2>1. job' = job /\ try' = try /\ rows' = rows
    BY DEF deliveryVars
  <2> QED BY <1>2, <1>3, <1>4, <1>6, <2>1 DEF ScanInOrder, At
<1>8. Range(rows) \subseteq Range(rows')
  OBVIOUS
<1> QED BY <1>1, <1>4, <1>5, <1>7, <1>8, ScanMovesAlone

LEMMA NotSending ==
    ASSUME IInv, NEW s \in ScanIDs, SendFails(s), faults < MaxFaults, faults' = faults + 1
    PROVE  IInv'
<1> DEFINE r == [scan[s] EXCEPT !.step = "react"]
<1>1. /\ At(s, "send") /\ scan' = [scan EXCEPT ![s] = r]
      /\ UNCHANGED <<rows, reaction, hookVars, restVars, deliveryVars>>
  BY DEF SendFails
<1>2. ScanTypeOK /\ ScanInOrder(s)
  BY Types DEF IInv
<1>3. scan'[s] = r
  BY <1>1, <1>2 DEF ScanTypeOK
<1>4. r.step = "react" /\ r.round = scan[s].round /\ r.teams = scan[s].teams
      /\ r.archived = scan[s].archived
      /\ r \in [step : ScanSteps, round : {"none", "main", "generate"},
                teams : SUBSET CRSs, archived : BOOLEAN]
  BY <1>2 DEF ScanTypeOK, ScanSteps
<1> HIDE DEF r
<1>5. ScanTypeOK'
  BY <1>1, <1>2, <1>4 DEF ScanTypeOK
<1>6. faults' \in 0 .. MaxFaults /\ faults' # 0
  BY BoundsAssumption, Types DEF IInv
<1>7. ScanInOrder(s)'
  <2>1. reaction' = reaction /\ job' = job /\ try' = try /\ rows' = rows
    BY <1>1 DEF deliveryVars
  <2> QED BY <1>1, <1>2, <1>3, <1>4, <1>6, <2>1 DEF ScanInOrder, At
<1> QED BY <1>1, <1>4, <1>5, <1>6, <1>7, ScanMovesAlone

LEMMA Reacting ==
    ASSUME IInv, NEW s \in ScanIDs, NEW r, r \in {"+1", "eyes"}, React(s, r)
    PROVE  /\ reaction' \in [ScanIDs -> {"none", "+1", "eyes"}]
           /\ \A t \in ScanIDs : t # s => reaction'[t] = reaction[t]
           /\ reaction'[s] = "+1" => reaction[s] = "+1" \/ r = "+1"
<1>1. reaction \in [ScanIDs -> {"none", "+1", "eyes"}]
  BY DEF IInv, TypeOK
<1>2. CASE scan[s].round = "main"
  BY <1>1, <1>2 DEF React
<1>3. CASE scan[s].round # "main"
  BY <1>1, <1>3 DEF React
<1> QED BY <1>2, <1>3

LEMMA Archiving ==
    ASSUME IInv, NEW s \in ScanIDs, ArchiveFiles(s), faults' = faults
    PROVE  IInv'
<1> DEFINE r == [[scan[s] EXCEPT !.archived = TRUE] EXCEPT !.step = "send"]
<1>1. /\ At(s, "archive") /\ UNCHANGED <<rows, reaction, hookVars, restVars, deliveryVars>>
      /\ scan' = [scan EXCEPT ![s].archived = TRUE, ![s].step = "send"]
  BY DEF ArchiveFiles
<1>2. ScanTypeOK /\ ScanInOrder(s)
  BY Types DEF IInv
<1>3. scan' = [scan EXCEPT ![s] = r]
  BY <1>1, <1>2 DEF ScanTypeOK
<1>4. scan'[s] = r
  BY <1>2, <1>3 DEF ScanTypeOK
<1>5. r.step = "send" /\ r.round = scan[s].round /\ r.teams = scan[s].teams /\ r.archived
      /\ r \in [step : ScanSteps, round : {"none", "main", "generate"},
                teams : SUBSET CRSs, archived : BOOLEAN]
  BY <1>2 DEF ScanTypeOK, ScanSteps
<1> HIDE DEF r
<1>6. ScanTypeOK'
  <2>1. rows' = rows /\ reaction' = reaction
    BY <1>1
  <2> QED BY <1>2, <1>3, <1>5, <2>1 DEF ScanTypeOK
<1>7. ScanInOrder(s)'
  <2>1. reaction' = reaction /\ job' = job /\ try' = try /\ rows' = rows
    BY <1>1 DEF deliveryVars
  <2> QED BY <1>1, <1>2, <1>4, <1>5, <2>1 DEF ScanInOrder, At
<1>8. faults' \in 0 .. MaxFaults
  BY Types DEF IInv
<1> QED BY <1>1, <1>3, <1>5, <1>6, <1>7, <1>8, ScanMovesAlone

LEMMA Sending ==
    ASSUME IInv, NEW s \in ScanIDs, SendTask(s), faults' = faults
    PROVE  IInv'
<1> DEFINE r == [scan[s] EXCEPT !.step = "react"]
           m == <<"scan", s>>
<1>1. /\ At(s, "send") /\ scan' = [scan EXCEPT ![s] = r]
      /\ CreateDeliveryJob(m, scan[s].teams)
      /\ UNCHANGED <<rows, reaction, hookVars, restVars>>
  BY DEF SendTask
<1>2. ScanTypeOK /\ ScanInOrder(s) /\ DeliveryTypeOK /\ DeliveriesAddUp
  BY Types DEF IInv
<1>3. scan'[s] = r /\ \A t \in ScanIDs : t # s => scan'[t] = scan[t]
  BY <1>1, <1>2 DEF ScanTypeOK
<1>4. r.step = "react" /\ r.round = scan[s].round /\ r.teams = scan[s].teams
      /\ r.archived = scan[s].archived
      /\ r \in [step : ScanSteps, round : {"none", "main", "generate"},
                teams : SUBSET CRSs, archived : BOOLEAN]
  BY <1>2 DEF ScanTypeOK, ScanSteps
<1> HIDE DEF r
<1>5. m \in Messages /\ job[m] = "none"
  BY <1>1, <1>2, MessageIsInMessages DEF ScanInOrder, At
<1>6. /\ DeliveryTypeOK' /\ DeliveriesAddUp' /\ job'[m] = "running"
      /\ \A n \in Messages : n # m => job'[n] = job[n] /\ try'[n] = try[n]
      /\ \A c \in CRSs : try'[m][c] # "off" => c \in scan[s].teams
  BY <1>1, <1>2, <1>5, Creating
<1>7. ScanTypeOK'
  BY <1>1, <1>2, <1>4 DEF ScanTypeOK
<1>8. ScanInOrder(s)'
  BY <1>1, <1>2, <1>3, <1>4, <1>6 DEF ScanInOrder, At
<1>9. \A t \in ScanIDs : t # s => Untouched(t)
  <2> TAKE t \in ScanIDs
  <2> HAVE t # s
  <2>1. <<"scan", t>> # m /\ <<"scan", t>> \in Messages
    BY MessageIsInMessages
  <2> QED BY <1>1, <1>3, <1>6, <2>1 DEF Untouched
<1>10. \A h \in HookIDs : job'[<<"hook", h>>] = "none" <=> job[<<"hook", h>>] = "none"
  BY <1>6, MessageIsInMessages
<1>11. faults' \in 0 .. MaxFaults
  BY Types DEF IInv
<1>12. UNCHANGED <<hookVars, restVars>> /\ Range(rows) \subseteq Range(rows')
  BY <1>1
<1>13. scan[s].round = "main" => scan'[s].round = "main"
  BY <1>3, <1>4
<1> HIDE DEF m
<1> QED BY <1>6, <1>7, <1>8, <1>9, <1>10, <1>11, <1>12, <1>13, ScanMoves

\* Every step of a scan, and every failure of one.
LEMMA Scanning ==
    ASSUME IInv, NEW s \in ScanIDs,
           \/ Scan(s) /\ faults' = faults
           \/ /\ ScanFails(s) \/ SendFails(s) \/ ScanEndsSilently(s)
              /\ faults < MaxFaults /\ faults' = faults + 1
    PROVE  IInv'
<1>0. faults \in 0 .. MaxFaults /\ MaxFaults \in Nat
  BY BoundsAssumption, Types DEF IInv
<1>1. ASSUME GithubEvent(s), faults' = faults PROVE IInv'
  BY <1>1, Starting DEF GithubEvent
<1>2. ASSUME RequestChallenge(s), faults' = faults PROVE IInv'
  <2>1. PICK c \in CRSs : Start(s, "generate", {c})
    BY <1>2 DEF RequestChallenge
  <2>2. {c} \in SUBSET CRSs
    OBVIOUS
  <2> QED BY <1>2, <2>1, <2>2, Starting
<1>3. ASSUME ReactPositive(s), faults' = faults PROVE IInv'
  <2>1. /\ At(s, "react") /\ React(s, "+1") /\ scan' = [scan EXCEPT ![s].step = "done"]
        /\ UNCHANGED <<rows, hookVars, restVars, deliveryVars>>
    BY <1>3 DEF ReactPositive
  <2>2. ~ At(s, "none") /\ faults' \in 0 .. MaxFaults
    BY <1>0, <1>3, <2>1 DEF At
  <2> QED BY <1>3, <2>1, <2>2, Reacting, EndingScan
<1>4. ASSUME ScanFails(s), faults < MaxFaults, faults' = faults + 1 PROVE IInv'
  <2>1. /\ scan[s].step \in {"prepare", "archive"} /\ React(s, "eyes")
        /\ scan' = [scan EXCEPT ![s].step = "done"]
        /\ UNCHANGED <<rows, hookVars, restVars, deliveryVars>>
    BY <1>4 DEF ScanFails
  <2>2. ~ At(s, "none")
    BY <2>1 DEF At
  <2>3. faults' \in 0 .. MaxFaults
    BY <1>0, <1>4
  <2> QED BY <1>4, <2>1, <2>2, <2>3, Reacting, EndingScan
<1>5. ASSUME ScanEndsSilently(s), faults < MaxFaults, faults' = faults + 1 PROVE IInv'
  <2>1. /\ scan[s].step \in {"prepare", "react"} /\ reaction' = reaction
        /\ scan' = [scan EXCEPT ![s].step = "done"]
        /\ UNCHANGED <<rows, hookVars, restVars, deliveryVars>>
    BY <1>5 DEF ScanEndsSilently
  <2>2. ~ At(s, "none")
    BY <2>1 DEF At
  <2>3. reaction' \in [ScanIDs -> {"none", "+1", "eyes"}]
    BY <2>1, Types DEF IInv, ScanTypeOK
  <2>4. faults' \in 0 .. MaxFaults
    BY <1>0, <1>5
  <2> QED BY <1>5, <2>1, <2>2, <2>3, <2>4, EndingScan
<1> QED BY <1>1, <1>2, <1>3, <1>4, <1>5, Inserting, Archiving, Sending, NotSending DEF Scan

-----------------------------------------------------------------------------
(* Hooks. *)

\* It is enough to look at the hook that moves.
LEMMA HookMoves ==
    ASSUME IInv, NEW h \in HookIDs, HookTypeOK', HookInOrder(h)',
           UNCHANGED <<scanVars, restVars>>, sarifs \subseteq sarifs',
           \A g \in HookIDs : g # h =>
               /\ hook'[g] = hook[g]
               /\ job'[<<"hook", g>>] = "none" <=> job[<<"hook", g>>] = "none",
           \A s \in ScanIDs :
               /\ job'[<<"scan", s>>] = "none" <=> job[<<"scan", s>>] = "none"
               /\ \A c \in CRSs : try'[<<"scan", s>>][c] = "off" <=> try[<<"scan", s>>][c] = "off",
           Owns(h)' => \/ Owns(h) /\ hook'[h].task = hook[h].task
                       \/ hook'[h].task \notin sarifs,
           DeliveryTypeOK', DeliveriesAddUp', faults' \in 0 .. MaxFaults,
           faults # 0 => faults' # 0
    PROVE  IInv'
<1>1. scan' = scan /\ rows' = rows /\ reaction' = reaction /\ clock' = clock /\ listed' = listed
  BY DEF scanVars, restVars
<1>2. ASSUME NEW s \in ScanIDs PROVE ScanInOrder(s)'
  <2>1. Untouched(s)
    BY <1>1 DEF Untouched
  <2>2. ScanInOrder(s) /\ Range(rows) \subseteq Range(rows')
    BY <1>1 DEF IInv
  <2> QED BY <2>1, <2>2, OtherScans
<1>3. ASSUME NEW g \in HookIDs PROVE HookInOrder(g)'
  <2>1. CASE g # h
    <3>1. /\ hook'[g] = hook[g] /\ scan' = scan /\ sarifs \subseteq sarifs'
          /\ job'[<<"hook", g>>] = "none" <=> job[<<"hook", g>>] = "none"
      BY <1>1, <2>1
    <3>2. HookInOrder(g)
      BY DEF IInv
    <3>3. Owns(g)' <=> Owns(g)
      BY <3>1 DEF Owns
    <3> QED BY <3>1, <3>2, <3>3 DEF HookInOrder
  <2> QED BY <2>1
<1>4. ReportsAreOwned'
  <2> SUFFICES ASSUME NEW f \in HookIDs, NEW g \in HookIDs, Owns(f)', Owns(g)',
                      hook'[f].task = hook'[g].task
               PROVE  f = g
    BY DEF ReportsAreOwned
  <2>1. \A e \in HookIDs : e # h => (Owns(e)' <=> Owns(e)) /\ hook'[e].task = hook[e].task
    BY DEF Owns
  <2>2. \A e \in HookIDs : Owns(e) => hook[e].task \in sarifs
    BY DEF IInv, HookInOrder
  <2>3. \A d, e \in HookIDs : Owns(d) /\ Owns(e) /\ hook[d].task = hook[e].task => d = e
    BY DEF IInv, ReportsAreOwned
  <2> QED BY <2>1, <2>2, <2>3
<1>5. ScanTypeOK' /\ RestTypeOK'
  BY <1>1, Types DEF IInv, ScanTypeOK, RestTypeOK
<1> QED BY <1>2, <1>3, <1>4, <1>5, Types DEF IInv

HookRecord == [step : HookSteps, task : 0 .. MaxScans, page : 0 .. Pages]

\* ... and, when it creates no job, at its record and the table of broadcasts.
LEMMA HookMovesAlone ==
    ASSUME IInv, NEW h \in HookIDs, NEW r, r \in HookRecord,
           hook[h].step # "done", hook' = [hook EXCEPT ![h] = r],
           r.step \in {"none", "look up"} => r.task = 0,
           r.step \in {"check", "search", "insert", "archive", "send"} => r.task # 0,
           r.task # 0 => scan[r.task].round = "main",
           r.step \in {"archive", "send"} =>
               /\ r.task \in sarifs'
               /\ \/ hook[h].step \in {"archive", "send"} /\ r.task = hook[h].task
                  \/ r.task \notin sarifs,
           sarifs \subseteq sarifs', sarifs' \subseteq ScanIDs,
           UNCHANGED <<scanVars, restVars, deliveryVars>>,
           faults' \in 0 .. MaxFaults, faults' = faults \/ faults' = faults + 1
    PROVE  IInv'
<1>1. /\ HookTypeOK /\ HookInOrder(h)
      /\ DeliveryTypeOK /\ DeliveriesAddUp /\ UNCHANGED deliveryVars
  BY Types DEF IInv
<1>2. hook'[h] = r /\ \A g \in HookIDs : g # h => hook'[g] = hook[g]
  BY <1>1 DEF HookTypeOK
<1>3. job' = job /\ try' = try /\ scan' = scan
  BY DEF deliveryVars, scanVars
<1>4. job[<<"hook", h>>] = "none"
  BY <1>1 DEF HookInOrder
<1>5. HookTypeOK'
  BY <1>1 DEF HookTypeOK, HookRecord
<1>6. Owns(h)' <=> r.step \in {"archive", "send"}
  BY <1>2, <1>3, <1>4 DEF Owns
<1>7. HookInOrder(h)'
  BY <1>2, <1>3, <1>4, <1>6 DEF HookInOrder
<1>8. Owns(h)' => \/ Owns(h) /\ hook'[h].task = hook[h].task
                  \/ hook'[h].task \notin sarifs
  BY <1>2, <1>6 DEF Owns
<1>9. faults \in Nat /\ faults' \in Nat /\ faults <= faults' /\ (faults # 0 => faults' # 0)
  <2>1. faults \in 0 .. MaxFaults
    BY Types DEF IInv
  <2> QED BY <2>1, FaultsCount
<1>10. DeliveryTypeOK' /\ DeliveriesAddUp'
  BY <1>1, <1>9, Waiting
<1>11. /\ \A g \in HookIDs : g # h =>
               /\ hook'[g] = hook[g]
               /\ job'[<<"hook", g>>] = "none" <=> job[<<"hook", g>>] = "none"
       /\ \A s \in ScanIDs :
               /\ job'[<<"scan", s>>] = "none" <=> job[<<"scan", s>>] = "none"
               /\ \A c \in CRSs : try'[<<"scan", s>>][c] = "off" <=> try[<<"scan", s>>][c] = "off"
       /\ UNCHANGED <<scanVars, restVars>>
  BY <1>2, <1>3
<1> QED BY <1>5, <1>7, <1>8, <1>9, <1>10, <1>11, HookMoves

\* What Goto leaves of the record of the hook.
LEMMA Going ==
    ASSUME HookTypeOK, NEW h \in HookIDs, NEW step, step \in HookSteps, Goto(h, step)
    PROVE  \E r \in HookRecord :
               hook' = [hook EXCEPT ![h] = r] /\ r.step = step /\ r.task = hook[h].task
<1> DEFINE r == [hook[h] EXCEPT !.step = step]
<1>1. hook' = [hook EXCEPT ![h] = r]
  BY DEF Goto
<1>2. r \in HookRecord /\ r.step = step /\ r.task = hook[h].task
  BY DEF HookTypeOK, HookRecord
<1> QED BY <1>1, <1>2

LEMMA LookingUp ==
    ASSUME IInv, NEW h \in HookIDs, LookUp(h), faults' = faults
    PROVE  IInv'
<1>1. /\ hook[h].step = "look up" /\ UNCHANGED <<scanVars, sarifs, restVars, deliveryVars>>
      /\ HookTypeOK /\ ScanTypeOK /\ HookInOrder(h)
  BY Types DEF IInv, LookUp
<1>2. faults' \in 0 .. MaxFaults /\ sarifs \subseteq ScanIDs
  BY Types DEF IInv, HookTypeOK
<1>3. CASE Goto(h, "done")
  <2>1. PICK r \in HookRecord :
            hook' = [hook EXCEPT ![h] = r] /\ r.step = "done" /\ r.task = hook[h].task
    BY <1>1, <1>3, Going DEF HookSteps
  <2>2. r.task = 0
    BY <1>1, <2>1 DEF HookInOrder
  <2> QED BY <1>1, <1>2, <2>1, <2>2, HookMovesAlone
<1>4. ASSUME NEW i \in Candidates, Found(h, rows[i]) PROVE IInv'
  <2> DEFINE r == [[hook[h] EXCEPT !.step = "check"] EXCEPT !.task = rows[i]]
  <2>1. rows[i] \in ScanIDs /\ scan[rows[i]].round = "main"
    <3>1. i \in DOMAIN rows /\ scan[rows[i]].round = "main"
      BY DEF Candidates
    <3>2. rows \in Seq(ScanIDs)
      BY <1>1 DEF ScanTypeOK
    <3> QED BY <3>1, <3>2
  <2>2. rows[i] \in 0 .. MaxScans /\ rows[i] # 0
    BY <2>1, BoundsAssumption DEF ScanIDs
  <2>3. hook' = [hook EXCEPT ![h].step = "check", ![h].task = rows[i]]
    BY <1>4 DEF Found
  <2>4. hook' = [hook EXCEPT ![h] = r]
    BY <1>1, <2>3 DEF HookTypeOK
  <2>5. r \in HookRecord /\ r.step = "check" /\ r.task = rows[i]
    BY <1>1, <2>2 DEF HookTypeOK, HookRecord, HookSteps
  <2> HIDE DEF r
  <2> QED BY <1>1, <1>2, <2>1, <2>2, <2>4, <2>5, HookMovesAlone
<1> QED BY <1>3, <1>4 DEF LookUp

LEMMA Checking ==
    ASSUME IInv, NEW h \in HookIDs, CheckExists(h), faults' = faults
    PROVE  IInv'
<1>1. /\ hook[h].step = "check" /\ UNCHANGED <<scanVars, sarifs, restVars, deliveryVars>>
      /\ HookTypeOK /\ HookInOrder(h)
  BY Types DEF IInv, CheckExists
<1>2. /\ faults' \in 0 .. MaxFaults /\ sarifs \subseteq ScanIDs
      /\ hook[h].task # 0 => scan[hook[h].task].round = "main"
  BY <1>1, Types DEF IInv, HookTypeOK, HookInOrder
<1>3. CASE hook[h].task \in sarifs
  <2>1. Goto(h, "done")
    BY <1>3 DEF CheckExists
  <2>2. PICK r \in HookRecord :
            hook' = [hook EXCEPT ![h] = r] /\ r.step = "done" /\ r.task = hook[h].task
    BY <1>1, <2>1, Going DEF HookSteps
  <2> QED BY <1>1, <1>2, <2>2, HookMovesAlone
<1>4. CASE hook[h].task \notin sarifs
  <2> DEFINE r == [[hook[h] EXCEPT !.step = "search"] EXCEPT !.page = 1]
  <2>1. hook' = [hook EXCEPT ![h].step = "search", ![h].page = 1]
    BY <1>4 DEF CheckExists
  <2>2. hook' = [hook EXCEPT ![h] = r]
    BY <1>1, <2>1 DEF HookTypeOK
  <2>3. 1 \in 0 .. Pages
    BY BoundsAssumption
  <2>4. r \in HookRecord /\ r.step = "search" /\ r.task = hook[h].task
    BY <1>1, <2>3 DEF HookTypeOK, HookRecord, HookSteps
  <2>5. hook[h].task # 0
    BY <1>1 DEF HookInOrder
  <2> HIDE DEF r
  <2> QED BY <1>1, <1>2, <2>2, <2>4, <2>5, HookMovesAlone
<1> QED BY <1>3, <1>4

LEMMA Searching ==
    ASSUME IInv, NEW h \in HookIDs, ReadPage(h), faults' = faults
    PROVE  IInv'
<1> DEFINE page == hook[h].page
           step == CASE Shown(page) = listed -> "insert"
                     [] Shown(page) # listed /\ page = LastPage(page) -> "done"
                     [] OTHER -> "search"
           next == IF step = "search" THEN NextPage(page) ELSE page
           r == [[hook[h] EXCEPT !.step = step] EXCEPT !.page = next]
<1>1. /\ hook[h].step = "search" /\ UNCHANGED <<scanVars, sarifs, restVars, deliveryVars>>
      /\ HookTypeOK /\ HookInOrder(h)
      /\ hook' = [hook EXCEPT ![h].step = step, ![h].page = next]
  BY Types DEF IInv, ReadPage
<1>2. /\ faults' \in 0 .. MaxFaults /\ sarifs \subseteq ScanIDs
      /\ hook[h].task # 0 /\ scan[hook[h].task].round = "main"
  BY <1>1, Types DEF IInv, HookTypeOK, HookInOrder
<1>3. step \in {"insert", "done", "search"}
  OBVIOUS
<1>4. next \in 0 .. Pages
  <2>1. page \in 0 .. Pages
    BY <1>1 DEF HookTypeOK
  <2>2. NextPage(page) \in 0 .. Pages
    BY <2>1, BoundsAssumption DEF NextPage, Shown
  <2> QED BY <2>1, <2>2
<1> HIDE DEF step, next, page
<1>5. hook' = [hook EXCEPT ![h] = r]
  BY <1>1 DEF HookTypeOK
<1>6. r \in HookRecord /\ r.step = step /\ r.task = hook[h].task
  BY <1>1, <1>3, <1>4 DEF HookTypeOK, HookRecord, HookSteps
<1> HIDE DEF r
<1> QED BY <1>1, <1>2, <1>3, <1>5, <1>6, HookMovesAlone

LEMMA InsertingSarif ==
    ASSUME IInv, NEW h \in HookIDs, InsertSarif(h), faults' = faults
    PROVE  IInv'
<1>1. /\ hook[h].step = "insert" /\ UNCHANGED <<scanVars, restVars, deliveryVars>>
      /\ HookTypeOK /\ HookInOrder(h) /\ sarifs' = sarifs \cup {hook[h].task}
  BY Types DEF IInv, InsertSarif
<1>2. /\ faults' \in 0 .. MaxFaults /\ sarifs \subseteq ScanIDs
      /\ hook[h].task # 0 /\ scan[hook[h].task].round = "main"
  BY <1>1, Types DEF IInv, HookTypeOK, HookInOrder
<1>3. sarifs \subseteq sarifs' /\ sarifs' \subseteq ScanIDs
  <2>1. hook[h].task \in ScanIDs
    BY <1>1, <1>2, BoundsAssumption DEF HookTypeOK, ScanIDs
  <2> QED BY <1>1, <1>2, <2>1
<1>4. CASE hook[h].task \in sarifs
  <2>1. Goto(h, "done")
    BY <1>4 DEF InsertSarif
  <2>2. PICK r \in HookRecord :
            hook' = [hook EXCEPT ![h] = r] /\ r.step = "done" /\ r.task = hook[h].task
    BY <1>1, <2>1, Going DEF HookSteps
  <2> QED BY <1>1, <1>2, <1>3, <2>2, HookMovesAlone
<1>5. CASE hook[h].task \notin sarifs
  <2>1. Goto(h, "archive")
    BY <1>5 DEF InsertSarif
  <2>2. PICK r \in HookRecord :
            hook' = [hook EXCEPT ![h] = r] /\ r.step = "archive" /\ r.task = hook[h].task
    BY <1>1, <2>1, Going DEF HookSteps
  <2>3. r.task \in sarifs' /\ r.task \notin sarifs
    BY <1>1, <1>5, <2>2
  <2> QED BY <1>1, <1>2, <1>3, <2>2, <2>3, HookMovesAlone
<1> QED BY <1>4, <1>5

LEMMA SendingSarif ==
    ASSUME IInv, NEW h \in HookIDs, SendSARIFBroadcast(h), faults' = faults
    PROVE  IInv'
<1> DEFINE m == <<"hook", h>>
<1>1. /\ hook[h].step = "send" /\ UNCHANGED <<scanVars, sarifs, restVars>>
      /\ CreateDeliveryJob(m, CRSs) /\ Goto(h, "done")
      /\ HookTypeOK /\ HookInOrder(h) /\ DeliveryTypeOK /\ DeliveriesAddUp
  BY Types DEF IInv, SendSARIFBroadcast
<1>2. PICK r \in HookRecord :
          hook' = [hook EXCEPT ![h] = r] /\ r.step = "done" /\ r.task = hook[h].task
  BY <1>1, Going DEF HookSteps
<1>3. hook'[h] = r /\ \A g \in HookIDs : g # h => hook'[g] = hook[g]
  BY <1>1, <1>2 DEF HookTypeOK
<1>4. m \in Messages /\ job[m] = "none"
  BY <1>1, MessageIsInMessages DEF HookInOrder
<1>5. /\ DeliveryTypeOK' /\ DeliveriesAddUp' /\ job'[m] = "running"
      /\ \A n \in Messages : n # m => job'[n] = job[n] /\ try'[n] = try[n]
  BY <1>1, <1>4, Creating
<1>6. Owns(h) /\ hook[h].task \in sarifs /\ scan[hook[h].task].round = "main"
  BY <1>1 DEF HookInOrder, Owns
<1>7. HookTypeOK'
  BY <1>1, <1>2 DEF HookTypeOK, HookRecord
<1>8. HookInOrder(h)'
  <2>1. scan' = scan /\ sarifs' = sarifs
    BY <1>1 DEF scanVars
  <2>2. hook'[h].step = "done" /\ hook'[h].task = hook[h].task
    BY <1>2, <1>3
  <2> QED BY <1>6, <2>1, <2>2 DEF HookInOrder
<1>9. \A g \in HookIDs : g # h =>
          hook'[g] = hook[g] /\ (job'[<<"hook", g>>] = "none" <=> job[<<"hook", g>>] = "none")
  <2> TAKE g \in HookIDs
  <2> HAVE g # h
  <2>1. <<"hook", g>> # m /\ <<"hook", g>> \in Messages
    BY MessageIsInMessages
  <2> QED BY <1>3, <1>5, <2>1
<1>10. \A s \in ScanIDs :
           /\ job'[<<"scan", s>>] = "none" <=> job[<<"scan", s>>] = "none"
           /\ \A c \in CRSs : try'[<<"scan", s>>][c] = "off" <=> try[<<"scan", s>>][c] = "off"
  BY <1>5, MessageIsInMessages
<1>11. faults' \in 0 .. MaxFaults
  BY Types DEF IInv
<1>12. UNCHANGED <<scanVars, restVars>> /\ sarifs \subseteq sarifs'
  BY <1>1
<1>13. Owns(h)' => \/ Owns(h) /\ hook'[h].task = hook[h].task
                   \/ hook'[h].task \notin sarifs
  BY <1>2, <1>3, <1>6
<1> HIDE DEF m
<1> QED BY <1>5, <1>7, <1>8, <1>9, <1>10, <1>11, <1>12, <1>13, HookMoves

\* Every step of a hook, and its failure.
LEMMA Hooking ==
    ASSUME IInv, NEW h \in HookIDs,
           \/ (AlertEvent(h) \/ HookStep(h)) /\ faults' = faults
           \/ HookFails(h) /\ faults < MaxFaults /\ faults' = faults + 1
    PROVE  IInv'
<1>1. HookTypeOK /\ HookInOrder(h) /\ sarifs \subseteq ScanIDs
  BY Types DEF IInv, HookTypeOK
<1>2. faults \in 0 .. MaxFaults
  BY Types DEF IInv
<1>3. hook[h].task # 0 => scan[hook[h].task].round = "main"
  BY <1>1 DEF HookInOrder
<1>4. ASSUME AlertEvent(h), faults' = faults PROVE IInv'
  <2>1. /\ hook[h].step = "none" /\ Goto(h, "look up")
        /\ UNCHANGED <<scanVars, sarifs, restVars, deliveryVars>>
    BY <1>4 DEF AlertEvent
  <2>2. PICK r \in HookRecord :
            hook' = [hook EXCEPT ![h] = r] /\ r.step = "look up" /\ r.task = hook[h].task
    BY <1>1, <2>1, Going DEF HookSteps
  <2>3. r.task = 0
    BY <1>1, <2>1, <2>2 DEF HookInOrder
  <2> QED BY <1>1, <1>2, <1>4, <2>1, <2>2, <2>3, HookMovesAlone
<1>5. ASSUME ArchiveSarif(h), faults' = faults PROVE IInv'
  <2>1. /\ hook[h].step = "archive" /\ Goto(h, "send")
        /\ UNCHANGED <<scanVars, sarifs, restVars, deliveryVars>>
    BY <1>5 DEF ArchiveSarif
  <2>2. PICK r \in HookRecord :
            hook' = [hook EXCEPT ![h] = r] /\ r.step = "send" /\ r.task = hook[h].task
    BY <1>1, <2>1, Going DEF HookSteps
  <2>3. hook[h].task # 0 /\ hook[h].task \in sarifs
    BY <1>1, <2>1 DEF HookInOrder, Owns
  <2> QED BY <1>1, <1>2, <1>3, <1>5, <2>1, <2>2, <2>3, HookMovesAlone
<1>6. ASSUME HookFails(h), faults < MaxFaults, faults' = faults + 1 PROVE IInv'
  <2>1. /\ hook[h].step # "done" /\ Goto(h, "done")
        /\ UNCHANGED <<scanVars, sarifs, restVars, deliveryVars>>
    BY <1>6 DEF HookFails
  <2>2. PICK r \in HookRecord :
            hook' = [hook EXCEPT ![h] = r] /\ r.step = "done" /\ r.task = hook[h].task
    BY <1>1, <2>1, Going DEF HookSteps
  <2>3. faults' \in 0 .. MaxFaults
    BY <1>2, <1>6, BoundsAssumption
  <2> QED BY <1>1, <1>3, <1>6, <2>1, <2>2, <2>3, HookMovesAlone
<1> QED BY <1>4, <1>5, <1>6, LookingUp, Checking, Searching, InsertingSarif, SendingSarif
        DEF HookStep

-----------------------------------------------------------------------------
(* Time, deliveries and crashes. *)

LEMMA Passing ==
    ASSUME IInv, NEW s \in ScanIDs, TimePasses(s), faults' = faults
    PROVE  IInv'
<1>1. /\ clock' = [clock EXCEPT ![s] = IF @ = "open" THEN "past" ELSE "over"]
      /\ UNCHANGED <<scanVars, hookVars, listed, deliveryVars>>
  BY DEF TimePasses
<1>2. scan' = scan /\ rows' = rows /\ reaction' = reaction /\ job' = job /\ try' = try
      /\ received' = received /\ audited' = audited /\ UNCHANGED hookVars
  BY <1>1 DEF scanVars, deliveryVars
<1>3. (\A h \in HookIDs : HookInOrder(h)') /\ ReportsAreOwned'
  <2>1. (\A h \in HookIDs : HookInOrder(h)) /\ ReportsAreOwned /\ HookTypeOK
    BY Types DEF IInv
  <2> QED BY <1>2, <2>1, OtherHooks
<1>4. \A t \in ScanIDs : ScanInOrder(t)'
  <2> SUFFICES ASSUME NEW t \in ScanIDs PROVE ScanInOrder(t)'
    OBVIOUS
  <2>1. Untouched(t) /\ ScanInOrder(t)
    BY <1>2 DEF Untouched, IInv
  <2> QED BY <1>2, <2>1, OtherScans
<1>5. RestTypeOK'
  BY <1>1, Types DEF IInv, RestTypeOK
<1>6. ScanTypeOK' /\ HookTypeOK' /\ faults' \in 0 .. MaxFaults
  BY <1>2, Types DEF IInv, ScanTypeOK, HookTypeOK, hookVars
<1>7. DeliveryTypeOK' /\ DeliveriesAddUp'
  <2>1. faults \in Nat /\ faults' \in Nat /\ faults <= faults'
    BY <1>6, FaultsCount, Types DEF IInv
  <2>2. DeliveryTypeOK /\ DeliveriesAddUp /\ UNCHANGED deliveryVars
    BY <1>1, Types DEF IInv
  <2> QED BY <2>1, <2>2, Waiting
<1> QED BY <1>3, <1>4, <1>5, <1>6, <1>7, Types DEF IInv

\* Nobody becomes a recipient and no message gets a job: scans and hooks stand as before.
LEMMA Standing ==
    ASSUME IInv, UNCHANGED <<scanVars, hookVars, restVars>>,
           DeliveryTypeOK', DeliveriesAddUp', SameDeliveries,
           faults' \in 0 .. MaxFaults, faults # 0 => faults' # 0
    PROVE  IInv'
<1>1. scan' = scan /\ rows' = rows /\ reaction' = reaction /\ hook' = hook /\ sarifs' = sarifs
      /\ clock' = clock /\ listed' = listed /\ UNCHANGED hookVars
  BY DEF scanVars, hookVars, restVars
<1>2. /\ \A s \in ScanIDs : Untouched(s)
      /\ \A h \in HookIDs : job'[<<"hook", h>>] = "none" <=> job[<<"hook", h>>] = "none"
  BY <1>1, MessageIsInMessages DEF SameDeliveries, Untouched
<1>3. ASSUME NEW s \in ScanIDs PROVE ScanInOrder(s)'
  <2>1. ScanInOrder(s) /\ Range(rows) \subseteq Range(rows')
    BY <1>1 DEF IInv
  <2> QED BY <1>2, <2>1, OtherScans
<1>4. (\A h \in HookIDs : HookInOrder(h)') /\ ReportsAreOwned'
  <2>1. (\A h \in HookIDs : HookInOrder(h)) /\ ReportsAreOwned /\ HookTypeOK
    BY Types DEF IInv
  <2>2. \A s \in ScanIDs : scan[s].round = "main" => scan'[s].round = "main"
    BY <1>1
  <2> QED BY <1>1, <1>2, <2>1, <2>2, OtherHooks
<1>5. ScanTypeOK' /\ HookTypeOK' /\ RestTypeOK'
  BY <1>1, Types DEF IInv, ScanTypeOK, HookTypeOK, RestTypeOK
<1> QED BY <1>3, <1>4, <1>5, Types DEF IInv

LEMMA Working ==
    ASSUME IInv, NEW m \in Messages,
           \/ Worker(m) /\ faults' = faults
           \/ /\ PodDisrupted(m) \/ \E c \in CRSs : AnswerLost(m, c, Over(m))
              /\ UNCHANGED <<scanVars, hookVars, restVars>>
              /\ faults < MaxFaults /\ faults' = faults + 1
    PROVE  IInv'
<1>1. UNCHANGED <<scanVars, hookVars, restVars>>
  BY DEF Worker
<1>2. faults \in 0 .. MaxFaults
  BY Types DEF IInv
<1>3. faults' \in 0 .. MaxFaults /\ (faults' = faults \/ faults' = faults + 1)
  <2>1. CASE faults' = faults
    BY <1>2, <2>1
  <2>2. CASE faults < MaxFaults /\ faults' = faults + 1
    BY <1>2, <2>2, BoundsAssumption
  <2> QED BY <2>1, <2>2
<1>4. faults \in Nat /\ (faults # 0 => faults' # 0)
  BY <1>2, <1>3, FaultsCount
<1>5. DeliveryTypeOK' /\ DeliveriesAddUp' /\ SameDeliveries
  <2>1. DeliveryTypeOK /\ DeliveriesAddUp
    BY Types DEF IInv
  <2> QED BY <1>4, <2>1, Delivering
<1> QED BY <1>1, <1>3, <1>4, <1>5, Standing

LEMMA Crashing ==
    ASSUME IInv, Crash, faults < MaxFaults, faults' = faults + 1
    PROVE  IInv'
<1>1. UNCHANGED <<rows, reaction, sarifs, restVars, deliveryVars>> /\ ScanTypeOK /\ HookTypeOK
      /\ RestTypeOK /\ DeliveryTypeOK /\ DeliveriesAddUp
  BY Types DEF Crash, IInv
<1>2. rows' = rows /\ reaction' = reaction /\ sarifs' = sarifs /\ job' = job /\ try' = try
      /\ clock' = clock /\ listed' = listed
  BY <1>1 DEF deliveryVars, restVars
<1>3. /\ scan' \in [ScanIDs -> [step : ScanSteps, round : {"none", "main", "generate"},
                               teams : SUBSET CRSs, archived : BOOLEAN]]
      /\ \A s \in ScanIDs :
            /\ scan'[s].round = scan[s].round /\ scan'[s].teams = scan[s].teams
            /\ scan'[s].archived = scan[s].archived
            /\ \/ scan[s].step = "none" /\ scan'[s].step = "none"
               \/ scan[s].step # "none" /\ scan'[s].step = "done"
  BY <1>1 DEF Crash, ScanTypeOK, ScanSteps, At
<1>4. /\ hook' \in [HookIDs -> HookRecord]
      /\ \A h \in HookIDs :
            /\ hook'[h].task = hook[h].task
            /\ \/ hook[h].step = "none" /\ hook'[h].step = "none"
               \/ hook[h].step # "none" /\ hook'[h].step = "done"
  BY <1>1 DEF Crash, HookTypeOK, HookRecord, HookSteps
<1>5. ScanTypeOK' /\ HookTypeOK' /\ RestTypeOK'
  BY <1>1, <1>2, <1>3, <1>4 DEF ScanTypeOK, HookTypeOK, RestTypeOK, HookRecord
<1>6. faults \in Nat /\ faults' \in Nat /\ faults <= faults' /\ faults' \in 0 .. MaxFaults
      /\ (faults # 0 => faults' # 0)
  <2>1. faults \in 0 .. MaxFaults
    BY Types DEF IInv
  <2> QED BY <2>1, BoundsAssumption
<1>7. DeliveryTypeOK' /\ DeliveriesAddUp'
  BY <1>1, <1>6, Waiting
<1>8. ASSUME NEW s \in ScanIDs PROVE ScanInOrder(s)'
  <2>1. ScanInOrder(s)
    BY DEF IInv
  <2> QED BY <1>2, <1>3, <1>6, <2>1 DEF ScanInOrder, At
<1>9. ASSUME NEW h \in HookIDs PROVE HookInOrder(h)' /\ (Owns(h)' => Owns(h))
  <2>1. HookInOrder(h)
    BY DEF IInv
  <2>2. Owns(h)' => Owns(h)
    BY <1>2, <1>4 DEF Owns
  <2>3. hook[h].task # 0 => hook[h].task \in ScanIDs
    BY <1>1, BoundsAssumption DEF HookTypeOK, ScanIDs
  <2> QED BY <1>2, <1>3, <1>4, <2>1, <2>2, <2>3 DEF HookInOrder
<1>10. ReportsAreOwned'
  BY <1>4, <1>9 DEF IInv, ReportsAreOwned
<1> QED BY <1>5, <1>6, <1>7, <1>8, <1>9, <1>10, Types DEF IInv

LEMMA Stuttering ==
    ASSUME IInv, UNCHANGED vars
    PROVE  IInv'
<1>1. UNCHANGED <<scanVars, hookVars, restVars>> /\ UNCHANGED deliveryVars /\ faults' = faults
  BY DEF vars
<1>2. faults \in 0 .. MaxFaults /\ DeliveryTypeOK /\ DeliveriesAddUp
  BY Types DEF IInv
<1>3. faults \in Nat /\ faults' \in Nat /\ faults <= faults' /\ faults' \in 0 .. MaxFaults
  BY <1>1, <1>2, FaultsCount
<1>4. DeliveryTypeOK' /\ DeliveriesAddUp' /\ SameDeliveries
  BY <1>1, <1>2, <1>3, Waiting
<1> QED BY <1>1, <1>3, <1>4, Standing

LEMMA Stepping == IInv /\ [Next]_vars => IInv'
<1> SUFFICES ASSUME IInv, [Next]_vars PROVE IInv'
  OBVIOUS
<1>1. ASSUME Step, faults' = faults PROVE IInv'
  BY <1>1, Scanning, Passing, Hooking, Working DEF Step
<1>2. ASSUME Fault PROVE IInv'
  BY <1>2, Scanning, Hooking, Crashing, Working DEF Fault
<1> QED BY <1>1, <1>2, Stuttering DEF Next

-----------------------------------------------------------------------------
(* What follows for every run. *)

\* Scans, hooks and deliveries stay in order.
THEOREM Inductive == Spec => []IInv
<1>1. Spec => Safety
  BY DEF Spec
<1> QED BY <1>1, Start0, Stepping, PTL DEF Safety

\* Nothing is sent that is not in its table and in the archive, whatever fails.
THEOREM RecordsComeFirst == Spec => []SentIsOnRecord
<1>1. IInv => SentIsOnRecord
  BY DEF IInv, SentIsOnRecord, ScanInOrder, HookInOrder, Owns
<1> QED BY <1>1, Inductive, PTL

\* However many alerts arrive, a task is broadcast once at most.
THEOREM BroadcastOnce == Spec => []OneBroadcastPerTask
<1>1. IInv => OneBroadcastPerTask
  BY DEF IInv, OneBroadcastPerTask, ReportsAreOwned, Owns
<1> QED BY <1>1, Inductive, PTL

\* The challenge a team requested reaches nobody else, nor does a report on it.
THEOREM RequestsStayPrivate == Spec => []RequestedIsPrivate
<1>1. IInv => RequestedIsPrivate
  <2> SUFFICES ASSUME IInv, NEW s \in ScanIDs, scan[s].round = "generate",
                      NEW m \in Messages, TaskOf(m) = s, NEW c \in CRSs, c \notin scan[s].teams
               PROVE  received[m][c] = 0
    BY DEF RequestedIsPrivate
  <2>1. CASE \E t \in ScanIDs : m = <<"scan", t>>
    <3>1. m = <<"scan", s>>
      BY <2>1 DEF TaskOf
    <3>2. try[m][c] = "off"
      BY <3>1 DEF IInv, ScanInOrder
    <3> QED BY <3>2 DEF IInv, DeliveriesAddUp, TriesAreTold
  <2>2. CASE \E h \in HookIDs : m = <<"hook", h>>
    <3>1. PICK h \in HookIDs : m = <<"hook", h>>
      BY <2>2
    <3>2. hook[h].task = s /\ s # 0
      BY <3>1, BoundsAssumption DEF TaskOf, ScanIDs
    <3> QED BY <3>2 DEF IInv, HookInOrder
  <2> QED BY <2>1, <2>2, MessageIsInMessages
<1> QED BY <1>1, Inductive, PTL

\* A thumbs-up tells of a complete task, sent unless something failed.
THEOREM ThumbsUpAreEarned == Spec => []ThumbsUpIsEarned
<1>1. IInv => ThumbsUpIsEarned
  BY DEF IInv, ThumbsUpIsEarned, ScanInOrder
<1> QED BY <1>1, Inductive, PTL

\* A CRS accepts a message once and once per failure, however long it is retried.
THEOREM AtMostOncePerFault == Spec => []DeliveredOncePerFault
<1>1. IInv => DeliveredOncePerFault
  BY DEF IInv, DeliveredOncePerFault, DeliveriesAddUp, CountsAddUp
<1> QED BY <1>1, Inductive, PTL

\* The outcome of a delivery job and its audit events are true.
THEOREM OutcomesAreTold == Spec => []OutcomeIsTold
<1>1. IInv => OutcomeIsTold
  <2> SUFFICES ASSUME IInv, NEW m \in Messages
               PROVE  /\ job[m] = "complete" =>
                             \A c \in Recipients(m) :
                                 received[m][c] > 0 /\ <<c, "succeeded">> \in audited[m]
                      /\ job[m] = "failed" => \E c \in Recipients(m) : <<c, "failed">> \in audited[m]
                      /\ \A c \in CRSs : <<c, "succeeded">> \in audited[m] => received[m][c] > 0
    BY DEF OutcomeIsTold
  <2>1. \A c \in CRSs : TriesAreTold(m, c) /\ received[m][c] \in Nat
    BY Counts, Types DEF IInv, DeliveriesAddUp
  <2>2. \A c \in CRSs : received[m][c] # 0 => received[m][c] > 0
    BY <2>1
  <2>3. JobAddsUp(m)
    BY DEF IInv, DeliveriesAddUp
  <2> QED BY <2>1, <2>2, <2>3 DEF JobAddsUp, TriesAreTold, Recipients
<1> QED BY <1>1, Inductive, PTL
=============================================================================
