-------------------------- MODULE APIServer_proofs --------------------------
(***************************************************************************)
(* Proofs about the rate limiter, for every number of concurrent requests  *)
(* and every pair of limits, and about the API servers that use it, for    *)
(* any number of servers, requests, migrations and faults.                 *)
(***************************************************************************)
EXTENDS APIServer, TLAPS

(***************************************************************************)
(* The limiter: CounterCounts is inductive with the type invariant.        *)
(***************************************************************************)

\* The smallest limit is below every limit, and above zero.
LEMMA SmallestIsSmallest ==
    /\ SmallestLimit \in Nat \ {0}
    /\ \A l \in Limiters : PerMinute(l) \in Nat /\ PerMinute(l) >= SmallestLimit
BY LimitAssumption DEF SmallestLimit, Limiters, PerMinute

\* The two steps that count a request: it goes on to the next limiter or its handler.
LEMMA LetInTypes ==
    ASSUME TypeOK, NEW r \in Requests, LetIn(r)
    PROVE  /\ at' \in [Requests -> Limiters]
           /\ pc' \in [Requests -> {"get", "set", "decr", "handle"}]
BY DEF TypeOK, LetIn, Then, Limiters

\* Every command, the end of requests and the expiry keep the invariant.
LEMMA CountingStep == Inv /\ [Next]_vars => Inv'
<1> SUFFICES ASSUME Inv, [Next]_vars PROVE Inv'
  OBVIOUS
<1> USE LimitAssumption, SmallestIsSmallest DEF Inv, TypeOK, CounterCounts
<1>1. CASE Expire
  BY <1>1 DEF Expire
<1>2. ASSUME NEW r \in Requests, Get(r) PROVE Inv'
  BY <1>2 DEF Get, Refuses, Then
<1>3. ASSUME NEW r \in Requests, Set(r) PROVE Inv'
  <2> DEFINE limit == PerMinute(at[r])
  <2>0. limit \in Nat /\ limit >= SmallestLimit
    BY SmallestIsSmallest
  <2>1. CASE key' = {[left |-> limit, expires |-> TRUE]}
    <3>1. TypeOK'
      BY <1>3, <2>0, <2>1 DEF Set, Then
    <3>2. ASSUME NEW k \in key' PROVE k.left = limit /\ k.expires
      BY <2>1, <3>2
    <3>3. letIn' \in Nat
      BY <3>1
    <3>4. SmallestLimit \in Nat
      BY SmallestIsSmallest
    <3>5. letIn' + limit >= SmallestLimit
      BY ONLY <2>0, <3>3, <3>4
    <3>6. CounterCounts'
      BY <3>2, <3>5 DEF SmallestLimit
    <3> QED BY <3>1, <3>6
  <2>2. CASE UNCHANGED key
    BY <1>3, <2>2 DEF Set, Then
  <2> QED BY <1>3, <2>1, <2>2 DEF Set
<1>4. ASSUME NEW r \in Requests, Decr(r) PROVE Inv'
  <2>1. TypeOK'
    <3>1. LetIn(r) /\ letIn' \in 0 .. MaxLetIn
      BY <1>4 DEF Decr
    <3>2. key' \subseteq [left : Int, expires : BOOLEAN]
      <4>1. CASE key = {}
        BY <1>4, <4>1 DEF Decr
      <4>2. CASE key # {}
        <5>1. key' = {[k EXCEPT !.left = k.left - 1] : k \in key}
          BY <1>4, <4>2 DEF Decr
        <5>2. \A k \in key : [k EXCEPT !.left = k.left - 1] \in [left : Int, expires : BOOLEAN]
          OBVIOUS
        <5> QED BY <5>1, <5>2
      <4> QED BY <4>1, <4>2
    <3> QED BY <3>1, <3>2, LetInTypes
  <2>2. CounterCounts'
    BY <1>4 DEF Decr
  <2> QED BY <2>1, <2>2
<1>5. ASSUME NEW r \in Requests, DecrFails(r) PROVE Inv'
  <2>1. TypeOK'
    BY <1>5, LetInTypes DEF DecrFails
  <2>2. CounterCounts'
    BY <1>5 DEF DecrFails
  <2> QED BY <2>1, <2>2
<1>6. ASSUME NEW ended \in SUBSET Requests, End(ended) PROVE Inv'
  BY <1>6 DEF End, Limiters
<1>7. CASE UNCHANGED vars
  BY <1>7 DEF vars
<1> QED BY <1>1, <1>2, <1>3, <1>4, <1>5, <1>6, <1>7 DEF Next, Allow

\* The invariant holds of the start and is kept by every step.
THEOREM Counting == Spec => []Inv
<1>1. Init => Inv
  BY LimitAssumption DEF Init, Inv, TypeOK, CounterCounts, Limiters
<1> QED BY <1>1, CountingStep, PTL DEF Spec

\* A counter that refuses a client always expires, so that nobody is shut out for good.
THEOREM NobodyLockedOut == Spec => []NoLockout
<1>1. Inv => NoLockout
  BY DEF Inv, TypeOK, CounterCounts, NoLockout, Refuses
<1> QED BY <1>1, Counting, PTL

\* No client is refused before it used up the smaller limit.
THEOREM NobodyRefusedEarly == Spec => []NoEarlyRefusal
<1>1. Inv => NoEarlyRefusal
  BY LimitAssumption, SmallestIsSmallest DEF Inv, TypeOK, CounterCounts, NoEarlyRefusal, Refuses
<1> QED BY <1>1, Counting, PTL

(***************************************************************************)
(* The servers.  What the invariant says of a server depends on its        *)
(* process, on the requests and functions it has, and on the schema alone; *)
(* a step of one server keeps it for the others.                           *)
(***************************************************************************)

\* What the invariant says of a process with these requests and functions, and with so many migrations run.
Sound(p, handled, tasks, ran) ==
    /\ ~p.errors => /\ p.shutdown \in {"tasks", "otel", "done"} => handled = {}
                    /\ p.shutdown \in {"otel", "done"} => tasks = {}
    /\ ~p.canCancel <=> p.main \in {"lookup", "migrate", "start", "exited"}
    /\ ~p.canCancel => p.shutdown = "signal" /\ handled = {} /\ tasks = {}
    /\ p.read <= ran
    /\ p.main \in {"start", "listen", "serve", "wait"} => ran = Migrations
    /\ p.exit \in {"clean", "panicked"} => ~p.lost

SoundServer(s) == Sound(server[s], HandledBy(s), TasksOf(s), schema)

LEMMA InvIsSound == ServerInv <=> ServerTypeOK /\ \A s \in Servers : SoundServer(s)
<1> USE DEF SoundServer, Sound, ServerInv, Drained, CancelBeforeServing, Migrated,
            CleanExitLosesNothing, PanicLosesNothing
<1>1. ASSUME ServerInv PROVE \A s \in Servers : SoundServer(s)
  BY <1>1
<1>2. ASSUME \A s \in Servers : SoundServer(s), ServerTypeOK PROVE ServerInv
  BY <1>2
<1> QED BY <1>1, <1>2

LEMMA NextInvIsSound == (ServerInv <=> ServerTypeOK /\ \A s \in Servers : SoundServer(s))'
BY InvIsSound, PTL

\* A process is given another state, with everything else but the version, the lease and the
\* count of faults as it was.
LEMMA ProcessStep ==
    ASSUME ServerInv, NEW s \in Servers, NEW p,
           server' = [server EXCEPT ![s] = p],
           UNCHANGED <<limited, schema, requestVars, limiterVars>>,
           version' \in 0 .. schema,
           lease' \in Servers \cup {NoServer, Nobody}, faults' \in 0 .. MaxFaults,
           p \in Process, Sound(p, HandledBy(s), TasksOf(s), schema)
    PROVE  ServerInv'
<1>1. ServerTypeOK'
  BY DEF ServerInv, ServerTypeOK, TypeOK, limiterVars, requestVars
<1>2. ASSUME NEW t \in Servers PROVE SoundServer(t)'
  <2>1. HandledBy(t)' = HandledBy(t) /\ TasksOf(t)' = TasksOf(t) /\ schema' = schema
    BY DEF HandledBy, TasksOf, requestVars
  <2>2. server'[t] = IF t = s THEN p ELSE server[t]
    BY DEF ServerInv, ServerTypeOK
  <2>3. SoundServer(t)
    BY InvIsSound
  <2> QED BY <2>1, <2>2, <2>3 DEF SoundServer
<1> QED BY <1>1, <1>2, NextInvIsSound

LEMMA FreshIsProcess == Fresh \in Process
<1>1. 0 \in 0 .. Migrations
  BY ServerAssumption
<1> QED BY <1>1 DEF Fresh, Process

LEMMA Ended ==
    ASSUME NEW p \in Process, NEW how, NEW lost \in BOOLEAN,
           how \in {"clean", "late", "panicked", "died"}
    PROVE  [p EXCEPT !.main = "exited", !.exit = how, !.lost = lost] \in Process
BY DEF Process

\* A process ends; cleanly or in a panic only with nothing lost.
LEMMA ExitStep ==
    ASSUME ServerInv, NEW s \in Servers,
           NEW how, how \in {"clean", "late", "panicked", "died"},
           Exit(s, how), faults' \in 0 .. MaxFaults,
           how \in {"clean", "panicked"} => HandledBy(s) = {} /\ TasksOf(s) = {}
    PROVE  ServerInv'
<1> DEFINE lost == HandledBy(s) # {} \/ TasksOf(s) # {}
           p == [Fresh EXCEPT !.main = "exited", !.exit = how, !.lost = lost]
<1>0. lost \in BOOLEAN
  OBVIOUS
<1>3. server' = [server EXCEPT ![s] = p]
  BY DEF Exit
<1>7. how \in {"clean", "panicked"} => ~lost
  OBVIOUS
<1> HIDE DEF lost
<1>1. p \in Process
  BY <1>0, FreshIsProcess, Ended
<1>2. /\ p.main = "exited" /\ p.exit = how /\ p.read = 0 /\ p.shutdown = "signal"
      /\ ~p.canCancel /\ p.lost = lost
  BY DEF Fresh
<1> HIDE DEF p
<1>4. ServerTypeOK'
  <2>1. TypeOK'
    BY DEF ServerInv, ServerTypeOK, TypeOK, Exit, End, Limiters
  <2>2. server' \in [Servers -> Process]
    BY <1>1, <1>3 DEF ServerInv, ServerTypeOK
  <2>3. /\ on' \in [Requests -> Servers \cup {NoServer}]
        /\ task' \in [Requests -> Servers \cup {NoServer}]
        /\ lease' \in Servers \cup {NoServer, Nobody}
    BY DEF ServerInv, ServerTypeOK, Exit
  <2> QED BY <2>1, <2>2, <2>3 DEF ServerInv, ServerTypeOK, Exit
<1>5. ASSUME NEW t \in Servers PROVE SoundServer(t)'
  <2>1. schema' = schema /\ schema \in Nat
    BY ServerAssumption DEF ServerInv, ServerTypeOK, Exit
  <2>2. CASE t = s
    <3>1. HandledBy(s)' = {} /\ TasksOf(s)' = {}
      BY ServerAssumption DEF HandledBy, TasksOf, Exit, ServerInv, ServerTypeOK
    <3>2. server'[s] = p
      BY <1>3 DEF ServerInv, ServerTypeOK
    <3>3. Sound(p, {}, {}, schema)
      <4>1. 0 <= schema
        BY <2>1
      <4>2. p.exit \in {"clean", "panicked"} => ~p.lost
        BY <1>2, <1>7
      <4> QED BY <1>2, <4>1, <4>2 DEF Sound
    <3> QED BY <2>1, <2>2, <3>1, <3>2, <3>3 DEF SoundServer
  <2>3. CASE t # s
    <3>1. HandledBy(t)' = HandledBy(t) /\ TasksOf(t)' = TasksOf(t)
      BY <2>3, ServerAssumption DEF HandledBy, TasksOf, Exit, ServerInv, ServerTypeOK
    <3>2. server'[t] = server[t]
      BY <1>3, <2>3 DEF ServerInv, ServerTypeOK
    <3>3. SoundServer(t)
      BY InvIsSound
    <3> QED BY <2>1, <3>1, <3>2, <3>3 DEF SoundServer
  <2> QED BY <2>2, <2>3
<1> QED BY <1>4, <1>5, NextInvIsSound

\* The servers keep what they have; requests or the limiter take a step.
LEMMA RequestsStep ==
    ASSUME ServerInv, TypeOK', UNCHANGED <<limited, server, schema, version, lease, faults>>,
           on' \in [Requests -> Servers \cup {NoServer}],
           task' \in [Requests -> Servers \cup {NoServer}],
           \A s \in Servers :
               /\ \/ HandledBy(s)' \subseteq HandledBy(s)
                  \/ server[s].shutdown = "signal" /\ server[s].canCancel
               /\ \/ TasksOf(s)' \subseteq TasksOf(s)
                  \/ HandledBy(s) # {}
    PROVE  ServerInv'
<1>1. ServerTypeOK'
  BY DEF ServerInv, ServerTypeOK
<1>2. ASSUME NEW s \in Servers PROVE SoundServer(s)'
  <2>1. SoundServer(s)
    BY InvIsSound
  <2>2. server'[s] = server[s] /\ schema' = schema
    OBVIOUS
  <2> QED BY <2>1, <2>2 DEF SoundServer, Sound
<1> QED BY <1>1, <1>2, NextInvIsSound

\* The steps of one goroutine of a server that leave requests and schema alone.
LEMMA GoroutineStep ==
    ASSUME ServerInv, NEW s \in Servers,
           \/ LookUp(s) \/ InitServer(s) \/ Start(s) \/ Listen(s) \/ Signal(s)
           \/ BeginShutdown(s) \/ StartReturns(s) \/ Timeout(s)
           \/ StopLeading(s) \/ LoseLease(s) \/ RunAgain(s) \/ Elect(s)
    PROVE  ServerInv'
<1>1. ServerTypeOK /\ server[s] \in Process /\ SoundServer(s)
  BY InvIsSound DEF ServerTypeOK
<1> USE <1>1, ServerAssumption DEF ServerTypeOK, OnlyServer, Fault
<1>2. CASE LookUp(s)
  <2> DEFINE p == [server[s] EXCEPT !.main = "migrate", !.read = version]
  <2>1. server' = [server EXCEPT ![s] = p]
    BY <1>2 DEF LookUp
  <2>2. /\ UNCHANGED <<limited, schema, requestVars, limiterVars>>
        /\ version' \in 0 .. schema
        /\ lease' \in Servers \cup {NoServer, Nobody} /\ faults' \in 0 .. MaxFaults
    BY <1>2 DEF LookUp
  <2>3. version \in 0 .. Migrations /\ version <= schema
    OBVIOUS
  <2>4. p \in Process
    BY <2>3 DEF Process
  <2>5. Sound(p, HandledBy(s), TasksOf(s), schema)
    BY <1>2, <2>3 DEF LookUp, SoundServer, Sound, Process
  <2> QED BY <2>1, <2>2, <2>4, <2>5, ProcessStep
<1>3. CASE InitServer(s)
  <2> DEFINE p == [server[s] EXCEPT !.main = "start"]
  <2>1. server' = [server EXCEPT ![s] = p]
    BY <1>3 DEF InitServer
  <2>2. /\ UNCHANGED <<limited, schema, requestVars, limiterVars>>
        /\ version' \in 0 .. schema
        /\ lease' \in Servers \cup {NoServer, Nobody} /\ faults' \in 0 .. MaxFaults
    BY <1>3 DEF InitServer
  <2>3. p \in Process
    BY DEF Process
  <2>4. schema = Migrations
    <3>1. server[s].read = Migrations /\ server[s].read <= schema
      BY <1>3 DEF InitServer, SoundServer, Sound
    <3>2. schema \in 0 .. Migrations /\ Migrations \in Nat
      OBVIOUS
    <3> QED BY ONLY <3>1, <3>2
  <2>5. server[s].main = "migrate" /\ server[s].read <= schema
    BY <1>3 DEF InitServer, SoundServer, Sound
  <2>6. Sound(p, HandledBy(s), TasksOf(s), schema)
    BY <2>4, <2>5 DEF SoundServer, Sound, Process
  <2> QED BY <2>1, <2>2, <2>3, <2>6, ProcessStep
<1>4. CASE Start(s)
  <2> DEFINE p == [server[s] EXCEPT !.main = "listen", !.canCancel = TRUE, !.controller = "seeking"]
  <2>1. server' = [server EXCEPT ![s] = p]
    BY <1>4 DEF Start
  <2>2. /\ UNCHANGED <<limited, schema, requestVars, limiterVars>>
        /\ version' \in 0 .. schema
        /\ lease' \in Servers \cup {NoServer, Nobody} /\ faults' \in 0 .. MaxFaults
    BY <1>4 DEF Start
  <2>3. p \in Process
    BY DEF Process
  <2>4. Sound(p, HandledBy(s), TasksOf(s), schema)
    BY <1>4 DEF Start, SoundServer, Sound, Process
  <2> QED BY <2>1, <2>2, <2>3, <2>4, ProcessStep
<1>5. CASE Listen(s)
  <2> DEFINE p == [server[s] EXCEPT !.main = IF server[s].shutdown = "signal" THEN "serve" ELSE "wait"]
  <2>1. server' = [server EXCEPT ![s] = p]
    BY <1>5 DEF Listen
  <2>2. /\ UNCHANGED <<limited, schema, requestVars, limiterVars>>
        /\ version' \in 0 .. schema
        /\ lease' \in Servers \cup {NoServer, Nobody} /\ faults' \in 0 .. MaxFaults
    BY <1>5 DEF Listen
  <2>3. p \in Process
    BY DEF Process
  <2>4. Sound(p, HandledBy(s), TasksOf(s), schema)
    BY <1>5 DEF Listen, SoundServer, Sound, Process
  <2> QED BY <2>1, <2>2, <2>3, <2>4, ProcessStep
<1>6. CASE Signal(s)
  <2> DEFINE p == [server[s] EXCEPT !.signalled = TRUE]
  <2>1. server' = [server EXCEPT ![s] = p]
    BY <1>6 DEF Signal
  <2>2. /\ UNCHANGED <<limited, schema, requestVars, limiterVars>>
        /\ version' \in 0 .. schema
        /\ lease' \in Servers \cup {NoServer, Nobody} /\ faults' \in 0 .. MaxFaults
    BY <1>6 DEF Signal
  <2>3. p \in Process
    BY DEF Process
  <2>4. Sound(p, HandledBy(s), TasksOf(s), schema)
    BY <1>6 DEF Signal, SoundServer, Sound, Process
  <2> QED BY <2>1, <2>2, <2>3, <2>4, ProcessStep
<1>7. CASE BeginShutdown(s)
  <2> DEFINE p == [server[s] EXCEPT !.shutdown = "router"]
  <2>1. server' = [server EXCEPT ![s] = p]
    BY <1>7 DEF BeginShutdown
  <2>2. /\ UNCHANGED <<limited, schema, requestVars, limiterVars>>
        /\ version' \in 0 .. schema
        /\ lease' \in Servers \cup {NoServer, Nobody} /\ faults' \in 0 .. MaxFaults
    BY <1>7 DEF BeginShutdown
  <2>3. p \in Process
    BY DEF Process
  <2>4. Sound(p, HandledBy(s), TasksOf(s), schema)
    BY <1>7 DEF BeginShutdown, GotSignal, SoundServer, Sound, Process
  <2> QED BY <2>1, <2>2, <2>3, <2>4, ProcessStep
<1>8. CASE StartReturns(s)
  <2> DEFINE p == [server[s] EXCEPT !.main = "wait"]
  <2>1. server' = [server EXCEPT ![s] = p]
    BY <1>8 DEF StartReturns
  <2>2. /\ UNCHANGED <<limited, schema, requestVars, limiterVars>>
        /\ version' \in 0 .. schema
        /\ lease' \in Servers \cup {NoServer, Nobody} /\ faults' \in 0 .. MaxFaults
    BY <1>8 DEF StartReturns
  <2>3. p \in Process
    BY DEF Process
  <2>4. Sound(p, HandledBy(s), TasksOf(s), schema)
    BY <1>8 DEF StartReturns, SoundServer, Sound, Process
  <2> QED BY <2>1, <2>2, <2>3, <2>4, ProcessStep
<1>9. CASE Timeout(s)
  <2> DEFINE p == [server[s] EXCEPT !.expired = TRUE]
  <2>1. server' = [server EXCEPT ![s] = p]
    BY <1>9 DEF Timeout
  <2>2. /\ UNCHANGED <<limited, schema, requestVars, limiterVars>>
        /\ version' \in 0 .. schema
        /\ lease' \in Servers \cup {NoServer, Nobody} /\ faults' \in 0 .. MaxFaults
    BY <1>9 DEF Timeout
  <2>3. p \in Process
    BY DEF Process
  <2>4. Sound(p, HandledBy(s), TasksOf(s), schema)
    BY <1>9 DEF Timeout, SoundServer, Sound, Process
  <2> QED BY <2>1, <2>2, <2>3, <2>4, ProcessStep
<1>10. CASE StopLeading(s)
  <2> DEFINE p == [server[s] EXCEPT !.controller = "ended"]
  <2>1. server' = [server EXCEPT ![s] = p]
    BY <1>10 DEF StopLeading
  <2>2. /\ UNCHANGED <<limited, schema, requestVars, limiterVars>>
        /\ version' \in 0 .. schema
        /\ lease' \in Servers \cup {NoServer, Nobody} /\ faults' \in 0 .. MaxFaults
    BY <1>10 DEF StopLeading
  <2>3. p \in Process
    BY DEF Process
  <2>4. Sound(p, HandledBy(s), TasksOf(s), schema)
    BY <1>10 DEF StopLeading, SoundServer, Sound, Process
  <2> QED BY <2>1, <2>2, <2>3, <2>4, ProcessStep
<1>11. CASE LoseLease(s)
  <2> DEFINE p == [server[s] EXCEPT !.controller = "pausing"]
  <2>1. server' = [server EXCEPT ![s] = p]
    BY <1>11 DEF LoseLease
  <2>2. /\ UNCHANGED <<limited, schema, requestVars, limiterVars>>
        /\ version' \in 0 .. schema
        /\ lease' \in Servers \cup {NoServer, Nobody} /\ faults' \in 0 .. MaxFaults
    BY <1>11 DEF LoseLease
  <2>3. p \in Process
    BY DEF Process
  <2>4. Sound(p, HandledBy(s), TasksOf(s), schema)
    BY <1>11 DEF LoseLease, SoundServer, Sound, Process
  <2> QED BY <2>1, <2>2, <2>3, <2>4, ProcessStep
<1>12. CASE RunAgain(s)
  <2> DEFINE p == [server[s] EXCEPT !.controller = "seeking"]
  <2>1. server' = [server EXCEPT ![s] = p]
    BY <1>12 DEF RunAgain
  <2>2. /\ UNCHANGED <<limited, schema, requestVars, limiterVars>>
        /\ version' \in 0 .. schema
        /\ lease' \in Servers \cup {NoServer, Nobody} /\ faults' \in 0 .. MaxFaults
    BY <1>12 DEF RunAgain
  <2>3. p \in Process
    BY DEF Process
  <2>4. Sound(p, HandledBy(s), TasksOf(s), schema)
    BY <1>12 DEF RunAgain, SoundServer, Sound, Process
  <2> QED BY <2>1, <2>2, <2>3, <2>4, ProcessStep
<1>13. CASE Elect(s)
  <2> DEFINE p == [server[s] EXCEPT !.controller = "leading"]
  <2>1. server' = [server EXCEPT ![s] = p]
    BY <1>13 DEF Elect
  <2>2. /\ UNCHANGED <<limited, schema, requestVars, limiterVars>>
        /\ version' \in 0 .. schema
        /\ lease' \in Servers \cup {NoServer, Nobody} /\ faults' \in 0 .. MaxFaults
    BY <1>13 DEF Elect
  <2>3. p \in Process
    BY DEF Process
  <2>4. Sound(p, HandledBy(s), TasksOf(s), schema)
    BY <1>13 DEF Elect, SoundServer, Sound, Process
  <2> QED BY <2>1, <2>2, <2>3, <2>4, ProcessStep
<1> QED BY <1>2, <1>3, <1>4, <1>5, <1>6, <1>7, <1>8, <1>9, <1>10, <1>11, <1>12, <1>13

\* A step of Shutdown that ended without an error leaves nothing of what it waits for.
LEMMA ShutDownStep ==
    ASSUME ServerInv, NEW s \in Servers,
           RouterDown(s) \/ TasksDown(s) \/ OtelDown(s)
    PROVE  ServerInv'
<1>1. ServerTypeOK /\ server[s] \in Process /\ SoundServer(s)
  BY InvIsSound DEF ServerTypeOK
<1>2. ASSUME NEW step, NEW next, NEW well \in BOOLEAN, ShutDown(s, step, well, next),
             next \in {"tasks", "otel", "done"}, step \in {"router", "tasks", "otel"},
             well => /\ next \in {"tasks", "otel", "done"} =>
                            HandledBy(s) = {} \/ server[s].errors
                     /\ next \in {"otel", "done"} =>
                            TasksOf(s) = {} \/ server[s].errors
      PROVE ServerInv'
  <2>1. PICK failed \in BOOLEAN :
            /\ failed \/ well
            /\ server' = [server EXCEPT ![s].shutdown = next, ![s].errors = @ \/ failed]
    BY <1>2 DEF ShutDown
  <2> DEFINE errors == server[s].errors \/ failed
             p == [server[s] EXCEPT !.shutdown = next, !.errors = errors]
  <2>2. server' = [server EXCEPT ![s] = p]
    BY <2>1
  <2>3. errors \in BOOLEAN
    OBVIOUS
  <2>4. ~errors => well /\ ~server[s].errors
    BY <2>1
  <2> HIDE DEF errors
  <2>5. p \in Process
    BY <1>1, <1>2, <2>3 DEF Process
  <2>6. /\ p.shutdown = next /\ p.errors = errors /\ p.canCancel = server[s].canCancel
        /\ p.main = server[s].main /\ p.read = server[s].read
        /\ p.exit = server[s].exit /\ p.lost = server[s].lost
    BY <1>1 DEF Process
  <2> HIDE DEF p
  <2>7. server[s].shutdown = step
    BY <1>2 DEF ShutDown
  <2>8. Sound(p, HandledBy(s), TasksOf(s), schema)
    BY <1>1, <1>2, <2>4, <2>6, <2>7 DEF SoundServer, Sound
  <2>9. /\ UNCHANGED <<limited, schema, requestVars, limiterVars>>
        /\ version' \in 0 .. schema
        /\ lease' \in Servers \cup {NoServer, Nobody} /\ faults' \in 0 .. MaxFaults
    BY <1>1, <1>2 DEF ShutDown, OnlyServer, ServerTypeOK
  <2> QED BY <2>2, <2>5, <2>8, <2>9, ProcessStep
<1>3. CASE RouterDown(s)
  BY <1>2, <1>3 DEF RouterDown
<1>4. CASE TasksDown(s)
  <2>1. server[s].shutdown = "tasks"
    BY <1>4 DEF TasksDown, ShutDown
  <2>2. HandledBy(s) = {} \/ server[s].errors
    BY <1>1, <2>1 DEF SoundServer, Sound
  <2> QED BY <1>2, <1>4, <2>2 DEF TasksDown
<1>5. CASE OtelDown(s)
  <2>1. server[s].shutdown = "otel"
    BY <1>5 DEF OtelDown, ShutDown
  <2>2. (HandledBy(s) = {} /\ TasksOf(s) = {}) \/ server[s].errors
    BY <1>1, <2>1 DEF SoundServer, Sound
  <2> QED BY <1>2, <1>5, <2>2 DEF OtelDown
<1> QED BY <1>3, <1>4, <1>5

\* The steps that take the schema further, end a process or start it again.
LEMMA MigrateStep ==
    ASSUME ServerInv, NEW s \in Servers, Migrate(s) PROVE ServerInv'
<1> DEFINE p == [server[s] EXCEPT !.main = "lookup"]
<1>1. ServerTypeOK /\ server[s] \in Process /\ \A t \in Servers : SoundServer(t)
  BY InvIsSound DEF ServerTypeOK
<1>2. schema \in 0 .. Migrations /\ schema < Migrations /\ Migrations \in Nat
  BY <1>1, ServerAssumption DEF Migrate, ServerTypeOK
<1>3. /\ schema' = schema + 1 /\ schema' \in 0 .. Migrations
      /\ version' \in 0 .. schema'
  BY <1>2 DEF Migrate
<1>4. p \in Process
  BY <1>1, <1>3 DEF Process, Migrate
<1>5. server' = [server EXCEPT ![s] = p]
  BY DEF Migrate
<1>6. ServerTypeOK'
  BY <1>1, <1>3, <1>4, <1>5
     DEF ServerTypeOK, TypeOK, Migrate, limiterVars, requestVars
<1>7. ASSUME NEW t \in Servers PROVE SoundServer(t)'
  <2>1. HandledBy(t)' = HandledBy(t) /\ TasksOf(t)' = TasksOf(t)
    BY DEF HandledBy, TasksOf, requestVars, Migrate
  <2>2. server[t] \in Process /\ server[t].read \in Int
    BY <1>1 DEF ServerTypeOK, Process
  <2>3. server[t].main \notin {"start", "listen", "serve", "wait"}
    BY <1>1, <1>2 DEF SoundServer, Sound
  <2>4. server[t].read <= schema
    BY <1>1 DEF SoundServer, Sound
  <2>5. server[t].read <= schema + 1
    BY <1>2, <2>2, <2>4
  <2>6. CASE t # s
    <3>1. server'[t] = server[t]
      BY <1>5, <2>6, <1>1 DEF ServerTypeOK
    <3>2. Sound(server[t], HandledBy(t), TasksOf(t), schema + 1)
      BY <1>1, <2>3, <2>5 DEF SoundServer, Sound
    <3> QED BY <1>3, <2>1, <3>1, <3>2 DEF SoundServer
  <2>7. CASE t = s
    <3>1. server'[s] = p
      BY <1>5, <1>1 DEF ServerTypeOK
    <3>2. p.read = server[s].read
      BY <1>1 DEF Process
    <3>3. Sound(p, HandledBy(s), TasksOf(s), schema + 1)
      BY <1>1, <2>3, <2>5, <2>7, <3>2 DEF Migrate, SoundServer, Sound, Process
    <3> QED BY <1>3, <2>1, <2>7, <3>1, <3>3 DEF SoundServer
  <2> QED BY <2>6, <2>7
<1> QED BY <1>6, <1>7, NextInvIsSound

\* A migration runs again: only the version changes, to that of one that has run.
LEMMA MigrateAgainStep ==
    ASSUME ServerInv, NEW s \in Servers, MigrateAgain(s) PROVE ServerInv'
<1> DEFINE p == [server[s] EXCEPT !.main = "lookup"]
<1>1. ServerTypeOK /\ server[s] \in Process /\ SoundServer(s)
  BY InvIsSound DEF ServerTypeOK
<1>2. version' \in 0 .. schema
  <2>1. server[s].read \in Nat /\ schema \in Nat /\ server[s].read < schema
    BY <1>1, ServerAssumption DEF MigrateAgain, ServerTypeOK, Process
  <2> QED BY <2>1 DEF MigrateAgain
<1>3. /\ UNCHANGED <<limited, schema, requestVars, limiterVars>>
      /\ lease' \in Servers \cup {NoServer, Nobody} /\ faults' \in 0 .. MaxFaults
  BY <1>1 DEF MigrateAgain, ServerTypeOK
<1>4. p \in Process
  BY <1>1 DEF Process
<1>5. Sound(p, HandledBy(s), TasksOf(s), schema)
  BY <1>1 DEF MigrateAgain, SoundServer, Sound, Process
<1>6. server' = [server EXCEPT ![s] = p]
  BY DEF MigrateAgain
<1> QED BY <1>2, <1>3, <1>4, <1>5, <1>6, ProcessStep

LEMMA EndStep ==
    ASSUME ServerInv, NEW s \in Servers,
           \/ MigrateFails(s) \/ InitFails(s) \/ StartFails(s) \/ Kill(s)
           \/ ShutdownPanics(s) \/ MainReturns(s)
    PROVE  ServerInv'
<1>1. ServerTypeOK /\ server[s] \in Process /\ SoundServer(s)
  BY InvIsSound DEF ServerTypeOK
<1>2. faults' \in 0 .. MaxFaults
  BY <1>1, ServerAssumption
     DEF ServerTypeOK, Fault, MigrateFails, InitFails, StartFails, Kill,
         ShutdownPanics, MainReturns
<1>3. CASE Exit(s, "died")
  BY <1>2, <1>3, ExitStep
<1>4. CASE ShutdownPanics(s)
  <2>1. HandledBy(s) = {} /\ TasksOf(s) = {}
    BY <1>1, <1>4 DEF ShutdownPanics, SoundServer, Sound
  <2>2. Exit(s, "panicked")
    BY <1>4 DEF ShutdownPanics
  <2> QED BY <1>2, <2>1, <2>2, ExitStep
<1>5. CASE MainReturns(s) /\ server[s].errors
  BY <1>2, <1>5, ExitStep DEF MainReturns
<1>6. CASE MainReturns(s) /\ ~server[s].errors
  <2>1. HandledBy(s) = {} /\ TasksOf(s) = {}
    BY <1>1, <1>6 DEF MainReturns, SoundServer, Sound
  <2>2. Exit(s, "clean")
    BY <1>6 DEF MainReturns
  <2> QED BY <1>2, <2>1, <2>2, ExitStep
<1> QED BY <1>3, <1>4, <1>5, <1>6 DEF MigrateFails, InitFails, StartFails, Kill

LEMMA RestartStep ==
    ASSUME ServerInv, NEW s \in Servers, Restart(s) PROVE ServerInv'
<1>1. ServerTypeOK /\ server[s] \in Process /\ SoundServer(s)
  BY InvIsSound DEF ServerTypeOK
<1>2. HandledBy(s) = {} /\ TasksOf(s) = {} /\ 0 <= schema
  BY <1>1, ServerAssumption DEF Restart, SoundServer, Sound, ServerTypeOK
<1>3. Sound(Fresh, HandledBy(s), TasksOf(s), schema)
  BY <1>2 DEF Sound, Fresh
<1>4. server' = [server EXCEPT ![s] = Fresh]
  BY DEF Restart
<1>5. /\ UNCHANGED <<limited, schema, requestVars, limiterVars>>
      /\ version' \in 0 .. schema
      /\ lease' \in Servers \cup {NoServer, Nobody} /\ faults' \in 0 .. MaxFaults
  BY <1>1 DEF Restart, OnlyServer, ServerTypeOK
<1> QED BY <1>3, <1>4, <1>5, FreshIsProcess, ProcessStep

\* The steps of requests, of the counter and of the lease.
LEMMA RequestStepKeeps ==
    ASSUME ServerInv, Inv, NEW r \in Requests,
           RequestStep(r) \/ \E s \in Servers : Arrive(r, s)
    PROVE  ServerInv'
<1>1. ServerTypeOK /\ TypeOK /\ \A t \in Servers : SoundServer(t)
  BY InvIsSound DEF ServerTypeOK
<1>2. CASE \E s \in Servers : Arrive(r, s)
  <2>1. PICK s \in Servers : Arrive(r, s)
    BY <1>2
  <2>2. server[s].shutdown = "signal" /\ server[s].canCancel
    BY <1>1, <2>1 DEF Arrive, Accepts, SoundServer, Sound
  <2>3. TypeOK'
    BY <1>1, <2>1 DEF Arrive, limiterVars, TypeOK
  <2>4. on' \in [Requests -> Servers \cup {NoServer}] /\ task' = task
    BY <1>1, <2>1 DEF Arrive, ServerTypeOK
  <2>5. ASSUME NEW t \in Servers
        PROVE /\ HandledBy(t)' \subseteq HandledBy(t) \/ t = s
              /\ TasksOf(t)' = TasksOf(t)
    BY <1>1, <2>1 DEF Arrive, HandledBy, TasksOf, ServerTypeOK
  <2>6. UNCHANGED <<limited, server, schema, version, lease, faults>>
    BY <2>1 DEF Arrive
  <2> QED BY <1>1, <2>2, <2>3, <2>4, <2>5, <2>6, RequestsStep DEF ServerTypeOK
<1>3. CASE Limit(r)
  <2>1. TypeOK'
    BY <1>3, CountingStep DEF Limit, Next, Inv
  <2>2. UNCHANGED <<limited, server, schema, version, lease, faults, on, task>>
    BY <1>3 DEF Limit, serverVars
  <2>3. \A t \in Servers : HandledBy(t)' = HandledBy(t) /\ TasksOf(t)' = TasksOf(t)
    BY <2>2 DEF HandledBy, TasksOf
  <2> QED BY <1>1, <2>1, <2>2, <2>3, RequestsStep DEF ServerTypeOK
<1>4. CASE HandOver(r)
  <2>1. TypeOK'
    BY <1>1, <1>4 DEF HandOver, limiterVars, TypeOK
  <2>2. UNCHANGED <<limited, server, schema, version, lease, faults, on>>
    BY <1>4 DEF HandOver
  <2>3. task' \in [Requests -> Servers \cup {NoServer}]
    BY <1>1, <1>4 DEF HandOver, ServerTypeOK
  <2>4. ASSUME NEW t \in Servers
        PROVE /\ HandledBy(t)' = HandledBy(t)
              /\ TasksOf(t)' \subseteq TasksOf(t) \/ HandledBy(t) # {}
    BY <1>1, <1>4 DEF HandOver, HandledBy, TasksOf, ServerTypeOK
  <2> QED BY <1>1, <2>1, <2>2, <2>3, <2>4, RequestsStep DEF ServerTypeOK
<1>5. CASE Answer(r)
  <2>1. TypeOK'
    BY <1>1, <1>5 DEF Answer, End, TypeOK, Limiters
  <2>2. UNCHANGED <<limited, server, schema, version, lease, faults, task>>
    BY <1>5 DEF Answer
  <2>3. on' \in [Requests -> Servers \cup {NoServer}]
    BY <1>1, <1>5 DEF Answer, ServerTypeOK
  <2>4. ASSUME NEW t \in Servers
        PROVE HandledBy(t)' \subseteq HandledBy(t) /\ TasksOf(t)' = TasksOf(t)
    BY <1>1, <1>5, ServerAssumption DEF Answer, HandledBy, TasksOf, ServerTypeOK
  <2> QED BY <1>1, <2>1, <2>2, <2>3, <2>4, RequestsStep DEF ServerTypeOK
<1>6. CASE TaskEnds(r)
  <2>1. TypeOK'
    BY <1>1, <1>6 DEF TaskEnds, limiterVars, TypeOK
  <2>2. UNCHANGED <<limited, server, schema, version, lease, faults, on>>
    BY <1>6 DEF TaskEnds
  <2>3. task' \in [Requests -> Servers \cup {NoServer}]
    BY <1>1, <1>6 DEF TaskEnds, ServerTypeOK
  <2>4. ASSUME NEW t \in Servers
        PROVE HandledBy(t)' = HandledBy(t) /\ TasksOf(t)' \subseteq TasksOf(t)
    BY <1>1, <1>6, ServerAssumption DEF TaskEnds, HandledBy, TasksOf, ServerTypeOK
  <2> QED BY <1>1, <2>1, <2>2, <2>3, <2>4, RequestsStep DEF ServerTypeOK
<1> QED BY <1>2, <1>3, <1>4, <1>5, <1>6 DEF RequestStep

LEMMA ClockStep ==
    ASSUME ServerInv, Inv, LeaseExpires \/ CounterExpires \/ UNCHANGED allVars
    PROVE  ServerInv'
<1>1. ServerTypeOK /\ TypeOK /\ \A t \in Servers : SoundServer(t)
  BY InvIsSound DEF ServerTypeOK
<1>2. UNCHANGED <<limited, server, schema, version, on, task, faults>>
  BY DEF LeaseExpires, CounterExpires, allVars, serverVars, requestVars
<1>3. TypeOK'
  <2>1. CASE CounterExpires
    BY <2>1, CountingStep DEF CounterExpires, Next, Inv
  <2>2. CASE UNCHANGED limiterVars
    BY <1>1, <2>2 DEF limiterVars, TypeOK
  <2> QED BY <2>1, <2>2 DEF LeaseExpires, allVars
<1>4. lease' \in Servers \cup {NoServer, Nobody}
  BY <1>1 DEF ServerTypeOK, LeaseExpires, CounterExpires, allVars, serverVars
<1>5. ASSUME NEW t \in Servers PROVE SoundServer(t)'
  BY <1>1, <1>2 DEF SoundServer, HandledBy, TasksOf
<1>6. ServerTypeOK'
  BY <1>1, <1>2, <1>3, <1>4 DEF ServerTypeOK
<1> QED BY <1>5, <1>6, NextInvIsSound

\* The servers step the limiter only as RateLimiter allows: they implement it.
LEMMA LimiterStep ==
    ASSUME [ServerNext]_allVars PROVE [Next]_vars
<1>1. ASSUME NEW s \in Servers, NEW how, Exit(s, how) PROVE Next
  <2>1. End(HandledBy(s)) /\ HandledBy(s) \in SUBSET Requests
    BY <1>1 DEF Exit, HandledBy
  <2> QED BY <2>1 DEF Next
<1>2. ASSUME NEW s \in Servers, StartStep(s) PROVE Next \/ UNCHANGED vars
  BY <1>1, <1>2 DEF StartStep, LookUp, Migrate, MigrateAgain, MigrateFails, InitServer, Start, Listen,
                    OnlyServer, limiterVars, vars
<1>3. ASSUME NEW s \in Servers, ShutdownStep(s) PROVE Next \/ UNCHANGED vars
  BY <1>1, <1>3 DEF ShutdownStep, BeginShutdown, ShutdownPanics, StartReturns, RouterDown,
                    TasksDown, OtelDown, ShutDown, MainReturns, OnlyServer, limiterVars, vars
<1>4. ASSUME NEW s \in Servers, FaultStep(s) PROVE Next \/ UNCHANGED vars
  BY <1>1, <1>4 DEF FaultStep, InitFails, StartFails, Signal, Kill, LoseLease,
                    limiterVars, vars
<1>5. ASSUME NEW s \in Servers,
             \/ ControllerStep(s) \/ Elect(s) \/ Timeout(s) \/ Restart(s)
             \/ \E r \in Requests : Arrive(r, s)
      PROVE UNCHANGED vars
  BY <1>5 DEF ControllerStep, StopLeading, RunAgain, Elect, Timeout, Restart, Arrive,
              OnlyServer, limiterVars, vars
<1>6. ASSUME NEW r \in Requests, RequestStep(r) PROVE Next \/ UNCHANGED vars
  <2>1. CASE Answer(r)
    <3>1. End({r}) /\ {r} \in SUBSET Requests
      BY <2>1 DEF Answer
    <3> QED BY <3>1 DEF Next
  <2>2. CASE Limit(r)
    BY <2>2 DEF Limit, Next
  <2>3. CASE HandOver(r) \/ TaskEnds(r)
    BY <2>3 DEF HandOver, TaskEnds, limiterVars, vars
  <2> QED BY <1>6, <2>1, <2>2, <2>3 DEF RequestStep
<1>7. CASE LeaseExpires \/ CounterExpires \/ UNCHANGED allVars
  BY <1>7 DEF LeaseExpires, CounterExpires, allVars, limiterVars, vars, Next
<1> QED BY <1>2, <1>3, <1>4, <1>5, <1>6, <1>7 DEF ServerNext

\* The servers implement the limiter: what was proved of it holds of a client's requests
\* whatever servers handle them, die and start again.
THEOREM ServersLimit == ServerSpec => Spec
<1>1. ServerInit => Init
  BY DEF ServerInit
<1> QED BY <1>1, LimiterStep, PTL DEF ServerSpec, Spec

LEMMA InitSound == ServerInit => ServerInv
<1> SUFFICES ASSUME ServerInit PROVE ServerInv
  OBVIOUS
<1> USE ServerAssumption
<1>1. Up \in Process
  <2>1. Migrations \in 0 .. Migrations
    OBVIOUS
  <2>2. ASSUME NEW p \in Process
        PROVE [p EXCEPT !.main = "serve", !.read = Migrations, !.canCancel = TRUE,
                        !.controller = "seeking"] \in Process
    BY <2>1 DEF Process
  <2> QED BY <2>2, FreshIsProcess DEF Up
<1>2. TypeOK
  BY LimitAssumption DEF ServerInit, Init, TypeOK, Limiters
<1>3. ServerTypeOK
  BY <1>1, <1>2, FreshIsProcess DEF ServerTypeOK, ServerInit
<1>4. ASSUME NEW s \in Servers PROVE SoundServer(s)
  <2>1. HandledBy(s) = {} /\ TasksOf(s) = {}
    BY DEF ServerInit, HandledBy, TasksOf
  <2>2. CASE limited
    <3>1. server[s] = Up /\ schema = Migrations
      BY <2>2 DEF ServerInit
    <3>2. Sound(Up, {}, {}, Migrations)
      BY DEF Up, Fresh, Sound
    <3> QED BY <2>1, <3>1, <3>2 DEF SoundServer
  <2>3. CASE ~limited
    <3>1. server[s] = Fresh /\ schema = 0
      BY <2>3 DEF ServerInit
    <3>2. Sound(Fresh, {}, {}, 0)
      BY DEF Fresh, Sound
    <3> QED BY <2>1, <3>1, <3>2 DEF SoundServer
  <2> QED BY <2>2, <2>3
<1> QED BY <1>3, <1>4, InvIsSound

\* The invariant of the servers, together with that of the limiter they implement.
THEOREM ServersSound == ServerSpec => []ServerInv
<1>1. ServerInv /\ Inv /\ [ServerNext]_allVars => ServerInv'
  <2> SUFFICES ASSUME ServerInv, Inv, [ServerNext]_allVars PROVE ServerInv'
    OBVIOUS
  <2>1. ASSUME NEW s \in Servers, StartStep(s) PROVE ServerInv'
    BY <2>1, GoroutineStep, MigrateStep, MigrateAgainStep, EndStep DEF StartStep
  <2>2. ASSUME NEW s \in Servers, ShutdownStep(s) PROVE ServerInv'
    BY <2>2, GoroutineStep, ShutDownStep, EndStep DEF ShutdownStep
  <2>3. ASSUME NEW s \in Servers, FaultStep(s) PROVE ServerInv'
    BY <2>3, GoroutineStep, EndStep DEF FaultStep
  <2>4. ASSUME NEW s \in Servers,
               ControllerStep(s) \/ Elect(s) \/ Timeout(s) \/ Restart(s)
        PROVE ServerInv'
    BY <2>4, GoroutineStep, RestartStep DEF ControllerStep
  <2>5. ASSUME NEW r \in Requests, RequestStep(r) \/ \E s \in Servers : Arrive(r, s)
        PROVE ServerInv'
    BY <2>5, RequestStepKeeps
  <2>6. CASE LeaseExpires \/ CounterExpires \/ UNCHANGED allVars
    BY <2>6, ClockStep
  <2> QED BY <2>1, <2>2, <2>3, <2>4, <2>5, <2>6 DEF ServerNext
<1> QED BY <1>1, InitSound, ServersLimit, Counting, PTL DEF ServerSpec

\* A shutdown without an error loses no request and no function that was handed over, nor
\* does one that panics because it came too early.
THEOREM ShutdownLosesNothing == ServerSpec => []ExitLosesNothing
<1>1. ServerInv => ExitLosesNothing
  BY DEF ServerInv, ExitLosesNothing
<1> QED BY <1>1, ServersSound, PTL

\* Servers that migrate one database at one time, and may run a migration again, serve only
\* when every migration has run.
THEOREM LatestSchemaServed == ServerSpec => []ServesLatestSchema
<1>1. ServerInv => ServesLatestSchema
  BY DEF ServerInv, Migrated, ServesLatestSchema, Accepts
<1> QED BY <1>1, ServersSound, PTL
=============================================================================
