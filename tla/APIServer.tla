------------------------------ MODULE APIServer ------------------------------
(***************************************************************************)
(* The processes of the API server: each sets itself up, migrates the      *)
(* database they share, serves, competes for the lease of the job          *)
(* controller, and shuts down when it is signalled.  A request that is     *)
(* being handled may hand a function to the task runner, which goes on     *)
(* after the answer.  With rate limits, a request takes the steps of       *)
(* RateLimiter before its handler runs.                                    *)
(*                                                                         *)
(* Kubernetes restarts what exited.  A clock is not modelled: a leader     *)
(* that does not renew stops leading (10 s) before its lease expires       *)
(* (15 s).                                                                 *)
(***************************************************************************)
EXTENDS RateLimiter

CONSTANTS
    Servers,        \* places for a process of the API server
    NoServer,
    Nobody,         \* the holder of the lease is a process that is gone
    Migrations,     \* number of migrations of the database
    Repeatable,     \* <<m, n>>: migration m succeeds again when the first n have run
    Unlimited,      \* bound: the requests that arrive where no limits are configured
    MaxFaults       \* bound: signals, kills, failures and lost leases

ASSUME ServerAssumption ==
    /\ NoServer \notin Servers /\ Nobody \notin Servers /\ Nobody # NoServer
    /\ Unlimited \subseteq Requests
    /\ Migrations \in Nat /\ MaxFaults \in Nat
    /\ Repeatable \subseteq (1 .. Migrations) \X (1 .. Migrations)

VARIABLES
    limited,    \* whether rate limits are configured
    server,     \* the process in each place
    schema,     \* number of migrations that have run on the database
    version,    \* that of the newest row in goose's table of versions
    lease,      \* the holder of the lease "competitionapi"
    on,         \* the server that handles each request
    task,       \* the server that runs the function each request handed over
    faults

limiterVars == <<key, at, pc, letIn>>
requestVars == <<on, task>>
serverVars == <<limited, server, schema, version, lease, on, task, faults>>
allVars == <<limiterVars, serverVars>>

\* What the main goroutine does, the goroutine that waits for the signal, and the one of
\* the job controller.
Process == [
    main : {"lookup", "migrate", "start", "listen", "serve", "wait", "exited"},
    read : 0 .. Migrations,             \* the version it last read
    signalled : BOOLEAN,
    canCancel : BOOLEAN,                \* competitionAPIControllerCancel is set
    shutdown : {"signal", "router", "tasks", "otel", "done"},
    expired : BOOLEAN,                  \* the one timeout of Shutdown
    errors : BOOLEAN,                   \* Shutdown joined an error
    controller : {"off", "seeking", "leading", "pausing", "ended"},
    exit : {"none", "clean", "late", "panicked", "died"},
    lost : BOOLEAN]                     \* history: it exited on a request or function

Fresh == [main |-> "lookup", read |-> 0, signalled |-> FALSE, canCancel |-> FALSE,
          shutdown |-> "signal", expired |-> FALSE, errors |-> FALSE,
          controller |-> "off", exit |-> "none", lost |-> FALSE]

Up == [Fresh EXCEPT !.main = "serve", !.read = Migrations, !.canCancel = TRUE,
                    !.controller = "seeking"]

\* A fleet that starts, without limits; or one that serves, with limits and no faults.
ServerInit ==
    /\ Init
    /\ limited \in BOOLEAN
    /\ server = [s \in Servers |-> IF limited THEN Up ELSE Fresh]
    /\ schema = IF limited THEN Migrations ELSE 0
    /\ version = schema
    /\ lease = NoServer
    /\ on = [r \in Requests |-> NoServer]
    /\ task = [r \in Requests |-> NoServer]
    /\ faults = IF limited THEN MaxFaults ELSE 0

ServerTypeOK ==
    /\ TypeOK
    /\ limited \in BOOLEAN
    /\ server \in [Servers -> Process]
    /\ schema \in 0 .. Migrations
    /\ version \in 0 .. schema
    /\ lease \in Servers \cup {NoServer, Nobody}
    /\ on \in [Requests -> Servers \cup {NoServer}]
    /\ task \in [Requests -> Servers \cup {NoServer}]
    /\ faults \in 0 .. MaxFaults

-----------------------------------------------------------------------------

Fault == faults < MaxFaults /\ faults' = faults + 1

HandledBy(s) == {r \in Requests : on[r] = s}

TasksOf(s) == {r \in Requests : task[r] = s}

\* The process ends, with what it handles and runs.
Exit(s, how) ==
    /\ server' = [server EXCEPT ![s] =
           [Fresh EXCEPT !.main = "exited", !.exit = how,
                         !.lost = HandledBy(s) # {} \/ TasksOf(s) # {}]]
    /\ End(HandledBy(s))
    /\ on' = [r \in Requests |-> IF on[r] = s THEN NoServer ELSE on[r]]
    /\ task' = [r \in Requests |-> IF task[r] = s THEN NoServer ELSE task[r]]
    /\ lease' = IF lease = s THEN Nobody ELSE lease
    /\ UNCHANGED <<limited, schema, version>>

\* A step of the goroutines of a server that changes nothing else.
OnlyServer == UNCHANGED <<limited, schema, version, lease, requestVars, faults, limiterVars>>

-----------------------------------------------------------------------------
(* Start *)

\* The loop of goose's UpContext: read the version, run the migration after it.
LookUp(s) ==
    /\ server[s].main = "lookup"
    /\ server' = [server EXCEPT ![s].main = "migrate", ![s].read = version]
    /\ OnlyServer

\* A migration and the row of its version are one transaction.
Migrate(s) ==
    /\ server[s].main = "migrate"
    /\ server[s].read < Migrations
    /\ server[s].read = schema
    /\ schema' = schema + 1
    /\ version' = schema + 1
    /\ server' = [server EXCEPT ![s].main = "lookup"]
    /\ UNCHANGED <<limited, lease, requestVars, faults, limiterVars>>

\* Whether the migration after the one the server read succeeds on top of itself and of
\* what ran since: a default that is set, an UPDATE, or a name that is free again.
Repeats(s) == \E n \in 1 .. schema : <<server[s].read + 1, n>> \in Repeatable

\* Another server ran the migration first, and it runs again: its row is now the newest.
MigrateAgain(s) ==
    /\ server[s].main = "migrate"
    /\ server[s].read < schema
    /\ Repeats(s)
    /\ version' = server[s].read + 1
    /\ server' = [server EXCEPT ![s].main = "lookup"]
    /\ UNCHANGED <<limited, schema, lease, requestVars, faults, limiterVars>>

\* Mutant: a migration that fails is logged.
MigrateFailureLogged(s) ==
    /\ server[s].main = "migrate"
    /\ server[s].read < schema
    /\ ~Repeats(s)
    /\ server' = [server EXCEPT ![s].main = "start"]
    /\ OnlyServer

\* It fails ("already exists"), and with it the start.
MigrateFails(s) ==
    /\ server[s].main = "migrate"
    /\ server[s].read < schema
    /\ ~Repeats(s)
    /\ Exit(s, "died")
    /\ UNCHANGED faults

\* The rest of initServer leaves no state behind.
InitServer(s) ==
    /\ server[s].main = "migrate"
    /\ server[s].read = Migrations
    /\ server' = [server EXCEPT ![s].main = "start"]
    /\ OnlyServer

\* Any step of initServer may fail; after the signal its context is done.
InitFails(s) ==
    /\ server[s].main \in {"lookup", "migrate"}
    /\ IF server[s].signalled THEN UNCHANGED faults ELSE Fault
    /\ Exit(s, "died")

\* Mutant: the cancel function is set when the router has returned.
StartCancelsLater(s) ==
    /\ server[s].main = "start"
    /\ server' = [server EXCEPT ![s].main = "listen", ![s].controller = "seeking"]
    /\ OnlyServer

Start(s) ==
    /\ server[s].main = "start"
    /\ server' = [server EXCEPT ![s].main = "listen", ![s].canCancel = TRUE,
                                ![s].controller = "seeking"]
    /\ OnlyServer

\* A router that was shut down does not listen any more.
Listen(s) ==
    /\ server[s].main = "listen"
    /\ server' = [server EXCEPT ![s].main =
                      IF server[s].shutdown = "signal" THEN "serve" ELSE "wait"]
    /\ OnlyServer

\* The clients are not made, the port is taken, or the listener fails: main exits
\* without a shutdown.
StartFails(s) ==
    /\ server[s].main \in {"start", "listen", "serve"}
    /\ server[s].shutdown = "signal"
    /\ Fault
    /\ Exit(s, "died")

-----------------------------------------------------------------------------
(* Shutdown *)

Signal(s) ==
    /\ server[s].main # "exited"
    /\ ~server[s].signalled
    /\ Fault
    /\ server' = [server EXCEPT ![s].signalled = TRUE]
    /\ UNCHANGED <<limited, schema, version, lease, requestVars, limiterVars>>

\* The goroutine that waits for the signal exists when initServer has returned.
GotSignal(s) ==
    /\ server[s].main \notin {"lookup", "migrate", "exited"}
    /\ server[s].signalled
    /\ server[s].shutdown = "signal"

BeginShutdown(s) ==
    /\ GotSignal(s)
    /\ server[s].canCancel
    /\ server' = [server EXCEPT ![s].shutdown = "router"]
    /\ OnlyServer

\* Start has not set the function that Shutdown calls first.
ShutdownPanics(s) ==
    /\ GotSignal(s)
    /\ ~server[s].canCancel
    /\ Exit(s, "panicked")
    /\ UNCHANGED faults

StartReturns(s) ==
    /\ server[s].main = "serve"
    /\ server[s].shutdown # "signal"
    /\ server' = [server EXCEPT ![s].main = "wait"]
    /\ OnlyServer

\* The serialized steps of Shutdown: each ends well, or with an error, of its own or
\* that of the timeout.
ShutDown(s, step, well, next) ==
    /\ server[s].shutdown = step
    /\ well \/ server[s].expired
    /\ \E failed \in BOOLEAN :
        /\ failed \/ well
        /\ failed => server[s].expired \/ step # "tasks"
        /\ server' = [server EXCEPT ![s].shutdown = next,
                                    ![s].errors = @ \/ failed]
    /\ OnlyServer

\* Mutants: the router is closed; the tasks are waited for without the timeout.
RouterClosed(s) == ShutDown(s, "router", TRUE, "tasks")

TasksDownForever(s) == TasksOf(s) = {} /\ ShutDown(s, "tasks", TRUE, "otel")

RouterDown(s) == ShutDown(s, "router", HandledBy(s) = {}, "tasks")

TasksDown(s) == ShutDown(s, "tasks", TasksOf(s) = {}, "otel")

OtelDown(s) == ShutDown(s, "otel", TRUE, "done")

Timeout(s) ==
    /\ server[s].shutdown \in {"router", "tasks", "otel"}
    /\ ~server[s].expired
    /\ server' = [server EXCEPT ![s].expired = TRUE]
    /\ OnlyServer

\* An error of Shutdown is logged; the exit status is 0 with it and without.
MainReturns(s) ==
    /\ server[s].main = "wait"
    /\ server[s].shutdown = "done"
    /\ Exit(s, IF server[s].errors THEN "late" ELSE "clean")
    /\ UNCHANGED faults

Kill(s) ==
    /\ server[s].main # "exited"
    /\ Fault
    /\ Exit(s, "died")

Restart(s) ==
    /\ server[s].main = "exited"
    /\ server' = [server EXCEPT ![s] = Fresh]
    /\ OnlyServer

-----------------------------------------------------------------------------
(* The job controller *)

\* A process keeps the lease it holds; that of another must have expired.
Elect(s) ==
    /\ server[s].controller = "seeking"
    /\ ~server[s].signalled
    /\ lease \in {NoServer, s}
    /\ lease' = s
    /\ server' = [server EXCEPT ![s].controller = "leading"]
    /\ UNCHANGED <<limited, schema, version, requestVars, faults, limiterVars>>

\* With its context done, RunOrDie returns and so does Run.
StopLeading(s) ==
    /\ server[s].signalled
    /\ server[s].controller \in {"seeking", "leading", "pausing"}
    /\ server' = [server EXCEPT ![s].controller = "ended"]
    /\ OnlyServer

\* The lease is not renewed in time, or the informer is not made: RunOrDie returns, and
\* Run pauses for 30 seconds.
LoseLease(s) ==
    /\ server[s].controller = "leading"
    /\ Fault
    /\ server' = [server EXCEPT ![s].controller = "pausing"]
    /\ UNCHANGED <<limited, schema, version, lease, requestVars, limiterVars>>

\* Mutant: one round only.
RunOnce(s) ==
    /\ server[s].controller = "pausing"
    /\ server' = [server EXCEPT ![s].controller = "ended"]
    /\ OnlyServer

RunAgain(s) ==
    /\ server[s].controller = "pausing"
    /\ ~server[s].signalled
    /\ server' = [server EXCEPT ![s].controller = "seeking"]
    /\ OnlyServer

\* Nobody gives the lease back.
LeaseExpires ==
    /\ lease # NoServer
    /\ lease \in Servers => server[lease].controller # "leading"
    /\ lease' = NoServer
    /\ UNCHANGED <<limited, server, schema, version, requestVars, faults, limiterVars>>

-----------------------------------------------------------------------------
(* Requests *)

Accepts(s) == server[s].main = "serve" /\ server[s].shutdown = "signal"

Arrive(r, s) ==
    /\ on[r] = NoServer
    /\ Accepts(s)
    /\ limited \/ r \in Unlimited
    /\ on' = [on EXCEPT ![r] = s]
    /\ UNCHANGED <<limited, server, schema, version, lease, task, faults, limiterVars>>

Limit(r) ==
    /\ limited
    /\ on[r] # NoServer
    /\ Allow(r)
    /\ UNCHANGED serverVars

CounterExpires == Expire /\ UNCHANGED serverVars

\* taskrunner.Run: the function outlives the request and its context.
HandOver(r) ==
    /\ on[r] # NoServer
    /\ limited => pc[r] = "handle"
    /\ task[r] = NoServer
    /\ task' = [task EXCEPT ![r] = on[r]]
    /\ UNCHANGED <<limited, server, schema, version, lease, on, faults, limiterVars>>

Answer(r) ==
    /\ on[r] # NoServer
    /\ on' = [on EXCEPT ![r] = NoServer]
    /\ End({r})
    /\ UNCHANGED <<limited, server, schema, version, lease, task, faults>>

TaskEnds(r) ==
    /\ task[r] # NoServer
    /\ task' = [task EXCEPT ![r] = NoServer]
    /\ UNCHANGED <<limited, server, schema, version, lease, on, faults, limiterVars>>

-----------------------------------------------------------------------------

StartStep(s) ==
    \/ LookUp(s) \/ Migrate(s) \/ MigrateAgain(s) \/ MigrateFails(s)
    \/ InitServer(s) \/ Start(s) \/ Listen(s)

ShutdownStep(s) ==
    \/ BeginShutdown(s) \/ ShutdownPanics(s) \/ StartReturns(s)
    \/ RouterDown(s) \/ TasksDown(s) \/ OtelDown(s) \/ MainReturns(s)

ControllerStep(s) == StopLeading(s) \/ RunAgain(s)

FaultStep(s) == InitFails(s) \/ StartFails(s) \/ Signal(s) \/ Kill(s) \/ LoseLease(s)

RequestStep(r) == Limit(r) \/ HandOver(r) \/ Answer(r) \/ TaskEnds(r)

ServerNext ==
    \/ \E s \in Servers :
        \/ StartStep(s) \/ ShutdownStep(s) \/ ControllerStep(s) \/ FaultStep(s)
        \/ Elect(s) \/ Timeout(s) \/ Restart(s)
        \/ \E r \in Requests : Arrive(r, s)
    \/ \E r \in Requests : RequestStep(r)
    \/ LeaseExpires
    \/ CounterExpires

\* The goroutines of a server run, clocks advance and Kubernetes restarts; nothing is
\* assumed of handlers, of the functions they hand over, nor of clients.
ServerSpec ==
    /\ ServerInit
    /\ [][ServerNext]_allVars
    /\ \A s \in Servers :
        /\ WF_allVars(StartStep(s))
        /\ WF_allVars(ShutdownStep(s))
        /\ WF_allVars(ControllerStep(s))
        /\ WF_allVars(Elect(s))
        /\ WF_allVars(Timeout(s))
        /\ WF_allVars(Restart(s))
    /\ WF_allVars(LeaseExpires)

-----------------------------------------------------------------------------

\* What the steps of Shutdown leave behind when none of them has failed.
Drained ==
    \A s \in Servers : ~server[s].errors =>
        /\ server[s].shutdown \in {"tasks", "otel", "done"} => HandledBy(s) = {}
        /\ server[s].shutdown \in {"otel", "done"} => TasksOf(s) = {}

\* A server that has not set its cancel function has not served, nor begun a shutdown.
CancelBeforeServing ==
    \A s \in Servers :
        /\ ~server[s].canCancel <=>
               server[s].main \in {"lookup", "migrate", "start", "exited"}
        /\ ~server[s].canCancel => /\ server[s].shutdown = "signal"
                                  /\ HandledBy(s) = {} /\ TasksOf(s) = {}

\* Nobody has read a version that has not run, and only the latest lets a server start.
Migrated ==
    \A s \in Servers :
        /\ server[s].read <= schema
        /\ server[s].main \in {"start", "listen", "serve", "wait"} => schema = Migrations

\* A Shutdown without an error has lost nothing: every request on the server was answered
\* and every function handed over, by the last of them too, has ended.  The order of the
\* steps of Shutdown and the timeout they share make it so.
CleanExitLosesNothing ==
    \A s \in Servers : server[s].exit = "clean" => ~server[s].lost

\* A signal that comes before Start has set the cancel function makes Shutdown panic, but
\* at that time the server has not served anybody.
PanicLosesNothing ==
    \A s \in Servers : server[s].exit = "panicked" => ~server[s].lost

\* What a server leaves undone it tells: it exited late or died.
ExitLosesNothing == CleanExitLosesNothing /\ PanicLosesNothing

\* No server serves from a schema that lacks a migration, with servers that migrate the
\* same database at one time, run a migration again and may die between migrations: the
\* version may go back, but what has run has run (migrations.Up, initServer).
ServesLatestSchema ==
    \A s \in Servers : Accepts(s) => schema = Migrations

\* The inductive invariant of the servers: the types, what has been shut down, and what
\* was done before serving.
ServerInv ==
    /\ ServerTypeOK
    /\ Drained /\ CancelBeforeServing /\ Migrated
    /\ CleanExitLosesNothing /\ PanicLosesNothing

\* The server that is signalled ends, whatever its handlers and functions do.
SignalEndsServer ==
    \A s \in Servers : server[s].signalled ~> server[s].main = "exited"

\* The version went back behind what has run, and of the servers that had started none
\* is left: every start now runs a migration on top of itself, and fails.
StuckBehindSchema ==
    /\ version < schema
    /\ \A s \in Servers : server[s].main \in {"lookup", "migrate", "exited"}

\* After any loss of the lease, shutdown or death of the leader, some server leads again
\* and processes the updates of jobs (Run, its loop over the election).  Only a version
\* that went back ends this, and then not while a server that had started lives.
LeadershipReturns ==
    \/ []<>(\E s \in Servers : lease = s /\ server[s].controller = "leading")
    \/ <>[]StuckBehindSchema
=============================================================================
