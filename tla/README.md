# Verification of the competition API

TLA+ specifications of the AIxCC competition API (`src/competition-api`), the
configurations that check them with TLC, and proofs checked by TLAPS. The modules
follow the Go source; the comments name the functions they stand for, and
`PROJECT.json` maps each definition to lines.

To check a model: `tlc -config pipeline.cfg MCEvalPipeline`. To check a proof:
`tlapm EvalPipeline_proofs.tla`.

## 1. The system

Teams (more exactly their CRSs, cyber reasoning systems) get tasks from the
competition, and submit proofs of vulnerability (POVs), patches, SARIF reports,
assessments of broadcast SARIF reports, and bundles of these. The API runs as several
replicas of one server process. They share a PostgreSQL database, a Redis, an Azure
storage queue and blob container, and a Kubernetes cluster in which they start one job
for each evaluation, delivery and cancellation. Workers in these jobs talk back through
the results queue, and in no other way.

```
 team --HTTP--> routes/v1 ---insert---> PostgreSQL <--decide-- queue monitor  (every server)
                   |                        ^                      ^
                   | create job             | decide (errored)     | receive, delete
                   v                        |                      |
               Kubernetes --job failed--> controller (leader)   results queue
                   |                                               ^
                   +--pod--> worker eval ---reports, final message-+

 GitHub --webhook--> task runner ---insert task, create job---> worker broadcast --HTTP--> CRSs
```

| Component | State | Operations | Hard because | Correct when |
|---|---|---|---|---|
| Submission handlers (`routes/v1/pov.go`, `patch.go`) | the row, the request | insert, archive, create job, respond | three systems, no transaction over them | a 200 means an evaluation was started |
| Submission rows and audit log | status, functionality_tests_passing, audit lines | the conditional UPDATE of both deciders | two writers on every server, audit before commit | one verdict, for good, and the audit log has it |
| Results queue (`internal/queue/azure.go`) | messages, visibility | enqueue, receive, delete | at-least-once, no order, stale pop receipts | nothing is deleted before it is handled |
| Queue monitor (`jobs/queue_monitor.go`) | the message it holds | HandleFinalMessage, the report handlers | redelivery, timeouts, failing statements | a verdict is never lost |
| Job controller (`jobs/controller.go`) | work queue, leadership | handleJobUpdate | leaders overlap, races the monitor | only what failed is errored, all jobs are removed |
| Evaluation jobs (templates) | the job, its pod | start, succeed, fail, be disrupted | a disrupted pod starts over | exit code 0 only with a message in the queue |
| Evaluation worker (`cmd/worker`) | its stage, what it reported, the deadline | Evaluate and the runs under it | a deadline at any time, retries | the verdict rests on what the tools said |
| Job runner (`routes/jobrunner`) | cache of rows, jobs, reports | doJobWork, report handlers | a job inside a transaction, a cache, reports in any order | what is in the cache was started; reports are kept |
| Other submissions (`routes/v1/submitted_sarif.go`, `freeform.go`, `broadcast_sarif.go`, `internal/archive`) | a row, a file, an audit line | submit a SARIF report, a freeform submission, an assessment | three stores, any of them may fail | what a team was told of is on record in all three |
| Bundles (`routes/v1/bundle.go`) | rows, copies in requests | submit, get, patch, delete | a PATCH saves the copy read at its start | a bundle is always valid, and what it names is on record |
| Scripts (`scripts/run_pov.sh`, `build_cr.sh`, `run_tests.sh`, `helper.py`, `crash_interpret_config.py`) | files in /tmp | reproduce, build, test | one exit code means different things to each layer | trouble is no verdict, and a verdict is true |
| Uploads and artifacts (`upload`, `hash`, `HandleArtifactMessage`) | blobs, the archive, the audit log | Hashed with retries, archive, audit | readers that are used up, a file that is left over | what is named is stored, whole |
| API server (`server/main.go`, `taskrunner`, `migrations`, `controller.go`) | its goroutines, the lease, the schema | start, migrate, serve, lead, shut down | a fleet that restarts, one timeout for everything | a clean exit loses nothing, some server leads |
| Rate limiter (`ratelimit/redis.go`, `routes/v1/v1.go`) | a counter that expires | Allow, by two limiters | three commands, no transaction | nobody is shut out for good |
| Webhook and challenges (`webhooks/github.go`, `challenges`) | tasks, SARIF broadcasts | scans, code scanning hooks | redelivery, partial failure, the page loop | one broadcast per task; nothing is sent that is not on record |
| Delivery (`worker/internal/behavior`) | attempts at each CRS | Deliver, retries | lost answers, disrupted pods | what is told of a delivery is so |
| Cancellation (`routes/competition/cancel.go`, `worker/cmds/cancel.go`) | the job | CancelTask, the worker | its command line | a cancellation fails only when too late |

`PROJECT.json` has the full list of components, the ones not modelled included, and
the hazards of each with their lines.

## 2. Modules

### The pipeline of a submission

| Module | Stands for |
|---|---|
| `SubmissionStore` | rows, row locks, open transactions, the audit stream |
| `ResultsQueue` | the Azure queue as `AzureQueuer` uses it |
| `EvalJobs` | the job of a submission and its worker, seen from outside |
| `QueueMonitor` | the monitor loop and `HandleFinalMessage` |
| `JobController` | `handleJobUpdate` for evaluation jobs |
| `SubmissionAPI` | `SubmitPOV`, `SubmitPatch` from the insert on |
| `EvalPipeline` | the composition; crashes; all properties |
| `Verdict` | the abstract promise: one verdict, found by an evaluation, for good |
| `EvalPipeline_proofs`, `EvalPipelineAudit_proofs` | the proofs |

State and code. `row[s]` and `tests[s]` are the committed columns. A transaction
between its UPDATE and its commit is a member of `txs`: it holds the lock of its row,
and a second UPDATE waits for it and then evaluates its WHERE on what was committed
(read committed). `audited[s]` is what `AuditLogSubmissionResult` printed. A delivery of
a message to a server, a reconciliation of a job and a request past its insert are
records with the step they are at; every step between two calls to another system is an
action. `job`, `worker` are the Kubernetes side. `evidence[s]` is a history variable:
the verdicts evaluations of `s` arrived at, with "errored" for a failed job. Every
message carries one of these; the code never reads the variable.

Each failure is an action of its own in the last section of a module, counted by
`faults` and bounded by `MaxFaults`: an error before a step had its effect, an answer
lost after it had, a transaction the database ended, a visibility timeout while a
handler runs (this one is no fault: it happens at any time), a duplicated enqueue, a pod
killed or disrupted, a crash of a server with everything in its memory. A deposed
leader's workers finish what they hold, so `ProcessJobUpdate` is not guarded by a lease:
any server may be at any job.

Worth knowing when reading `QueueMonitor`: the closure of HandleFinalMessage returns the
outer `err`, which is nil when the UPDATE fails; only the COMMIT of the aborted
transaction, which then fails, keeps the message in the queue. The model has the two
steps apart. A message for which no row changed counts as handled before and is deleted.

### The worker

`Evaluator` is the inside of `worker eval`: the main thread with its select between the
deadline and the result, and the goroutine that goes through the stages, uploads the
output of a run, sends reports and returns the verdict. `seen` is a history variable: in
each stage, what happened and what the engine made of it. `results`, `artifacts` and
`final` are the messages in the queue. The exit codes of the runs of a POV are looked at
one after the other (`aixcc.go:328-342`): the loop must stop at the first crash.

`Scripts` says what the engine makes of what happens. It is the exit codes all the way
up: docker's, what `helper.py` makes of it (`--propagate_exit_codes`, `--err_result`, an
exception it does not catch), what the scripts make of that (0, 201, 202; for a
reproduction by way of `crash_interpret_config.py` and the rules of
`ossfuzz_config.yaml`), and what the engine does (passed, errored, failed). The command
lines the engine builds are sets of options, so that a missing one shows. What happened is
an `event`; the program never reads it, the properties compare it with the verdict. Some
events the engine cannot tell from a fault of the submission (`LooksLikeAFault`), and the
properties name these rather than assume them away:

* `mishap`, around a build, the tests or a patch: helper.py raises an exception; the copy of
  the source fails in the container (`helper.py:998`, `run_tests.sh:46`), or a download with
  a message other than the two that Build searches for; a process in the container, the
  docker client or git is killed; a patch file is lost. The exit code says no more than that
  of a compiler error or a failed test, so the patch fails. On the head and the base a build
  that fails is an error, so a mishap can only cost a patch.
* `killed`: the reproduction is killed from outside, by the OOM killer or the daemon. For
  a build and the tests 137 is a docker error (`build_cr.sh:81`, `run_tests.sh:53`), for a
  reproduction `ossfuzz_config.yaml:231-233` and `:249-251` make 137 and 143 a crash
  (212): on the head the POV passes without one, on the base or after a patch the
  submission fails.
* `late`: what tells of a crash or a trouble is not there when the output is judged, since
  `run_pov.sh:67` copies stderr with a tee that nothing waits for, or since the docker
  client that would pass the exit code on was killed. It looks like no crash.

An event that ends with a code or a mark that says so is `prevented`, whatever its cause (a
build that was killed with 137, a download whose message is searched for).

`Uploads` is the store of the worker's blobs with Hashed and RetryUploader: a reader
has a position, hashing and a failed upload move it to the end, an attempt stores what is
left. `Artifacts` adds the results monitors that copy a reported `fuzz.out` to the archive
and print the audit line, with a message that may be handled again and by two servers at
once, and a server that stops at any point.

`Artifacts_proofs` has the proofs of both. `EvaluatorInPipeline` shows the worker to be
the one that `EvalJobs` assumes (`WorkerOfThePipeline`, a refinement of the steps that the
pipeline sees); `Evaluator_proofs` proves it.

### The job runner

`JobRunner` has doJobWork with its cache (newest row of a key), the INSERT that nobody
else sees before the commit, the Kubernetes job that is created in between, and the
writers of the row. Reception, handling and deletion of a message are one step, since
each handler is one UPDATE here; that a message is handled twice is `HandledAgain`. The
queue is a bag. `reported` and `early` are history variables: what was ever reported,
and the jobs of which something was handled before their row was committed. Such a
message matches no row, which is no error, and is deleted: whatever it said is gone.
That needs a worker faster than the COMMIT that follows its job, or a commit that never
comes, so the properties make the exception explicit in `early` rather than ignore it.

### Tasks and deliveries

`Tasking` (with `Delivery`) has the functions the webhook and the challenge handler
leave to the task runner: a scan packages, inserts its task, archives, sends, reacts; a
hook looks up the task of a commit, checks for an earlier broadcast, pages through the
analyses, inserts under the unique constraint, archives and sends. `Delivery` is the
worker that posts a message to all its recipients until each accepted or the time is up,
on a pod that may be disrupted and start over. `Cancellation` is the cancel job, on the
same worker, up to its command line.

### The API server and its rate limiter

`APIServer` is a fleet of server processes, each a record of where its goroutines are: the
main one (look-up, migrate, start, listen, serve, wait, exited), the one that waits for
the signal and runs Shutdown (router, then task runner, then telemetry, under one
timeout), and the one of the job controller (seeking the lease, leading, pausing 30 s).
They share the schema, which each migrates when it starts, and the lease. A request is on
a server; its handler may hand a function to the task runner before it answers. Signals,
kills, failures and lost leases are faults; Kubernetes restarts what exited. `lost` is a
history variable: the process exited while a request or function was on it.

goose reads the version before each migration (`LookUp`) and takes no lock, so two
servers may be at the same migration. What then happens to the second depends on the
migration: most fail ("already exists") and the start with them (`MigrateFails`); some
succeed again (`MigrateAgain`, for the pairs in `Repeatable`), and goose adds a row for
a version that was there. `schema` is the last migration that ran, `version` the newest
row, and the second may fall behind the first. In the code the pairs are 0031 and 0033
as soon as they have run (a default that is set, an UPDATE with a WHERE), 0002 once 0023
has run and 0016 once 0022 has (the table was renamed, the column dropped). Server A has
read 30 and is about to run 0031, B runs 0031 and 0032, then A's 0031 succeeds and its
row, 31, is the newest. Now 0032 fails on every start of every server ("column already
exists"). The servers that had started go on; once they are gone none serves or leads
until somebody repairs the table. `ServesLatestSchema` holds all the same, and
`LeadershipReturns` names this as its one exception (`StuckBehindSchema`).

`RateLimiter` has the three Redis commands of Allow interleaved with the expiry of the
key, for the global limiter and, for a submission, the limiter of submissions after it:
both count under one key (`v1.go:130`, `:168`), so a submission counts twice and either
may create the counter with its own limit. `APIServer` extends it: a request passes its
limiters on the server that has it, and every step of the servers is a step of
RateLimiter or leaves it alone (`ServersLimit`).

### Bundles and the submissions they refer to

`OtherSubmissions` has SubmitSarif, SubmitFreeform and SubmitSarifAssessment, which nothing
decides on later: `handler[i]` is where the request for row `i` is, `table`, `archived` and
`logged` are what it left in the three places. A request may fail between any two of them,
and what it left stays.

`Bundles` extends it with SubmitBundle, GetBundle, PatchBundle and DeleteBundle and the
copy of the row a request reads at its start. GORM's Save is modelled as what it does: an
UPDATE of all columns, and, when that finds no row (the bundle was soft-deleted meanwhile),
an upsert that writes them all, `deleted_at` included. The query that checks what a bundle
names (`Linkable`) finds a SARIF or freeform row as soon as it is inserted, before its file
is archived. That a bundle never names such a half-made submission rests on something the
model assumes (`Nameable`): a team names the ids of submissions it was told, since the rows'
ids (`uuidv7_sub_ms()`) cannot be guessed, and a handler tells the id last.

## 3. Runs

Expected to pass:

| Run | Bounds | Shows |
|---|---|---|
| `pipeline` | one patch, two servers, three messages, two failures | a verdict is never lost (`VerdictNotLost`), the audit log has it and a stray line only per failure (`AuditTellsTheVerdict`), functionality_tests_passing belongs to it (`TestsGoWithVerdict`), a 200 is honest (`AckMeansStarted`), a decided row stays (`VerdictIsFinal`), and every step is one of `Verdict` (`KeepsPromise`) |
| `live` | the same with two messages and one failure | an acknowledged submission is decided, every job is removed, the queue is emptied, `Verdict` is implemented with its liveness (`FulfilsPromise`) |
| `evaluator` | every combination of inputs | a passed submission is what it claims, whatever exit codes said so (`PassedIsTrue`), a failed one has a fault (`FailedHasAFault`), both but for the events of `LooksLikeAFault`, failed tests mean tests (`TestsFailedMeansTests`), a verdict's runs were reported, what is reported is stored whole and what is audited is archived (`EvidenceIsKept`), the fuzz.out of a verdict is of its run (`FuzzOutIsOfItsRun`), the worker ends, and is that of the pipeline |
| `jobrunner` | two requests of one key, two rows, one failure | `CommittedIsStarted`, `ReportsNotLost`, `JobVerdictNotLost`, `JobVerdictIsFinal`, `AnsweredIsDecided`: the same promises for this queue and its writers, but for jobs of which a message was handled early |
| `tasking` | one scan, two deliveries of an alert, two CRSs, one failure | who gets what, how often, and what is told of it (a thumbs-up is of a complete task, and of one that was sent unless something failed: the error of a delivery job is dropped, `challenges.go:613`); of the finitely many deliveries none runs in the end (`DeliveryEnds`) |
| `bundles` | one bundle, two requests at one time, two submissions | a bundle has at least two fields (`BundlesHaveEnough`), and only refers to rows of its own, which are archived and in the audit log (`BundlesReferToRecords`); late bundles stay, and so do deleted ones but for requests that had read them before (`DeletedIsOutOfReach`: PatchBundle's upsert does bring such a row back) |
| `ratelimit` | two servers, three migrations, two of which can be repeated, two faults; two requests, one of them a submission, limits 3 and 2 | an exit that reports no error, or that panics early, loses nothing (`ExitLosesNothing`), no server serves an old schema, a signalled server ends, some server leads again and again unless the version went back (`LeadershipReturns`); nobody is shut out for good (`NoLockout`), nobody is refused early (`NoEarlyRefusal`) |

The inductive invariants (`IInv`, `AuditInv`, `TestsInv`, `ArchiveInv`, `ServerInv`,
`Inv`) are proved and not run: they are for every value of the constants what a run would
show for one.

Expected to find a violation. Each is a statement of the repository that the code does
not keep:

| Run | The repository says | The code does |
|---|---|---|
| `unstarted` | all submissions marked accepted will be evaluated (`submission_status.go:9`) | a row is inserted as accepted first; when the archive or the job fails it stays accepted for good |
| `evaluator_null` | null indicates the tests have not been run (`patch.go:12`) | the monitor stores the negation of testsFailed for every patch, so true for one that did not build |
| `ratelimit_extra` | at most N-1 extra requests (`redis.go:26`) | only exactly 0 refuses; the race takes the counter below, and then everything is let in until it expires |
| `sarif_pages` | on the last page give up (`github.go:452`) | GitHub's last page names no last page, so the loop starts again from page 0; only an error, such as an expired token, ends it |
| `cancel` | a cancel job fails because the tasks have expired (`worker/cmds/cancel.go:85`) | the job passes `-d`, which is no flag of the command: every one fails at once |

### Why the bounds are enough

The two deciders interact through one row, so one submission and two servers show every
race between them: two monitors, two controllers, one of each. Three messages allow a
duplicated enqueue and one more of a disrupted pod's second evaluation. With two failures,
one can put the system in an odd state and the other can hit its recovery. What holds for
any number of them is proved (section 5). A POV is a patch without tests: its row differs
in `tests` only, and `unstarted` has one. `ratelimit` starts in one of two worlds: limits
configured, servers up and no fault to come, so that the race of two requests is explored
in full; or no limits, one request, servers that start from nothing, and two faults, one
to put the fleet in an odd state and one to hit it there. A request with its function is
enough to be lost, two servers to migrate concurrently and to pass the lease. Of three
migrations the second can be repeated at once, like 0031 and 0033, and the first after the
third, like 0002 after 0023, so that the version goes back by one and by two. `MaxLetIn`
(4) bounds how many requests are counted as let in while a counter lives, above the
limits. The evaluator needs no bound but those of the code (four builds, three runs). In
`bundles` one request must be able to overtake another, and two submissions allow one of
each kind a bundle can name, or one half-made while the other is finished; bundles do not
refer to bundles, so one is enough. POVs, patches and broadcasts are there before and
after (`Owned`, empty in the run): the proof has them. In `jobrunner` two requests of one key
cover the race, the hit and the override; other keys share no row. In `tasking` the two
deliveries of an alert are the redelivery, one CRS besides the requesting one is what must
not get a requested task. All cfgs but `ratelimit.cfg` switch off the deadlock check
because each system may stop: once every request is answered and every job gone nothing
more has to happen.

### Fairness

Weak fairness of the loops (monitor, controller workers, request handlers, task runner) of
each server: they are goroutines that run as long as the process, and a server that died
is restarted by Kubernetes. Of each worker: Evaluate has a deadline of eight hours, a
delivery one from its task. Of the visibility timeout and of deadlines: time passes. In
`APIServer`: of each goroutine of a server, of Kubernetes restarting what exited, of the
timeout of a shutdown, the expiry of a lease and of a key, which are clocks; none of
handlers and background functions, which may hang. No fairness for what a team, GitHub or
a failure does. Failures are finitely many in a behaviour; liveness under failures for
ever cannot be had. What this takes on trust: that Kubernetes runs a pod in the end, and
that a CRS answers or closes the connection: the HTTP client of the delivery has no
timeout, so a CRS that holds a connection open holds its delivery for ever.

## 4. What the models leave out

* Messages live for seven days in the queue; a queue that is not served for a week
  loses them. The models have no such limit.
* The informer's cache: any server may see any finished job at any time, which includes
  seeing it late or never until a resync. A deployment without a Kubernetes client
  (`JobClient == nil`) starts no job at all and is a development set-up.
* Server clocks agree. The deadline check uses the time a request came in.
* The audit lines of bundles are not modelled.
* Artifact messages stay in the queue of `Artifacts`: each may come again at any time.
  That all of them are archived in the end is not stated, as their handler may fail for
  ever.
* `FailOpen` of the rate limit configuration is not read by the code (`redis.go:59`);
  a GET that fails refuses the request.
* A sanitizer report with exit code 0 is no crash, although a comment of
  `ossfuzz_config.yaml` has 213 for it; `Scripts` does what the rules do.
* A report that is handled twice is appended twice in the row of a job; `JobRunner` has
  sets of reports, as nothing is promised on copies.
* Full and delta scans have the same control and are one scan.
  `Generate.RoundID` is assumed to differ from `RoundID`; the deployment sets both.
* A SARIF broadcast may reach a CRS before the task it is about, or although that task
  was never sent; possible in `Tasking`, promised nowhere.
* `CancelAllTasks` compares with `CURRENT_TIMESTAMP()`, which PostgreSQL does not
  accept (`cancel.go:64`): always a 500 with no effect. `OutOfBudget` prints one audit
  line.
* What makes a SARIF report, a freeform submission or an assessment one that is refused
  (the schema, the size, the task of the broadcast) is left out: it leaves no trace.
* Authentication is a function of one request; configuration, telemetry and mock servers
  have no state a property could be about.
* Of the migrations, `APIServer` has the order and which succeed a second time
  (`Repeatable`), and not what a repetition leaves in the schema: 0002 and 0016 would
  add the table or column again that a later migration renamed or dropped, and a third
  run of either would fail. The model lets it succeed, after which the version is what
  it was and the same migration fails one step later.

## 5. Proofs

All theorems are for any values of the constants that satisfy the named assumptions.

**`EvalPipeline_proofs`.** `TypeCorrect`, `Inductive` (`Spec => []IInv`),
`NothingIsLost`, `WritersExclude`, `AckIsHonest`, `VerdictsAreFinal`,
`PipelineKeepsPromise` (the pipeline implements the safety of `Verdict`). The argument:

* `VerdictNotLost` is not inductive. A message is deleted by a delivery at its last
  step, so that step must imply that the row is decided (`DeletedIsDecided`), and what is
  deleted must be the message that was handled, although its lease may have passed to
  another server: message identities are unique, a server has one delivery, and a lease
  a server holds is of its delivery (`LeasesMatchDeliveries`).
* A job completes only after its worker sent a message, and between the two the message
  must still be there or the row be decided (`ExitingHasSent`).
* A second verdict would need two transactions of one row, or one on a decided row; the
  lock and the WHERE exclude both (`OneWriterPerRow`).
* For `Verdict`: a commit must store something an evaluation found, which travels
  through messages, deliveries and reconciliations (`VerdictsHaveEvidence`,
  `JobsFollowRows`); an insert must be of a row nobody inserted and a job be created
  once for a row that was in time (`RequestsPrecedeJobs`).

Each action of each component has a lemma; the theorem is their case split.

**`EvalPipelineAudit_proofs`.** `AuditTellsTruth`, `TestsComeWithVerdict`. Both rest on
one case split (`EveryMove`): a step opens a transaction, prints its line, commits it,
creates a row, or leaves the tables alone, and only a failure loses a transaction.
`AuditTellsTheVerdict` counts, which is not inductive: a handler whose transaction was
ended behind its back still prints its line later. `Untold` is what has to be counted: the
results of a row that are in the log, or will be although their transaction is gone, and
for which neither the row nor an open transaction accounts. No step but a loss adds to it,
and a loss adds one, as a row has at most one transaction (`OneWriterPerRow`, from the
first module). `TestsInv` adds what an open transaction may store in
functionality_tests_passing.

**`Artifacts_proofs`.** `EvidenceIsNotLost`, `FuzzOutIsTheRuns`, `FlagMeansTests`, for any
flags and whatever exit codes the tools have: nothing is used of `Scripts`. The invariant
follows RunPov through its report (`ReportsInOrder`); everything in the container was
stored from the start of its reader (`UploadsAreWhole`); a run is reported, at hand, or the
last one of an evaluation that gave up (`RunsAreReported`); and a `fuzz.out` of another
stage goes with a run whose last exit code was an error, which evaluate then returns
(`OthersEndInErrors`). `ArchiveInv` adds that a handler between its archive and its audit
line has a whole blob there, and that nothing leaves the archive.

**`Evaluator_proofs`.** `PassesAreTrue`, `FailuresAreFaults`, `WorkerTypes` and
`WorkerIsAssumed`, for any flags. The first part is about the tools, one lemma each for
`Check`, the runs, the builds, the tests and the patches (`CheckTells`, `PovTells`,
`BuildTells`, `TestsTell`, `ApplyTells`): of which events an "ok" and a "bad" can come,
through helper.py, the script, the crash interpreter with its two tables, and the engine
(a "bad" build of a fault or a mishap and nothing else, an "ok" reproduction on the head of a
crash or a run that was killed).
The second is the invariant `JudgeInv` of the way through the stages: what happened in a
stage is what its tool can make of some event, in a stage the flags ask for
(`SeenIsPossible`); nothing has happened in the stages to come, and those behind have
succeeded (`StagesInOrder`), which needs that evaluate goes on with the very next stage that
applies; what the loops of the stage at hand know of their attempts (`StageAtHand`: without
"only failures so far" a build could fail although an attempt was fine); and that a result
is earned, a failure in time by an outcome that blames the submission (`ResultIsEarned`,
`Blamed`). After the deadline a build may give up with a failure nothing blames, which is
why a verdict needs more than a result: Evaluate looks at the deadline again. `WorkerTypes`
adds the types of what is uploaded and the limits of the loops (`TypesInv`), `WorkerIsAssumed`
that Evaluate decides once: every step of the worker is one of the three of `EvalJobs`, or
leaves what the job sees of it alone, so what `EvalPipeline` assumes of a worker is proved
of `Evaluator`.

**`Bundles_proofs`.** `EnoughInEveryBundle`, `NoForeignReferences`, `LateBundlesStay`,
`DeletedBundlesStay`, from `IInv`. Whole-row saves are what makes them hold: the copies that
requests hold are themselves valid bundles, so the part of the invariant about copies is
needed, and saving only the columns of the body would break it (the mutant `PatchColumns`).
`NoForeignReferences` needs the submissions too: what a body names passed the query and was
told to the team (`NamedIsOnRecord`), what was told is archived and logged, as a handler
answers last (`SubmissionInOrder`), and nothing that is on record ever goes
(`RecordsStay`), so that a copy read long ago still names records when it is saved.

**`APIServer_proofs`.** Of the rate limiter: `Counting`, `NobodyLockedOut`,
`NobodyRefusedEarly`, for both limiters of a submission and the one counter they share.
`Inv` relates the counter to the requests let in: one that expires has lost none of them,
one that does not expire was made below zero, and so never becomes 0 again. Of the
servers: `ServersSound`, `ShutdownLosesNothing`, `LatestSchemaServed`, and
`ServersLimit`: the servers implement the rate limiter, so that the two theorems above hold
of servers that die and restart. The invariant (`ServerInv`) says that a shutdown past the
router has no request left and past the task runner no function, unless one of its steps
reported an error (`Drained`), that a server without a cancel function has none to lose
(`CancelBeforeServing`), and that whoever serves saw the last migration (`Migrated`), for
any set of `Repeatable` migrations: the version a server read may since have gone back, but
none is ever ahead of what has run (`version` is at most `schema`). It is
proved as one predicate per server (`Sound`): a step of one server changes nothing that of
another looks at but the schema, which only grows.

**`JobRunner_proofs`.** `CommittedRowsAreStarted`, `ReportsAreKept`, `VerdictsAreKept`
and `VerdictsAreStoredOnce`, from `IInv`. Until its commit a request has a row number of
its own, so that no other writer can be at that row (`RequestsKnowTheirRow`); from the
commit on, a verdict is in the row, in the queue, or was handled early
(`VerdictOnItsWay`, which a message that is handled without being deleted keeps as the
queue is a bag). `ValuesAssumption` keeps reports and verdicts apart.

**`Tasking_proofs`.** `RecordsComeFirst`, `BroadcastOnce`, `RequestsStayPrivate`,
`ThumbsUpAreEarned`, `AtMostOncePerFault`, `OutcomesAreTold`, from `IInv`. The invariant
says what a scan or a hook has done by the step it is at (`ScanInOrder`, `HookInOrder`);
that the hook whose insert succeeded is the only owner of the report of its task
(`ReportsAreOwned`: the check before it proves nothing, the unique constraint does); and
what attempts leave behind (`TriesAreTold`, `CountsAddUp`: an attempt that is to be
repeated although the CRS accepted it has cost a failure). Scans, hooks and deliveries
meet only where a job is created, so there is a lemma for each of the three that says
what it needs of the others (`ScanMoves`, `HookMoves`, `Standing`).

Only model-checked: all liveness (out of reach of the prover, as is ENABLED) with
`FulfilsPromise`, and `Cancellation`. Every other invariant and action property that a
passing run checks is a theorem. No module uses a RECURSIVE operator.

## 6. Plan

Written, in this order, the most important behaviour first: the pipeline and its
promise; the worker under it; bundles and the rate limiter; the job runner; tasks,
deliveries, cancellation; the API server with its start and its shutdown; the scripts,
uploads and artifacts of the worker. Left, in the order of what it would add:

1. The audit line of a delivery and of a bundle next to the row it tells of.
2. `TaskRunner` jobs composed with `APIServer`: which step of a scan a shutdown
   cuts off (`Tasking` lets any of them fail, `APIServer` says when they are waited for).
3. The rehash of a token in `middleware/auth.go` under concurrent requests, and the
   dequeue loop's timing against the visibility timeout, which needs a clock.
