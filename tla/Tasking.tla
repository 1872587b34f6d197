------------------------------- MODULE Tasking -------------------------------
(***************************************************************************)
(* How challenges become tasks of the CRSs.  A GitHub event (a pull        *)
(* request or a release) or the request of one team starts a scan in the   *)
(* task runner: it packages the repository, inserts the task, archives its *)
(* files and has the task delivered.  A code scanning alert starts a hook, *)
(* which broadcasts the SARIF report of the newest task of its commit to   *)
(* all teams, once per task.  All scans and alerts are of one commit here. *)
(***************************************************************************)
EXTENDS Sequences, Functions, Delivery

CONSTANTS
    MaxScans,   \* bound: scans ever started
    MaxHooks,   \* bound: code scanning alerts ever received, redeliveries included
    Pages,      \* pages of the list of analyses
    MaxFaults   \* bound: failures in a behaviour

ScanIDs == 1 .. MaxScans
HookIDs == 1 .. MaxHooks

ASSUME MessagesAssumption ==
    Messages = {<<"scan", s>> : s \in ScanIDs} \cup {<<"hook", h>> : h \in HookIDs}
ASSUME BoundsAssumption ==
    MaxScans \in Nat /\ MaxHooks \in Nat /\ MaxFaults \in Nat /\ Pages \in Nat \ {0}

VARIABLES
    scan,       \* the functions RunFullScan and RunDeltaScan, and what they were called with
    rows,       \* the task table: the scans that inserted a task, in that order
    clock,      \* the deadline of each task: "open", "past", "over" two minutes later
    reaction,   \* what was reacted with to the event of each scan
    hook,       \* the functions that handle code scanning alerts
    sarifs,     \* the table of SARIF broadcasts, by their unique task
    listed,     \* the page of the list that has the analysis, 0 for none
    faults      \* failures so far

scanVars == <<scan, rows, reaction>>
hookVars == <<hook, sarifs>>
restVars == <<clock, listed>>
vars == <<scanVars, hookVars, restVars, deliveryVars, faults>>

Init ==
    /\ DeliveryInit
    /\ scan = [s \in ScanIDs |->
                  [step |-> "none", round |-> "none", teams |-> {}, archived |-> FALSE]]
    /\ rows = <<>>
    /\ clock = [s \in ScanIDs |-> "open"]
    /\ reaction = [s \in ScanIDs |-> "none"]
    /\ hook = [h \in HookIDs |-> [step |-> "none", task |-> 0, page |-> 0]]
    /\ sarifs = {}
    /\ listed \in 0 .. Pages
    /\ faults = 0

ScanSteps == {"none", "prepare", "archive", "send", "react", "done"}
HookSteps == {"none", "look up", "check", "search", "insert", "archive", "send", "done"}

\* Type correctness.
TypeOK ==
    /\ DeliveryTypeOK
    /\ scan \in [ScanIDs -> [step : ScanSteps, round : {"none", "main", "generate"},
                             teams : SUBSET CRSs, archived : BOOLEAN]]
    /\ rows \in Seq(ScanIDs)
    /\ clock \in [ScanIDs -> {"open", "past", "over"}]
    /\ reaction \in [ScanIDs -> {"none", "+1", "eyes"}]
    /\ hook \in [HookIDs -> [step : HookSteps, task : 0 .. MaxScans, page : 0 .. Pages]]
    /\ sarifs \subseteq ScanIDs
    /\ listed \in 0 .. Pages
    /\ faults \in 0 .. MaxFaults

-----------------------------------------------------------------------------
(* Scans. *)

At(s, step) == scan[s].step = step

\* Only events are reacted to.
React(s, r) ==
    reaction' = IF scan[s].round = "main" THEN [reaction EXCEPT ![s] = r] ELSE reaction

Start(s, round, teams) ==
    /\ At(s, "none")
    /\ \A r \in 1 .. s - 1 : ~ At(r, "none")
    /\ scan' = [scan EXCEPT ![s] =
           [step |-> "prepare", round |-> round, teams |-> teams, archived |-> FALSE]]
    /\ UNCHANGED <<rows, reaction, hookVars, restVars, deliveryVars>>

\* A pull request opened or reopened, a release published.
GithubEvent(s) == Start(s, "main", CRSs)

\* A team asks for a challenge: a task of the round for generated challenges.
RequestChallenge(s) == \E c \in CRSs : Start(s, "generate", {c})

\* Repositories are downloaded, stripped, packaged and uploaded; the task is inserted.
InsertTask(s) ==
    /\ At(s, "prepare")
    /\ rows' = Append(rows, s)
    /\ scan' = [scan EXCEPT ![s].step = "archive"]
    /\ UNCHANGED <<reaction, hookVars, restVars, deliveryVars>>

\* The loop over the three files of a full scan, the five of a delta scan.
ArchiveFiles(s) ==
    /\ At(s, "archive")
    /\ scan' = [scan EXCEPT ![s].archived = TRUE, ![s].step = "send"]
    /\ UNCHANGED <<rows, reaction, hookVars, restVars, deliveryVars>>

SendTask(s) ==
    /\ At(s, "send")
    /\ CreateDeliveryJob(<<"scan", s>>, scan[s].teams)
    /\ scan' = [scan EXCEPT ![s].step = "react"]
    /\ UNCHANGED <<rows, reaction, hookVars, restVars>>

ReactPositive(s) ==
    /\ At(s, "react")
    /\ React(s, "+1")
    /\ scan' = [scan EXCEPT ![s].step = "done"]
    /\ UNCHANGED <<rows, hookVars, restVars, deliveryVars>>

\* Mutant: the error of RunFullScan is not looked at.
ScanFailsUnnoticed(s) ==
    /\ scan[s].step \in {"prepare", "archive"}
    /\ React(s, "+1")
    /\ scan' = [scan EXCEPT ![s].step = "done"]
    /\ UNCHANGED <<rows, hookVars, restVars, deliveryVars>>

\* Mutant: the error of ArchiveFile is not looked at.
ArchiveFailsUnnoticed(s) ==
    /\ scan[s].step \in {"prepare", "archive"}
    /\ IF At(s, "prepare") THEN React(s, "eyes") ELSE UNCHANGED reaction
    /\ scan' = [scan EXCEPT ![s].step = IF @ = "prepare" THEN "done" ELSE "send"]
    /\ UNCHANGED <<rows, hookVars, restVars, deliveryVars>>

\* Any error before the task is sent; the task may be in the table then.
ScanFails(s) ==
    /\ scan[s].step \in {"prepare", "archive"}
    /\ React(s, "eyes")
    /\ scan' = [scan EXCEPT ![s].step = "done"]
    /\ UNCHANGED <<rows, hookVars, restVars, deliveryVars>>

\* send drops the error of CreateDeliveryJob.
SendFails(s) ==
    /\ At(s, "send")
    /\ scan' = [scan EXCEPT ![s].step = "react"]
    /\ UNCHANGED <<rows, reaction, hookVars, restVars, deliveryVars>>

\* No token, no valid description, or no reaction: nobody is told.
ScanEndsSilently(s) ==
    /\ scan[s].step \in {"prepare", "react"}
    /\ scan' = [scan EXCEPT ![s].step = "done"]
    /\ UNCHANGED <<rows, reaction, hookVars, restVars, deliveryVars>>

Scan(s) ==
    \/ GithubEvent(s) \/ RequestChallenge(s)
    \/ InsertTask(s) \/ ArchiveFiles(s) \/ SendTask(s) \/ ReactPositive(s)

-----------------------------------------------------------------------------
(* Code scanning alerts. *)

Goto(h, step) == hook' = [hook EXCEPT ![h].step = step]

AlertEvent(h) ==
    /\ hook[h].step = "none"
    /\ \A g \in 1 .. h - 1 : hook[g].step # "none"
    /\ Goto(h, "look up")
    /\ UNCHANGED <<scanVars, sarifs, restVars, deliveryVars>>

\* Mutant: tasks of any round.
CandidatesAnyRound == {i \in DOMAIN rows : clock[rows[i]] = "open"}

\* The open tasks of the round that have the commit, as places in the table.
Candidates == {i \in DOMAIN rows : clock[rows[i]] = "open" /\ scan[rows[i]].round = "main"}

Found(h, s) == hook' = [hook EXCEPT ![h].step = "check", ![h].task = s]

\* The newest of them.
LookUp(h) ==
    /\ hook[h].step = "look up"
    /\ \/ Candidates = {} /\ Goto(h, "done")
       \/ \E i \in Candidates : (\A j \in Candidates : j <= i) /\ Found(h, rows[i])
    /\ UNCHANGED <<scanVars, sarifs, restVars, deliveryVars>>

CheckExists(h) ==
    /\ hook[h].step = "check"
    /\ IF hook[h].task \in sarifs
       THEN Goto(h, "done")
       ELSE hook' = [hook EXCEPT ![h].step = "search", ![h].page = 1]
    /\ UNCHANGED <<scanVars, sarifs, restVars, deliveryVars>>

\* GitHub's answer for a page: page 0 is the first one, and the last one links to no
\* next and no last page, which reads as 0.
Shown(page) == IF page = 0 THEN 1 ELSE page
NextPage(page) == IF Shown(page) = Pages THEN 0 ELSE Shown(page) + 1
LastPage(page) == IF Shown(page) = Pages THEN 0 ELSE Pages

ReadPage(h) ==
    LET page == hook[h].page
        step == CASE Shown(page) = listed -> "insert"
                  [] Shown(page) # listed /\ page = LastPage(page) -> "done"
                  [] OTHER -> "search"
    IN  /\ hook[h].step = "search"
        /\ hook' = [hook EXCEPT ![h].step = step,
                                ![h].page = IF step = "search" THEN NextPage(page) ELSE page]
        /\ UNCHANGED <<scanVars, sarifs, restVars, deliveryVars>>

\* Mutant: no unique constraint on the task.
InsertSarifAgain(h) ==
    /\ hook[h].step = "insert"
    /\ Goto(h, "archive")
    /\ sarifs' = sarifs \cup {hook[h].task}
    /\ UNCHANGED <<scanVars, restVars, deliveryVars>>

\* The table has a unique constraint.
InsertSarif(h) ==
    /\ hook[h].step = "insert"
    /\ Goto(h, IF hook[h].task \in sarifs THEN "done" ELSE "archive")
    /\ sarifs' = sarifs \cup {hook[h].task}
    /\ UNCHANGED <<scanVars, restVars, deliveryVars>>

ArchiveSarif(h) ==
    /\ hook[h].step = "archive"
    /\ Goto(h, "send")
    /\ UNCHANGED <<scanVars, sarifs, restVars, deliveryVars>>

SendSARIFBroadcast(h) ==
    /\ hook[h].step = "send"
    /\ Goto(h, "done")
    /\ CreateDeliveryJob(<<"hook", h>>, CRSs)
    /\ UNCHANGED <<scanVars, sarifs, restVars>>

\* Any error, that of CreateDeliveryJob included.
HookFails(h) ==
    /\ hook[h].step \notin {"none", "done"}
    /\ Goto(h, "done")
    /\ UNCHANGED <<scanVars, sarifs, restVars, deliveryVars>>

HookStep(h) ==
    \/ LookUp(h) \/ CheckExists(h) \/ ReadPage(h)
    \/ InsertSarif(h) \/ ArchiveSarif(h) \/ SendSARIFBroadcast(h)

-----------------------------------------------------------------------------
(* Time and failures. *)

TimePasses(s) ==
    /\ s \in Range(rows) /\ clock[s] # "over"
    /\ clock' = [clock EXCEPT ![s] = IF @ = "open" THEN "past" ELSE "over"]
    /\ UNCHANGED <<scanVars, hookVars, listed, deliveryVars>>

\* The task of a message.
TaskOf(m) == IF m[1] = "scan" THEN m[2] ELSE hook[m[2]].task

Over(m) == TaskOf(m) # 0 /\ clock[TaskOf(m)] = "over"

Worker(m) ==
    /\ \/ \E c \in CRSs : Deliver(m, c, Over(m)) \/ GiveUp(m, c, Over(m))
       \/ WorkerExits(m)
    /\ UNCHANGED <<scanVars, hookVars, restVars>>

\* The server dies, or its shutdown does not wait long enough for the task runner.
Crash ==
    /\ scan' = [s \in ScanIDs |->
                   IF At(s, "none") THEN scan[s] ELSE [scan[s] EXCEPT !.step = "done"]]
    /\ hook' = [h \in HookIDs |->
                   IF hook[h].step = "none" THEN hook[h] ELSE [hook[h] EXCEPT !.step = "done"]]
    /\ UNCHANGED <<rows, reaction, sarifs, restVars, deliveryVars>>

Fault ==
    /\ faults < MaxFaults
    /\ faults' = faults + 1
    /\ \/ \E s \in ScanIDs : ScanFails(s) \/ SendFails(s) \/ ScanEndsSilently(s)
       \/ \E h \in HookIDs : HookFails(h)
       \/ Crash
       \/ \E m \in Messages :
            /\ PodDisrupted(m) \/ \E c \in CRSs : AnswerLost(m, c, Over(m))
            /\ UNCHANGED <<scanVars, hookVars, restVars>>

Step ==
    \/ \E s \in ScanIDs : Scan(s) \/ TimePasses(s)
    \/ \E h \in HookIDs : AlertEvent(h) \/ HookStep(h)
    \/ \E m \in Messages : Worker(m)

Next == (Step /\ UNCHANGED faults) \/ Fault

Safety == Init /\ [][Next]_vars

\* Time passes, pods run, and every CRS answers something or closes the connection.  A
\* refusal that follows a refusal changes nothing, so pods that go on progress.
Fairness ==
    /\ WF_vars((\E s \in ScanIDs : TimePasses(s)) /\ UNCHANGED faults)
    /\ WF_vars((\E m \in Messages : Worker(m)) /\ UNCHANGED faults)

Spec == Safety /\ Fairness

-----------------------------------------------------------------------------

\* Nothing goes to a CRS that the API could not account for: a task is sent only when it
\* is in the table and each of its files is archived, a SARIF report only when it is in
\* the table (the order of RunFullScan, RunDeltaScan and the webhook).
SentIsOnRecord ==
    /\ \A s \in ScanIDs :
        job[<<"scan", s>>] # "none" =>
            s \in Range(rows) /\ scan[s].archived
    /\ \A h \in HookIDs : job[<<"hook", h>>] # "none" => hook[h].task \in sarifs

\* However often GitHub sends an alert, and on however many servers at once, a task gets
\* one SARIF broadcast (the check that none exists, and the unique constraint).
OneBroadcastPerTask ==
    \A g, h \in HookIDs :
        /\ job[<<"hook", g>>] # "none" /\ job[<<"hook", h>>] # "none"
        /\ hook[g].task = hook[h].task
        => g = h

\* A challenge a team asked for concerns nobody else: no other CRS gets the task or a
\* SARIF report on it (the teams of the request, the round of the look-up).
RequestedIsPrivate ==
    \A s \in ScanIDs :
        scan[s].round = "generate" =>
            \A m \in Messages :
                TaskOf(m) = s => \A c \in CRSs \ scan[s].teams : received[m][c] = 0

\* A thumbs-up on an event means that its task is complete and, unless something failed,
\* on its way to the teams; a failed scan gets eyes (the webhook after RunFullScan).
ThumbsUpIsEarned ==
    \A s \in ScanIDs :
        reaction[s] = "+1" =>
            /\ s \in Range(rows) /\ scan[s].archived
            /\ faults = 0 => job[<<"scan", s>>] # "none"

\* A CRS accepts a message once, and once more for a failure at most: a lost answer or a
\* disrupted pod (retryDeliver, the ignored disruptions of the job).
DeliveredOncePerFault ==
    \A m \in Messages, c \in CRSs : received[m][c] <= 1 + faults

\* "we are on the last page give up": a search moves on to later pages only, and so it
\* ends when it has seen the last one.
SearchMovesOn ==
    [][\A h \in HookIDs :
        hook[h].step = "search" /\ hook'[h].step = "search" =>
            Shown(hook'[h].page) > Shown(hook[h].page)]_vars

-----------------------------------------------------------------------------
(* The inductive invariant behind the safety properties. *)

\* What a scan has done by the step it is at.
ScanInOrder(s) ==
    LET sent == job[<<"scan", s>>] # "none"
    IN  /\ At(s, "none") => scan[s].round = "none"
        /\ scan[s].step \in {"archive", "send", "react"} => s \in Range(rows)
        /\ scan[s].archived => s \in Range(rows)
        /\ scan[s].step \in {"send", "react"} \/ sent \/ reaction[s] = "+1" => scan[s].archived
        /\ sent => scan[s].step \in {"react", "done"}
        /\ ~ At(s, "done") => reaction[s] = "none"
        /\ At(s, "react") \/ reaction[s] = "+1" => sent \/ faults # 0
        /\ \A c \in CRSs : try[<<"scan", s>>][c] # "off" => c \in scan[s].teams

\* The hook whose insert succeeded, and nobody else, sends the report of that task.
Owns(h) == hook[h].step \in {"archive", "send"} \/ job[<<"hook", h>>] # "none"

HookInOrder(h) ==
    /\ hook[h].step \in {"none", "look up"} => hook[h].task = 0
    /\ hook[h].step \in {"check", "search", "insert", "archive", "send"} => hook[h].task # 0
    /\ hook[h].task # 0 => scan[hook[h].task].round = "main"
    /\ hook[h].step # "done" => job[<<"hook", h>>] = "none"
    /\ Owns(h) => hook[h].task \in sarifs

ReportsAreOwned ==
    \A g, h \in HookIDs : Owns(g) /\ Owns(h) /\ hook[g].task = hook[h].task => g = h

\* What the attempts at a CRS leave behind: the audit log knows of it ...
TriesAreTold(m, c) ==
    /\ try[m][c] = "off" => received[m][c] = 0
    /\ try[m][c] = "ok" => <<c, "succeeded">> \in audited[m]
    /\ try[m][c] = "gave up" => <<c, "failed">> \in audited[m]
    /\ <<c, "succeeded">> \in audited[m] => received[m][c] # 0

\* ... and all that it accepted but one was a failure.
CountsAddUp(m, c) ==
    /\ received[m][c] <= 1 + faults
    /\ try[m][c] # "ok" => received[m][c] <= faults

\* What the end of a job tells.
JobAddsUp(m) ==
    /\ job[m] = "none" => Recipients(m) = {}
    /\ job[m] = "complete" => \A c \in Recipients(m) : try[m][c] = "ok"
    /\ job[m] = "failed" => \E c \in CRSs : try[m][c] = "gave up"

DeliveriesAddUp ==
    \A m \in Messages :
        JobAddsUp(m) /\ \A c \in CRSs : TriesAreTold(m, c) /\ CountsAddUp(m, c)

\* The inductive invariant of scans, hooks and deliveries together.
IInv ==
    /\ TypeOK
    /\ \A s \in ScanIDs : ScanInOrder(s)
    /\ \A h \in HookIDs : HookInOrder(h)
    /\ ReportsAreOwned
    /\ DeliveriesAddUp
=============================================================================
