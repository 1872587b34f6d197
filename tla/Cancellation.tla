---------------------------- MODULE Cancellation ----------------------------
(***************************************************************************)
(* Cancellation of a task.  CancelTask starts a cancel job, whose worker   *)
(* is to send a DELETE to the CRS of every team the way Delivery sends a   *)
(* POST.  CreateCancelJob passes the round as -d, which is a flag of the   *)
(* broadcast command and not of the cancel command: the command line is    *)
(* refused, and the worker exits with 1 before it has sent anything.       *)
(* (CancelAllTasks does not get that far: PostgreSQL knows no              *)
(* CURRENT_TIMESTAMP().)                                                   *)
(***************************************************************************)
EXTENDS Delivery

VARIABLES
    task,       \* per cancel job, whether its time has come: "open", or "over" as in Delivery
    parsed      \* cancel workers whose command line was accepted

vars == <<deliveryVars, task, parsed>>

Init ==
    /\ DeliveryInit
    /\ task = [m \in Messages |-> "open"]
    /\ parsed = {}

CancelTask(m) ==
    /\ job[m] = "none"
    /\ CreateDeliveryJob(m, CRSs)
    /\ UNCHANGED <<task, parsed>>

Flags == {"-r", "-u"}

Args == {"-r", "-d", "-u"}

\* The worker parses its command line before anything else.
ParseFlags(m) ==
    /\ job[m] = "running" /\ m \notin parsed
    /\ IF Args \subseteq Flags
       THEN parsed' = parsed \cup {m} /\ UNCHANGED job
       ELSE job' = [job EXCEPT ![m] = "failed"] /\ UNCHANGED parsed
    /\ UNCHANGED <<try, received, audited, task>>

\* As in Delivery; what is audited there is not here, and nothing depends on it.
CancelWorker(m) ==
    /\ m \in parsed
    /\ \/ /\ \E c \in CRSs :
               Deliver(m, c, task[m] = "over") \/ GiveUp(m, c, task[m] = "over")
          /\ UNCHANGED <<task, parsed>>
       \/ WorkerExits(m) /\ UNCHANGED <<task, parsed>>

TimePasses(m) ==
    /\ task' = [task EXCEPT ![m] = "over"]
    /\ UNCHANGED <<deliveryVars, parsed>>

Next ==
    \E m \in Messages :
        CancelTask(m) \/ ParseFlags(m) \/ CancelWorker(m) \/ TimePasses(m)

Spec == Init /\ [][Next]_vars

\* cmd/worker/cmds/cancel.go: "we do not reschedule here because the tasks have expired".
\* A cancel job fails only when its task was over anyway.
FailedCancelIsLate == \A m \in Messages : job[m] = "failed" => task[m] = "over"
=============================================================================
