------------------------------- MODULE Verdict -------------------------------
(***************************************************************************)
(* What the API promises of a submission: one that is accepted gets one    *)
(* verdict, that verdict is one its evaluation arrived at, it never        *)
(* changes, and it comes once an evaluation has arrived at anything.  A    *)
(* submission after the deadline is never evaluated.                       *)
(***************************************************************************)
CONSTANTS Submissions, Verdicts

VARIABLES
    status,     \* what a GET of the submission shows, or "absent"
    found       \* the verdicts its evaluation has arrived at so far

vars == <<status, found>>

Init ==
    /\ status = [s \in Submissions |-> "absent"]
    /\ found = [s \in Submissions |-> {}]

Submit(s) ==
    /\ status[s] = "absent"
    /\ \E st \in {"accepted", "deadline_exceeded"} : status' = [status EXCEPT ![s] = st]
    /\ UNCHANGED found

\* An evaluation may run more than once, before or after the verdict.
Evaluate(s) ==
    /\ status[s] \in {"accepted"} \cup Verdicts
    /\ \E v \in Verdicts : found' = [found EXCEPT ![s] = @ \cup {v}]
    /\ UNCHANGED status

Decide(s) ==
    /\ status[s] = "accepted"
    /\ \E v \in found[s] : status' = [status EXCEPT ![s] = v]
    /\ UNCHANGED found

Next == \E s \in Submissions : Submit(s) \/ Evaluate(s) \/ Decide(s)

Fairness == \A s \in Submissions : WF_vars(Decide(s))

Safety == Init /\ [][Next]_vars

Spec == Safety /\ Fairness
=============================================================================
