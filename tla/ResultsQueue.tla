---------------------------- MODULE ResultsQueue ----------------------------
(***************************************************************************)
(* The Azure storage queue that carries the workers' messages to the API   *)
(* servers, as AzureQueuer uses it.  A received message is not removed: it *)
(* is hidden for the visibility timeout and comes back unless it is        *)
(* deleted with the pop receipt of its latest reception.  Messages have no *)
(* order.  Only final messages are modelled: they are the ones that decide *)
(* a submission.                                                           *)
(***************************************************************************)
EXTENDS SubmissionStore

CONSTANT MessageIDs     \* identities of the messages in the queue at one time

FinalBodies == [sub : Submissions, status : Verdicts, testsFailed : BOOLEAN]

\* lease is {} for a visible message, {p} while hidden by p's reception of it.
Messages == [id : MessageIDs, body : FinalBodies, lease : SUBSET Servers]

VARIABLE queue          \* the messages not deleted yet

QueueInit == queue = {}

QueueTypeOK == queue \subseteq Messages

-----------------------------------------------------------------------------

\* EnqueueMessage.  copies has two ids when the SDK repeats a request whose
\* response was lost (MaxRetries: 5).
Enqueue(copies, body) ==
    /\ \A m \in queue : m.id \notin copies
    /\ queue' = queue \cup {[id |-> i, body |-> body, lease |-> {}] : i \in copies}

\* DequeueMessage hides one visible message.
Receive(p, m) ==
    /\ m \in queue
    /\ m.lease = {}
    /\ queue' = (queue \ {m}) \cup {[m EXCEPT !.lease = {p}]}

\* DeleteMessage works only with the latest pop receipt.
DeleteReceived(p, i) ==
    queue' = {m \in queue : ~(m.id = i /\ m.lease = {p})}

\* The visibility timeout of m ends.
BecomeVisible(m) ==
    /\ m \in queue
    /\ m.lease # {}
    /\ queue' = (queue \ {m}) \cup {[m EXCEPT !.lease = {}]}
=============================================================================
