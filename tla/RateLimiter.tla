----------------------------- MODULE RateLimiter -----------------------------
(***************************************************************************)
(* RedisLimiterStore.Allow for one client identifier.  Every API server    *)
(* runs it against one Redis; GET, SET and DECR are three commands, and    *)
(* the key may expire between any two of them.                             *)
(*                                                                         *)
(* Every request passes the limiter of the /v1 group, a submission then    *)
(* also the one of its own group.  Both are made with the limiter key      *)
(* "global", so that they share a counter, and the one that finds it       *)
(* missing sets it to its own limit.                                       *)
(***************************************************************************)
EXTENDS Integers, FiniteSets

CONSTANTS
    Requests,           \* requests of the client that may be handled at one time
    Submissions,        \* those that POST a POV, a patch or a SARIF report
    GlobalPerMinute,    \* the limits
    SubmitPerMinute,
    CommandsMayFail,    \* whether SET and DECR may fail
    MaxLetIn            \* bound: how often a limiter lets in before the counter expires

ASSUME LimitAssumption ==
    /\ Submissions \subseteq Requests
    /\ GlobalPerMinute \in Nat \ {0} /\ SubmitPerMinute \in Nat \ {0}
    /\ CommandsMayFail \in BOOLEAN /\ MaxLetIn \in Nat

Limiters == {"global", "submit"}

PerMinute(l) == IF l = "global" THEN GlobalPerMinute ELSE SubmitPerMinute

SmallestLimit ==
    IF GlobalPerMinute <= SubmitPerMinute THEN GlobalPerMinute ELSE SubmitPerMinute

VARIABLES
    key,        \* {} or the counter, and whether it has a time to live
    at,         \* the limiter each request is in
    pc,         \* its next command there, or "handle" when all have let it in
    letIn       \* history: how often a limiter let in since the counter last expired

vars == <<key, at, pc, letIn>>

Init ==
    /\ key = {}
    /\ at = [r \in Requests |-> "global"]
    /\ pc = [r \in Requests |-> "get"]
    /\ letIn = 0

\* Type correctness.
TypeOK ==
    /\ key \subseteq [left : Int, expires : BOOLEAN]
    /\ at \in [Requests -> Limiters]
    /\ pc \in [Requests -> {"get", "set", "decr", "handle"}]
    /\ letIn \in 0 .. MaxLetIn

-----------------------------------------------------------------------------

Then(r, command) == pc' = [pc EXCEPT ![r] = command]

\* Mutant: a counter below zero refuses too.
RefusesBelowZero(k) == k.left <= 0

Refuses(k) == k.left = 0

Get(r) ==
    /\ pc[r] = "get"
    /\ \A k \in key : ~Refuses(k)
    /\ Then(r, IF key = {} THEN "set" ELSE "decr")
    /\ UNCHANGED <<key, at, letIn>>

\* A request ends in any of its steps: refused by the counter, refused because GET
\* failed, answered by its handler, or lost with the others of its server.
End(ended) ==
    /\ at' = [r \in Requests |-> IF r \in ended THEN "global" ELSE at[r]]
    /\ pc' = [r \in Requests |-> IF r \in ended THEN "get" ELSE pc[r]]
    /\ UNCHANGED <<key, letIn>>

\* Mutant: the request that makes the counter is counted twice.
SetCounted(r) ==
    /\ pc[r] = "set"
    /\ \/ key' = {[left |-> PerMinute(at[r]) - 1, expires |-> TRUE]}
       \/ CommandsMayFail /\ UNCHANGED key
    /\ Then(r, "decr")
    /\ UNCHANGED <<at, letIn>>

\* The error of SET is not looked at.
Set(r) ==
    /\ pc[r] = "set"
    /\ \/ key' = {[left |-> PerMinute(at[r]), expires |-> TRUE]}
       \/ CommandsMayFail /\ UNCHANGED key
    /\ Then(r, "decr")
    /\ UNCHANGED <<at, letIn>>

\* The chain of middlewares: the limiter of the submissions comes after the global one.
LetIn(r) ==
    LET next == r \in Submissions /\ at[r] = "global" IN
    /\ at' = IF next THEN [at EXCEPT ![r] = "submit"] ELSE at
    /\ Then(r, IF next THEN "get" ELSE "handle")

\* DECR makes a missing key, without a time to live, and keeps that of another.
Decr(r) ==
    /\ pc[r] = "decr"
    /\ letIn < MaxLetIn
    /\ key' = IF key = {} THEN {[left |-> -1, expires |-> FALSE]}
              ELSE {[k EXCEPT !.left = @ - 1] : k \in key}
    /\ letIn' = letIn + 1
    /\ LetIn(r)

\* The error of DECR is not looked at either.
DecrFails(r) ==
    /\ CommandsMayFail
    /\ pc[r] = "decr"
    /\ letIn < MaxLetIn
    /\ letIn' = letIn + 1
    /\ LetIn(r)
    /\ UNCHANGED key

Expire ==
    /\ \E k \in key : k.expires
    /\ key' = {}
    /\ letIn' = 0
    /\ UNCHANGED <<at, pc>>

Allow(r) == Get(r) \/ Set(r) \/ Decr(r) \/ DecrFails(r)

Next ==
    \/ Expire
    \/ \E r \in Requests : Allow(r)
    \/ \E ended \in SUBSET Requests : End(ended)

Spec == Init /\ [][Next]_vars

-----------------------------------------------------------------------------

\* Nobody is shut out for good: a counter that refuses has a time to live, whatever
\* expired between the commands of concurrent requests.
NoLockout == \A k \in key : Refuses(k) => k.expires

\* Nobody is refused before the smaller limit was used up since the counter last
\* expired, whichever limiter made the counter; a submission counts twice.
NoEarlyRefusal == \A k \in key : Refuses(k) => letIn >= SmallestLimit

\* Behind both: a counter that expires has lost no request, and one that does not
\* was made by a DECR of a missing key, below zero.
CounterCounts ==
    \A k \in key :
        IF k.expires THEN letIn + k.left >= SmallestLimit ELSE k.left < 0

\* The inductive invariant of Allow: the types and what the counter knows.
Inv == TypeOK /\ CounterCounts

\* redis.go: "This method might let N-1 extra requests in due to race condition where N
\* is the possible number of concurrent writers".
ExtraRequestsBounded == letIn <= GlobalPerMinute + Cardinality(Requests) - 1
=============================================================================
