--------------------------- MODULE MCRateLimiter ---------------------------
(***************************************************************************)
(* Three concurrent requests of one client.                                *)
(***************************************************************************)
EXTENDS RateLimiter, TLC

CONSTANTS r1, r2, r3

ThreeRequests == {r1, r2, r3}

Symmetry == Permutations(ThreeRequests)
=============================================================================
