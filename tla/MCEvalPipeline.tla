--------------------------- MODULE MCEvalPipeline ---------------------------
(***************************************************************************)
(* Values for the constants of EvalPipeline.                               *)
(***************************************************************************)
EXTENDS EvalPipeline, TLC

CONSTANTS p1, p2, pov, patch, m1, m2, m3

TwoServers == {p1, p2}
OneServer == {p1}
OnePOV == {pov}
OnePatch == {patch}
TwoMessages == {m1, m2}
ThreeMessages == {m1, m2, m3}
None == {}

\* Safety only: the servers, and the identities of messages, are alike.
Symmetry == Permutations(TwoServers) \cup Permutations(ThreeMessages)
=============================================================================
