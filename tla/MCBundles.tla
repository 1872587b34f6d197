------------------------------ MODULE MCBundles ------------------------------
(***************************************************************************)
(* One bundle, two requests for it and two submissions at a time, two link *)
(* fields for the two kinds of them, and one id that may not be used.      *)
(***************************************************************************)
EXTENDS Bundles, TLC

CONSTANTS b1, r1, r2, s1, s2

OneBundle == {b1}
TwoRequests == {r1, r2}
TwoSubmissions == {s1, s2}
TwoLinks == {"submitted_sarif_id", "freeform_id"}
NoID == {}
ForeignID == {"foreign"}

Symmetry == Permutations(TwoRequests) \cup Permutations(TwoSubmissions)
=============================================================================
