-------------------------- MODULE MCCancellation --------------------------
(***************************************************************************)
(* Two cancellations, two CRSs.                                            *)
(***************************************************************************)
EXTENDS Cancellation

TwoCRSs == {"crs1", "crs2"}
TwoCancellations == {"c1", "c2"}
=============================================================================
