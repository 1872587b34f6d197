---------------------------- MODULE MCJobRunner ----------------------------
(***************************************************************************)
(* Values for the constants of JobRunner: the requests agree in what is    *)
(* hashed, or there would be nothing to cache.                             *)
(***************************************************************************)
EXTENDS JobRunner

OneKey == {"key"}
OneReport == {"result"}
OneVerdict == {"passed"}
=============================================================================
