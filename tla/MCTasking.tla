----------------------------- MODULE MCTasking -----------------------------
(***************************************************************************)
(* Values for the constants of Tasking.                                    *)
(***************************************************************************)
EXTENDS Tasking

OneCRS == {"crs1"}
TwoCRSs == {"crs1", "crs2"}
AllMessages == {<<"scan", s>> : s \in ScanIDs} \cup {<<"hook", h>> : h \in HookIDs}
=============================================================================
