---------------------------- MODULE MCAPIServer ----------------------------
(***************************************************************************)
(* Two servers of one database, and the requests of one client.            *)
(***************************************************************************)
EXTENDS APIServer, TLC

CONSTANTS r1, r2, s1, s2

TwoServers == {s1, s2}

\* Of three migrations one succeeds again at once, one when the last has freed its name.
TwoOfThree == {<<2, 2>>, <<1, 3>>}
=============================================================================
