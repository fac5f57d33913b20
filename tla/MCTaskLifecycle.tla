--------------------------- MODULE MCTaskLifecycle ---------------------------
(* Up to two events of a session and two stops, as the runs choose.         *)
EXTENDS TaskLifecycle

CONSTANTS e1, e2, s1, s2, app
=============================================================================
