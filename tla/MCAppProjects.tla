--------------------------- MODULE MCAppProjects ---------------------------
(***************************************************************************)
(* Small instances of AppProjects: one repair thread, one restart command. *)
(***************************************************************************)
EXTENDS AppProjects

CONSTANTS r1, s1

TheRepairs == {r1}
TheRestarts == {s1}
Limits == [fault |-> 2, crash |-> 1, again |-> 1, exit |-> 1]
=============================================================================
