--------------------------- MODULE MCV2Migration ---------------------------
(***************************************************************************)
(* Small instances of V2Migration: two apps.                               *)
(***************************************************************************)
EXTENDS V2Migration

CONSTANTS a1, a2

TwoApps == {a1, a2}
Limits == [fault |-> 2, crash |-> 1, change |-> 1]
=============================================================================
