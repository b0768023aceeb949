---------------------------- MODULE MCAppVolumes ----------------------------
(***************************************************************************)
(* A small instance of AppVolumes: one volume of each of two instances.    *)
(***************************************************************************)
EXTENDS AppVolumes, TLC

CONSTANTS p, q, a, b

ThePaths == {p, q}
TheInstances == {a, b}
OwnerOf == p :> a @@ q :> b
State(kp, kq, is) == [kind |-> (p :> kp @@ q :> kq), instances |-> is]

\* Both apps; the first without its volume; the second alone.
TheStates ==
  {State("backup", "capped", {a, b}), State("absent", "plain", {a, b}),
   State("absent", "capped", {b})}

Limits == [fault |-> 2, crash |-> 2, state |-> 2]
=============================================================================
