------------------------------ MODULE MCEfiAB ------------------------------
(***************************************************************************)
(* Small instances of EfiAB: two good images and a bad one, six boot       *)
(* numbers, and budgets that differ by what a run is about.                *)
(***************************************************************************)
EXTENDS EfiAB

CONSTANTS g1, g2, x

GoodImages == {g1, g2}
BadImages == {x}

Limits(crash, fault, upd, command, loss, keeps) ==
  [crash |-> crash, fault |-> fault, update |-> upd, command |-> command,
   loss |-> loss, keeps |-> keeps]

\* Updates, commands and power failures; or, on firmware that loses variables
\* and its BootNext, creations that fail too.
Troubled == {Limits(2, 0, 3, 1, 0, TRUE), Limits(2, 1, 2, 0, 1, FALSE)}
OneCrash == {Limits(1, 0, 2, 0, 0, TRUE)}

\* The good images are interchangeable.
Symmetry == Permutations(GoodImages)
=============================================================================
