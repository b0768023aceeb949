--------------------------- MODULE MCControlApply ---------------------------
(***************************************************************************)
(* Small instances of ControlApply: two or three overlapping threads over  *)
(* two desired states, or a sequence of commands without overlap.          *)
(***************************************************************************)
EXTENDS ControlApply, TLC

CONSTANTS r1, r2, r3, t1, t2, t3, p1, p2

IdSet2 == {r1, r2}
IdSet3 == {r1, r2, r3}
TwoThreads == {t1, t2}
ThreeThreads == {t1, t2, t3}
TwoStates == {p1, p2}

\* Ids, threads and states are interchangeable in the safety runs.
Symmetry == Permutations(IdSet3) \cup Permutations(ThreeThreads)
              \cup Permutations(TwoStates)
=============================================================================
