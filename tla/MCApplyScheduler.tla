-------------------------- MODULE MCApplyScheduler --------------------------
(***************************************************************************)
(* Small instances of ApplyScheduler: a handful of requests over two or    *)
(* three desired states, with a result history shorter than the number of  *)
(* requests so that pruning happens.                                       *)
(***************************************************************************)
EXTENDS ApplyScheduler, TLC

CONSTANTS r1, r2, r3, r4, p1, p2, p3

IdSet3 == {r1, r2, r3}
IdSet4 == {r1, r2, r3, r4}
One == {p2}
Two == {p1, p2}
V2Of == {p2}
V2BadOf == {p2, p3}
Three == {p1, p2, p3}

\* Symmetry reduction is unsound for liveness: fix by hand which id the boot
\* thread takes, and start from an empty disk.
LiveInit == Init /\ pc[r1] = "entering" /\ saved = NoState
MCLiveSpec == LiveInit /\ [][Next]_vars /\ Fairness

Symmetry3 == Permutations(IdSet3)
Symmetry4 == Permutations(IdSet4)
=============================================================================
