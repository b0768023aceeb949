-------------------------- MODULE MCArtifactCache --------------------------
(***************************************************************************)
(* Small instances of ArtifactCache: two versions of an app artifact that  *)
(* share a layer, and host extensions of two builds.                       *)
(***************************************************************************)
EXTENDS ArtifactCache

CONSTANTS p1, p2, v1, v2, h1, h2, l1, l2, k1, k2, b1, b2

TwoProcs == {p1, p2}
FourArtifacts == {v1, v2, h1, h2}
Artifact(layers, host_, name, made) ==
  [layers |-> layers, host |-> host_, name |-> name, build |-> made]
Described ==
  [a \in FourArtifacts |->
    CASE a = v1 -> Artifact({l1, l2}, FALSE, "app", b1)
      [] a = v2 -> Artifact({l2}, FALSE, "app", b2)
      [] a = h1 -> Artifact({k1}, TRUE, "driver", b1)
      [] a = h2 -> Artifact({k2}, TRUE, "driver", b1)]
TwoBuilds == {b1, b2}
SavedStates == {{v1, v2}, {v2, h1}, {h2}}
Stocked == {<<>>, <<v1, h1>>}
Small == [call |-> 2, fault |-> 1, boot |-> 1, state |-> 1]
=============================================================================
