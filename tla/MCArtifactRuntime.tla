------------------------- MODULE MCArtifactRuntime -------------------------
(* Small instances of ArtifactRuntime for TLC. *)
EXTENDS ArtifactRuntime, TLC

\* Retrievals are interchangeable.
ArtifactSymmetry == Permutations(Ask)
=============================================================================
