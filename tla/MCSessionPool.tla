--------------------------- MODULE MCSessionPool ---------------------------
(* Small instances of SessionPool for TLC. *)
EXTENDS SessionPool, TLC

\* Launches are interchangeable.
LaunchSymmetry == Permutations(Launch)
=============================================================================
