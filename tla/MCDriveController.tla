------------------------- MODULE MCDriveController -------------------------
(* Small instances of DriveController for TLC. *)
EXTENDS DriveController, TLC

\* Calls and sessions are interchangeable.
DriveSymmetry == Permutations(Call) \cup Permutations(Sid)
=============================================================================
