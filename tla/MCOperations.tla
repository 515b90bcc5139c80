---------------------------- MODULE MCOperations ----------------------------
(* Values of the constants of Operations for TLC. *)
EXTENDS Operations

\* No proxy, one that pins, one without a password where a login must use it,
\* and one that pins for a host configured for fresh exits.
MCPosture ==
    {[proxy |-> "none", onDatacenterIp |-> FALSE, suffix |-> FALSE, forced |-> FALSE, freshExit |-> FALSE],
     [proxy |-> "password", onDatacenterIp |-> TRUE, suffix |-> TRUE, forced |-> FALSE, freshExit |-> FALSE],
     [proxy |-> "open", onDatacenterIp |-> TRUE, suffix |-> TRUE, forced |-> TRUE, freshExit |-> FALSE],
     [proxy |-> "password", onDatacenterIp |-> TRUE, suffix |-> TRUE, forced |-> FALSE, freshExit |-> TRUE]}

MCKind == [i \in Image |-> IF i = "broken" THEN "fails-boot" ELSE "good"]

=============================================================================
