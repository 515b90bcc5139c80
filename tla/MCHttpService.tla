--------------------------- MODULE MCHttpService ---------------------------
(* Small instances of HttpService for TLC. *)
EXTENDS HttpService, TLC

\* Requests, graphs and ids are interchangeable.
HttpSymmetry == Permutations(Request) \cup Permutations(Graph)
                \cup Permutations(RpcId)
=============================================================================
