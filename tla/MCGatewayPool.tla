--------------------------- MODULE MCGatewayPool ---------------------------
(***************************************************************************)
(* GatewayPool on small instances.                                         *)
(***************************************************************************)
EXTENDS GatewayPool, TLC

\* Processes are interchangeable, and so are connections.
Symmetry == Permutations(Pids) \cup Permutations(Conns)
=============================================================================
