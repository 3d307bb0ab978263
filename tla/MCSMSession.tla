---------------------------- MODULE MCSMSession ----------------------------
(***************************************************************************)
(* SMSession on small instances.                                           *)
(***************************************************************************)
EXTENDS SMSession, TLC

\* PHP processes are interchangeable.
Symmetry == Permutations(Requests)
=============================================================================
