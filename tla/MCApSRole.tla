----------------------------- MODULE MCApSRole -----------------------------
(***************************************************************************)
(* ApSRole on small instances.                                             *)
(***************************************************************************)
EXTENDS ApSRole, TLC

\* HTTP threads are interchangeable, and so are the workers.
Symmetry == Permutations(Handlers) \cup Permutations(Workers)
=============================================================================
