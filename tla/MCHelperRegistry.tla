-------------------------- MODULE MCHelperRegistry --------------------------
(***************************************************************************)
(* HelperRegistry on a small instance: interchangeable tool threads.       *)
(***************************************************************************)
EXTENDS HelperRegistry, TLC

Symmetry == Permutations(Calls) \cup Permutations(Routes \ Mocks)
=============================================================================
