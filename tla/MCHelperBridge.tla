--------------------------- MODULE MCHelperBridge ---------------------------
(***************************************************************************)
(* HelperBridge on a small instance: interchangeable tool threads and      *)
(* interchangeable /poll handler threads.                                  *)
(***************************************************************************)
EXTENDS HelperBridge, TLC

Symmetry == Permutations(Calls) \cup Permutations(Polls)
=============================================================================
