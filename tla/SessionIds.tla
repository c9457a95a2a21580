----------------------------- MODULE SessionIds ------------------------------
(***************************************************************************)
(* What the parts of a driver session have in common.                      *)
(***************************************************************************)
EXTENDS Naturals

CONSTANT Sessions   \* driver sessions, numbered as they are entered

ASSUME SessionsAssumption == Sessions \subseteq Nat
=============================================================================
