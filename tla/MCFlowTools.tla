---------------------------- MODULE MCFlowTools -----------------------------
(***************************************************************************)
(* FlowTools, and the FlowRecorder it extends, on small instances:         *)
(* interchangeable clients and interchangeable replay copies.              *)
(***************************************************************************)
EXTENDS FlowTools, TLC

Symmetry == Permutations(Clients) \cup Permutations(Replays)
=============================================================================
