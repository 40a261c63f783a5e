--------------------------- MODULE MCCoordinator ---------------------------
(***************************************************************************)
(* Instances of Coordinator for TLC.  One unit of time stands for ten      *)
(* seconds of polling and trust and for five of closing; what matters is   *)
(* how the durations compare.                                              *)
(***************************************************************************)
EXTENDS Coordinator, TLC

CommandSymmetry == Permutations(Commands)

=============================================================================
