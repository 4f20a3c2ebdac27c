---------------------------- MODULE MCMemmapPass1 ----------------------------
(* Instances of MemmapPass1 for TLC. *)
EXTENDS MemmapPass1

CONSTANTS b1, b2, big
==============================================================================
