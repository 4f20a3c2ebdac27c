---------------------------- MODULE MCMemmapPass2 ----------------------------
(* Instances of MemmapPass2 for TLC. *)
EXTENDS MemmapPass2

\* The library of function 1 is known, on line 9 of the providers sidecar.
MCProvider == [f \in Fids |-> IF f = 1 THEN 9 ELSE 0]
==============================================================================
