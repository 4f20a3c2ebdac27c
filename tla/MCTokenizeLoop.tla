---------------------------- MODULE MCTokenizeLoop ----------------------------
(* Instances of TokenizeLoop for TLC. *)
EXTENDS TokenizeLoop, TLC

CONSTANTS p, q, r, b1, b2

\* p and q are distinct identities with one canonical name.
MCCanonical == (p :> 1) @@ (q :> 1) @@ (r :> 2)
===============================================================================
