---------------------------- MODULE MCDedupStore ----------------------------
(* An instance of DedupStore for TLC: three bodies share one hash, two share *)
(* another, and one body is too large to encode.                            *)
EXTENDS DedupStore

CONSTANTS b1, b2, b3, b4, b5, b6, h1, h2

MCHash  == [b \in Bodies |-> IF b \in {b1, b2, b3} THEN h1 ELSE h2]
MCUnits == [b \in Bodies |-> IF b \in {b2, b4} THEN 2 ELSE 1]
==============================================================================
