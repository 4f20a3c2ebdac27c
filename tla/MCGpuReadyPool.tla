---------------------------- MODULE MCGpuReadyPool ----------------------------
(* Instances of GpuReadyPool for TLC. *)
EXTENDS GpuReadyPool

CONSTANTS a, b, a1, b1

MCKeyOf == [t \in {a1, b1} |-> IF t = b1 THEN b ELSE a]
MCDepth == [k \in {a, b} |-> IF k = a THEN 2 ELSE 1]
==============================================================================
