--------------------------- MODULE MCGpuPrefetcher ---------------------------
(* Instances of GpuPrefetcher for TLC. *)
EXTENDS GpuPrefetcher, TLC

\* The workers are interchangeable.
WorkerSymmetry == Permutations(Workers)
==============================================================================
