--------------------------- MODULE PrefetchService ---------------------------
(***************************************************************************)
(* What GpuBatchPrefetcher promises its caller ("serve those batches back   *)
(* in FIFO order"): a queue of requests served strictly in order, each      *)
(* once, with at most Capacity requests between submit() and get(); a       *)
(* request may be answered by an error, and by "died" only when the worker  *)
(* pool broke.                                                              *)
(***************************************************************************)
EXTENDS Integers, Sequences

CONSTANT Capacity
VARIABLES issued,  \* number of requests accepted
          served,  \* the answers given, in order
          broken   \* a worker of the pool has crashed

svars == <<issued, served, broken>>

SInit == issued = 0 /\ served = <<>> /\ broken = FALSE

Issue ==
    /\ issued - Len(served) < Capacity
    /\ issued' = issued + 1
    /\ UNCHANGED <<served, broken>>

Serve ==
    /\ Len(served) < issued
    /\ \E k \in {"ok", "err", "died"} :
         /\ k = "died" => broken
         /\ served' = Append(served, [seq |-> Len(served), kind |-> k])
    /\ UNCHANGED <<issued, broken>>

Break ==
    /\ broken' = TRUE
    /\ UNCHANGED <<issued, served>>

SNext == Issue \/ Serve \/ Break

ServiceSpec == SInit /\ [][SNext]_svars
==============================================================================
