----------------------------- MODULE MCReadyPool -----------------------------
(* Instances of ReadyPool for TLC. *)
EXTENDS ReadyPool

CONSTANTS a, a1, a2

\* One config fed by two threads.
MCKeyOf == [t \in {a1, a2} |-> a]
MCDepth == [k \in {a} |-> 1]
==============================================================================
