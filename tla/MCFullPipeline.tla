--------------------------- MODULE MCFullPipeline ---------------------------
(* An instance of FullPipeline: two builds of one binary.                    *)
EXTENDS FullPipeline, TLC

CONSTANTS v1, v2, b1

MCBinaryOf == v1 :> b1 @@ v2 :> b1
MCMaxRuns == TRUE :> 3 @@ FALSE :> 2
=============================================================================
