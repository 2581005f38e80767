----------------------------- MODULE MCPipeline -----------------------------
(* Small instances of Pipeline for TLC. *)
EXTENDS Pipeline

\* Every batch has one shape.
SameShape == [k \in Steps |-> "full"]

\* The last batch of an epoch is smaller.
ShortLastBatch == [k \in Steps |-> IF k = NumSteps THEN "short" ELSE "full"]
=============================================================================
