---------------------------- MODULE MCDdpFailure ----------------------------
(* The instance of MCDdp, with a program that skips the batch whose pass    *)
(* raised: its gradients are dropped ("opt" stands for zero_grad alone) and *)
(* the next batch is run.                                                   *)
EXTENDS DdpFailure

CONSTANTS a, b, c

MCParams == {a, b, c}
MCBucketOf == [p \in MCParams |-> IF p = c THEN 0 ELSE 1]
MCRetryPlans == {<<"backward", "opt", "backward">>}
MCUsedSets == {MCParams}
=============================================================================
